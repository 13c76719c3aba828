------------------------------- MODULE MCFiles -------------------------------
(* Instances of the file system for TLC. *)
EXTENDS Files, TLC

(* Files and names are all alike. *)
Alike == Permutations(PosixFiles) \cup Permutations(Names)
=============================================================================
