--------------------------- MODULE MCObjectMemory ---------------------------
(* Instances of the object memory for TLC. *)
EXTENDS ObjectMemory

MCPointers == 1..6
MCSpecial == {1}
MCClasses == MCPointers \ {2}
SmallRequests == {<<0, TRUE>>, <<3, TRUE>>}
OneRequest == {<<1, TRUE>>}
=============================================================================
