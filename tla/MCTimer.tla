------------------------------- MODULE MCTimer -------------------------------
(* The timer with a clock of a few milliseconds. *)
EXTENDS Timer

MCDelays == {0, 1, 3}
MCSemaphores == {2, 4}
=============================================================================
