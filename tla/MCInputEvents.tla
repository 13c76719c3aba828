---------------------------- MODULE MCInputEvents ----------------------------
(* Input with a short clock, two buttons, and keys with both modifiers. *)
EXTENDS InputEvents

MCButtons == {1, 4}
MCCtrlStates == {3, 4}
=============================================================================
