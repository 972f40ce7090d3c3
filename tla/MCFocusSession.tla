--------------------------- MODULE MCFocusSession ---------------------------
(* FocusSession for TLC.                                                   *)
EXTENDS FocusSession, TLC

Symmetric == Permutations(Browsers)
=============================================================================
