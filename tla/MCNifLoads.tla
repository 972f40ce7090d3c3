----------------------------- MODULE MCNifLoads -----------------------------
(* A surface small enough to enumerate: two callers, scenes of one object  *)
(* that is shown at first.                                                 *)
EXTENDS NifLoads, TLC

CONSTANTS c1, c2, o1

OneObject == {[shown |-> (o1 :> TRUE), framed |-> FALSE]}
=============================================================================
