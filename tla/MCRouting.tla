------------------------------ MODULE MCRouting ------------------------------
(***************************************************************************)
(* Routing for TLC.  One route set names both models, so that it names the  *)
(* primary itself whichever of the two that is.                             *)
(***************************************************************************)
EXTENDS Routing

CONSTANTS m1, m2

MCModels == {m1, m2}

MCRouteSets == [certified |-> <<m1, m2>>]

=============================================================================
