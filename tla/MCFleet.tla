-------------------------------- MODULE MCFleet --------------------------------
(***************************************************************************)
(* Fleet for TLC.                                                           *)
(***************************************************************************)
EXTENDS Fleet

CONSTANT t1

MCTenants == {t1}

MCInitialState == [t \in MCTenants |-> "ACTIVE"]

=============================================================================
