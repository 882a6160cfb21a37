---------------------------- MODULE MCBackOffice ----------------------------
(***************************************************************************)
(* One customer who may apply twice, one faucet request that needs a       *)
(* second look and smaller ones that do not, one throw and one stop.       *)
(***************************************************************************)
EXTENDS BackOffice

CONSTANTS alice, k1

MCUsers == {alice}

MCTypes == {"savings"}

MCKeys == {k1}

MCAmounts == {1, 2, 3}

MCMinBalance == [type \in AccountTypes |-> IF type = "fixed_deposit" THEN 0 ELSE 1]
=============================================================================
