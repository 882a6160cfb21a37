-------------------------- MODULE MCFixedDeposits --------------------------
(***************************************************************************)
(* Alice's savings account and two fixed deposits she can open from it.    *)
(***************************************************************************)
EXTENDS FixedDeposits, TLC

CONSTANTS alice, fd1, fd2, uAlice

MCAccountIds == {alice, fd1, fd2}

MCAccountType == (alice :> "savings") @@ (fd1 :> "fixed_deposit") @@ (fd2 :> "fixed_deposit")

MCAccountOwner == [a \in MCAccountIds |-> uAlice]

MCOpeningBalance == (alice :> 10) @@ (fd1 :> 0) @@ (fd2 :> 0)

MCMinBalance == ("savings" :> 1) @@ ("current" :> 1) @@ ("fixed_deposit" :> 0)

(* The rate that pays the principal every month. *)
MCRateBps == [months \in {1} |-> 120000]
=============================================================================
