------------------------------- MODULE MCCards -------------------------------
(***************************************************************************)
(* Alice's savings account and the current account of a shop that is a     *)
(* biller and the merchant of card payments, over two days of one month.   *)
(* The one key is that of a run of a standing instruction.                 *)
(***************************************************************************)
EXTENDS Cards, Statements, TLC

CONSTANTS alice, shop, uAlice, uShop

MCAccountIds == {alice, shop}

MCAccountType == (alice :> "savings") @@ (shop :> "current")

MCAccountOwner == (alice :> uAlice) @@ (shop :> uShop)

MCOpeningBalance == (alice :> 5) @@ (shop :> 0)

MCMinBalance == ("savings" :> 1) @@ ("current" :> 2) @@ ("fixed_deposit" :> 0)

MCDefaultLimits == [perTxn |-> 1, daily |-> 1, monthly |-> 5]

(* The bank's own limits, and ones above them in the month. *)
MCAskedLimits ==
  { [perTxn |-> 2, daily |-> 2, monthly |-> monthly] : monthly \in {3, 4} }
=============================================================================
