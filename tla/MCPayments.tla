----------------------------- MODULE MCPayments -----------------------------
(***************************************************************************)
(* A small bank for Payments: Alice's savings account, the current account *)
(* of a shop that is also a biller, and Alice's fixed deposit.             *)
(***************************************************************************)
EXTENDS Payments, TLC

CONSTANTS alice, shop, deposit, uAlice, uShop

MCAccountIds == {alice, shop, deposit}

MCAccountType ==
  (alice :> "savings") @@ (shop :> "current") @@ (deposit :> "fixed_deposit")

MCAccountOwner == (alice :> uAlice) @@ (shop :> uShop) @@ (deposit :> uAlice)

MCOpeningBalance == (alice :> 4) @@ (shop :> 0) @@ (deposit :> 2)

MCMinBalance == ("savings" :> 1) @@ ("current" :> 2) @@ ("fixed_deposit" :> 0)
=============================================================================
