----------------------------- MODULE MCDisputes -----------------------------
(***************************************************************************)
(* Disputes between Alice, who has a savings account, and a shop.          *)
(***************************************************************************)
EXTENDS Disputes, TLC

CONSTANTS alice, shop, uAlice, uShop

MCAccountIds == {alice, shop}

MCAccountType == (alice :> "savings") @@ (shop :> "current")

MCAccountOwner == (alice :> uAlice) @@ (shop :> uShop)

MCOpeningBalance == (alice :> 5) @@ (shop :> 3)

MCMinBalance == ("savings" :> 1) @@ ("current" :> 1) @@ ("fixed_deposit" :> 0)
=============================================================================
