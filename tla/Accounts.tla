------------------------------ MODULE Accounts ------------------------------
(***************************************************************************)
(* The account aggregate of contexts/accounts/domain/account.ts: what each *)
(* operation requires of an account row and the row it returns.  The code  *)
(* throws where a Can... operator is false, and the SQL transaction around *)
(* the call is then rolled back, so an operation that throws changes       *)
(* nothing.                                                                *)
(*                                                                         *)
(* Every amount is in minor units.  The code has one currency, INR, so the *)
(* currency checks never fail and are left out.                            *)
(*                                                                         *)
(* A definition marked "faulty variant", here and in the other modules,    *)
(* is in no specification: it is the definition after it with a plausible  *)
(* bug, and the property named in PROJECT.json must fail with it.          *)
(***************************************************************************)
EXTENDS Integers

CONSTANT
  MinBalance      \* minimum balance that must remain after a debit, by type

AccountTypes == {"savings", "current", "fixed_deposit"}

AccountStatuses == {"Active", "Frozen", "Closed"}

(* The two spendable types have a positive floor, a fixed deposit has none. *)
ASSUME MinBalanceAssumption ==
  /\ MinBalance \in [AccountTypes -> Nat]
  /\ MinBalance["savings"] > 0
  /\ MinBalance["current"] > 0

(* The fields of an account row that change. *)
Account == [status : AccountStatuses, balance : Nat, hold : Nat]

-----------------------------------------------------------------------------

open(balance) == [status |-> "Active", balance |-> balance, hold |-> 0]

availableBalance(acc) == acc.balance - acc.hold

isActive(acc) == acc.status = "Active"

canFreeze(acc) == acc.status # "Closed"

freeze(acc) == [acc EXCEPT !.status = "Frozen"]

canUnfreeze(acc) == acc.status # "Closed"

unfreeze(acc) == [acc EXCEPT !.status = "Active"]

(* A frozen account with nothing on it can be closed. *)
canClose(acc) == acc.balance = 0 /\ acc.hold = 0

close(acc) == [acc EXCEPT !.status = "Closed"]

(* Only deposits maturing or closed early: whatever is on the account.      *)
canZero(acc, type) == isActive(acc) /\ type = "fixed_deposit"

zeroFixedDepositPrincipal(acc) == [acc EXCEPT !.balance = 0]

(* The type is not looked at: a hold can be placed on a fixed deposit. *)
canPlaceHold(acc, amount) ==
  /\ isActive(acc)
  /\ amount > 0
  /\ acc.hold + amount <= acc.balance

placeHold(acc, amount) == [acc EXCEPT !.hold = @ + amount]

canReleaseHold(acc, amount) ==
  /\ isActive(acc)
  /\ amount > 0
  /\ acc.hold >= amount

(* Faulty variant: the row is saved as it was read. *)
releaseHoldNotSaved(acc, amount) == acc

releaseHold(acc, amount) == [acc EXCEPT !.hold = @ - amount]

(* Faulty variants of canDebit: money on hold is spendable, the minimum     *)
(* balance is forgotten, an account can be overdrawn, a deposit is spent.  *)
canDebitFromHold(acc, type, amount) ==
  /\ isActive(acc)
  /\ amount > 0
  /\ type # "fixed_deposit"
  /\ acc.balance - amount >= MinBalance[type]

canDebitToZero(acc, type, amount) ==
  /\ isActive(acc)
  /\ amount > 0
  /\ type # "fixed_deposit"
  /\ availableBalance(acc) >= amount

canOverdraw(acc, type, amount) ==
  /\ isActive(acc)
  /\ amount > 0
  /\ type # "fixed_deposit"

canDebitAnyType(acc, type, amount) ==
  /\ isActive(acc)
  /\ amount > 0
  /\ availableBalance(acc) >= amount
  /\ acc.balance - amount >= MinBalance[type]

canDebit(acc, type, amount) ==
  /\ isActive(acc)
  /\ amount > 0
  /\ type # "fixed_deposit"
  /\ availableBalance(acc) >= amount
  /\ acc.balance - amount >= MinBalance[type]

debit(acc, amount) == [acc EXCEPT !.balance = @ - amount]

(* Faulty variant: the status of the destination is not looked at. *)
canCreditAnyStatus(acc, amount) == amount > 0

canCredit(acc, amount) == isActive(acc) /\ amount > 0

credit(acc, amount) == [acc EXCEPT !.balance = @ + amount]
=============================================================================
