------------------------- MODULE FixedDepositsProofs -------------------------
(***************************************************************************)
(* What TLAPS proves of FixedDeposits: the principal of a deposit, and     *)
(* what it was sent, are on its account until it is paid back; a hold      *)
(* locks it for good; no money is made or lost but the interest and what   *)
(* the deposit was sent; closing early never pays more.                    *)
(***************************************************************************)
EXTENDS FixedDeposits, PaymentsProofs

(* What Payments may do to the row of a deposit account: put money or a    *)
(* hold on it, freeze and unfreeze it.  A closed row stays what it is.     *)
Spared(old, new) ==
  /\ new \in Account
  /\ new.balance >= old.balance
  /\ new.hold >= old.hold
  /\ new.status = "Closed" <=> old.status = "Closed"
  /\ old.status = "Closed" => new = old

AllSpared ==
  /\ accounts' \in [AccountIds -> Account]
  /\ \A a \in depositAccounts : Spared(accounts[a], accounts'[a])
-----------------------------------------------------------------------------
(* No step of Payments takes money or a hold off a deposit account.        *)

LEMMA SameIsSpared ==
  ASSUME NEW acc \in Account
  PROVE  Spared(acc, acc)
BY DEF Spared, Account

(* One row written: any row of a spendable account will do. *)
LEMMA WriteSpares ==
  ASSUME TypeOK, NEW a \in AccountIds, NEW acc \in Account,
         accounts' = [accounts EXCEPT ![a] = acc],
         a \in depositAccounts => Spared(accounts[a], acc)
  PROVE  AllSpared
<1>1. /\ accounts \in [AccountIds -> Account]
      /\ accounts' \in [AccountIds -> Account]
      /\ accounts'[a] = acc
      /\ \A b \in AccountIds \ {a} : accounts'[b] = accounts[b]
  BY DEF TypeOK
<1>2. \A b \in AccountIds \ {a} : Spared(accounts[b], accounts'[b])
  BY <1>1, SameIsSpared
<1> QED
  BY <1>1, <1>2 DEF AllSpared, depositAccounts

LEMMA UnchangedSpares ==
  ASSUME TypeOK, UNCHANGED accounts
  PROVE  AllSpared
BY SameIsSpared DEF TypeOK, AllSpared, depositAccounts

(* The rows of a payment: the debited account is spendable. *)
LEMMA PaymentSpares ==
  ASSUME TypeOK, NEW from \in AccountIds, NEW to \in AccountIds,
         NEW debited \in Account, NEW amount \in Nat,
         AccountType[from] # "fixed_deposit",
         canCredit(accounts[to], amount),
         updateBoth(from, to, debited, credit(accounts[to], amount))
  PROVE  AllSpared
<1> DEFINE credited == credit(accounts[to], amount)
<1>1. accounts \in [AccountIds -> Account] /\ accounts[to] \in Account
  BY DEF TypeOK
<1>2. credited \in Account /\ Spared(accounts[to], credited)
  BY <1>1 DEF canCredit, credit, isActive, Spared, Account, AccountStatuses
<1>3. accounts' = [accounts EXCEPT ![from] = debited, ![to] = credited]
  BY DEF updateBoth
<1> HIDE DEF credited
<1>4. /\ accounts' \in [AccountIds -> Account]
      /\ accounts'[to] = credited
      /\ \A b \in AccountIds \ {from, to} : accounts'[b] = accounts[b]
  BY <1>1, <1>2, <1>3
<1>5. \A b \in AccountIds \ {from, to} : Spared(accounts[b], accounts'[b])
  BY <1>1, <1>4, SameIsSpared
<1>6. from \notin depositAccounts
  BY DEF depositAccounts
<1> QED
  BY <1>2, <1>4, <1>5, <1>6 DEF AllSpared, depositAccounts

(* The two ledger rows of a payment are typed. *)
LEMMA RowsKeepLedger ==
  ASSUME TypeOK, NEW from \in AccountIds, NEW to \in AccountIds, NEW t \in Nat,
         NEW amount \in Amounts, NEW debited \in Account, NEW credited \in Account,
         insertRows(t, from, to, amount, debited, credited)
  PROVE  ledger' \in [AccountIds -> Seq(Row)]
<1> DEFINE debitRow == ledgerRow(t, "debit", amount, debited)
           creditRow == ledgerRow(t, "credit", amount, credited)
           led == insertRow(ledger, from, debitRow)
<1>1. debitRow \in Row /\ creditRow \in Row
  BY DEF ledgerRow, Row, Account
<1>2. ledger' = insertRow(led, to, creditRow)
  BY DEF insertRows
<1> HIDE DEF debitRow, creditRow
<1>3. led \in [AccountIds -> Seq(Row)]
  BY <1>1 DEF TypeOK, insertRow
<1> HIDE DEF led
<1> QED
  BY <1>1, <1>2, <1>3 DEF insertRow

LEMMA PostSpares ==
  ASSUME Tables,
         NEW from \in AccountIds, NEW to \in AccountIds,
         NEW amount \in Amounts, NEW key \in Keys \cup {NoKey},
         NEW rail \in InstantRails \cup BatchRails \cup {"internal"},
         NEW category \in {"p2p", "self", "bill", "card", "faucet"},
         ~keyUsed(key),
         postTransfer(from, to, amount, key, "transfer", rail, category),
         stamping' \in {stamping, 0, Len(transfers) + 1},
         UNCHANGED <<batch, day, crashes>>
  PROVE  Tables' /\ AllSpared
<1> DEFINE debited == debit(accounts[from], amount)
           credited == credit(accounts[to], amount)
<1>1. /\ amount \in Nat
      /\ accounts[from] \in Account /\ accounts[to] \in Account
  BY PaymentsAssumption DEF Tables, TypeOK
<1>2. /\ canDebit(accounts[from], AccountType[from], amount)
      /\ canCredit(accounts[to], amount)
      /\ insertTransfer(from, to, amount, key, "transfer", "posted", rail, category)
      /\ updateBoth(from, to, debited, credited)
      /\ insertRows(Len(transfers) + 1, from, to, amount, debited, credited)
  BY DEF postTransfer
<1>3. /\ debited \in Account /\ credited \in Account
      /\ AccountType[from] # "fixed_deposit"
  BY <1>1, <1>2, DebitIsTyped, CreditIsTyped
<1>4. AllSpared
  BY <1>1, <1>2, <1>3, PaymentSpares DEF Tables
<1> HIDE DEF debited, credited
<1>5. /\ transfers' \in Seq(Transfer)
      /\ TransferIds \subseteq TransferIds'
      /\ Len(transfers) + 1 \in TransferIds'
      /\ KeyPaysOnce' /\ PendingHasSource'
      /\ Len(transfers) + 1 \in Nat
  BY <1>2, InsertKeepsTable DEF Tables
<1>6. ledger' \in [AccountIds -> Seq(Row)]
  BY <1>2, <1>3, <1>5, RowsKeepLedger DEF Tables
<1> QED
  BY <1>4, <1>5, <1>6 DEF Tables, TypeOK, AllSpared

LEMMA PendingSpares ==
  ASSUME Tables, NEW from \in AccountIds, NEW to \in AccountIds,
         NEW amount \in Amounts, NEW key \in Keys \cup {NoKey},
         NEW rail \in BatchRails,
         CreatePendingRailTransfer(from, to, amount, key, rail)
  PROVE  Tables' /\ AllSpared
<1> DEFINE held == placeHold(accounts[from], amount)
<1>1. accounts[from] \in Account /\ amount \in Nat
  BY PaymentsAssumption DEF Tables, TypeOK
<1>2. held \in Account /\ Spared(accounts[from], held)
  BY <1>1 DEF CreatePendingRailTransfer, canPlaceHold, placeHold, isActive,
              Spared, Account, AccountStatuses
<1>3. /\ accounts' = [accounts EXCEPT ![from] = held]
      /\ ~keyUsed(key)
      /\ insertTransfer(from, to, amount, key, "transfer", "pending", rail,
                        categoryOf(from, to))
      /\ UNCHANGED <<ledger, batch, stamping, day, crashes>>
  BY DEF CreatePendingRailTransfer
<1> HIDE DEF held
<1>4. AllSpared
  BY <1>2, <1>3, WriteSpares DEF Tables
<1>5. categoryOf(from, to) \in {"p2p", "self", "bill", "card", "faucet"}
  BY DEF categoryOf
<1>6. /\ transfers' \in Seq(Transfer)
      /\ TransferIds \subseteq TransferIds'
      /\ KeyPaysOnce' /\ PendingHasSource'
  BY <1>3, <1>5, InsertKeepsTable DEF Tables
<1> QED
  BY <1>3, <1>4, <1>6 DEF Tables, TypeOK, AllSpared

LEMMA FaucetSpares ==
  ASSUME Tables, NEW to \in AccountIds,
         NEW amount \in Amounts, NEW key \in Keys \cup {NoKey},
         FaucetDeposit(to, amount, key)
  PROVE  Tables' /\ AllSpared
<1> DEFINE credited == credit(accounts[to], amount)
           row == ledgerRow(Len(transfers) + 1, "credit", amount, credited)
<1>1. accounts[to] \in Account /\ amount \in Nat /\ canCredit(accounts[to], amount)
  BY PaymentsAssumption DEF Tables, TypeOK, FaucetDeposit
<1>2. credited \in Account /\ Spared(accounts[to], credited)
  BY <1>1 DEF canCredit, credit, isActive, Spared, Account, AccountStatuses
<1>3. /\ accounts' = [accounts EXCEPT ![to] = credited]
      /\ ledger' = insertRow(ledger, to, row)
      /\ ~keyUsed(key)
      /\ insertTransfer(NoAccount, to, amount, key, "faucet", "posted",
                        "internal", "faucet")
      /\ UNCHANGED <<batch, stamping, day, crashes>>
  BY DEF FaucetDeposit
<1> HIDE DEF credited
<1>4. AllSpared
  BY <1>2, <1>3, WriteSpares DEF Tables
<1>5. /\ transfers' \in Seq(Transfer)
      /\ TransferIds \subseteq TransferIds'
      /\ KeyPaysOnce' /\ PendingHasSource'
      /\ Len(transfers) + 1 \in Nat
  BY <1>3, InsertKeepsTable DEF Tables
<1>6. row \in Row
  BY <1>2, <1>5 DEF ledgerRow, Row, Account
<1> HIDE DEF row
<1>7. ledger' \in [AccountIds -> Seq(Row)]
  BY <1>3, <1>6 DEF Tables, TypeOK, insertRow
<1> QED
  BY <1>3, <1>4, <1>5, <1>7 DEF Tables, TypeOK, AllSpared

(* Freezing and unfreezing spare every row; a deposit account is not       *)
(* closed by its owner.                                                    *)
LEMMA StatusSpares ==
  ASSUME Tables, NEW a \in AccountIds,
         FreezeAccount(a) \/ UnfreezeAccount(a) \/ CloseAccount(a)
  PROVE  Tables' /\ AllSpared
<1>1. accounts[a] \in Account
  BY DEF Tables, TypeOK
<1>2. PICK acc \in Account :
        /\ accounts' = [accounts EXCEPT ![a] = acc]
        /\ a \in depositAccounts => Spared(accounts[a], acc)
  <2>1. CASE FreezeAccount(a)
    <3>1. freeze(accounts[a]) \in Account /\ Spared(accounts[a], freeze(accounts[a]))
      BY <1>1, <2>1 DEF FreezeAccount, canFreeze, freeze, Spared, Account, AccountStatuses
    <3> QED
      BY <2>1, <3>1 DEF FreezeAccount
  <2>2. CASE UnfreezeAccount(a)
    <3>1. unfreeze(accounts[a]) \in Account /\ Spared(accounts[a], unfreeze(accounts[a]))
      BY <1>1, <2>2 DEF UnfreezeAccount, canUnfreeze, unfreeze, Spared, Account,
                        AccountStatuses
    <3> QED
      BY <2>2, <3>1 DEF UnfreezeAccount
  <2>3. CASE CloseAccount(a)
    <3>1. close(accounts[a]) \in Account /\ a \notin depositAccounts
      BY <1>1, <2>3 DEF CloseAccount, close, depositAccounts, Account, AccountStatuses
    <3> QED
      BY <2>3, <3>1 DEF CloseAccount
  <2> QED
    BY <2>1, <2>2, <2>3
<1>3. AllSpared
  BY <1>2, WriteSpares DEF Tables
<1>4. UNCHANGED <<transfers, ledger, batch, stamping, day, crashes>>
  BY DEF FreezeAccount, UnfreezeAccount, CloseAccount
<1> QED
  BY <1>3, <1>4
     DEF Tables, TypeOK, AllSpared, KeyPaysOnce, TransferIds, PendingHasSource, isPending

LEMMA SettleSpares ==
  ASSUME Tables, NEW t \in TransferIds, SettlePending(t)
  PROVE  Tables' /\ AllSpared
<1> DEFINE from == transfers[t].from
           to == transfers[t].to
           amount == transfers[t].amount
           released == releaseHold(accounts[from], amount)
           debited == debit(released, amount)
           credited == credit(accounts[to], amount)
<1>1. transfers \in Seq(Transfer) /\ transfers[t] \in Transfer /\ t \in Nat
  BY DEF Tables, TypeOK, TransferIds
<1>2. from \in AccountIds /\ to \in AccountIds /\ amount \in Amounts /\ amount \in Nat
  BY <1>1, PaymentsAssumption
     DEF Tables, PendingHasSource, SettlePending, canSettle, Transfer
<1>3. accounts[from] \in Account /\ accounts[to] \in Account
  BY <1>2 DEF Tables, TypeOK
<1>4. /\ canReleaseHold(accounts[from], amount)
      /\ canDebit(released, AccountType[from], amount)
      /\ canCredit(accounts[to], amount)
  BY DEF SettlePending, canSettle
<1>5. /\ markPosted(t)
      /\ updateBoth(from, to, debited, credited)
      /\ insertRows(t, from, to, amount, debited, credited)
      /\ batch' = batch \ {t}
      /\ UNCHANGED <<stamping, day, crashes>>
  BY DEF SettlePending
<1>6. /\ debited \in Account /\ credited \in Account
      /\ AccountType[from] # "fixed_deposit"
  <2>1. released \in Account
    BY <1>2, <1>3, <1>4, ReleaseIsTyped
  <2> HIDE DEF released
  <2> QED
    BY <1>2, <1>3, <1>4, <2>1, DebitIsTyped, CreditIsTyped
<1> HIDE DEF from, to, amount, debited, released
<1>7. AllSpared
  BY <1>2, <1>4, <1>5, <1>6, PaymentSpares DEF Tables
<1> HIDE DEF credited
<1>8. /\ transfers' \in Seq(Transfer)
      /\ TransferIds' = TransferIds
      /\ KeyPaysOnce' /\ PendingHasSource'
  BY <1>5, PostingKeepsTable DEF Tables
<1>9. ledger' \in [AccountIds -> Seq(Row)]
  BY <1>1, <1>2, <1>5, <1>6, RowsKeepLedger DEF Tables
<1> QED
  BY <1>5, <1>7, <1>8, <1>9 DEF Tables, TypeOK, AllSpared

(* A step that touches neither the accounts nor the ledger nor a row of    *)
(* transfers.                                                              *)
LEMMA QuietSpares ==
  ASSUME Tables, UNCHANGED <<accounts, transfers, ledger>>,
         batch' \subseteq TransferIds,
         stamping' \in TransferIds \cup {0},
         day' \in 0..MaxDay, crashes' \in 0..MaxCrashes
  PROVE  Tables' /\ AllSpared
<1>1. AllSpared
  BY UnchangedSpares DEF Tables
<1> QED
  BY <1>1 DEF Tables, TypeOK, KeyPaysOnce, TransferIds, PendingHasSource, isPending

LEMMA NextSpares ==
  ASSUME Tables, [Next]_vars
  PROVE  Tables' /\ AllSpared
<1> USE PaymentsAssumption
<1>0. /\ batch \subseteq TransferIds /\ stamping \in TransferIds \cup {0}
      /\ day \in 0..MaxDay /\ crashes \in 0..MaxCrashes
  BY DEF Tables, TypeOK
<1>1. CASE Request
  <2>1. PICK a \in AccountIds, b \in AccountIds, amount \in Amounts,
             key \in Keys \cup {NoKey} :
          \/ \E rail \in InstantRails \cup {"internal"} :
               executeTransfer(a, b, amount, key, rail)
          \/ \E rail \in InstantRails : RetryTransfer(a, amount, key, rail)
          \/ \E rail \in BatchRails :
               CreatePendingRailTransfer(a, b, amount, key, rail)
          \/ PayBill(a, b, amount, key)
    BY <1>1 DEF Request, ExecuteTransfer, RunInstruction
  <2>2. CASE \E rail \in InstantRails \cup {"internal"} :
               executeTransfer(a, b, amount, key, rail)
    <3>1. categoryOf(a, b) \in {"p2p", "self", "bill", "card", "faucet"}
      BY DEF categoryOf
    <3> QED
      BY <2>2, <3>1, PostSpares DEF executeTransfer
  <2>3. CASE \E rail \in InstantRails : RetryTransfer(a, amount, key, rail)
    BY <1>0, <2>3, QuietSpares DEF RetryTransfer
  <2>4. CASE PayBill(a, b, amount, key)
    BY <2>4, PostSpares DEF PayBill
  <2> QED
    BY <2>1, <2>2, <2>3, <2>4, PendingSpares
<1>2. CASE StampUtr
  <2>1. /\ transfers' \in Seq(Transfer)
        /\ TransferIds' = TransferIds
        /\ KeyPaysOnce' /\ PendingHasSource'
    BY <1>2, StampKeepsTable DEF Tables
  <2>2. AllSpared
    BY <1>2, UnchangedSpares DEF Tables, StampUtr
  <2> QED
    BY <1>2, <2>1, <2>2 DEF StampUtr, Tables, TypeOK
<1>3. CASE Administer
  BY <1>3, FaucetSpares, StatusSpares DEF Administer
<1>4. CASE SettleTick
  BY <1>0, <1>4, QuietSpares DEF SettleTick
<1>5. CASE SettleStep
  <2>1. PICK t \in TransferIds : SettlePending(t) \/ SettleFails(t)
    BY <1>5 DEF SettleStep
  <2>2. CASE SettleFails(t)
    BY <1>0, <2>2, QuietSpares DEF SettleFails
  <2> QED
    BY <2>1, <2>2, SettleSpares
<1>6. CASE Crash
  BY <1>0, <1>6, QuietSpares DEF Crash
<1>7. CASE NextDay
  BY <1>0, <1>7, QuietSpares DEF NextDay
<1>8. CASE UNCHANGED vars
  BY <1>0, <1>8, QuietSpares DEF vars
<1> QED
  BY <1>1, <1>2, <1>3, <1>4, <1>5, <1>6, <1>7, <1>8 DEF Next
-----------------------------------------------------------------------------
(* The principal of an active deposit is on its account, and no two        *)
(* deposits have one account; a deposit paid back, or an account that no   *)
(* deposit has yet, is closed and empty.                                   *)
PrincipalLocked ==
  \A f \in DepositIds :
    LET acc == accounts[fixedDeposits[f].account]
    IN  IF isActiveDeposit(f)
        THEN acc.status # "Closed" /\ acc.balance >= fixedDeposits[f].principal
        ELSE acc = unopened

AccountsOfDeposits ==
  /\ \A f \in DepositIds :
       /\ fixedDeposits[f].account \in depositAccounts
       /\ fixedDeposits[f].payout \in AccountIds \ depositAccounts
       /\ \A g \in DepositIds \ {f} :
            fixedDeposits[g].account # fixedDeposits[f].account
  /\ \A a \in depositAccounts : ~isOpened(a) => accounts[a] = unopened

(* The inductive invariant.  PrincipalLocked alone is not: paying one      *)
(* deposit back must not empty another, nor close one it pays to.          *)
FInv ==
  /\ Tables
  /\ fixedDeposits \in Seq(FixedDeposit)
  /\ maturing \subseteq DepositIds
  /\ PrincipalLocked
  /\ AccountsOfDeposits
-----------------------------------------------------------------------------
(* Interest is never negative. *)
LEMMA BoundsOfTwo ==
  \A i, j \in Int : /\ Min({i, j}) \in Int /\ Min({i, j}) <= j
                    /\ Max({i, j}) \in {i, j} /\ Max({i, j}) >= i
<1> SUFFICES ASSUME NEW i \in Int, NEW j \in Int
             PROVE  /\ Min({i, j}) \in Int /\ Min({i, j}) <= j
                    /\ Max({i, j}) \in {i, j} /\ Max({i, j}) >= i
  OBVIOUS
<1>1. \E m \in {i, j} : \A n \in {i, j} : m <= n
  OBVIOUS
<1>2. Min({i, j}) \in {i, j} /\ Min({i, j}) <= j
  BY <1>1 DEF Min
<1>3. \E m \in {i, j} : \A n \in {i, j} : m >= n
  OBVIOUS
<1>4. Max({i, j}) \in {i, j} /\ Max({i, j}) >= i
  BY <1>3 DEF Max
<1> QED
  BY <1>2, <1>4


LEMMA DepositIsTyped ==
  ASSUME FInv, NEW f \in DepositIds
  PROVE  /\ fixedDeposits[f] \in FixedDeposit
         /\ fixedDeposits[f].principal \in Nat
         /\ RateBps[fixedDeposits[f].tenure] \in Nat
         /\ fixedDeposits[f].tenure \in Nat
         /\ monthsElapsed(f) \in Int
<1>1. fixedDeposits[f] \in FixedDeposit
  BY DEF FInv, DepositIds
<1>2. /\ fixedDeposits[f].principal \in Nat
      /\ RateBps[fixedDeposits[f].tenure] \in Nat
      /\ fixedDeposits[f].tenure \in Nat
      /\ fixedDeposits[f].opened \in Nat
  <2>1. /\ fixedDeposits[f].principal \in Principals
        /\ fixedDeposits[f].tenure \in Tenures
        /\ fixedDeposits[f].opened \in 0..MaxDay
    BY <1>1 DEF FixedDeposit
  <2>2. /\ \A p \in Principals : p \in Nat
        /\ \A months \in Tenures : months \in Nat /\ RateBps[months] \in Nat
    BY FixedDepositsAssumption
  <2>3. /\ fixedDeposits[f].principal \in Nat
        /\ fixedDeposits[f].tenure \in Nat
        /\ RateBps[fixedDeposits[f].tenure] \in Nat
    BY <2>1, <2>2
  <2>4. fixedDeposits[f].opened \in Nat
    BY <2>1, PaymentsAssumption
  <2> QED
    BY <2>3, <2>4
<1>3. day \in Nat /\ InterestMonth \in Nat \ {0}
  BY FixedDepositsAssumption, PaymentsAssumption DEF FInv, Tables, TypeOK
<1>4. monthsElapsed(f) \in Int
  BY <1>2, <1>3 DEF monthsElapsed
<1> QED
  BY <1>1, <1>2, <1>4

LEMMA SimpleInterestIsInt ==
  ASSUME FInv, NEW f \in DepositIds, NEW months \in Int
  PROVE  /\ simpleInterest(f, months) \in Int
         /\ months \in Nat => simpleInterest(f, months) \in Nat
<1> DEFINE p == fixedDeposits[f].principal
           r == RateBps[fixedDeposits[f].tenure]
<1>1. p \in Nat /\ r \in Nat
  BY DepositIsTyped
<1>2. simpleInterest(f, months) = ((p * r) * months) \div (12 * 10000)
  BY DEF simpleInterest
<1> HIDE DEF p, r
<1>3. p * r \in Nat
  BY <1>1
<1>4. /\ (p * r) * months \in Int
      /\ months \in Nat => (p * r) * months \in Nat
  BY <1>3
<1>5. /\ \A n \in Int : n \div (12 * 10000) \in Int
      /\ \A n \in Nat : n \div (12 * 10000) \in Nat
  OBVIOUS
<1> QED
  BY <1>2, <1>4, <1>5

LEMMA InterestIsNat ==
  ASSUME FInv, NEW f \in DepositIds
  PROVE  maturityInterest(f) \in Nat /\ prematureInterest(f) \in Nat
<1>1. maturityInterest(f) \in Nat
  BY DepositIsTyped, SimpleInterestIsInt DEF maturityInterest
<1>2. accruedInterest(f) \in Int
  <2> PICK elapsed \in Int : elapsed = monthsElapsed(f)
    BY DepositIsTyped
  <2> PICK tenure \in Int : tenure = fixedDeposits[f].tenure
    BY DepositIsTyped
  <2>1. Min({elapsed, tenure}) \in Int
    BY BoundsOfTwo
  <2> QED
    BY <2>1, SimpleInterestIsInt DEF accruedInterest
<1>3. accruedInterest(f) - (accruedInterest(f) * PenaltyBps) \div 10000 \in Int
  <2>1. accruedInterest(f) * PenaltyBps \in Int
    BY <1>2, FixedDepositsAssumption
  <2>2. \A n \in Int : n \div 10000 \in Int
    OBVIOUS
  <2> QED
    BY <1>2, <2>1, <2>2
<1>4. \A i \in Int : Max({0, i}) \in Nat
  <2> SUFFICES ASSUME NEW i \in Int
               PROVE  Max({0, i}) \in Nat
    OBVIOUS
  <2> PICK zero \in Int : zero = 0
    OBVIOUS
  <2>1. Max({zero, i}) \in {zero, i} /\ Max({zero, i}) >= zero
    BY BoundsOfTwo
  <2> QED
    BY <2>1
<1> QED
  BY <1>1, <1>3, <1>4 DEF prematureInterest
-----------------------------------------------------------------------------
(* Every step keeps the invariant, and a deposit with a hold on its        *)
(* account as it is.                                                       *)

HeldStuck ==
  \A f \in DepositIds :
    isActiveDeposit(f) /\ accounts[fixedDeposits[f].account].hold > 0
      => /\ fixedDeposits'[f] = fixedDeposits[f]
         /\ accounts'[fixedDeposits[f].account].hold
              >= accounts[fixedDeposits[f].account].hold

(* A step of Payments, and any step that leaves the tables of deposits. *)
LEMMA SparingKeepsInv ==
  ASSUME FInv, Tables', AllSpared, UNCHANGED fixedDeposits, maturing' \subseteq DepositIds
  PROVE  FInv' /\ HeldStuck
<1>1. /\ DepositIds' = DepositIds
      /\ depositAccounts' = depositAccounts
      /\ \A f \in DepositIds : isActiveDeposit(f)' <=> isActiveDeposit(f)
      /\ \A a : isOpened(a)' <=> isOpened(a)
      /\ unopened' = unopened
  BY DEF DepositIds, depositAccounts, isActiveDeposit, isOpened, unopened
<1>2. \A f \in DepositIds :
        /\ fixedDeposits[f].account \in depositAccounts
        /\ Spared(accounts[fixedDeposits[f].account], accounts'[fixedDeposits[f].account])
        /\ accounts[fixedDeposits[f].account] \in Account
        /\ fixedDeposits[f].principal \in Nat
  BY DepositIsTyped
     DEF FInv, AccountsOfDeposits, AllSpared, Tables, TypeOK, depositAccounts
<1>3. unopened.status = "Closed"
  BY DEF unopened, close, open
<1>4. PrincipalLocked'
  <2> SUFFICES ASSUME NEW f \in DepositIds,
                      NEW old, old = accounts[fixedDeposits[f].account],
                      NEW new, new = accounts'[fixedDeposits[f].account]
               PROVE  IF isActiveDeposit(f)
                      THEN new.status # "Closed" /\ new.balance >= fixedDeposits[f].principal
                      ELSE new = unopened
    BY <1>1 DEF PrincipalLocked
  <2>1. /\ Spared(old, new) /\ old \in Account /\ fixedDeposits[f].principal \in Nat
        /\ IF isActiveDeposit(f)
           THEN old.status # "Closed" /\ old.balance >= fixedDeposits[f].principal
           ELSE old = unopened
    BY <1>2 DEF FInv, PrincipalLocked
  <2> QED
    BY <1>3, <2>1 DEF Spared, Account
<1>5. AccountsOfDeposits'
  <2>1. \A a \in depositAccounts : ~isOpened(a) => accounts'[a] = unopened
    BY <1>3 DEF FInv, AccountsOfDeposits, AllSpared, Spared
  <2> QED
    BY <1>1, <2>1 DEF FInv, AccountsOfDeposits
<1>6. HeldStuck
  BY <1>2 DEF HeldStuck, Spared
<1> QED
  BY <1>1, <1>4, <1>5, <1>6 DEF FInv
(* Paying deposit f back: its account is closed and empty, a spendable     *)
(* account is credited, and nothing else is written.                       *)
LEMMA PayBackKeepsInv ==
  ASSUME FInv, NEW f \in DepositIds, NEW interest \in Nat,
         NEW status \in {"matured", "premature_closed"},
         canPayBack(f, interest), payBack(f, interest, status),
         maturing' \subseteq DepositIds,
         UNCHANGED <<transfers, ledger, batch, stamping, day, crashes>>
  PROVE  FInv' /\ HeldStuck
<1> DEFINE own == fixedDeposits[f].account
           payout == fixedDeposits[f].payout
           amount == fixedDeposits[f].principal + interest
           credited == credit(accounts[payout], amount)
           emptied == close(zeroFixedDepositPrincipal(accounts[own]))
           paid == [fixedDeposits[f] EXCEPT !.status = status, !.interest = interest]
<1>1. /\ own \in AccountIds /\ own \in depositAccounts
      /\ payout \in AccountIds /\ payout \notin depositAccounts
      /\ accounts \in [AccountIds -> Account]
      /\ accounts[own] \in Account /\ accounts[payout] \in Account
      /\ amount \in Nat
      /\ fixedDeposits[f] \in FixedDeposit
      /\ fixedDeposits \in Seq(FixedDeposit)
  BY SMTT(30), DepositIsTyped DEF FInv, AccountsOfDeposits, Tables, TypeOK, depositAccounts
<1>2. credited \in Account
  BY <1>1, CreditIsTyped
<1>3. /\ emptied = unopened /\ emptied \in Account
      /\ accounts[own].hold = 0
      /\ isActiveDeposit(f)
  <2> DEFINE acc == accounts[own]
  <2>1. /\ acc \in Account /\ acc.hold = 0 /\ isActiveDeposit(f)
        /\ emptied = close(zeroFixedDepositPrincipal(acc))
    BY <1>1 DEF canPayBack, canClose, zeroFixedDepositPrincipal, Account
  <2> HIDE DEF acc, emptied, own, credited, paid, amount
  <2>2. emptied = [status |-> "Closed", balance |-> 0, hold |-> 0]
    BY <2>1 DEF close, zeroFixedDepositPrincipal, Account
  <2>3. unopened = [status |-> "Closed", balance |-> 0, hold |-> 0]
    BY DEF unopened, close, open
  <2> QED
    BY <2>1, <2>2, <2>3 DEF Account, AccountStatuses, acc
<1>4. /\ paid \in FixedDeposit
      /\ paid.account = own /\ paid.payout = payout
      /\ paid.status # "active"
  BY <1>1 DEF FixedDeposit
<1>5. /\ accounts' = [accounts EXCEPT ![own] = emptied, ![payout] = credited]
      /\ fixedDeposits' = [fixedDeposits EXCEPT ![f] = paid]
  BY DEF payBack
<1> HIDE DEF credited, emptied, paid, amount
<1>6. /\ accounts' \in [AccountIds -> Account]
      /\ accounts'[own] = unopened
      /\ \A a \in AccountIds \ {own, payout} : accounts'[a] = accounts[a]
  BY <1>1, <1>2, <1>3, <1>5
<1>7. /\ fixedDeposits' \in Seq(FixedDeposit)
      /\ DepositIds' = DepositIds
      /\ fixedDeposits'[f] = paid
      /\ \A g \in DepositIds \ {f} : fixedDeposits'[g] = fixedDeposits[g]
  BY <1>1, <1>4, <1>5 DEF DepositIds
<1> HIDE DEF own, payout
<1>8. \A g \in DepositIds \ {f} :
        /\ fixedDeposits[g].account # own
        /\ fixedDeposits[g].account \in AccountIds
        /\ accounts'[fixedDeposits[g].account] = accounts[fixedDeposits[g].account]
  BY <1>1, <1>6 DEF FInv, AccountsOfDeposits, own, depositAccounts
<1>9. depositAccounts' = depositAccounts /\ unopened' = unopened
  BY DEF depositAccounts, unopened
<1>10. PrincipalLocked'
  BY <1>4, <1>6, <1>7, <1>8, <1>9 DEF FInv, PrincipalLocked, isActiveDeposit
<1>11. AccountsOfDeposits'
  <2>1. \A g \in DepositIds :
          /\ fixedDeposits'[g].account = fixedDeposits[g].account
          /\ fixedDeposits'[g].payout = fixedDeposits[g].payout
    BY <1>4, <1>7 DEF own, payout
  <2>2. \A a : isOpened(a)' <=> isOpened(a)
    BY <1>7, <1>9, <2>1 DEF isOpened
  <2>3. \A a \in depositAccounts : ~isOpened(a) => accounts'[a] = unopened
    <3> SUFFICES ASSUME NEW a \in depositAccounts, ~isOpened(a)
                 PROVE  accounts'[a] = unopened
      OBVIOUS
    <3>1. a # own /\ a # payout /\ a \in AccountIds
      BY <1>1 DEF isOpened, own, depositAccounts
    <3> QED
      BY <1>6, <3>1 DEF FInv, AccountsOfDeposits
  <2> QED
    BY <1>7, <1>9, <2>1, <2>2, <2>3 DEF FInv, AccountsOfDeposits
<1>12. Tables'
  BY <1>6 DEF FInv, Tables, TypeOK, KeyPaysOnce, TransferIds, PendingHasSource, isPending
<1>13. HeldStuck
  <2>1. \A n \in Nat : n >= n
    OBVIOUS
  <2>2. ~(accounts[fixedDeposits[f].account].hold > 0)
    BY <1>3 DEF own
  <2>3. \A g \in DepositIds \ {f} : accounts[fixedDeposits[g].account].hold \in Nat
    BY <1>1, <1>8 DEF Account
  <2> QED
    BY <1>7, <1>8, <2>1, <2>2, <2>3 DEF HeldStuck
<1> QED
  BY <1>7, <1>10, <1>11, <1>12, <1>13 DEF FInv

(* Opening a deposit: a new account with the principal on it. *)
LEMMA OpenKeepsInv ==
  ASSUME FInv, NEW payout \in AccountIds, NEW account \in AccountIds,
         NEW principal \in Principals, NEW tenure \in Tenures,
         OpenFixedDeposit(payout, account, principal, tenure)
  PROVE  FInv' /\ HeldStuck
<1> DEFINE debited == debit(accounts[payout], principal)
           funded == credit(open(0), principal)
           new == [ account |-> account, payout |-> payout, principal |-> principal,
                    tenure |-> tenure, opened |-> day, status |-> "active",
                    interest |-> 0 ]
<1>1. /\ accounts \in [AccountIds -> Account]
      /\ accounts[payout] \in Account
      /\ principal \in Nat
      /\ account \in depositAccounts
      /\ ~isOpened(account)
      /\ canDebit(accounts[payout], AccountType[payout], principal)
      /\ fixedDeposits \in Seq(FixedDeposit)
  BY FixedDepositsAssumption
     DEF OpenFixedDeposit, isOpened, FInv, Tables, TypeOK
<1>2. debited \in Account /\ payout \notin depositAccounts
  BY <1>1, DebitIsTyped DEF depositAccounts
<1>3. /\ funded \in Account
      /\ funded.status = "Active" /\ funded.balance = principal
  BY <1>1 DEF credit, open, Account, AccountStatuses
<1>4. /\ new \in FixedDeposit
      /\ new.account = account /\ new.payout = payout
      /\ new.principal = principal /\ new.status = "active"
  BY DEF FixedDeposit, FInv, Tables, TypeOK
<1>5. /\ accounts' = [accounts EXCEPT ![payout] = debited, ![account] = funded]
      /\ fixedDeposits' = Append(fixedDeposits, new)
      /\ UNCHANGED <<transfers, ledger, batch, stamping, day, crashes, maturing>>
  BY DEF OpenFixedDeposit
<1> HIDE DEF debited, funded, new
<1>6. /\ accounts' \in [AccountIds -> Account]
      /\ accounts'[account] = funded
      /\ \A a \in AccountIds \ {account, payout} : accounts'[a] = accounts[a]
  BY <1>1, <1>2, <1>3, <1>5
<1> DEFINE n == Len(fixedDeposits) + 1
<1>7. /\ fixedDeposits' \in Seq(FixedDeposit)
      /\ DepositIds' = DepositIds \cup {n}
      /\ n \notin DepositIds
      /\ fixedDeposits'[n] = new
      /\ \A g \in DepositIds : fixedDeposits'[g] = fixedDeposits[g]
  BY <1>1, <1>4, <1>5 DEF DepositIds
<1> HIDE DEF n
<1>8. \A g \in DepositIds :
        /\ fixedDeposits[g].account # account
        /\ fixedDeposits[g].account \in AccountIds
        /\ accounts'[fixedDeposits[g].account] = accounts[fixedDeposits[g].account]
        /\ accounts[fixedDeposits[g].account].hold \in Nat
  BY <1>1, <1>2, <1>6 DEF FInv, AccountsOfDeposits, depositAccounts, isOpened, Account
<1>9. depositAccounts' = depositAccounts /\ unopened' = unopened
  BY DEF depositAccounts, unopened
<1>10. PrincipalLocked'
  BY <1>1, <1>3, <1>4, <1>6, <1>7, <1>8, <1>9 DEF FInv, PrincipalLocked, isActiveDeposit
<1>11. AccountsOfDeposits'
  <2>1. \A a \in depositAccounts : ~isOpened(a)' => accounts'[a] = unopened
    <3> SUFFICES ASSUME NEW a \in depositAccounts, ~isOpened(a)'
                 PROVE  accounts'[a] = unopened
      OBVIOUS
    <3>1. ~isOpened(a) /\ a # account
      BY <1>4, <1>7, <1>9 DEF isOpened
    <3>2. a # payout /\ a \in AccountIds
      BY <1>2 DEF depositAccounts
    <3> QED
      BY <1>6, <3>1, <3>2 DEF FInv, AccountsOfDeposits
  <2> QED
    BY <1>1, <1>2, <1>4, <1>7, <1>8, <1>9, <2>1 DEF FInv, AccountsOfDeposits
<1>12. Tables'
  BY <1>5, <1>6 DEF FInv, Tables, TypeOK, KeyPaysOnce, TransferIds, PendingHasSource,
                    isPending
<1>13. HeldStuck
  <2>1. \A i \in Nat : i >= i
    OBVIOUS
  <2> QED
    BY <1>7, <1>8, <2>1 DEF HeldStuck
<1>14. maturing' \subseteq DepositIds'
  BY <1>5, <1>7 DEF FInv
<1> QED
  BY <1>7, <1>10, <1>11, <1>12, <1>13, <1>14 DEF FInv
LEMMA DepositsInitIsInv ==
  ASSUME DepositsInit
  PROVE  FInv
<1>1. unopened \in Account /\ \A b \in Nat : open(b) \in Account
  BY DEF unopened, close, open, Account, AccountStatuses
<1>2. /\ accounts \in [AccountIds -> Account]
      /\ \A a \in depositAccounts : accounts[a] = unopened
  BY <1>1, PaymentsAssumption DEF DepositsInit, depositAccounts
<1>3. TransferIds = {} /\ transfers \in Seq(Transfer)
  BY DEF DepositsInit, TransferIds
<1>4. DepositIds = {} /\ fixedDeposits \in Seq(FixedDeposit)
  BY DEF DepositsInit, DepositIds
<1>5. Tables
  BY <1>2, <1>3, PaymentsAssumption
     DEF DepositsInit, Tables, TypeOK, KeyPaysOnce, PendingHasSource
<1> QED
  BY <1>2, <1>4, <1>5
     DEF DepositsInit, FInv, PrincipalLocked, AccountsOfDeposits

LEMMA DepositsNextKeepsInv ==
  ASSUME FInv, [DepositsNext]_depositsVars
  PROVE  FInv' /\ HeldStuck
<1>1. CASE [Next]_vars /\ UNCHANGED depositVars
  <2>1. Tables' /\ AllSpared
    BY <1>1, NextSpares DEF FInv
  <2>2. UNCHANGED fixedDeposits /\ maturing' \subseteq DepositIds
    BY <1>1 DEF depositVars, FInv
  <2> QED
    BY <2>1, <2>2, SparingKeepsInv
<1>2. CASE \E payout, account \in AccountIds, principal \in Principals,
             tenure \in Tenures : OpenFixedDeposit(payout, account, principal, tenure)
  BY <1>2, OpenKeepsInv
<1>3. CASE \E f \in DepositIds : PrematureCloseFixedDeposit(f)
  BY <1>3, PayBackKeepsInv, InterestIsNat DEF PrematureCloseFixedDeposit, FInv
<1>4. CASE MatureTick
  <2>1. UNCHANGED <<vars, fixedDeposits>> /\ maturing' \subseteq DepositIds
    BY <1>4 DEF MatureTick
  <2>2. Tables' /\ AllSpared
    BY <2>1, NextSpares DEF FInv
  <2> QED
    BY <2>1, <2>2, SparingKeepsInv
<1>5. CASE MatureStep
  <2>1. PICK f \in DepositIds : Mature(f) \/ MatureFails(f)
    BY <1>5 DEF MatureStep
  <2>2. CASE Mature(f)
    BY <2>2, PayBackKeepsInv, InterestIsNat DEF Mature, FInv
  <2>3. CASE MatureFails(f)
    <3>1. UNCHANGED <<vars, fixedDeposits>> /\ maturing' \subseteq DepositIds
      BY <2>3 DEF MatureFails, FInv
    <3>2. Tables' /\ AllSpared
      BY <3>1, NextSpares DEF FInv
    <3> QED
      BY <3>1, <3>2, SparingKeepsInv
  <2> QED
    BY <2>1, <2>2, <2>3
<1>6. CASE CrashMaturing
  <2>1. /\ UNCHANGED <<accounts, transfers, ledger, batch, stamping, day, fixedDeposits>>
        /\ crashes < MaxCrashes /\ crashes' = crashes + 1
        /\ maturing' \subseteq DepositIds
    BY <1>6 DEF CrashMaturing
  <2>2. Tables' /\ AllSpared
    BY <2>1, QuietSpares, PaymentsAssumption DEF FInv, Tables, TypeOK
  <2> QED
    BY <2>1, <2>2, SparingKeepsInv
<1>7. CASE UNCHANGED depositsVars
  BY <1>1, <1>7 DEF depositsVars
<1> QED
  BY <1>1, <1>2, <1>3, <1>4, <1>5, <1>6, <1>7
     DEF DepositsNext, DepositsStep, PaymentsStep
-----------------------------------------------------------------------------
(* The results. *)

(* The inductive invariant is one. *)
THEOREM DepositsInvariance == DepositsSpec => []FInv
BY DepositsInitIsInv, DepositsNextKeepsInv, PTL DEF DepositsSpec

(* Every variable keeps its type: interest and balances are never          *)
(* negative, whatever rates, penalties and tenures.                        *)
THEOREM DepositsTypeCorrect == DepositsSpec => []DepositsTypeOK
<1>1. FInv => DepositsTypeOK
  BY DEF FInv, Tables, DepositsTypeOK
<1> QED
  BY <1>1, DepositsInvariance, PTL

(* Whatever transfers, holds, settlements and freezes come, the principal  *)
(* of an active deposit is on its open account, and the account of a       *)
(* deposit paid back is closed and empty (account.ts: "locked principal"). *)
THEOREM DepositsAreLocked == DepositsSpec => []PrincipalLocked
<1>1. FInv => PrincipalLocked
  BY DEF FInv
<1> QED
  BY <1>1, DepositsInvariance, PTL

(* A deposit whose account has a hold is never paid back, by the tick or   *)
(* by its owner, and the hold never goes away.                             *)
THEOREM HoldsAreForever == DepositsSpec => HeldDepositIsStuck
<1>1. FInv /\ [DepositsNext]_depositsVars =>
        [ \A f \in DepositIds :
            LET a == fixedDeposits[f].account
            IN  isActiveDeposit(f) /\ accounts[a].hold > 0
                  => /\ fixedDeposits'[f] = fixedDeposits[f]
                     /\ accounts'[a].hold >= accounts[a].hold ]_depositsVars
  BY DepositsNextKeepsInv DEF HeldStuck
<1> QED
  BY <1>1, DepositsInvariance, PTL DEF DepositsSpec, HeldDepositIsStuck
-----------------------------------------------------------------------------
(* Money sent to deposits, and what the steps of Payments do to it.        *)

(* What an account was sent, of a value. *)
postedTo(ts, a) == { t \in Rows(ts) : ts[t].status = "posted" /\ ts[t].to = a }

received(ts, a) == total(ts, postedTo(ts, a))

(* A transfer is posted that brings an amount to an account. *)
Brings(ts, us, to, amount) ==
  /\ isSum(received(us, to), received(ts, to), amount)
  /\ \A a \in AccountIds \ {to} : received(us, a) = received(ts, a)

(* What a deposit account gains is what it is sent. *)
Gained(accs, ts, new, us) ==
  \A a \in depositAccounts :
    balanceOf(new, a) + received(ts, a) = balanceOf(accs, a) + received(us, a)

LEMMA ReceivedIsNat ==
  ASSUME NEW ts \in Seq(Transfer), NEW a
  PROVE  received(ts, a) \in Nat /\ postedTo(ts, a) \in SUBSET Rows(ts)
<1>1. postedTo(ts, a) \in SUBSET Rows(ts)
  BY DEF postedTo
<1> QED
  BY <1>1, TotalTyped DEF received

LEMMA InsertedBrings ==
  ASSUME NEW ts \in Seq(Transfer), NEW us, NEW n, NEW row \in Transfer,
         Inserted(ts, us, n, row), row.status = "posted"
  PROVE  Brings(ts, us, row.to, amountOf(row))
<1>1. /\ Rows(us) = Rows(ts) \cup {n} /\ n \notin Rows(ts)
      /\ us[n] = row /\ \A t \in Rows(ts) : us[t] = ts[t]
  BY InsertedRows
<1>2. ASSUME NEW S \in SUBSET Rows(ts)
      PROVE  /\ total(us, S) = total(ts, S)
             /\ isSum(total(us, S \cup {n}), total(ts, S), amountOf(row))
  BY TotalInserted
<1>3. postedTo(us, row.to) = postedTo(ts, row.to) \cup {n}
  BY <1>1 DEF postedTo
<1>4. \A a \in AccountIds \ {row.to} : postedTo(us, a) = postedTo(ts, a)
  BY <1>1 DEF postedTo
<1>5. isSum(received(us, row.to), received(ts, row.to), amountOf(row))
  BY <1>2, <1>3, ReceivedIsNat DEF received
<1>6. ASSUME NEW a \in AccountIds \ {row.to}
      PROVE  received(us, a) = received(ts, a)
  BY <1>2, <1>4, ReceivedIsNat DEF received
<1> QED
  BY <1>5, <1>6 DEF Brings

LEMMA SettledBrings ==
  ASSUME NEW ts \in Seq(Transfer), NEW us, NEW u, NEW from, NEW to, NEW amount,
         Settled(ts, us, u, from, to, amount)
  PROVE  Brings(ts, us, to, amount)
<1>1. /\ Rows(us) = Rows(ts) /\ u \in Rows(ts)
      /\ \A t \in Rows(ts) : us[t].to = ts[t].to
      /\ \A t \in Rows(ts) \ {u} : us[t].status = ts[t].status
      /\ ts[u].status = "pending" /\ us[u].status = "posted"
      /\ ts[u].to = to /\ amountOf(ts[u]) = amount
  BY DEF Settled, Rewritten, Rows
<1>2. ASSUME NEW S \in SUBSET Rows(ts)
      PROVE  total(us, S) = total(ts, S)
  BY TotalRewritten DEF Settled
<1>3. postedTo(us, to) = postedTo(ts, to) \cup {u} /\ u \notin postedTo(ts, to)
  BY <1>1 DEF postedTo
<1>4. \A a \in AccountIds \ {to} : postedTo(us, a) = postedTo(ts, a)
  BY <1>1 DEF postedTo
<1>5. isSum(received(us, to), received(ts, to), amount)
  <2>1. postedTo(ts, to) \in SUBSET Rows(ts)
    BY ReceivedIsNat
  <2>2. isSum(total(ts, postedTo(ts, to) \cup {u}), total(ts, postedTo(ts, to)), amount)
    BY <1>1, <1>3, <2>1, TotalWith
  <2>3. total(us, postedTo(ts, to) \cup {u}) = total(ts, postedTo(ts, to) \cup {u})
    BY <1>1, <1>2, <2>1
  <2> QED
    BY <1>3, <2>2, <2>3 DEF received
<1>6. ASSUME NEW a \in AccountIds \ {to}
      PROVE  received(us, a) = received(ts, a)
  BY <1>2, <1>4, ReceivedIsNat DEF received
<1> QED
  BY <1>5, <1>6 DEF Brings

(* Nothing new is posted. *)
LEMMA NothingReceived ==
  ASSUME NEW ts \in Seq(Transfer), NEW us,
         Rows(ts) \subseteq Rows(us),
         \A t \in Rows(ts) :
           us[t].amount = ts[t].amount /\ us[t].status = ts[t].status /\ us[t].to = ts[t].to,
         \A t \in Rows(us) \ Rows(ts) : us[t].status # "posted"
  PROVE  \A a \in AccountIds : received(us, a) = received(ts, a)
<1> SUFFICES ASSUME NEW a \in AccountIds
             PROVE  received(us, a) = received(ts, a)
  OBVIOUS
<1>1. postedTo(us, a) = postedTo(ts, a)
  BY DEF postedTo
<1>2. postedTo(ts, a) \in SUBSET Rows(ts)
  BY ReceivedIsNat
<1>3. total(us, postedTo(ts, a)) = total(ts, postedTo(ts, a))
  BY <1>2, TotalSame
<1> QED
  BY <1>1, <1>3 DEF received

(* The rows of a payment, and a single credit. *)
LEMMA PaymentGains ==
  ASSUME NEW accs \in [AccountIds -> Account], NEW ts \in Seq(Transfer),
         NEW us \in Seq(Transfer),
         NEW from \in AccountIds, NEW to \in AccountIds, NEW amount \in Nat,
         NEW new \in [AccountIds -> Account],
         from \notin depositAccounts,
         isSum(balanceOf(new, to), balanceOf(accs, to), amount),
         \A a \in AccountIds \ {from, to} : new[a] = accs[a],
         Brings(ts, us, to, amount)
  PROVE  Gained(accs, ts, new, us)
<1> SUFFICES ASSUME NEW a \in depositAccounts
             PROVE  balanceOf(new, a) + received(ts, a) = balanceOf(accs, a) + received(us, a)
  BY DEF Gained
<1>1. a \in AccountIds /\ a # from
  BY DEF depositAccounts
<1> PICK b \in Nat : b = balanceOf(accs, a)
  BY <1>1, BalancesAreNat
<1> PICK r \in Nat : r = received(ts, a)
  BY ReceivedIsNat
<1>2. CASE a = to
  <2>1. balanceOf(new, a) = b + amount /\ received(us, a) = r + amount
    BY <1>2 DEF isSum, Brings
  <2> QED
    BY <2>1
<1>3. CASE a # to
  <2>1. balanceOf(new, a) = b /\ received(us, a) = r
    BY <1>1, <1>3 DEF balanceOf, Brings
  <2> QED
    BY <2>1
<1> QED
  BY <1>2, <1>3

LEMMA NothingGained ==
  ASSUME NEW accs, NEW ts, NEW new, NEW us,
         \A a \in depositAccounts : balanceOf(new, a) = balanceOf(accs, a),
         \A a \in AccountIds : received(us, a) = received(ts, a)
  PROVE  Gained(accs, ts, new, us)
BY DEF Gained, depositAccounts

LEMMA PostGains ==
  ASSUME Tables,
         NEW from \in AccountIds, NEW to \in AccountIds,
         NEW amount \in Amounts, NEW key \in Keys \cup {NoKey},
         NEW rail \in InstantRails \cup {"internal"},
         NEW category \in {"p2p", "self", "bill", "card", "faucet"},
         postTransfer(from, to, amount, key, "transfer", rail, category)
  PROVE  Gained(accounts, transfers, accounts', transfers')
<1> DEFINE debited == debit(accounts[from], amount)
           credited == credit(accounts[to], amount)
<1>1. /\ amount \in Nat
      /\ accounts \in [AccountIds -> Account] /\ transfers \in Seq(Transfer)
      /\ accounts[from] \in Account /\ accounts[to] \in Account
  BY PaymentsAssumption DEF Tables, TypeOK
<1>2. /\ debited \in Account /\ credited \in Account
      /\ from \notin depositAccounts
  BY <1>1, DebitIsTyped, CreditIsTyped DEF postTransfer, depositAccounts
<1>3. PICK row \in Transfer, n \in Nat :
        /\ Inserted(transfers, transfers', n, row)
        /\ row.to = to /\ amountOf(row) = amount /\ row.status = "posted"
  <2>1. insertTransfer(from, to, amount, key, "transfer", "posted", rail, category)
    BY DEF postTransfer
  <2>2. TypeOK /\ from \in AccountIds \cup {NoAccount}
    BY DEF Tables
  <2> QED
    BY <2>1, <2>2, InsertedRow
<1>4. isSum(credited.balance, accounts[to].balance, amount)
  BY <1>1, CreditMoves
<1>5. accounts' = [accounts EXCEPT ![from] = debited, ![to] = credited]
  BY DEF postTransfer, updateBoth
<1> HIDE DEF debited, credited
<1>6. /\ accounts' \in [AccountIds -> Account] /\ accounts'[to] = credited
      /\ \A b \in AccountIds \ {from, to} : accounts'[b] = accounts[b]
  BY <1>1, <1>2, <1>5
<1>7. isSum(balanceOf(accounts', to), balanceOf(accounts, to), amount)
  BY <1>4, <1>6 DEF balanceOf
<1>8. Brings(transfers, transfers', to, amount) /\ transfers' \in Seq(Transfer)
  BY <1>1, <1>3, InsertedBrings, InsertedRows
<1> QED
  BY <1>1, <1>2, <1>6, <1>7, <1>8, PaymentGains

LEMMA PendingGains ==
  ASSUME Tables, NEW from \in AccountIds, NEW to \in AccountIds,
         NEW amount \in Amounts, NEW key \in Keys \cup {NoKey},
         NEW rail \in BatchRails,
         CreatePendingRailTransfer(from, to, amount, key, rail)
  PROVE  Gained(accounts, transfers, accounts', transfers')
<1>1. /\ accounts \in [AccountIds -> Account] /\ accounts[from] \in Account
      /\ amount \in Nat /\ transfers \in Seq(Transfer)
  BY PaymentsAssumption DEF Tables, TypeOK
<1>2. PICK row \in Transfer, n \in Nat :
        Inserted(transfers, transfers', n, row) /\ row.status = "pending"
  BY PendingRow DEF Tables
<1>3. /\ Rows(transfers') = Rows(transfers) \cup {n} /\ n \notin Rows(transfers)
      /\ transfers'[n] = row /\ \A t \in Rows(transfers) : transfers'[t] = transfers[t]
  BY <1>1, <1>2, InsertedRows
<1>4. \A a \in AccountIds : received(transfers', a) = received(transfers, a)
  BY <1>1, <1>2, <1>3, NothingReceived
<1>5. PICK held \in Account :
        /\ accounts' = [accounts EXCEPT ![from] = held]
        /\ held.balance = accounts[from].balance
  BY <1>1, HoldMoves DEF CreatePendingRailTransfer
<1>6. \A a \in depositAccounts : balanceOf(accounts', a) = balanceOf(accounts, a)
  BY <1>1, <1>5 DEF balanceOf, depositAccounts
<1> QED
  BY <1>4, <1>6, NothingGained

LEMMA FaucetGains ==
  ASSUME Tables, NEW to \in AccountIds,
         NEW amount \in Amounts, NEW key \in Keys \cup {NoKey},
         FaucetDeposit(to, amount, key)
  PROVE  Gained(accounts, transfers, accounts', transfers')
<1> DEFINE credited == credit(accounts[to], amount)
<1>1. /\ accounts \in [AccountIds -> Account] /\ accounts[to] \in Account
      /\ amount \in Nat /\ transfers \in Seq(Transfer)
  BY PaymentsAssumption DEF Tables, TypeOK
<1>2. credited \in Account /\ isSum(credited.balance, accounts[to].balance, amount)
  BY <1>1, CreditIsTyped, CreditMoves
<1>3. accounts' = [accounts EXCEPT ![to] = credited]
  BY DEF FaucetDeposit
<1> HIDE DEF credited
<1>4. PICK row \in Transfer, n \in Nat :
        /\ Inserted(transfers, transfers', n, row)
        /\ row.to = to /\ amountOf(row) = amount /\ row.status = "posted"
  BY FaucetRow DEF Tables
<1>5. Brings(transfers, transfers', to, amount)
  BY <1>1, <1>4, InsertedBrings
<1>6. /\ accounts'[to] = credited
      /\ \A a \in AccountIds \ {to} : accounts'[a] = accounts[a]
  BY <1>1, <1>2, <1>3
<1> SUFFICES ASSUME NEW a \in depositAccounts
             PROVE  balanceOf(accounts', a) + received(transfers, a)
                      = balanceOf(accounts, a) + received(transfers', a)
  BY DEF Gained
<1>7. a \in AccountIds
  BY DEF depositAccounts
<1> PICK b \in Nat : b = balanceOf(accounts, a)
  BY <1>1, <1>7, BalancesAreNat
<1> PICK r \in Nat : r = received(transfers, a)
  BY <1>1, ReceivedIsNat
<1>8. CASE a = to
  <2>1. balanceOf(accounts', a) = b + amount /\ received(transfers', a) = r + amount
    BY <1>2, <1>5, <1>6, <1>8 DEF isSum, Brings, balanceOf
  <2> QED
    BY <1>1, <2>1
<1>9. CASE a # to
  <2>1. balanceOf(accounts', a) = b /\ received(transfers', a) = r
    BY <1>5, <1>6, <1>7, <1>9 DEF balanceOf, Brings
  <2> QED
    BY <2>1
<1> QED
  BY <1>8, <1>9

LEMMA StatusGains ==
  ASSUME Tables, NEW a \in AccountIds,
         FreezeAccount(a) \/ UnfreezeAccount(a) \/ CloseAccount(a)
  PROVE  Gained(accounts, transfers, accounts', transfers')
<1>1. accounts \in [AccountIds -> Account] /\ accounts[a] \in Account
  BY DEF Tables, TypeOK
<1>2. transfers' = transfers
  BY DEF FreezeAccount, UnfreezeAccount, CloseAccount
<1>3. PICK acc \in Account :
        accounts' = [accounts EXCEPT ![a] = acc] /\ acc.balance = accounts[a].balance
  BY <1>1 DEF FreezeAccount, UnfreezeAccount, CloseAccount, freeze, unfreeze, close,
              Account, AccountStatuses
<1>4. \A b \in depositAccounts : balanceOf(accounts', b) = balanceOf(accounts, b)
  BY <1>1, <1>3 DEF balanceOf, depositAccounts
<1> QED
  BY <1>2, <1>4, NothingGained

LEMMA SettleGains ==
  ASSUME Tables, NEW t \in TransferIds, SettlePending(t)
  PROVE  Gained(accounts, transfers, accounts', transfers')
<1> PICK from : from = transfers[t].from
  OBVIOUS
<1> PICK to : to = transfers[t].to
  OBVIOUS
<1> PICK amount : amount = amountOf(transfers[t])
  OBVIOUS
<1> DEFINE released == releaseHold(accounts[from], amount)
           debited == debit(released, amount)
           credited == credit(accounts[to], amount)
<1>1. /\ from \in AccountIds /\ to \in AccountIds /\ amount \in Nat
      /\ accounts \in [AccountIds -> Account] /\ transfers \in Seq(Transfer)
  <2>1. transfers \in Seq(Transfer) /\ transfers[t] \in Transfer
    BY DEF Tables, TypeOK, TransferIds
  <2>2. to \in AccountIds /\ amount \in Nat
    BY <2>1, AmountIsNat DEF Transfer
  <2>3. from \in AccountIds
    BY DEF Tables, PendingHasSource, SettlePending, canSettle
  <2> QED
    BY <2>1, <2>2, <2>3 DEF Tables, TypeOK
<1>2. accounts[from] \in Account /\ accounts[to] \in Account
  BY <1>1
<1>3. /\ canReleaseHold(accounts[from], amount)
      /\ canDebit(released, AccountType[from], amount)
      /\ isPending(t)
  BY DEF SettlePending, canSettle, amountOf
<1>4. /\ markPosted(t)
      /\ accounts' = [accounts EXCEPT ![from] = debited, ![to] = credited]
  BY DEF SettlePending, updateBoth, amountOf
<1>5. released \in Account
  BY <1>1, <1>2, <1>3, ReleaseIsTyped
<1> HIDE DEF released
<1>6. debited \in Account /\ credited \in Account /\ from \notin depositAccounts
  BY <1>1, <1>2, <1>3, <1>5, DebitIsTyped, CreditIsTyped DEF depositAccounts
<1>7. isSum(credited.balance, accounts[to].balance, amount)
  BY <1>1, <1>2, CreditMoves
<1> HIDE DEF debited, credited
<1>8. /\ accounts' \in [AccountIds -> Account] /\ accounts'[to] = credited
      /\ \A b \in AccountIds \ {from, to} : accounts'[b] = accounts[b]
  BY <1>1, <1>4, <1>6
<1>9. isSum(balanceOf(accounts', to), balanceOf(accounts, to), amount)
  BY <1>7, <1>8 DEF balanceOf
<1>10. Settled(transfers, transfers', t, from, to, amount)
  BY <1>3, <1>4, SettledRow DEF Tables
<1>11. Brings(transfers, transfers', to, amount) /\ transfers' \in Seq(Transfer)
  BY <1>1, <1>10, SettledBrings DEF Settled, Rewritten
<1> QED
  BY <1>1, <1>6, <1>8, <1>9, <1>11, PaymentGains

LEMMA StampGains ==
  ASSUME Tables, StampUtr
  PROVE  Gained(accounts, transfers, accounts', transfers')
<1> DEFINE stamped == [transfers[stamping] EXCEPT !.utr = transfers[stamping].utr + 1]
<1>1. /\ stamping \in Rows(transfers)
      /\ transfers \in Seq(Transfer) /\ transfers[stamping] \in Transfer
  BY DEF Tables, TypeOK, StampUtr, TransferIds, Rows
<1>2. /\ stamped.amount = transfers[stamping].amount
      /\ stamped.status = transfers[stamping].status
      /\ stamped.to = transfers[stamping].to
  BY <1>1 DEF Transfer
<1>3. transfers' = [transfers EXCEPT ![stamping] = stamped]
  BY <1>1 DEF StampUtr
<1> HIDE DEF stamped
<1>4. /\ Rows(transfers') = Rows(transfers) /\ transfers'[stamping] = stamped
      /\ \A t \in Rows(transfers) \ {stamping} : transfers'[t] = transfers[t]
  BY <1>1, <1>3 DEF Rows
<1>5. \A t \in Rows(transfers) :
        /\ transfers'[t].amount = transfers[t].amount
        /\ transfers'[t].status = transfers[t].status
        /\ transfers'[t].to = transfers[t].to
  BY <1>2, <1>4
<1>6. \A a \in AccountIds : received(transfers', a) = received(transfers, a)
  BY <1>1, <1>4, <1>5, NothingReceived
<1> QED
  BY <1>6, NothingGained DEF StampUtr

LEMMA NextGains ==
  ASSUME Tables, [Next]_vars
  PROVE  Gained(accounts, transfers, accounts', transfers')
<1>1. CASE accounts' = accounts /\ transfers' = transfers
  BY <1>1, NothingGained
<1>2. CASE Request
  <2>1. PICK a \in AccountIds, b \in AccountIds, amount \in Amounts,
             key \in Keys \cup {NoKey} :
          \/ \E rail \in InstantRails \cup {"internal"} :
               executeTransfer(a, b, amount, key, rail)
          \/ \E rail \in InstantRails : RetryTransfer(a, amount, key, rail)
          \/ \E rail \in BatchRails :
               CreatePendingRailTransfer(a, b, amount, key, rail)
          \/ PayBill(a, b, amount, key)
    BY <1>2 DEF Request, ExecuteTransfer, RunInstruction
  <2>2. ASSUME NEW rail \in InstantRails \cup {"internal"},
               executeTransfer(a, b, amount, key, rail)
        PROVE  Gained(accounts, transfers, accounts', transfers')
    <3>1. categoryOf(a, b) \in {"p2p", "self", "bill", "card", "faucet"}
      BY DEF categoryOf
    <3> QED
      BY <2>2, <3>1, PostGains DEF executeTransfer
  <2>3. ASSUME NEW rail \in InstantRails, RetryTransfer(a, amount, key, rail)
        PROVE  Gained(accounts, transfers, accounts', transfers')
    BY <1>1, <2>3 DEF RetryTransfer
  <2>4. CASE PayBill(a, b, amount, key)
    BY <2>4, PostGains DEF PayBill
  <2> QED
    BY <2>1, <2>2, <2>3, <2>4, PendingGains
<1>3. CASE Administer
  BY <1>3, FaucetGains, StatusGains DEF Administer
<1>4. CASE SettleStep
  BY <1>1, <1>4, SettleGains DEF SettleStep, SettleFails
<1>5. CASE SettleTick \/ Crash \/ NextDay \/ UNCHANGED vars
  BY <1>1, <1>5 DEF SettleTick, Crash, NextDay, vars
<1> QED
  BY <1>2, <1>3, <1>4, <1>5, StampGains DEF Next
-----------------------------------------------------------------------------
(* The money of deposits.  The sums MoneyConservedWithInterest adds to the *)
(* ones of Payments, of values: the interest paid, and what was sent to    *)
(* deposits that were then paid back.                                      *)
interestOf(fds) == [f \in 1..Len(fds) |-> fds[f].interest]

interestPaid(fds) == SumFunctionOnSet(interestOf(fds), 1..Len(fds))

sentTo(ts, fds) == [f \in 1..Len(fds) |-> received(ts, fds[f].account)]

paidBack(fds) == { f \in 1..Len(fds) : fds[f].status # "active" }

gone(ts, fds) == SumFunctionOnSet(sentTo(ts, fds), paidBack(fds))

(* DepositsBacked, of the active deposits. *)
Backed(accs, ts, fds) ==
  \A f \in 1..Len(fds) :
    fds[f].status = "active" =>
      /\ fds[f].interest = 0
      /\ isSum(balanceOf(accs, fds[f].account), received(ts, fds[f].account),
               fds[f].principal)

(* An account is sent nothing before its deposit is opened. *)
SentToOpened == \A t \in TransferIds : isOpened(transfers[t].to)

Funds(accs, ts, fds) ==
  /\ Backed(accs, ts, fds)
  /\ Tallied(accs, ts, openings + interestPaid(fds) - gone(ts, fds))

(* With FInv, the inductive invariant. *)
MInv == SentToOpened /\ Funds(accounts, transfers, fixedDeposits)

LEMMA DepositSums ==
  ASSUME FInv
  PROVE  /\ interestPaid(fixedDeposits) \in Nat
         /\ gone(transfers, fixedDeposits) \in Nat
         /\ openings \in Nat
         /\ IsFiniteSet(1..Len(fixedDeposits))
         /\ IsFiniteSet(paidBack(fixedDeposits))
         /\ paidBack(fixedDeposits) \subseteq 1..Len(fixedDeposits)
         /\ transfers \in Seq(Transfer)
         /\ accounts \in [AccountIds -> Account]
<1>1. /\ transfers \in Seq(Transfer) /\ fixedDeposits \in Seq(FixedDeposit)
      /\ accounts \in [AccountIds -> Account]
  BY DEF FInv, Tables, TypeOK
<1>2. /\ IsFiniteSet(1..Len(fixedDeposits))
      /\ paidBack(fixedDeposits) \subseteq 1..Len(fixedDeposits)
  BY <1>1, FS_Interval DEF paidBack
<1>3. IsFiniteSet(paidBack(fixedDeposits))
  BY <1>2, FS_Subset
<1>4. interestPaid(fixedDeposits) \in Nat
  <2> DEFINE g == interestOf(fixedDeposits)
  <2>1. \A f \in 1..Len(fixedDeposits) : g[f] \in Nat
    <3>1. \A f \in 1..Len(fixedDeposits) : fixedDeposits[f] \in FixedDeposit
      BY <1>1
    <3>2. \A deposit \in FixedDeposit : deposit.interest \in Nat
      BY DEF FixedDeposit
    <3> QED
      BY <3>1, <3>2 DEF interestOf
  <2> HIDE DEF g
  <2>2. SumFunctionOnSet(g, 1..Len(fixedDeposits)) \in Nat
    BY <1>2, <2>1, SumTyped
  <2> QED
    BY <2>2 DEF interestPaid, g
<1>5. gone(transfers, fixedDeposits) \in Nat
  <2> DEFINE g == sentTo(transfers, fixedDeposits)
  <2>1. \A f \in paidBack(fixedDeposits) : g[f] \in Nat
    BY <1>1, <1>2, ReceivedIsNat DEF sentTo
  <2> HIDE DEF g
  <2>2. SumFunctionOnSet(g, paidBack(fixedDeposits)) \in Nat
    BY <1>3, <2>1, SumTyped
  <2> QED
    BY <2>2 DEF gone, g
<1>6. openings \in Nat
  BY <1>1, TalliesAreNat
<1> QED
  BY <1>1, <1>2, <1>3, <1>4, <1>5, <1>6

LEMMA GainsArePassedOn ==
  \A b, c, r, s, principal \in Nat :
    b = r + principal /\ c + r = b + s => c = s + principal
OBVIOUS

LEMMA GainsKeepBacked ==
  ASSUME FInv, Backed(accounts, transfers, fixedDeposits),
         NEW accs \in [AccountIds -> Account], NEW us \in Seq(Transfer),
         Gained(accounts, transfers, accs, us)
  PROVE  Backed(accs, us, fixedDeposits)
<1>1. transfers \in Seq(Transfer) /\ accounts \in [AccountIds -> Account]
  BY DepositSums
<1> SUFFICES ASSUME NEW f \in 1..Len(fixedDeposits), fixedDeposits[f].status = "active"
             PROVE  /\ fixedDeposits[f].interest = 0
                    /\ isSum(balanceOf(accs, fixedDeposits[f].account),
                             received(us, fixedDeposits[f].account),
                             fixedDeposits[f].principal)
  BY DEF Backed
<1> PICK a : a = fixedDeposits[f].account
  OBVIOUS
<1> PICK principal \in Nat : principal = fixedDeposits[f].principal
  BY DepositIsTyped DEF DepositIds
<1>2. /\ fixedDeposits[f].interest = 0
      /\ isSum(balanceOf(accounts, a), received(transfers, a), principal)
  BY DEF Backed
<1>3. a \in depositAccounts /\ a \in AccountIds
  BY DEF FInv, AccountsOfDeposits, DepositIds, depositAccounts
<1>4. balanceOf(accs, a) + received(transfers, a)
        = balanceOf(accounts, a) + received(us, a)
  BY <1>3 DEF Gained
<1> PICK b \in Nat : b = balanceOf(accounts, a)
  BY <1>1, <1>3, BalancesAreNat
<1> PICK c \in Nat : c = balanceOf(accs, a)
  BY <1>3, BalancesAreNat
<1> PICK r \in Nat : r = received(transfers, a)
  BY <1>1, ReceivedIsNat
<1> PICK s \in Nat : s = received(us, a)
  BY ReceivedIsNat
<1>5. b = r + principal /\ c + r = b + s
  BY <1>2, <1>4 DEF isSum
<1>6. c = s + principal
  BY <1>5, GainsArePassedOn
<1> QED
  BY <1>2, <1>6 DEF isSum

(* A step of Payments, or of the tick's bookkeeping. *)
LEMMA PaymentsStepKeepsFunds ==
  ASSUME FInv, MInv, [Next]_vars, AllSpared, UNCHANGED fixedDeposits,
         \A t \in DOMAIN transfers' : isOpened(transfers'[t].to)
  PROVE  MInv'
<1>1. Gained(accounts, transfers, accounts', transfers')
  BY NextGains DEF FInv
<1>2. /\ transfers \in Seq(Transfer) /\ accounts \in [AccountIds -> Account]
      /\ transfers' \in Seq(Transfer) /\ accounts' \in [AccountIds -> Account]
  BY NextSpares DEF FInv, Tables, TypeOK
<1>3. \A f \in DepositIds : fixedDeposits[f].account \in depositAccounts
  BY DEF FInv, AccountsOfDeposits
<1>4. gone(transfers', fixedDeposits) = gone(transfers, fixedDeposits)
  <2> DEFINE g == sentTo(transfers, fixedDeposits)
             h == sentTo(transfers', fixedDeposits)
  <2>1. ASSUME NEW f \in paidBack(fixedDeposits)
        PROVE  g[f] = h[f]
    <3> PICK a : a = fixedDeposits[f].account
      OBVIOUS
    <3>1. f \in DepositIds /\ ~isActiveDeposit(f) /\ f \in 1..Len(fixedDeposits)
      BY DEF paidBack, DepositIds, isActiveDeposit
    <3>2. accounts[a] = unopened /\ a \in depositAccounts /\ a \in AccountIds
      BY <1>3, <3>1 DEF FInv, PrincipalLocked, depositAccounts
    <3>3. accounts'[a] = accounts[a]
      BY <3>2 DEF AllSpared, Spared, unopened, close, open
    <3>4. balanceOf(accounts, a) \in Nat /\ received(transfers, a) \in Nat
          /\ received(transfers', a) \in Nat
      BY <1>2, <3>2, BalancesAreNat, ReceivedIsNat
    <3>5. balanceOf(accounts', a) = balanceOf(accounts, a)
      BY <3>3 DEF balanceOf
    <3>6. balanceOf(accounts', a) + received(transfers, a)
            = balanceOf(accounts, a) + received(transfers', a)
      BY <1>1, <3>2 DEF Gained
    <3>7. received(transfers', a) = received(transfers, a)
      BY <3>4, <3>5, <3>6
    <3> QED
      BY <3>1, <3>7 DEF sentTo
  <2> HIDE DEF g, h
  <2>2. IsFiniteSet(paidBack(fixedDeposits))
    BY DepositSums
  <2>3. \A f \in paidBack(fixedDeposits) : g[f] = h[f]
    BY <2>1
  <2>4. SumFunctionOnSet(g, paidBack(fixedDeposits)) = SumFunctionOnSet(h, paidBack(fixedDeposits))
    BY <2>2, <2>3, SumSame
  <2> QED
    BY <2>4 DEF gone, g, h
<1>5. Tallied(accounts', transfers',
              openings + interestPaid(fixedDeposits) - gone(transfers', fixedDeposits))
  <2> PICK base \in Int :
        base = openings + interestPaid(fixedDeposits) - gone(transfers, fixedDeposits)
    BY DepositSums
  <2>1. Tallied(accounts, transfers, base)
    BY DEF MInv, Funds
  <2>2. Tallied(accounts', transfers', base)
    BY <2>1, NextKeepsTallies DEF FInv
  <2> QED
    BY <1>4, <2>2
<1>6. Backed(accounts', transfers', fixedDeposits)
  <2> PICK accs \in [AccountIds -> Account] : accs = accounts'
    BY <1>2
  <2> PICK us \in Seq(Transfer) : us = transfers'
    BY <1>2
  <2>1. Gained(accounts, transfers, accs, us)
    BY <1>1
  <2>2. Backed(accs, us, fixedDeposits)
    BY <2>1, GainsKeepBacked DEF MInv, Funds
  <2> QED
    BY <2>2
<1>7. SentToOpened'
  <2>1. \A a : isOpened(a)' <=> isOpened(a)
    BY DEF isOpened, DepositIds, depositAccounts
  <2>2. TransferIds' = DOMAIN transfers'
    BY <1>2 DEF TransferIds
  <2> QED
    BY <2>1, <2>2 DEF SentToOpened
<1>8. Funds(accounts', transfers', fixedDeposits')
  BY <1>5, <1>6 DEF Funds
<1> QED
  BY <1>7, <1>8 DEF MInv, Funds, Backed, Tallied, Accounted, Conserved, PendingOnBatchRail,
     onAccounts, total, pendingOf, keptHolds, toSelf, faucets, holdOf, balanceOf, received,
     postedTo, interestPaid, interestOf, gone, sentTo, paidBack, Rows, openings

(* A step that writes accounts alone, and no hold. *)
LEMMA MovedTallies ==
  ASSUME NEW accs \in [AccountIds -> Account], NEW ts \in Seq(Transfer),
         NEW base \in Int, Tallied(accs, ts, base),
         NEW new \in [AccountIds -> Account],
         \A a \in AccountIds : holdOf(new, a) = holdOf(accs, a),
         NEW gain \in Int, onAccounts(new) = onAccounts(accs) + gain
  PROVE  Tallied(new, ts, base + gain)
<1> PICK p \in Nat : p = total(ts, faucets(ts))
  BY TalliesAreNat
<1> PICK q \in Nat : q = total(ts, toSelf(ts))
  BY TalliesAreNat
<1>1. onAccounts(accs) = base + p + q
  BY DEF Tallied, Conserved
<1>2. onAccounts(new) = (base + gain) + p + q
  BY <1>1
<1>3. Conserved(new, ts, base + gain)
  BY <1>2 DEF Conserved
<1>4. Accounted(new, ts) /\ PendingOnBatchRail(ts)
  BY DEF Tallied, Accounted
<1> QED
  BY <1>3, <1>4 DEF Tallied

(* Values named in the steps below are constants, the primes go with them. *)
LEMMA FundsAreFunds ==
  ASSUME SentToOpened', Funds(accounts', transfers', fixedDeposits')
  PROVE  MInv'
BY DEF MInv, Funds, Backed, Tallied, Accounted, Conserved, PendingOnBatchRail,
     onAccounts, total, pendingOf, keptHolds, toSelf, faucets, holdOf, balanceOf, received,
     postedTo, interestPaid, interestOf, gone, sentTo, paidBack, Rows, openings

(* An account whose deposit is not open was sent nothing. *)
LEMMA UnopenedWasSentNothing ==
  ASSUME MInv, NEW a, ~isOpened(a)
  PROVE  received(transfers, a) = 0
<1>1. postedTo(transfers, a) = {}
  BY DEF MInv, SentToOpened, postedTo, Rows, TransferIds
<1>2. total(transfers, {}) = 0
  BY SumEmpty DEF total
<1> QED
  BY <1>1, <1>2 DEF received

(* What one account is debited another is credited. *)
LEMMA MovedMoneyStays ==
  ASSUME NEW accs \in [AccountIds -> Account], NEW mid \in [AccountIds -> Account],
         NEW new \in [AccountIds -> Account],
         NEW from \in AccountIds, NEW to \in AccountIds, NEW amount \in Nat, from # to,
         isSum(balanceOf(accs, from), balanceOf(mid, from), amount),
         \A b \in AccountIds \ {from} : balanceOf(mid, b) = balanceOf(accs, b),
         isSum(balanceOf(new, to), balanceOf(accs, to), amount),
         \A b \in AccountIds \ {to} : balanceOf(new, b) = balanceOf(mid, b)
  PROVE  onAccounts(new) = onAccounts(accs) + 0
<1>1. onAccounts(new) = onAccounts(accs)
  BY PaymentSums
<1>2. onAccounts(accs) \in Nat
  BY WriteSums
<1> QED
  BY <1>1, <1>2

(* The sums when a row is added to the table of deposits. *)
LEMMA OpenedSums ==
  ASSUME FInv, NEW new \in FixedDeposit, new.interest = 0, new.status = "active",
         NEW fds, fds = Append(fixedDeposits, new)
  PROVE  /\ interestPaid(fds) = interestPaid(fixedDeposits)
         /\ gone(transfers, fds) = gone(transfers, fixedDeposits)
<1> DEFINE n == Len(fixedDeposits) + 1
           old == 1..Len(fixedDeposits)
<1>1. /\ fixedDeposits \in Seq(FixedDeposit) /\ IsFiniteSet(old)
      /\ IsFiniteSet(paidBack(fixedDeposits))
      /\ \A f \in old : fixedDeposits[f] \in FixedDeposit
  BY DepositSums DEF FInv
<1>2. /\ 1..Len(fds) = old \cup {n} /\ n \notin old
      /\ fds[n] = new
      /\ \A f \in old : fds[f] = fixedDeposits[f]
  BY <1>1
<1>3. interestPaid(fds) = interestPaid(fixedDeposits)
  <2> DEFINE g == interestOf(fixedDeposits)
             h == interestOf(fds)
  <2>1. /\ \A f \in old : h[f] = g[f] /\ g[f] \in Nat
        /\ h[n] = 0
    <3>1. \A deposit \in FixedDeposit : deposit.interest \in Nat
      BY DEF FixedDeposit
    <3> QED
      BY <1>1, <1>2, <3>1 DEF interestOf
  <2>2. interestPaid(fds) = SumFunctionOnSet(h, old \cup {n})
    BY <1>2 DEF interestPaid
  <2>3. interestPaid(fixedDeposits) = SumFunctionOnSet(g, old)
    BY DEF interestPaid
  <2> HIDE DEF g, h, n, old
  <2>4. IsFiniteSet(old) /\ n \notin old
    BY <1>1, <1>2
  <2>5. \A f \in old \cup {n} : h[f] \in Nat
    BY <2>1
  <2>6. SumFunctionOnSet(h, old \cup {n}) = h[n] + SumFunctionOnSet(h, old)
    BY <2>4, <2>5, SumAdds
  <2>7. SumFunctionOnSet(g, old) = SumFunctionOnSet(h, old)
    BY <2>1, <2>4, SumSame
  <2>8. SumFunctionOnSet(g, old) \in Nat
    BY <2>1, <2>4, SumTyped
  <2> QED
    BY <2>1, <2>2, <2>3, <2>6, <2>7, <2>8
<1>4. gone(transfers, fds) = gone(transfers, fixedDeposits)
  <2> DEFINE g == sentTo(transfers, fixedDeposits)
             h == sentTo(transfers, fds)
  <2>1. paidBack(fds) = paidBack(fixedDeposits)
    BY <1>2 DEF paidBack
  <2>2. \A f \in paidBack(fixedDeposits) : g[f] = h[f]
    BY <1>2 DEF sentTo, paidBack
  <2> HIDE DEF g, h
  <2>3. SumFunctionOnSet(g, paidBack(fixedDeposits)) = SumFunctionOnSet(h, paidBack(fixedDeposits))
    BY <1>1, <2>2, SumSame
  <2> QED
    BY <2>1, <2>3 DEF gone, g, h
<1> QED
  BY <1>3, <1>4

LEMMA OpenKeepsFunds ==
  ASSUME FInv, MInv, NEW payout \in AccountIds, NEW account \in AccountIds,
         NEW principal \in Principals, NEW tenure \in Tenures,
         OpenFixedDeposit(payout, account, principal, tenure)
  PROVE  MInv'
<1> DEFINE debited == debit(accounts[payout], principal)
           funded == credit(open(0), principal)
           new == [ account |-> account, payout |-> payout, principal |-> principal,
                    tenure |-> tenure, opened |-> day, status |-> "active",
                    interest |-> 0 ]
           mid == [accounts EXCEPT ![payout] = debited]
<1>1. /\ accounts \in [AccountIds -> Account] /\ transfers \in Seq(Transfer)
      /\ accounts[payout] \in Account
      /\ principal \in Nat
      /\ account \in depositAccounts
      /\ ~isOpened(account)
      /\ canDebit(accounts[payout], AccountType[payout], principal)
      /\ fixedDeposits \in Seq(FixedDeposit)
  BY FixedDepositsAssumption
     DEF OpenFixedDeposit, isOpened, FInv, Tables, TypeOK
<1>2. debited \in Account /\ payout \notin depositAccounts
  BY <1>1, DebitIsTyped DEF depositAccounts
<1>3. /\ isSum(accounts[payout].balance, debited.balance, principal)
      /\ debited.hold = accounts[payout].hold
  BY <1>1, DebitMoves
<1>4. funded \in Account /\ funded.balance = principal /\ funded.hold = 0
  BY <1>1 DEF credit, open, Account, AccountStatuses
<1>5. accounts[account].balance = 0 /\ accounts[account].hold = 0
  BY <1>1 DEF FInv, AccountsOfDeposits, unopened, close, open
<1>6. /\ new \in FixedDeposit /\ new.account = account /\ new.principal = principal
      /\ new.status = "active" /\ new.interest = 0
  BY DEF FixedDeposit, FInv, Tables, TypeOK
<1>7. /\ accounts' = [mid EXCEPT ![account] = funded]
      /\ fixedDeposits' = Append(fixedDeposits, new)
      /\ transfers' = transfers
  BY DEF OpenFixedDeposit
<1> HIDE DEF debited, funded, new
<1>8. /\ mid \in [AccountIds -> Account] /\ mid[payout] = debited
      /\ \A a \in AccountIds \ {payout} : mid[a] = accounts[a]
  BY <1>1, <1>2
<1> HIDE DEF mid
<1>9. /\ accounts' \in [AccountIds -> Account] /\ accounts'[account] = funded
      /\ \A a \in AccountIds \ {account} : accounts'[a] = mid[a]
      /\ payout # account
  BY <1>1, <1>2, <1>4, <1>7, <1>8
<1> PICK accs \in [AccountIds -> Account] : accs = accounts'
  BY <1>9
<1>10. onAccounts(accs) = onAccounts(accounts) + 0
  <2> PICK between \in [AccountIds -> Account] : between = mid
    BY <1>8
  <2> PICK amount \in Nat : amount = principal
    BY <1>1
  <2>1. /\ isSum(balanceOf(accounts, payout), balanceOf(between, payout), amount)
        /\ \A a \in AccountIds \ {payout} : balanceOf(between, a) = balanceOf(accounts, a)
        /\ isSum(balanceOf(accs, account), balanceOf(accounts, account), amount)
        /\ \A a \in AccountIds \ {account} : balanceOf(accs, a) = balanceOf(between, a)
    BY <1>1, <1>3, <1>4, <1>5, <1>8, <1>9 DEF balanceOf, isSum
  <2>2. /\ accounts \in [AccountIds -> Account]
        /\ payout # account
    BY <1>1, <1>9
  <2> HIDE DEF debited, funded, new, mid
  <2> QED
    BY <2>1, <2>2, MovedMoneyStays
<1>11. \A a \in AccountIds : holdOf(accs, a) = holdOf(accounts, a)
  BY <1>3, <1>4, <1>5, <1>8, <1>9 DEF holdOf
<1> PICK fds : fds = fixedDeposits'
  OBVIOUS
<1>12. /\ interestPaid(fds) = interestPaid(fixedDeposits)
       /\ gone(transfers, fds) = gone(transfers, fixedDeposits)
  BY <1>6, <1>7, OpenedSums
<1>13. Tallied(accs, transfers, openings + interestPaid(fds) - gone(transfers, fds))
  <2> PICK base \in Int :
        base = openings + interestPaid(fixedDeposits) - gone(transfers, fixedDeposits)
    BY DepositSums
  <2>1. Tallied(accounts, transfers, base)
    BY DEF MInv, Funds
  <2>2. Tallied(accs, transfers, base + 0)
    BY <1>1, <1>10, <1>11, <2>1, MovedTallies
  <2>3. base + 0 = base
    OBVIOUS
  <2> QED
    BY <1>12, <2>2, <2>3
<1>14. Backed(accs, transfers, fds)
  <2> DEFINE n == Len(fixedDeposits) + 1
  <2>1. /\ 1..Len(fds) = DepositIds \cup {n}
        /\ fds[n] = new
        /\ \A g \in DepositIds : fds[g] = fixedDeposits[g]
    BY <1>1, <1>7 DEF DepositIds
  <2> HIDE DEF n
  <2>2. ASSUME NEW g \in DepositIds, fixedDeposits[g].status = "active"
        PROVE  /\ fixedDeposits[g].interest = 0
               /\ isSum(balanceOf(accs, fixedDeposits[g].account),
                        received(transfers, fixedDeposits[g].account),
                        fixedDeposits[g].principal)
    <3>1. fixedDeposits[g].account \in AccountIds \ {payout, account}
      BY <1>1, <1>2, <2>2 DEF FInv, AccountsOfDeposits, isOpened, depositAccounts
    <3>2. balanceOf(accs, fixedDeposits[g].account) = balanceOf(accounts, fixedDeposits[g].account)
      BY <1>8, <1>9, <3>1 DEF balanceOf
    <3> QED
      BY <2>2, <3>2 DEF MInv, Funds, Backed, DepositIds
  <2>3. isSum(balanceOf(accs, account), received(transfers, account), principal)
    <3>1. received(transfers, account) = 0
      BY <1>1, UnopenedWasSentNothing
    <3>2. balanceOf(accs, account) = principal
      BY <1>4, <1>9 DEF balanceOf
    <3> QED
      BY <1>1, <3>1, <3>2 DEF isSum
  <2> QED
    BY <1>6, <2>1, <2>2, <2>3 DEF Backed
<1>15. SentToOpened'
  <2>1. ASSUME NEW a, isOpened(a)
        PROVE  isOpened(a)'
    <3>1. DepositIds \subseteq DepositIds' /\ depositAccounts' = depositAccounts
      BY <1>1, <1>7 DEF DepositIds, depositAccounts
    <3>2. \A g \in DepositIds : fixedDeposits'[g] = fixedDeposits[g]
      BY <1>1, <1>7 DEF DepositIds
    <3> QED
      BY <2>1, <3>1, <3>2 DEF isOpened
  <2> QED
    BY <1>7, <2>1 DEF MInv, SentToOpened, TransferIds
<1>16. Funds(accounts', transfers', fixedDeposits')
  BY <1>7, <1>13, <1>14 DEF Funds
<1> QED
  BY <1>15, <1>16, FundsAreFunds

(* Paying f back: the sums over the table of deposits. *)
LEMMA PaidBackSums ==
  ASSUME FInv, MInv, NEW f \in DepositIds, isActiveDeposit(f), NEW interest \in Nat,
         NEW paid \in FixedDeposit, paid.interest = interest, paid.status # "active",
         paid.account = fixedDeposits[f].account,
         NEW fds, fds = [fixedDeposits EXCEPT ![f] = paid]
  PROVE  /\ isSum(interestPaid(fds), interestPaid(fixedDeposits), interest)
         /\ isSum(gone(transfers, fds), gone(transfers, fixedDeposits),
                  received(transfers, fixedDeposits[f].account))
<1> DEFINE rows == 1..Len(fixedDeposits)
<1>1. /\ fixedDeposits \in Seq(FixedDeposit) /\ IsFiniteSet(rows)
      /\ IsFiniteSet(paidBack(fixedDeposits))
      /\ paidBack(fixedDeposits) \subseteq rows
      /\ transfers \in Seq(Transfer)
      /\ \A g \in rows : fixedDeposits[g] \in FixedDeposit
      /\ f \in rows
      /\ fixedDeposits[f].interest = 0
  BY DepositSums DEF FInv, DepositIds, MInv, Funds, Backed, isActiveDeposit
<1>2. /\ 1..Len(fds) = rows /\ fds[f] = paid
      /\ \A g \in rows \ {f} : fds[g] = fixedDeposits[g]
  BY <1>1
<1>3. isSum(interestPaid(fds), interestPaid(fixedDeposits), interest)
  <2> DEFINE g == interestOf(fixedDeposits)
             h == interestOf(fds)
  <2>1. \A deposit \in FixedDeposit : deposit.interest \in Nat
    BY DEF FixedDeposit
  <2>2. /\ \A y \in rows : g[y] \in Nat
        /\ \A y \in rows \ {f} : h[y] = g[y]
        /\ g[f] = 0 /\ h[f] = interest
    BY <1>1, <1>2, <2>1 DEF interestOf
  <2>3. /\ interestPaid(fds) = SumFunctionOnSet(h, rows)
        /\ interestPaid(fixedDeposits) = SumFunctionOnSet(g, rows)
    BY <1>2 DEF interestPaid
  <2> HIDE DEF g, h, rows
  <2>4. \A y \in rows : g[y] \in Nat /\ h[y] \in Nat
    BY <2>2
  <2>5. SumFunctionOnSet(h, rows) + g[f] = SumFunctionOnSet(g, rows) + h[f]
    BY <1>1, <2>2, <2>4, SumOfUpdate
  <2>6. SumFunctionOnSet(h, rows) \in Nat /\ SumFunctionOnSet(g, rows) \in Nat
    BY <1>1, <2>4, SumTyped
  <2> QED
    BY <2>2, <2>3, <2>5, <2>6 DEF isSum
<1>4. isSum(gone(transfers, fds), gone(transfers, fixedDeposits),
            received(transfers, fixedDeposits[f].account))
  <2> DEFINE g == sentTo(transfers, fixedDeposits)
             h == sentTo(transfers, fds)
             old == paidBack(fixedDeposits)
  <2>1. paidBack(fds) = old \cup {f} /\ f \notin old
    BY <1>1, <1>2 DEF paidBack, isActiveDeposit
  <2>2. /\ \A y \in old : g[y] = h[y]
        /\ h[f] = received(transfers, fixedDeposits[f].account)
    BY <1>1, <1>2 DEF sentTo
  <2>3. \A y \in old \cup {f} : h[y] \in Nat
    BY <1>1, <1>2, ReceivedIsNat DEF sentTo
  <2>4. /\ gone(transfers, fds) = SumFunctionOnSet(h, old \cup {f})
        /\ gone(transfers, fixedDeposits) = SumFunctionOnSet(g, old)
        /\ IsFiniteSet(old)
    BY <1>1, <2>1 DEF gone
  <2> HIDE DEF g, h, old
  <2>5. SumFunctionOnSet(h, old \cup {f}) = h[f] + SumFunctionOnSet(h, old)
    BY <2>1, <2>3, <2>4, SumAdds
  <2>6. SumFunctionOnSet(g, old) = SumFunctionOnSet(h, old)
    BY <2>2, <2>4, SumSame
  <2>7. SumFunctionOnSet(h, old) \in Nat
    BY <2>3, <2>4, SumTyped
  <2> QED
    BY <2>2, <2>3, <2>4, <2>5, <2>6, <2>7 DEF isSum
<1> QED
  BY <1>3, <1>4

(* The account `own` is emptied of its principal and what it was sent, and *)
(* `payout` credited the principal and the interest.                       *)
PaidOut(accs, mid, new, own, payout, sent, principal, interest) ==
  /\ accs \in [AccountIds -> Account] /\ mid \in [AccountIds -> Account]
  /\ new \in [AccountIds -> Account]
  /\ own \in AccountIds /\ payout \in AccountIds /\ own # payout
  /\ sent \in Nat /\ principal \in Nat /\ interest \in Nat
  /\ isSum(balanceOf(accs, own), sent, principal)
  /\ balanceOf(mid, own) = 0
  /\ \A b \in AccountIds \ {own} : balanceOf(mid, b) = balanceOf(accs, b)
  /\ isSum(balanceOf(new, payout), balanceOf(accs, payout), principal + interest)
  /\ \A b \in AccountIds \ {payout} : balanceOf(new, b) = balanceOf(mid, b)

(* What the deposit was sent goes, the interest comes, the principal moves. *)
LEMMA PayBackMoves ==
  ASSUME NEW accs, NEW mid, NEW new, NEW own, NEW payout, NEW sent, NEW principal,
         NEW interest, PaidOut(accs, mid, new, own, payout, sent, principal, interest)
  PROVE  onAccounts(new) = onAccounts(accs) + (interest - sent)
<1> USE DEF PaidOut
<1>1. /\ onAccounts(mid) + balanceOf(accs, own) = onAccounts(accs) + balanceOf(mid, own)
      /\ onAccounts(accs) \in Nat /\ onAccounts(mid) \in Nat
  BY WriteSums
<1>2. isSum(balanceOf(new, payout), balanceOf(mid, payout), principal + interest)
  OBVIOUS
<1>3. isSum(onAccounts(new), onAccounts(mid), principal + interest)
  <2> PICK amount \in Nat : amount = principal + interest
    OBVIOUS
  <2>1. isSum(balanceOf(new, payout), balanceOf(mid, payout), amount)
    BY <1>2
  <2>2. isSum(onAccounts(new), onAccounts(mid), amount)
    BY <2>1, CreditSums
  <2> QED
    BY <2>2
<1>4. onAccounts(mid) + sent + principal = onAccounts(accs)
  BY <1>1 DEF isSum
<1> QED
  BY <1>1, <1>3, <1>4 DEF isSum

LEMMA PayBackKeepsFunds ==
  ASSUME FInv, MInv, NEW f \in DepositIds, NEW interest \in Nat,
         NEW status \in {"matured", "premature_closed"},
         canPayBack(f, interest), payBack(f, interest, status), UNCHANGED transfers
  PROVE  MInv'
<1> DEFINE own == fixedDeposits[f].account
           payout == fixedDeposits[f].payout
           principal == fixedDeposits[f].principal
           credited == credit(accounts[payout], principal + interest)
           emptied == close(zeroFixedDepositPrincipal(accounts[own]))
           paid == [fixedDeposits[f] EXCEPT !.status = status, !.interest = interest]
           mid == [accounts EXCEPT ![own] = emptied]
<1>1. /\ own \in AccountIds /\ own \in depositAccounts
      /\ payout \in AccountIds /\ payout \notin depositAccounts
      /\ principal \in Nat /\ principal + interest \in Nat
      /\ fixedDeposits[f] \in FixedDeposit /\ f \in 1..Len(fixedDeposits)
  BY SMTT(30), DepositIsTyped DEF FInv, AccountsOfDeposits, depositAccounts, DepositIds
<1>2. /\ accounts \in [AccountIds -> Account] /\ transfers \in Seq(Transfer)
      /\ accounts[own] \in Account /\ accounts[payout] \in Account
      /\ fixedDeposits \in Seq(FixedDeposit)
  BY <1>1 DEF FInv, Tables, TypeOK
<1>3. credited \in Account
  BY <1>1, <1>2, CreditIsTyped
<1>4. /\ isSum(credited.balance, accounts[payout].balance, principal + interest)
      /\ credited.hold = accounts[payout].hold
  BY <1>1, <1>2, CreditMoves
<1>5. /\ emptied \in Account /\ emptied.balance = 0 /\ emptied.hold = 0
      /\ accounts[own].hold = 0
  <2> DEFINE acc == accounts[own]
  <2>1. /\ acc \in Account /\ acc.hold = 0
        /\ emptied = close(zeroFixedDepositPrincipal(acc))
    BY <1>2 DEF canPayBack, canClose, zeroFixedDepositPrincipal, Account
  <2> HIDE DEF acc, emptied, own, credited, paid, principal
  <2>2. emptied = [status |-> "Closed", balance |-> 0, hold |-> 0]
    BY <2>1 DEF close, zeroFixedDepositPrincipal, Account
  <2> QED
    BY <2>1, <2>2 DEF Account, AccountStatuses, acc
<1>6. isActiveDeposit(f)
  BY DEF canPayBack
<1>7. /\ paid \in FixedDeposit /\ paid.account = own
      /\ paid.status # "active" /\ paid.interest = interest
  BY <1>1 DEF FixedDeposit
<1>8. /\ accounts' = [mid EXCEPT ![payout] = credited]
      /\ fixedDeposits' = [fixedDeposits EXCEPT ![f] = paid]
  BY <1>1, <1>2 DEF payBack
<1>9. isSum(balanceOf(accounts, own), received(transfers, own), principal)
  BY <1>1, <1>6 DEF MInv, Funds, Backed, isActiveDeposit
<1> HIDE DEF credited, emptied, paid, own, payout, principal
<1>10. /\ mid \in [AccountIds -> Account] /\ mid[own] = emptied
       /\ \A a \in AccountIds \ {own} : mid[a] = accounts[a]
  BY <1>1, <1>2, <1>5
<1> HIDE DEF mid
<1>11. /\ accounts' \in [AccountIds -> Account] /\ accounts'[payout] = credited
       /\ \A a \in AccountIds \ {payout} : accounts'[a] = mid[a]
       /\ own # payout
  BY <1>1, <1>3, <1>8, <1>10
<1> PICK accs \in [AccountIds -> Account] : accs = accounts'
  BY <1>11
<1> PICK fds : fds = fixedDeposits'
  OBVIOUS
<1> PICK sent \in Nat : sent = received(transfers, own)
  BY <1>2, ReceivedIsNat
<1> PICK gain \in Int : gain = interest - sent
  OBVIOUS
<1>12. onAccounts(accs) = onAccounts(accounts) + gain
  <2>1. /\ balanceOf(mid, own) = 0
        /\ \A b \in AccountIds \ {own} : balanceOf(mid, b) = balanceOf(accounts, b)
        /\ \A b \in AccountIds \ {payout} : balanceOf(accs, b) = balanceOf(mid, b)
    BY <1>1, <1>5, <1>10, <1>11 DEF balanceOf
  <2>2. isSum(balanceOf(accs, payout), balanceOf(accounts, payout), principal + interest)
    BY <1>4, <1>11 DEF balanceOf
  <2>3. PaidOut(accounts, mid, accs, own, payout, sent, principal, interest)
    BY <1>1, <1>2, <1>9, <1>10, <1>11, <2>1, <2>2 DEF PaidOut
  <2>4. onAccounts(accs) = onAccounts(accounts) + (interest - sent)
    BY <2>3, PayBackMoves
  <2> QED
    BY <2>4
<1>13. \A a \in AccountIds : holdOf(accs, a) = holdOf(accounts, a)
  BY <1>4, <1>5, <1>10, <1>11 DEF holdOf
<1>14. /\ isSum(interestPaid(fds), interestPaid(fixedDeposits), interest)
       /\ isSum(gone(transfers, fds), gone(transfers, fixedDeposits), sent)
  BY <1>6, <1>7, <1>8, PaidBackSums DEF own
<1>15. Tallied(accs, transfers, openings + interestPaid(fds) - gone(transfers, fds))
  <2> PICK i \in Nat : i = interestPaid(fixedDeposits)
    BY DepositSums
  <2> PICK g \in Nat : g = gone(transfers, fixedDeposits)
    BY DepositSums
  <2> PICK o \in Nat : o = openings
    BY DepositSums
  <2> PICK base \in Int : base = o + i - g
    OBVIOUS
  <2>1. Tallied(accounts, transfers, base)
    BY DEF MInv, Funds
  <2>2. Tallied(accs, transfers, base + gain)
    BY <1>2, <1>12, <1>13, <2>1, MovedTallies
  <2>3. base + gain = openings + interestPaid(fds) - gone(transfers, fds)
    BY <1>14 DEF isSum
  <2> QED
    BY <2>2, <2>3
<1>16. Backed(accs, transfers, fds)
  <2>1. /\ 1..Len(fds) = DepositIds /\ fds[f] = paid
        /\ \A g \in DepositIds \ {f} : fds[g] = fixedDeposits[g]
    BY <1>1, <1>2, <1>8 DEF DepositIds
  <2>2. ASSUME NEW g \in DepositIds \ {f}, fixedDeposits[g].status = "active"
        PROVE  /\ fixedDeposits[g].interest = 0
               /\ isSum(balanceOf(accs, fixedDeposits[g].account),
                        received(transfers, fixedDeposits[g].account),
                        fixedDeposits[g].principal)
    <3>1. fixedDeposits[g].account \in AccountIds \ {own, payout}
      BY <1>1 DEF FInv, AccountsOfDeposits, depositAccounts, own
    <3>2. balanceOf(accs, fixedDeposits[g].account) = balanceOf(accounts, fixedDeposits[g].account)
      BY <1>10, <1>11, <3>1 DEF balanceOf
    <3> QED
      BY <2>2, <3>2 DEF MInv, Funds, Backed, DepositIds
  <2> QED
    BY <1>7, <2>1, <2>2 DEF Backed
<1>17. SentToOpened'
  <2>1. /\ DepositIds' = DepositIds /\ depositAccounts' = depositAccounts
        /\ \A g \in DepositIds : fixedDeposits'[g].account = fixedDeposits[g].account
    BY <1>2, <1>7, <1>8 DEF DepositIds, depositAccounts, own
  <2>2. \A a : isOpened(a) => isOpened(a)'
    BY <2>1 DEF isOpened
  <2> QED
    BY <2>2 DEF MInv, SentToOpened, TransferIds
<1>18. Funds(accounts', transfers', fixedDeposits')
  BY <1>15, <1>16 DEF Funds
<1> QED
  BY <1>17, <1>18, FundsAreFunds

LEMMA QuietKeepsFunds ==
  ASSUME MInv, UNCHANGED <<accounts, transfers, fixedDeposits>>
  PROVE  MInv'
<1>1. /\ transfers' = transfers /\ fixedDeposits' = fixedDeposits
      /\ Funds(accounts', transfers', fixedDeposits')
  BY DEF MInv
<1>2. SentToOpened'
  BY <1>1 DEF MInv, SentToOpened, TransferIds, isOpened, DepositIds, depositAccounts
<1> QED
  BY <1>1, <1>2, FundsAreFunds

LEMMA DepositsInitHasFunds ==
  ASSUME DepositsInit
  PROVE  MInv
<1>1. /\ \A a \in AccountIds :
           accounts[a].balance = OpeningBalance[a] /\ holdOf(accounts, a) = 0
      /\ Rows(transfers) = {} /\ TransferIds = {} /\ Len(fixedDeposits) = 0
  <2>1. /\ \A b \in Nat : open(b).balance = b /\ open(b).hold = 0
        /\ unopened.balance = 0 /\ unopened.hold = 0
    BY DEF open, close, unopened
  <2>2. \A a \in depositAccounts : OpeningBalance[a] = 0
    BY FixedDepositsAssumption DEF depositAccounts
  <2>3. \A a \in AccountIds : OpeningBalance[a] \in Nat
    BY PaymentsAssumption
  <2> QED
    BY <2>1, <2>2, <2>3 DEF DepositsInit, holdOf, Rows, TransferIds
<1>2. /\ \A a \in AccountIds :
           pendingOf(transfers, a) = {} /\ keptHolds(transfers, a) = {}
      /\ toSelf(transfers) = {} /\ faucets(transfers) = {}
  BY <1>1 DEF pendingOf, keptHolds, toSelf, faucets
<1>3. total(transfers, {}) = 0
  BY SumEmpty DEF total
<1>4. onAccounts(accounts) = openings /\ openings \in Nat
  <2>1. OpeningBalance = [a \in AccountIds |-> accounts[a].balance]
    BY <1>1, PaymentsAssumption
  <2>2. IsFiniteSet(AccountIds) /\ \A a \in AccountIds : OpeningBalance[a] \in Nat
    BY PaymentsAssumption
  <2>3. openings \in Nat
    BY <2>2, SumTyped DEF openings
  <2> QED
    BY <2>1, <2>3 DEF onAccounts, openings
<1>5. interestPaid(fixedDeposits) = 0 /\ gone(transfers, fixedDeposits) = 0
  <2>1. 1..Len(fixedDeposits) = {} /\ paidBack(fixedDeposits) = {}
    BY <1>1 DEF paidBack
  <2> QED
    BY <2>1, SumEmpty DEF interestPaid, gone
<1>6. Tallied(accounts, transfers,
              openings + interestPaid(fixedDeposits) - gone(transfers, fixedDeposits))
  <2>1. openings + interestPaid(fixedDeposits) - gone(transfers, fixedDeposits) = openings
    BY <1>4, <1>5
  <2>2. Accounted(accounts, transfers)
    <3>1. \A a \in AccountIds :
            /\ holdOf(accounts, a) = 0
            /\ total(transfers, pendingOf(transfers, a)) = 0
            /\ total(transfers, keptHolds(transfers, a)) = 0
      BY <1>1, <1>2, <1>3
    <3> QED
      BY <3>1 DEF Accounted
  <2>3. Conserved(accounts, transfers, openings)
    BY <1>2, <1>3, <1>4 DEF Conserved
  <2>4. PendingOnBatchRail(transfers)
    BY <1>1 DEF PendingOnBatchRail
  <2> QED
    BY <2>1, <2>2, <2>3, <2>4 DEF Tallied
<1>7. Backed(accounts, transfers, fixedDeposits) /\ SentToOpened
  BY <1>1 DEF Backed, SentToOpened
<1> QED
  BY <1>6, <1>7 DEF MInv, Funds

LEMMA DepositsNextKeepsFunds ==
  ASSUME FInv, MInv, [DepositsNext]_depositsVars
  PROVE  MInv'
<1>1. CASE PaymentsStep
  <2>1. /\ [Next]_vars /\ UNCHANGED fixedDeposits
        /\ \A t \in DOMAIN transfers' : isOpened(transfers'[t].to)
    BY <1>1 DEF PaymentsStep, depositVars
  <2>2. AllSpared
    BY <2>1, NextSpares DEF FInv
  <2> QED
    BY <2>1, <2>2, PaymentsStepKeepsFunds
<1>2. ASSUME NEW payout \in AccountIds, NEW account \in AccountIds,
             NEW principal \in Principals, NEW tenure \in Tenures,
             OpenFixedDeposit(payout, account, principal, tenure)
      PROVE  MInv'
  BY <1>2, OpenKeepsFunds
<1>3. ASSUME NEW f \in DepositIds, PrematureCloseFixedDeposit(f)
      PROVE  MInv'
  BY <1>3, InterestIsNat, PayBackKeepsFunds DEF PrematureCloseFixedDeposit
<1>4. ASSUME NEW f \in DepositIds, Mature(f)
      PROVE  MInv'
  BY <1>4, InterestIsNat, PayBackKeepsFunds DEF Mature
<1>5. ASSUME NEW f \in DepositIds, MatureFails(f)
      PROVE  MInv'
  BY <1>5, QuietKeepsFunds DEF MatureFails, vars
<1>6. CASE MatureTick \/ CrashMaturing \/ UNCHANGED depositsVars
  BY <1>6, QuietKeepsFunds DEF MatureTick, CrashMaturing, depositsVars, depositVars, vars
<1> QED
  BY <1>1, <1>2, <1>3, <1>4, <1>5, <1>6 DEF DepositsNext, DepositsStep, MatureStep
-----------------------------------------------------------------------------
(* The sums of deposits, payments and interest agree. *)
THEOREM FundsAgree == DepositsSpec => []MInv
BY DepositsInitIsInv, DepositsInitHasFunds, DepositsNextKeepsInv, DepositsNextKeepsFunds,
   DepositsInvariance, PTL DEF DepositsSpec

(* An active deposit has its principal and what it was sent on its account *)
(* and not a unit more or less; one paid back has nothing.                 *)
THEOREM DepositsAreBacked == DepositsSpec => []DepositsBacked
<1>1. FInv /\ MInv => DepositsBacked
  <2> SUFFICES ASSUME FInv, MInv
               PROVE  DepositsBacked
    OBVIOUS
  <2>1. \A f \in DepositIds : topUps(f) = received(transfers, fixedDeposits[f].account)
    BY DEF topUps, received, postedTo, total, sumAmounts, Rows, TransferIds
  <2>2. ASSUME NEW f \in DepositIds, isActiveDeposit(f)
        PROVE  /\ accounts[fixedDeposits[f].account].status # "Closed"
               /\ accounts[fixedDeposits[f].account].balance
                    = fixedDeposits[f].principal + topUps(f)
    <3>1. accounts[fixedDeposits[f].account].status # "Closed"
      BY <2>2 DEF FInv, PrincipalLocked
    <3>2. isSum(balanceOf(accounts, fixedDeposits[f].account), topUps(f),
                fixedDeposits[f].principal)
      BY <2>1, <2>2 DEF MInv, Funds, Backed, DepositIds, isActiveDeposit
    <3>3. topUps(f) \in Nat /\ fixedDeposits[f].principal \in Nat
      BY <2>1, DepositSums, ReceivedIsNat, DepositIsTyped
    <3> QED
      BY <3>1, <3>2, <3>3 DEF isSum, balanceOf
  <2>3. \A f \in DepositIds : ~isActiveDeposit(f) => accounts[fixedDeposits[f].account] = unopened
    BY DEF FInv, PrincipalLocked
  <2> QED
    BY <2>2, <2>3 DEF DepositsBacked
<1> QED
  BY <1>1, DepositsInvariance, FundsAgree, PTL

(* Deposits neither make nor lose money, but for the interest they pay and *)
(* for what others sent them.                                              *)
THEOREM MoneyIsConservedWithInterest == DepositsSpec => []MoneyConservedWithInterest
<1>1. FInv /\ MInv => MoneyConservedWithInterest
  <2> SUFFICES ASSUME FInv, MInv
               PROVE  MoneyConservedWithInterest
    OBVIOUS
  <2> DEFINE gifts == sumAmounts({ t \in TransferIds : transfers[t].kind = "faucet" })
             made == sumAmounts(postedToSelf)
             lost == SumFunctionOnSet([f \in DepositIds |-> topUps(f)],
                                      { f \in DepositIds : ~isActiveDeposit(f) })
             paid == SumFunctionOnSet([f \in DepositIds |-> fixedDeposits[f].interest],
                                      DepositIds)
  <2>1. /\ gifts = total(transfers, faucets(transfers))
        /\ made = total(transfers, toSelf(transfers))
        /\ sumBalances = onAccounts(accounts)
    BY DEF total, sumAmounts, faucets, toSelf, postedToSelf, onAccounts, sumBalances,
           Rows, TransferIds
  <2>2. paid = interestPaid(fixedDeposits)
    BY DEF interestPaid, interestOf, DepositIds
  <2>3. lost = gone(transfers, fixedDeposits)
    <3>1. [f \in DepositIds |-> topUps(f)] = sentTo(transfers, fixedDeposits)
      BY DEF topUps, received, postedTo, total, sumAmounts, Rows, TransferIds, sentTo,
             DepositIds
    <3>2. { f \in DepositIds : ~isActiveDeposit(f) } = paidBack(fixedDeposits)
      BY DEF isActiveDeposit, paidBack, DepositIds
    <3> QED
      BY <3>1, <3>2 DEF gone
  <2>4. onAccounts(accounts)
          = (openings + paid - lost) + gifts + made
    BY <2>1, <2>2, <2>3 DEF MInv, Funds, Tallied, Conserved
  <2>5. openings \in Nat /\ paid \in Nat /\ lost \in Nat /\ gifts \in Nat /\ made \in Nat
    <3>1. transfers \in Seq(Transfer)
      BY DepositSums
    <3> QED
      BY <2>1, <2>2, <2>3, <3>1, DepositSums, TalliesAreNat
  <2> HIDE DEF gifts, made, lost, paid
  <2>6. sumBalances + lost = openings + gifts + made + paid
    BY <2>1, <2>4, <2>5
  <2> QED
    BY <2>6 DEF MoneyConservedWithInterest, openings, gifts, made, lost, paid
<1> QED
  BY <1>1, DepositsInvariance, FundsAgree, PTL
-----------------------------------------------------------------------------
(* Early closure.  Fewer months earn no more, and a penalty is not a bonus,*)
(* whether what has accrued is positive or (before the day of opening) not.*)
LEMMA ProductIsMonotone ==
  \A k \in Nat : \A i, j \in Int : i <= j => k * i <= k * j
<1> SUFFICES ASSUME NEW k \in Nat, NEW i \in Int, NEW j \in Int, i <= j
             PROVE  k * i <= k * j
  OBVIOUS
<1>1. k * (j - i) >= 0
  <2> PICK d \in Nat : d = j - i
    OBVIOUS
  <2>1. k * d >= 0
    OBVIOUS
  <2> QED
    BY <2>1
<1>2. k * (j - i) = k * j - k * i
  OBVIOUS
<1>3. k * i \in Int /\ k * j \in Int
  OBVIOUS
<1> QED
  BY <1>1, <1>2, <1>3

LEMMA InterestIsMonotone ==
  ASSUME FInv, NEW f \in DepositIds, NEW i \in Int, NEW j \in Int, i <= j
  PROVE  simpleInterest(f, i) <= simpleInterest(f, j)
<1> DEFINE p == fixedDeposits[f].principal
           r == RateBps[fixedDeposits[f].tenure]
<1>1. p \in Nat /\ r \in Nat
  BY DepositIsTyped
<1>2. /\ simpleInterest(f, i) = ((p * r) * i) \div (12 * 10000)
      /\ simpleInterest(f, j) = ((p * r) * j) \div (12 * 10000)
  BY DEF simpleInterest
<1> HIDE DEF p, r
<1> PICK k \in Nat : k = p * r
  BY <1>1
<1>3. k * i <= k * j /\ k * i \in Int /\ k * j \in Int
  BY ProductIsMonotone
<1>4. \A m, n \in Int : m <= n => m \div (12 * 10000) <= n \div (12 * 10000)
  OBVIOUS
<1>5. (k * i) \div (12 * 10000) <= (k * j) \div (12 * 10000)
  BY <1>3, <1>4
<1> QED
  BY <1>2, <1>5

LEMMA PercentOf ==
  \A n \in Int : n \div 10000 \in Int
OBVIOUS

LEMMA TakenPercent ==
  \A a, n \in Int :
    (a >= 0 => n >= 0) /\ (a < 0 => n >= a * 10000)
      => a - n \div 10000 <= a \/ a - n \div 10000 <= 0
OBVIOUS

penaltyOn(a) == (a * PenaltyBps) \div 10000

LEMMA PenaltyIsNoBonus ==
  ASSUME NEW a \in Int
  PROVE  penaltyOn(a) \in Int /\ (a - penaltyOn(a) <= a \/ a - penaltyOn(a) <= 0)
<1> PICK p \in 0..10000 : p = PenaltyBps
  BY FixedDepositsAssumption
<1> DEFINE share == a * p
<1>1. share \in Int /\ (a >= 0 => share >= 0) /\ (a < 0 => share >= a * 10000)
  <2>1. CASE a >= 0
    BY <2>1
  <2>2. CASE a < 0
    <3> PICK b \in Nat : b = 0 - a
      BY <2>2
    <3>1. b * p <= b * 10000 /\ b * p \in Int
      BY ProductIsMonotone
    <3>2. share = 0 - b * p
      OBVIOUS
    <3> QED
      BY <2>2, <3>1, <3>2
  <2> QED
    BY <2>1, <2>2
<1>2. penaltyOn(a) = share \div 10000
  BY DEF penaltyOn
<1> HIDE DEF share
<1>3. share \div 10000 \in Int
  BY <1>1, PercentOf
<1>4. a - share \div 10000 <= a \/ a - share \div 10000 <= 0
  BY <1>1, TakenPercent
<1> QED
  BY <1>2, <1>3, <1>4

LEMMA EarlyIsLess ==
  ASSUME FInv, NEW f \in DepositIds
  PROVE  prematureInterest(f) <= maturityInterest(f)
<1> PICK elapsed \in Int : elapsed = monthsElapsed(f)
  BY DepositIsTyped
<1> PICK tenure \in Nat : tenure = fixedDeposits[f].tenure
  BY DepositIsTyped
<1>2. accruedInterest(f) <= maturityInterest(f) /\ accruedInterest(f) \in Int
  <2>1. Min({elapsed, tenure}) \in Int /\ Min({elapsed, tenure}) <= tenure
    BY BoundsOfTwo
  <2> PICK months : months = Min({elapsed, tenure})
    OBVIOUS
  <2>2. simpleInterest(f, months) <= simpleInterest(f, tenure)
    BY <2>1, InterestIsMonotone
  <2>3. simpleInterest(f, months) \in Int
    BY <2>1, SimpleInterestIsInt
  <2> QED
    BY <2>2, <2>3 DEF accruedInterest, maturityInterest
<1>3. maturityInterest(f) \in Nat
  BY InterestIsNat
<1> PICK a \in Int : a = accruedInterest(f)
  BY <1>2
<1> PICK m \in Nat : m = maturityInterest(f)
  BY <1>3
<1> PICK e \in Int : e = a - penaltyOn(a)
  BY PenaltyIsNoBonus
<1>6. e <= a \/ e <= 0
  BY PenaltyIsNoBonus
<1>7. prematureInterest(f) = Max({0, e})
  BY DEF prematureInterest, penaltyOn
<1>8. prematureInterest(f) = 0 \/ prematureInterest(f) = e
  BY BoundsOfTwo, <1>7
<1> QED
  BY <1>2, <1>6, <1>8

(* What maturity would pay is known from the day of opening. *)
LEMMA PaidBackKeepsEarly ==
  ASSUME FInv, EarlyNeverPaysMore, NEW f \in DepositIds, NEW interest \in Nat,
         NEW status \in {"matured", "premature_closed"},
         payBack(f, interest, status),
         status = "premature_closed" => interest <= maturityInterest(f)
  PROVE  EarlyNeverPaysMore'
<1> DEFINE paid == [fixedDeposits[f] EXCEPT !.status = status, !.interest = interest]
<1>1. fixedDeposits \in Seq(FixedDeposit) /\ fixedDeposits[f] \in FixedDeposit
  BY DEF FInv, DepositIds
<1>2. /\ paid.principal = fixedDeposits[f].principal
      /\ paid.tenure = fixedDeposits[f].tenure
      /\ paid.status = status /\ paid.interest = interest
  BY <1>1 DEF FixedDeposit
<1>3. fixedDeposits' = [fixedDeposits EXCEPT ![f] = paid]
  BY DEF payBack
<1> HIDE DEF paid
<1>4. /\ DepositIds' = DepositIds /\ fixedDeposits'[f] = paid
      /\ \A g \in DepositIds \ {f} : fixedDeposits'[g] = fixedDeposits[g]
  BY <1>1, <1>3 DEF DepositIds
<1>5. \A g \in DepositIds : maturityInterest(g)' = maturityInterest(g)
  BY <1>2, <1>4 DEF maturityInterest, simpleInterest
<1> QED
  BY <1>2, <1>4, <1>5 DEF EarlyNeverPaysMore

LEMMA NextKeepsEarly ==
  ASSUME FInv, EarlyNeverPaysMore, [DepositsNext]_depositsVars
  PROVE  EarlyNeverPaysMore'
<1>1. CASE UNCHANGED fixedDeposits
  BY <1>1 DEF EarlyNeverPaysMore, DepositIds, maturityInterest, simpleInterest
<1>2. ASSUME NEW payout \in AccountIds, NEW account \in AccountIds,
             NEW principal \in Principals, NEW tenure \in Tenures,
             OpenFixedDeposit(payout, account, principal, tenure)
      PROVE  EarlyNeverPaysMore'
  <2> DEFINE new == [ account |-> account, payout |-> payout, principal |-> principal,
                      tenure |-> tenure, opened |-> day, status |-> "active",
                      interest |-> 0 ]
  <2>1. /\ fixedDeposits' = Append(fixedDeposits, new)
        /\ fixedDeposits \in Seq(FixedDeposit)
    BY <1>2 DEF OpenFixedDeposit, FInv
  <2>2. new.status # "premature_closed"
    OBVIOUS
  <2> HIDE DEF new
  <2>3. /\ DepositIds' = DepositIds \cup {Len(fixedDeposits) + 1}
        /\ fixedDeposits'[Len(fixedDeposits) + 1] = new
        /\ \A g \in DepositIds : fixedDeposits'[g] = fixedDeposits[g]
    BY <2>1 DEF DepositIds
  <2>4. \A g \in DepositIds : maturityInterest(g)' = maturityInterest(g)
    BY <2>3 DEF maturityInterest, simpleInterest
  <2> QED
    BY <2>2, <2>3, <2>4 DEF EarlyNeverPaysMore
<1>3. ASSUME NEW f \in DepositIds, PrematureCloseFixedDeposit(f)
      PROVE  EarlyNeverPaysMore'
  BY <1>3, InterestIsNat, EarlyIsLess, PaidBackKeepsEarly DEF PrematureCloseFixedDeposit
<1>4. ASSUME NEW f \in DepositIds, Mature(f)
      PROVE  EarlyNeverPaysMore'
  BY <1>4, InterestIsNat, PaidBackKeepsEarly DEF Mature
<1>5. CASE PaymentsStep \/ MatureTick \/ CrashMaturing \/ UNCHANGED depositsVars
  BY <1>1, <1>5 DEF PaymentsStep, MatureTick, CrashMaturing, depositsVars, depositVars
<1>6. CASE \E f \in DepositIds : MatureFails(f)
  BY <1>1, <1>6 DEF MatureFails
<1> QED
  BY <1>2, <1>3, <1>4, <1>5, <1>6 DEF DepositsNext, DepositsStep, MatureStep

(* A customer who closes a deposit early is never paid more interest than  *)
(* the maturity tick would have paid, whatever the rates, the penalty, the *)
(* day and the order of tick and closure.                                  *)
THEOREM EarlyPaysNoMore == DepositsSpec => []EarlyNeverPaysMore
<1>1. DepositsInit => EarlyNeverPaysMore
  BY DEF DepositsInit, EarlyNeverPaysMore, DepositIds
<1> QED
  BY <1>1, NextKeepsEarly, DepositsInvariance, PTL DEF DepositsSpec
=============================================================================
