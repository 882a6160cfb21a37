------------------------------ MODULE Payments ------------------------------
(***************************************************************************)
(* Money movement: the accounts, transfers and ledger_entries tables and   *)
(* every operation of the payments and bills contexts that writes them,    *)
(* with the freezing and closing of accounts that interferes.              *)
(*                                                                         *)
(* better-sqlite3 is synchronous and the server is one Node process: a     *)
(* request's SQL transaction is one step.  The settlement tick is a loop   *)
(* of one transaction per pending transfer.  No request runs inside the    *)
(* loop, but the process can stop between two of its transactions, so the  *)
(* loop is a step per transfer and `batch` holds what it has yet to visit. *)
(* In the same way an IMPS or UPI request is two transactions, the second  *)
(* of which writes the UTR of the transfer `stamping` names.               *)
(* A call that throws, or whose idempotency key is known, changes nothing  *)
(* and is a stuttering step.                                               *)
(*                                                                         *)
(* The model starts at a snapshot of the accounts (a fixed deposit is      *)
(* funded when it is opened, without a transfer): transfers and ledger     *)
(* hold the rows written since.  `day` is the calendar day of the clock.   *)
(***************************************************************************)
EXTENDS Accounts, Sequences, FiniteSetsExt

CONSTANTS
  AccountIds,         \* ids of the account rows
  AccountType,        \* accountType of each account; never updated
  AccountOwner,       \* userId of each account; never updated
  OpeningBalance,     \* balance of each account in the snapshot
  BillerAccounts,     \* accounts that collect for an active biller
  KycApproved,        \* users with an approved KYC application (tier "full")
  Keys,               \* idempotency keys clients choose
  InstructionKeys,    \* keys si:<id>:<nextRunAt> of runs of instructions
  NoKey,              \* no idempotency key
  NoAccount,          \* fromAccountId of a faucet deposit
  Amounts,            \* amounts requests carry
  InstantRails,       \* rails of executeTransfer: internal, imps, upi
  PerTransactionMax,  \* PER_TRANSACTION_MAX_MINOR
  PerBillMax,         \* PER_BILL_MAX_MINOR
  FaucetMax,          \* FAUCET_MAX_MINOR
  DailyLimit,         \* dailyLimitMinor of tier "full"
  MonthlyLimit,       \* monthlyLimitMinor of tier "full"
  DaysPerMonth,       \* length of a calendar month
  MaxTransfers,       \* bound: rows of the transfers table
  MaxDay,             \* bound: days the clock runs
  MaxUtrs,            \* bound: UTRs one row is given
  MaxCrashes          \* bound: process stops between two transactions

ASSUME PaymentsAssumption ==
  /\ IsFiniteSet(AccountIds)
  /\ AccountType \in [AccountIds -> AccountTypes]
  /\ OpeningBalance \in [AccountIds -> Nat]
  /\ BillerAccounts \subseteq AccountIds
  /\ NoAccount \notin AccountIds
  /\ InstructionKeys \subseteq Keys
  /\ NoKey \notin Keys
  /\ Amounts \subseteq Nat \ {0}
  /\ InstantRails \subseteq {"internal", "imps", "upi"}
  /\ DailyLimit \in Nat
  /\ MonthlyLimit \in Nat
  /\ DaysPerMonth \in Nat \ {0}
  /\ MaxTransfers \in Nat
  /\ MaxDay \in Nat
  /\ MaxUtrs \in Nat
  /\ MaxCrashes \in Nat

BatchRails == {"neft", "rtgs"}

VARIABLES
  accounts,   \* the accounts table
  transfers,  \* the transfers table, in insertion order
  ledger,     \* the ledger_entries of each account, in insertion order
  batch,      \* transfers the settlement tick has yet to visit
  stamping,   \* transfer an IMPS or UPI request has yet to give a UTR, or 0
  day,        \* today
  crashes     \* process stops so far

vars == <<accounts, transfers, ledger, batch, stamping, day, crashes>>

Transfer ==
  [ from     : AccountIds \cup {NoAccount},
    to       : AccountIds,
    amount   : Amounts,
    key      : Keys \cup {NoKey},
    kind     : {"transfer", "faucet", "reversal"},
    status   : {"pending", "posted"},
    rail     : InstantRails \cup BatchRails \cup {"internal"},
    category : {"p2p", "self", "bill", "card", "faucet"},
    utr      : Nat,            \* UTRs generated for the row so far
    day      : 0..MaxDay ]

Row ==
  [ transfer : Nat,
    kind     : {"debit", "credit"},
    amount   : Amounts,
    running  : Nat ]

Init ==
  /\ accounts = [a \in AccountIds |-> open(OpeningBalance[a])]
  /\ transfers = << >>
  /\ ledger = [a \in AccountIds |-> << >>]
  /\ batch = {}
  /\ stamping = 0
  /\ day = 0
  /\ crashes = 0

-----------------------------------------------------------------------------
(* Reads of the tables. *)

TransferIds == 1..Len(transfers)

isPending(t) == transfers[t].status = "pending"

(* Faulty variant: a key is not known before its transfer is settled. *)
keyPosted(key) ==
  /\ key # NoKey
  /\ \E t \in TransferIds : transfers[t].key = key /\ ~isPending(t)

keyUsed(key) == key # NoKey /\ \E t \in TransferIds : transfers[t].key = key

hasBankingAccess(user) ==
  /\ user \in KycApproved
  /\ \E a \in AccountIds : AccountOwner[a] = user /\ isActive(accounts[a])

sumAmounts(S) == SumFunctionOnSet([t \in TransferIds |-> transfers[t].amount], S)

(* Faulty variant: the first instant of the window is left out. *)
usedAfter(user, first) ==
  sumAmounts({ t \in TransferIds :
                 /\ transfers[t].from # NoAccount
                 /\ AccountOwner[transfers[t].from] = user
                 /\ transfers[t].status = "posted"
                 /\ transfers[t].day > first })

(* Posted outbound transfers of every kind count, pending ones do not. *)
usedSince(user, first) ==
  sumAmounts({ t \in TransferIds :
                 /\ transfers[t].from # NoAccount
                 /\ AccountOwner[transfers[t].from] = user
                 /\ transfers[t].status = "posted"
                 /\ transfers[t].day >= first })

checkAggregateLimits(user, amount) ==
  /\ usedSince(user, day) + amount <= DailyLimit
  /\ usedSince(user, day - (day % DaysPerMonth)) + amount <= MonthlyLimit

categoryOf(from, to) ==
  IF AccountOwner[from] = AccountOwner[to] THEN "self" ELSE "p2p"
-----------------------------------------------------------------------------
(* Writes every payment makes. *)

ledgerRow(t, kind, amount, acc) ==
  [transfer |-> t, kind |-> kind, amount |-> amount, running |-> acc.balance]

(* ledgerRepo.insert *)
insertRow(rows, a, row) == [rows EXCEPT ![a] = Append(@, row)]

(* Faulty variant: the credit row is forgotten. *)
insertDebitRow(t, from, to, amount, debited, credited) ==
  ledger' = insertRow(ledger, from, ledgerRow(t, "debit", amount, debited))

(* The debit row is inserted before the credit row; the two fall on one    *)
(* account when a transfer has one account at both ends.                   *)
insertRows(t, from, to, amount, debited, credited) ==
  ledger' = insertRow(insertRow(ledger, from, ledgerRow(t, "debit", amount, debited)),
                      to, ledgerRow(t, "credit", amount, credited))

(* Faulty variants: the rows are saved in the other order, or only one is. *)
updateSwapped(from, to, debited, credited) ==
  accounts' = [accounts EXCEPT ![to] = credited, ![from] = debited]

updateCredited(from, to, debited, credited) ==
  accounts' = [accounts EXCEPT ![to] = credited]

(* accountRepo.update(debited), then accountRepo.update(credited): each    *)
(* writes a whole row read before either was written.                      *)
updateBoth(from, to, debited, credited) ==
  accounts' = [accounts EXCEPT ![from] = debited, ![to] = credited]

(* The row of an IMPS or UPI transfer is inserted without a UTR.           *)
insertTransfer(from, to, amount, key, kind, status, rail, category) ==
  /\ Len(transfers) < MaxTransfers
  /\ transfers' = Append(transfers,
       [ from |-> from, to |-> to, amount |-> amount, key |-> key,
         kind |-> kind, status |-> status, rail |-> rail,
         category |-> category, day |-> day,
         utr |-> IF status = "pending" \/ kind = "reversal" THEN 1 ELSE 0 ])

(* transferRepo.settlePending: the row is stamped again with today. *)
markPosted(t) ==
  transfers' = [transfers EXCEPT ![t].status = "posted", ![t].day = day]

(* Debit, credit, one posted transfer row, two account updates, two rows. *)
postTransfer(from, to, amount, key, kind, rail, category) ==
  LET debited  == debit(accounts[from], amount)
      credited == credit(accounts[to], amount)
  IN  /\ canDebit(accounts[from], AccountType[from], amount)
      /\ canCredit(accounts[to], amount)
      /\ insertTransfer(from, to, amount, key, kind, "posted", rail, category)
      /\ updateBoth(from, to, debited, credited)
      /\ insertRows(Len(transfers) + 1, from, to, amount, debited, credited)
-----------------------------------------------------------------------------
(* Requests.  None runs inside the settlement loop, nor between the two    *)
(* transactions of another.                                                *)

idle == batch = {} /\ stamping = 0

(* executeTransfer(input), less the checks it makes for a caller that      *)
(* names the owner and the tier.                                           *)
executeTransfer(from, to, amount, key, rail) ==
  /\ idle
  /\ amount <= PerTransactionMax
  /\ ~keyUsed(key)
  /\ from # to
  /\ AccountType[to] = "fixed_deposit" => AccountOwner[from] = AccountOwner[to]
  /\ postTransfer(from, to, amount, key, "transfer", rail, categoryOf(from, to))
  /\ stamping' = IF rail = "internal" THEN 0 ELSE Len(transfers) + 1
  /\ UNCHANGED <<batch, day, crashes>>

(* POST /transfer, and POST /transfer/rail on the imps and upi rails.  The *)
(* caller owns `from`, and the routes pass the owner and the tier.  A      *)
(* beneficiary under its cooling period refuses a transfer addressed by    *)
(* beneficiary; the same account can be addressed by its number, so the    *)
(* check removes no behaviour and is left out.                             *)
ExecuteTransfer(from, to, amount, key, rail) ==
  /\ hasBankingAccess(AccountOwner[from])
  /\ checkAggregateLimits(AccountOwner[from], amount)
  /\ executeTransfer(from, to, amount, key, rail)

(* A due run of a standing instruction: runDueInstructions passes neither  *)
(* owner nor tier, so neither access nor the limits are looked at.  Module *)
(* StandingInstructions has the loop this step is a part of.               *)
RunInstruction(from, to, amount, key) ==
  /\ key \in InstructionKeys
  /\ executeTransfer(from, to, amount, key, "internal")

(* A request with a known key: executeTransfer returns the row the key is  *)
(* on, whoever's and on whatever rail, and on the imps and upi rails that  *)
(* row is given a new UTR.                                                 *)
RetryTransfer(from, amount, key, rail) ==
  /\ idle
  /\ amount <= PerTransactionMax
  /\ hasBankingAccess(AccountOwner[from])
  /\ rail # "internal"
  /\ \E t \in TransferIds :
       /\ key # NoKey
       /\ transfers[t].key = key
       /\ transfers[t].utr < MaxUtrs
       /\ stamping' = t
  /\ UNCHANGED <<accounts, transfers, ledger, batch, day, crashes>>

(* Faulty variants: only a pending row is written, or the row is written   *)
(* as posted whatever it was.                                              *)
StampPending ==
  /\ stamping # 0
  /\ transfers' = [transfers EXCEPT ![stamping].utr = IF isPending(stamping) THEN @ + 1 ELSE @]
  /\ stamping' = 0
  /\ UNCHANGED <<accounts, ledger, batch, day, crashes>>

StampPosted ==
  /\ stamping # 0
  /\ transfers' = [transfers EXCEPT ![stamping].utr = @ + 1, ![stamping].status = "posted"]
  /\ stamping' = 0
  /\ UNCHANGED <<accounts, ledger, batch, day, crashes>>

(* executeRailTransfer, the second transaction. *)
StampUtr ==
  /\ stamping # 0
  /\ transfers' = [transfers EXCEPT ![stamping].utr = @ + 1]
  /\ stamping' = 0
  /\ UNCHANGED <<accounts, ledger, batch, day, crashes>>

(* POST /transfer/rail on neft and rtgs: a hold and a pending row. *)
CreatePendingRailTransfer(from, to, amount, key, rail) ==
  /\ idle
  /\ hasBankingAccess(AccountOwner[from])
  /\ ~keyUsed(key)
  /\ canPlaceHold(accounts[from], amount)
  /\ insertTransfer(from, to, amount, key, "transfer", "pending", rail,
                    categoryOf(from, to))
  /\ accounts' = [accounts EXCEPT ![from] = placeHold(@, amount)]
  /\ UNCHANGED <<ledger, batch, stamping, day, crashes>>

PayBill(from, to, amount, key) ==
  /\ idle
  /\ amount <= PerBillMax
  /\ hasBankingAccess(AccountOwner[from])
  /\ ~keyUsed(key)
  /\ postTransfer(from, to, amount, key, "transfer", "internal", "bill")
  /\ UNCHANGED <<batch, stamping, day, crashes>>

(* An administrator credits an account out of nowhere: one ledger row. *)
FaucetDeposit(to, amount, key) ==
  LET credited == credit(accounts[to], amount)
  IN  /\ idle
      /\ amount <= FaucetMax
      /\ ~keyUsed(key)
      /\ canCredit(accounts[to], amount)
      /\ insertTransfer(NoAccount, to, amount, key, "faucet", "posted",
                        "internal", "faucet")
      /\ accounts' = [accounts EXCEPT ![to] = credited]
      /\ ledger' = insertRow(ledger, to,
                      ledgerRow(Len(transfers) + 1, "credit", amount, credited))
      /\ UNCHANGED <<batch, stamping, day, crashes>>

FreezeAccount(a) ==
  /\ idle
  /\ canFreeze(accounts[a])
  /\ accounts' = [accounts EXCEPT ![a] = freeze(@)]
  /\ UNCHANGED <<transfers, ledger, batch, stamping, day, crashes>>

UnfreezeAccount(a) ==
  /\ idle
  /\ canUnfreeze(accounts[a])
  /\ accounts' = [accounts EXCEPT ![a] = unfreeze(@)]
  /\ UNCHANGED <<transfers, ledger, batch, stamping, day, crashes>>

(* The owner closes an account no card, standing instruction or fixed      *)
(* deposit depends on; pending transfers into it are not looked at.        *)
CloseAccount(a) ==
  /\ idle
  /\ hasBankingAccess(AccountOwner[a])
  /\ AccountType[a] # "fixed_deposit"
  /\ canClose(accounts[a])
  /\ accounts' = [accounts EXCEPT ![a] = close(@)]
  /\ UNCHANGED <<transfers, ledger, batch, stamping, day, crashes>>
-----------------------------------------------------------------------------
(* The settlement tick: NEFT before RTGS, newest transfer first. *)

(* Faulty variant: a tick takes the newest transfer only. *)
SettleNewest ==
  /\ idle
  /\ batch' = { t \in TransferIds :
                  isPending(t) /\ \A u \in TransferIds : isPending(u) => u <= t }
  /\ UNCHANGED <<accounts, transfers, ledger, stamping, day, crashes>>

SettleTick ==
  /\ idle
  /\ batch' = { t \in TransferIds : isPending(t) }
  /\ UNCHANGED <<accounts, transfers, ledger, stamping, day, crashes>>

settlesBefore(t, u) ==
  IF transfers[t].rail = transfers[u].rail
  THEN t > u
  ELSE transfers[t].rail = "neft"

isNextInBatch(t) ==
  t \in batch /\ \A u \in batch \ {t} : settlesBefore(t, u)

(* Nothing in the transaction that settles t would throw. *)
canSettle(t) ==
  LET from   == transfers[t].from
      to     == transfers[t].to
      amount == transfers[t].amount
  IN  /\ isPending(t)
      /\ canReleaseHold(accounts[from], amount)
      /\ canDebit(releaseHold(accounts[from], amount), AccountType[from], amount)
      /\ canCredit(accounts[to], amount)

SettlePending(t) ==
  LET from     == transfers[t].from
      to       == transfers[t].to
      amount   == transfers[t].amount
      debited  == debit(releaseHold(accounts[from], amount), amount)
      credited == credit(accounts[to], amount)
  IN  /\ isNextInBatch(t)
      /\ canSettle(t)
      /\ markPosted(t)
      /\ updateBoth(from, to, debited, credited)
      /\ insertRows(t, from, to, amount, debited, credited)
      /\ batch' = batch \ {t}
      /\ UNCHANGED <<stamping, day, crashes>>

(* The transaction throws and is rolled back; the loop goes on. *)
SettleFails(t) ==
  /\ isNextInBatch(t)
  /\ ~canSettle(t)
  /\ batch' = batch \ {t}
  /\ UNCHANGED <<accounts, transfers, ledger, stamping, day, crashes>>

(* The process stops between two transactions and is started again: what   *)
(* is committed stays, the rest of the batch and the UTR are forgotten.    *)
(* An event handler that throws after the commit has the second effect     *)
(* without a restart.                                                      *)
Crash ==
  /\ ~idle
  /\ crashes < MaxCrashes
  /\ crashes' = crashes + 1
  /\ batch' = {}
  /\ stamping' = 0
  /\ UNCHANGED <<accounts, transfers, ledger, day>>

NextDay ==
  /\ idle
  /\ day < MaxDay
  /\ day' = day + 1
  /\ UNCHANGED <<accounts, transfers, ledger, batch, stamping, crashes>>
-----------------------------------------------------------------------------
Request ==
  \E a, b \in AccountIds, amount \in Amounts, key \in Keys \cup {NoKey} :
    \/ \E rail \in InstantRails :
         \/ ExecuteTransfer(a, b, amount, key, rail)
         \/ RetryTransfer(a, amount, key, rail)
    \/ \E rail \in BatchRails : CreatePendingRailTransfer(a, b, amount, key, rail)
    \/ b \in BillerAccounts /\ PayBill(a, b, amount, key)
    \/ RunInstruction(a, b, amount, key)

Administer ==
  \E a \in AccountIds :
    \/ \E amount \in Amounts, key \in Keys \cup {NoKey} : FaucetDeposit(a, amount, key)
    \/ FreezeAccount(a)
    \/ UnfreezeAccount(a)
    \/ CloseAccount(a)

SettleStep == \E t \in TransferIds : SettlePending(t) \/ SettleFails(t)

Next == Request \/ StampUtr \/ Administer \/ SettleTick \/ SettleStep \/ Crash \/ NextDay

(* main.ts starts the tick from setInterval; a started loop runs to its    *)
(* end and a request to its second transaction, unless the process stops.  *)
Fairness == WF_vars(SettleTick) /\ WF_vars(SettleStep) /\ WF_vars(StampUtr)

Spec == Init /\ [][Next]_vars /\ Fairness
-----------------------------------------------------------------------------
(* Properties *)

(* Every variable has its type; a balance and a hold are never negative. *)
TypeOK ==
  /\ accounts \in [AccountIds -> Account]
  /\ transfers \in Seq(Transfer)
  /\ ledger \in [AccountIds -> Seq(Row)]
  /\ batch \subseteq TransferIds
  /\ stamping \in TransferIds \cup {0}
  /\ day \in 0..MaxDay
  /\ crashes \in 0..MaxCrashes

(* Money on hold is there: whatever holds, debits, settlements and freezes *)
(* are interleaved, the hold never exceeds the balance, so the available   *)
(* balance that debit and the customer's app look at is never negative     *)
(* (account.ts, availableBalanceMinor).                                    *)
HoldIsCovered == \A a \in AccountIds : accounts[a].hold <= accounts[a].balance

(* Posted transfers from an account to itself: the code refuses one on the *)
(* instant rails only.  A settled NEFT or RTGS transfer can be one, and so *)
(* can a biller's owner paying the bill from the biller's own account.     *)
postedToSelf ==
  { t \in TransferIds :
      transfers[t].status = "posted" /\ transfers[t].from = transfers[t].to }

(* A hold is the sum of the pending transfers it was placed for, and of    *)
(* nothing else: no hold outlives its transfer, whatever stops the loop.   *)
(* The one exception is what the settlement of a transfer to the same      *)
(* account does: the credited row overwrites the row with the hold         *)
(* released, so that hold stays for good.                                  *)
HoldsAccounted ==
  \A a \in AccountIds :
    accounts[a].hold =
      sumAmounts({ t \in TransferIds : isPending(t) /\ transfers[t].from = a })
      + sumAmounts({ t \in postedToSelf :
                       transfers[t].from = a /\ transfers[t].rail \in BatchRails })

sumBalances == SumFunctionOnSet([a \in AccountIds |-> accounts[a].balance], AccountIds)

(* Money is neither lost nor made: the balances add up to the opening      *)
(* balances and the faucet deposits, settled or interrupted in whatever    *)
(* order.  A transfer to the same account is again the exception: the      *)
(* overwritten row is the debit, and its amount is new money.              *)
MoneyConserved ==
  sumBalances
    = SumFunctionOnSet(OpeningBalance, AccountIds)
      + sumAmounts({ t \in TransferIds : transfers[t].kind = "faucet" })
      + sumAmounts(postedToSelf)

(* The running balance a statement ends with is the balance of the         *)
(* account: no operation of this module moves money and leaves the ledger  *)
(* behind, and the two rows of a transfer are written in the order the     *)
(* account rows are (statementQuery.ts takes the closing balance from the  *)
(* last row).                                                              *)
LedgerEndsAtBalance ==
  \A a \in AccountIds :
    accounts[a].balance =
      IF ledger[a] = << >> THEN OpeningBalance[a]
      ELSE ledger[a][Len(ledger[a])].running

rowsOf(t, a) == { i \in 1..Len(ledger[a]) : ledger[a][i].transfer = t }

(* Double entry: a posted transfer has its debit row on the source and its *)
(* credit row on the destination, a pending one has no row anywhere, and   *)
(* no row is written twice, in whatever order the settlement loop, its     *)
(* restarts and new requests come.                                         *)
DoubleEntry ==
  \A t \in TransferIds, a \in AccountIds :
    LET rows(kind) == { i \in rowsOf(t, a) : ledger[a][i].kind = kind }
        due(end)   == IF transfers[t].status = "posted" /\ end = a THEN 1 ELSE 0
    IN  /\ Cardinality(rows("debit")) = due(transfers[t].from)
        /\ Cardinality(rows("credit")) = due(transfers[t].to)
        /\ \A i \in rowsOf(t, a) : ledger[a][i].amount = transfers[t].amount

(* An idempotency key names one transfer: a client that sends its request  *)
(* again, on the same or on another endpoint or rail, before or after the  *)
(* first is settled, pays once.                                            *)
KeyPaysOnce ==
  \A t, u \in TransferIds :
    transfers[t].key = transfers[u].key /\ transfers[t].key # NoKey => t = u

(* A savings or current account that ever held money is never closed:      *)
(* close wants a zero balance, and debit leaves at least the minimum       *)
(* balance behind, so a balance never returns to zero.                     *)
FundedNeverCloses ==
  \A a \in AccountIds :
    /\ accounts[a].status = "Closed"
    /\ AccountType[a] # "fixed_deposit"
    => /\ ledger[a] = << >>
       /\ OpeningBalance[a] = 0
       /\ accounts[a].hold = 0

(* What a user asked for on the instant rails.  A row does not tell a run  *)
(* of an instruction from a request under the run's key: both are left out.*)
instantOutbound(user, first, last) ==
  { t \in TransferIds :
      /\ transfers[t].kind = "transfer"
      /\ transfers[t].category \notin {"bill", "card"}
      /\ transfers[t].rail \in InstantRails
      /\ transfers[t].key \notin InstructionKeys
      /\ AccountOwner[transfers[t].from] = user
      /\ transfers[t].day \in first..last }

(* The transfers a user requests on the instant rails in a day, from all   *)
(* accounts together, stay within the daily limit, and those of a month    *)
(* within the monthly one, whatever bills, card payments, settlements and  *)
(* runs of standing instructions are posted in between.  The runs are not  *)
(* checked and can take the user past the limits: the property is not      *)
(* about them, but they count when the next request is checked.            *)
InstantWithinLimits ==
  \A user \in KycApproved, d \in 0..MaxDay :
    /\ sumAmounts(instantOutbound(user, d, d)) <= DailyLimit
    /\ sumAmounts(instantOutbound(user, d - (d % DaysPerMonth), d)) <= MonthlyLimit

(* A posted transfer is final and a pending one can only be posted: of a   *)
(* row that exists, a step of the loop, of a request, of a retry or of a   *)
(* restart writes the status once, the day with it, and else the UTR.      *)
TransfersOnlySettle ==
  [][ \A t \in TransferIds :
        /\ t \in DOMAIN transfers'
        /\ \/ transfers'[t] = [transfers[t] EXCEPT !.utr = transfers'[t].utr]
           \/ /\ isPending(t)
              /\ transfers'[t] =
                   [transfers[t] EXCEPT !.status = "posted", !.day = day] ]_vars

(* An IMPS or UPI transfer is without a UTR only while its request runs,   *)
(* or when the process stopped between the two transactions.               *)
UtrsMissingAfterCrash ==
  Cardinality({ t \in TransferIds \ {stamping} :
                  transfers[t].rail \in {"imps", "upi"} /\ transfers[t].utr = 0 })
    <= crashes

(* A pending transfer into a closed account is stuck for good: nothing     *)
(* settles it, nothing marks it failed, and its money stays on hold (the   *)
(* catch of the loop only counts).                                         *)
StrandedStaysStranded ==
  [][ \A t \in TransferIds :
        isPending(t) /\ accounts[transfers[t].to].status = "Closed"
        => /\ transfers'[t].status = "pending"
           /\ accounts'[transfers[t].from].hold >= transfers[t].amount ]_vars

(* The settlement tick starves no transfer: one that could be settled from *)
(* some time on is settled, even when the ones the loop visits before it   *)
(* fail at every tick.                                                     *)
SettlementNotStarved ==
  \A t \in 1..MaxTransfers : ~ <>[](t \in TransferIds /\ canSettle(t))
-----------------------------------------------------------------------------
(* Statements of the documentation that the code does not keep. *)

(* README: "no cross-user transfers into a Fixed Deposit".  The NEFT and   *)
(* RTGS path has no such check.                                            *)
NoCrossUserFixedDepositTransfer ==
  \A t \in TransferIds :
    /\ transfers[t].kind = "transfer"
    /\ transfers[t].status = "posted"
    /\ AccountType[transfers[t].to] = "fixed_deposit"
    => AccountOwner[transfers[t].from] = AccountOwner[transfers[t].to]

(* settlePendingTransfers.ts: a settled transfer "releases hold, debits    *)
(* source".  When the source is also the destination, neither is kept.     *)
SettlementReleasesHold ==
  [][ \A t \in TransferIds :
        isPending(t) /\ transfers'[t].status = "posted"
        => accounts'[transfers[t].from].hold
             = accounts[transfers[t].from].hold - transfers[t].amount ]_vars
=============================================================================
