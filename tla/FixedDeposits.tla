--------------------------- MODULE FixedDeposits ---------------------------
(***************************************************************************)
(* Fixed deposits, on top of Payments: opened from a savings or current    *)
(* account, paid back to it with interest by the maturity tick or when the *)
(* customer closes them early.  All three move money without transfers and *)
(* ledger rows.  The tick is a loop of one transaction per due deposit,    *)
(* and `maturing` holds what it has yet to visit.                          *)
(*                                                                         *)
(* An account of type fixed_deposit is inserted when its deposit is        *)
(* opened.  Until then its id stands for no row: `accounts` has a closed   *)
(* and empty one, which no operation changes, and no transfer names it.    *)
(***************************************************************************)
EXTENDS Payments

CONSTANTS
  Principals,    \* principals customers ask for
  MinPrincipal,  \* FD_MIN_PRINCIPAL_MINOR
  Tenures,       \* tenures from FD_MIN_TENURE_MONTHS to FD_MAX_TENURE_MONTHS
  RateBps,       \* FD_RATE_BPS: annual rate by tenure
  PenaltyBps,    \* FD_PREMATURE_PENALTY_BPS
  InterestMonth, \* days that earn a month of interest
  MaxDeposits    \* bound: rows of the fixed_deposits table

(* Thirty days earn a month, and no calendar tenure is shorter.  An id     *)
(* that stands for no row has no opening balance.                          *)
ASSUME FixedDepositsAssumption ==
  /\ \A a \in AccountIds : AccountType[a] = "fixed_deposit" => OpeningBalance[a] = 0
  /\ Principals \subseteq Nat \ {0}
  /\ Tenures \subseteq Nat \ {0}
  /\ RateBps \in [Tenures -> Nat]
  /\ PenaltyBps \in 0..10000
  /\ InterestMonth \in 1..DaysPerMonth
  /\ MaxDeposits \in Nat

VARIABLES
  fixedDeposits,  \* the fixed_deposits table, in insertion order
  maturing        \* deposits the maturity tick has yet to visit

depositVars == <<fixedDeposits, maturing>>

FixedDeposit ==
  [ account   : AccountIds,
    payout    : AccountIds,
    principal : Principals,
    tenure    : Tenures,
    opened    : 0..MaxDay,
    status    : {"active", "matured", "premature_closed"},
    interest  : Nat ]

DepositIds == 1..Len(fixedDeposits)

depositAccounts == { a \in AccountIds : AccountType[a] = "fixed_deposit" }

unopened == close(open(0))

DepositsInit ==
  /\ accounts = [a \in AccountIds |->
       IF a \in depositAccounts THEN unopened ELSE open(OpeningBalance[a])]
  /\ transfers = << >>
  /\ ledger = [a \in AccountIds |-> << >>]
  /\ batch = {}
  /\ stamping = 0
  /\ day = 0
  /\ crashes = 0
  /\ fixedDeposits = << >>
  /\ maturing = {}

isOpened(a) ==
  a \notin depositAccounts \/ \E f \in DepositIds : fixedDeposits[f].account = a

isActiveDeposit(f) == fixedDeposits[f].status = "active"

ready == idle /\ maturing = {}
-----------------------------------------------------------------------------
(* Interest, in minor units, rounded down. *)

simpleInterest(f, months) ==
  (fixedDeposits[f].principal * RateBps[fixedDeposits[f].tenure] * months)
    \div (12 * 10000)

maturityInterest(f) == simpleInterest(f, fixedDeposits[f].tenure)

monthsElapsed(f) == (day - fixedDeposits[f].opened) \div InterestMonth

(* Faulty variant: a deposit earns on after its tenure. *)
accruedUncapped(f) == simpleInterest(f, monthsElapsed(f))

accruedInterest(f) ==
  simpleInterest(f, Min({monthsElapsed(f), fixedDeposits[f].tenure}))

prematureInterest(f) ==
  Max({0, accruedInterest(f) - (accruedInterest(f) * PenaltyBps) \div 10000})
-----------------------------------------------------------------------------
(* POST /fixed-deposits: the payout account is debited, the deposit's own  *)
(* account is inserted with the principal on it.                           *)
OpenFixedDeposit(payout, account, principal, tenure) ==
  /\ ready
  /\ Len(fixedDeposits) < MaxDeposits
  /\ hasBankingAccess(AccountOwner[payout])
  /\ ~isOpened(account)
  /\ AccountOwner[account] = AccountOwner[payout]
  /\ principal >= MinPrincipal
  /\ canDebit(accounts[payout], AccountType[payout], principal)
  /\ accounts' = [accounts EXCEPT ![payout] = debit(@, principal),
                                  ![account] = credit(open(0), principal)]
  /\ fixedDeposits' = Append(fixedDeposits,
       [ account |-> account, payout |-> payout, principal |-> principal,
         tenure |-> tenure, opened |-> day, status |-> "active", interest |-> 0 ])
  /\ UNCHANGED <<transfers, ledger, batch, stamping, day, crashes, maturing>>

(* Faulty variant: a hold does not keep the account from being closed. *)
canPayBackHeld(f, interest) ==
  LET account == fixedDeposits[f].account
  IN  /\ isActiveDeposit(f)
      /\ canZero(accounts[account], AccountType[account])
      /\ canCredit(accounts[fixedDeposits[f].payout],
                   fixedDeposits[f].principal + interest)

(* Nothing in the transaction that pays back f would throw. *)
canPayBack(f, interest) ==
  LET account == fixedDeposits[f].account
      emptied == zeroFixedDepositPrincipal(accounts[account])
  IN  /\ isActiveDeposit(f)
      /\ canZero(accounts[account], AccountType[account])
      /\ canClose(emptied)
      /\ canCredit(accounts[fixedDeposits[f].payout],
                   fixedDeposits[f].principal + interest)

(* Faulty variant: what is on the account is paid, and the interest lost. *)
payBackBalance(f, interest, status) ==
  LET account == fixedDeposits[f].account
      payout  == fixedDeposits[f].payout
  IN  /\ accounts' = [accounts EXCEPT
           ![account] = close(zeroFixedDepositPrincipal(@)),
           ![payout] = credit(@, accounts[account].balance)]
      /\ fixedDeposits' = [fixedDeposits EXCEPT ![f].status = status,
                                                ![f].interest = interest]

(* The account is emptied and closed, principal and interest are credited. *)
(* Money others put on the account in the meantime goes with its balance.  *)
payBack(f, interest, status) ==
  /\ accounts' = [accounts EXCEPT
       ![fixedDeposits[f].account] = close(zeroFixedDepositPrincipal(@)),
       ![fixedDeposits[f].payout] = credit(@, fixedDeposits[f].principal + interest)]
  /\ fixedDeposits' = [fixedDeposits EXCEPT ![f].status = status,
                                            ![f].interest = interest]

(* The owner of the deposit closes it, before or after its maturity. *)
PrematureCloseFixedDeposit(f) ==
  /\ ready
  /\ hasBankingAccess(AccountOwner[fixedDeposits[f].account])
  /\ canPayBack(f, prematureInterest(f))
  /\ payBack(f, prematureInterest(f), "premature_closed")
  /\ UNCHANGED <<transfers, ledger, batch, stamping, day, crashes, maturing>>
-----------------------------------------------------------------------------
(* The maturity tick, in insertion order. *)

isDue(f) ==
  /\ isActiveDeposit(f)
  /\ day >= fixedDeposits[f].opened + fixedDeposits[f].tenure * DaysPerMonth

(* Faulty variant: a tick takes the oldest due deposit only. *)
MatureOldest ==
  /\ ready
  /\ maturing' = { f \in DepositIds : isDue(f) /\ \A g \in 1..(f - 1) : ~isDue(g) }
  /\ UNCHANGED <<vars, fixedDeposits>>

MatureTick ==
  /\ ready
  /\ maturing' = { f \in DepositIds : isDue(f) }
  /\ UNCHANGED <<vars, fixedDeposits>>

isNextToMature(f) == f \in maturing /\ \A g \in maturing : f <= g

Mature(f) ==
  /\ isNextToMature(f)
  /\ canPayBack(f, maturityInterest(f))
  /\ payBack(f, maturityInterest(f), "matured")
  /\ maturing' = maturing \ {f}
  /\ UNCHANGED <<transfers, ledger, batch, stamping, day, crashes>>

(* The transaction throws and is rolled back; the loop goes on. *)
MatureFails(f) ==
  /\ isNextToMature(f)
  /\ ~canPayBack(f, maturityInterest(f))
  /\ maturing' = maturing \ {f}
  /\ UNCHANGED <<vars, fixedDeposits>>

(* The process stops between two deposits of the loop. *)
CrashMaturing ==
  /\ maturing # {}
  /\ crashes < MaxCrashes
  /\ crashes' = crashes + 1
  /\ maturing' = {}
  /\ UNCHANGED <<accounts, transfers, ledger, batch, stamping, day, fixedDeposits>>

(* A step of Payments: none runs inside the loop, no transfer names an     *)
(* account that is not there, and an account that active deposits pay back *)
(* to is not closed.                                                       *)
PaymentsStep ==
  /\ maturing = {}
  /\ Next
  /\ \A t \in DOMAIN transfers' : isOpened(transfers'[t].to)
  /\ \A f \in DepositIds :
       isActiveDeposit(f) => accounts'[fixedDeposits[f].payout].status # "Closed"
  /\ UNCHANGED depositVars

MatureStep == \E f \in DepositIds : Mature(f) \/ MatureFails(f)

DepositsStep ==
  \/ \E payout, account \in AccountIds, principal \in Principals, tenure \in Tenures :
       OpenFixedDeposit(payout, account, principal, tenure)
  \/ \E f \in DepositIds : PrematureCloseFixedDeposit(f)
  \/ MatureTick
  \/ MatureStep
  \/ CrashMaturing

DepositsNext == PaymentsStep \/ DepositsStep

depositsVars == <<vars, depositVars>>

(* Two timers share one thread: each tick finds the thread busy with the   *)
(* other's loop now and then, and idle again after it, whence SF.          *)
DepositsFairness ==
  /\ SF_depositsVars(MatureTick)
  /\ WF_depositsVars(MatureStep)
  /\ WF_depositsVars(SettleStep /\ UNCHANGED depositVars)
  /\ WF_depositsVars(StampUtr /\ UNCHANGED depositVars)

DepositsSpec == DepositsInit /\ [][DepositsNext]_depositsVars /\ DepositsFairness
-----------------------------------------------------------------------------
(* Properties *)

DepositsTypeOK ==
  /\ TypeOK
  /\ fixedDeposits \in Seq(FixedDeposit)
  /\ maturing \subseteq DepositIds

(* What was transferred to the account of f since it was opened. *)
topUps(f) ==
  sumAmounts({ t \in TransferIds :
                 /\ transfers[t].status = "posted"
                 /\ transfers[t].to = fixedDeposits[f].account })

(* The principal of an active deposit is on its account, on top of what    *)
(* was transferred there, whatever transfers, holds, freezes and           *)
(* settlements try; a deposit paid back has a closed and empty account.    *)
(* The two tables are never apart, in the tick, in an early closure or     *)
(* after a restart (account.ts: "locked principal").                       *)
DepositsBacked ==
  \A f \in DepositIds :
    LET acc == accounts[fixedDeposits[f].account]
    IN  IF isActiveDeposit(f)
        THEN acc.status # "Closed" /\ acc.balance = fixedDeposits[f].principal + topUps(f)
        ELSE acc = unopened

(* A deposit is paid back once: the balances add up to the opening ones,   *)
(* the faucet, the interest paid and the transfers from an account to      *)
(* itself (see MoneyConserved), less what was transferred to deposits that *)
(* were then paid back.  That money is gone: payBack credits the principal *)
(* and empties the account.                                                *)
MoneyConservedWithInterest ==
  sumBalances
    + SumFunctionOnSet([f \in DepositIds |-> topUps(f)],
                       { f \in DepositIds : ~isActiveDeposit(f) })
  = SumFunctionOnSet(OpeningBalance, AccountIds)
    + sumAmounts({ t \in TransferIds : transfers[t].kind = "faucet" })
    + sumAmounts(postedToSelf)
    + SumFunctionOnSet([f \in DepositIds |-> fixedDeposits[f].interest], DepositIds)

(* Closing early never pays more than waiting, however late the tick is:   *)
(* a deposit past its maturity can still be closed early (prematureClose   *)
(* looks at the status alone).                                             *)
EarlyNeverPaysMore ==
  \A f \in DepositIds :
    fixedDeposits[f].status = "premature_closed"
      => fixedDeposits[f].interest <= maturityInterest(f)

(* A deposit with a hold on its account is stuck for good: a NEFT or RTGS  *)
(* transfer can be requested from a deposit account (placeHold does not    *)
(* look at the type), never settles (debit does), and its hold makes the   *)
(* tick and the customer fail to close the deposit.                        *)
HeldDepositIsStuck ==
  [][ \A f \in DepositIds :
        LET a == fixedDeposits[f].account
        IN  isActiveDeposit(f) /\ accounts[a].hold > 0
              => /\ fixedDeposits'[f] = fixedDeposits[f]
                 /\ accounts'[a].hold >= accounts[a].hold ]_depositsVars

(* The maturity tick starves no deposit: one that is due and could be paid *)
(* back from some time on is, even when the deposits the loop visits       *)
(* before it fail at every tick.                                           *)
MaturityNotStarved ==
  \A f \in 1..MaxDeposits :
    ~ <>[](f \in DepositIds /\ isDue(f) /\ canPayBack(f, maturityInterest(f)))
-----------------------------------------------------------------------------
(* A comment that the code does not keep. *)

(* account.ts, zeroFixedDepositPrincipal: "zero an FD account principal at *)
(* maturity / premature close".  It zeroes the whole balance.              *)
ZeroesPrincipal ==
  [][ \A f \in DepositIds :
        LET a == fixedDeposits[f].account
        IN  isActiveDeposit(f) /\ fixedDeposits'[f].status # "active"
              => accounts'[a].balance = accounts[a].balance - fixedDeposits[f].principal
    ]_depositsVars
=============================================================================
