----------------------------- MODULE BackOffice -----------------------------
(***************************************************************************)
(* What admins decide and what the bank remembers of it: the KYC           *)
(* applications and the accounts that an approval opens, the faucet with   *)
(* its maker-checker, the bills that customers pay, whose transfers share  *)
(* the faucet's idempotency keys, and the audit log that the event bus and *)
(* the HTTP middleware write.                                              *)
(*                                                                         *)
(* None of these requests is one SQL transaction.  A handler commits its   *)
(* own row, then publishes an event, and every subscriber commits rows of  *)
(* its own before publish returns.  Node runs the whole call without       *)
(* interruption, but the process can stop between two commits and any of   *)
(* them can throw, so a call is the list of steps `run` still holds.       *)
(*                                                                         *)
(* The audit row of the request is written when its response has been      *)
(* flushed, and by then another request may have run: `finishing` counts   *)
(* the responses whose row is still to come.  A row of the log keeps its   *)
(* place in the chain, its date and the approval it reports, if any; the   *)
(* other columns are left out, with whether the request failed.            *)
(***************************************************************************)
EXTENDS Accounts, FiniteSets, Sequences

CONSTANTS
  Users,              \* customers
  Types,              \* account types a customer asks for
  Keys,               \* idempotency keys that admins and customers choose
  NoKey,              \* no idempotency key
  Amounts,            \* amounts of faucet deposits and of bills
  Threshold,          \* FAUCET_MAKER_CHECKER_THRESHOLD_MINOR
  FaucetMax,          \* FAUCET_MAX_MINOR
  PerBillMax,         \* PER_BILL_MAX_MINOR
  MaxApplications,    \* bound: rows of kyc_applications
  MaxAccounts,        \* bound: rows of accounts when a request comes in
  MaxPending,         \* bound: rows of admin_pending_actions
  MaxTransfers,       \* bound: transfers before a request makes one
  MaxRows,            \* bound: rows of audit_log when a request comes in
  MaxUnfinished,      \* bound: responses not flushed when a request comes in
  MaxFaults,          \* bound: SQL statements that throw
  MaxCrashes,         \* bound: process stops
  MaxClock            \* bound: ticks of the clock

ASSUME BackOfficeAssumption ==
  /\ Types \subseteq AccountTypes
  /\ NoKey \notin Keys
  /\ Amounts \subseteq Nat \ {0}
  /\ Threshold \in Nat
  /\ FaucetMax \in Nat
  /\ PerBillMax \in Nat
  /\ MaxAccounts \in Nat

VARIABLES
  applications,    \* kyc_applications, in order of submission
  tier,            \* kycTier of each user
  accounts,        \* accounts, in order of opening
  pendingActions,  \* admin_pending_actions
  transfers,       \* transfers, in order of insertion
  audit,           \* audit_log, in order of insertion
  run,             \* the request being handled
  finishing,       \* how many audited responses are sent but not flushed
  clock,           \* Date.now()
  cut,             \* history: approvals cut short by a throw or a stop
  faults,          \* statements that threw so far
  crashes          \* process stops so far

tables == <<applications, tier, accounts, pendingActions, transfers>>

backOfficeVars ==
  <<applications, tier, accounts, pendingActions, transfers, audit, run,
    finishing, clock, cut, faults, crashes>>

(* A request: its route, the application or row it is about, and the       *)
(* commits it has yet to make.                                             *)
NoRun == [route |-> "none", subject |-> 0, steps |-> << >>]

BackOfficeInit ==
  /\ applications = << >>
  /\ tier = [u \in Users |-> "none"]
  /\ accounts = << >>
  /\ pendingActions = << >>
  /\ transfers = << >>
  /\ audit = << >>
  /\ run = NoRun
  /\ finishing = 0
  /\ clock = 0
  /\ cut = {}
  /\ faults = 0
  /\ crashes = 0
-----------------------------------------------------------------------------
(* The event bus. *)

step(do, about) ==
  [do |-> do, event |-> "none", subject |-> about, at |-> clock]

(* What the subscribers of an event's type commit; bodies of notifications *)
(* are left out.                                                           *)
handlersOf(event, about) ==
  CASE event = "KycApproved" ->
         << step("openAccount", about), step("notify", about) >>
    [] event \in {"KycRejected", "MoneyMoved"} ->
         << step("notify", about) >>
    [] OTHER -> << >>

auditStep(event, about) ==
  [do |-> "audit", event |-> event, subject |-> about, at |-> clock]

(* Faulty variant: the wildcard subscribers come first. *)
publishWildcardsFirst(event, about) ==
  << auditStep(event, about) >> \o handlersOf(event, about)

(* Subscribers of the type first, wildcards after them. *)
publish(event, about) ==
  handlersOf(event, about) \o << auditStep(event, about) >>

-----------------------------------------------------------------------------
(* Requests: each begins when no other is being handled. *)

ready ==
  /\ run = NoRun
  /\ finishing <= MaxUnfinished
  /\ Len(audit) < MaxRows

begin(route, about, steps) ==
  run' = [route |-> route, subject |-> about, steps |-> steps]

applicationsOf(u) == { i \in DOMAIN applications : applications[i].user = u }

accountsOf(u) == { a \in DOMAIN accounts : accounts[a].user = u }

isApproved(u) ==
  \E i \in applicationsOf(u) : applications[i].status = "Approved"

(* A rejected customer may apply again, an approved one may not. *)
mayApply(u) ==
  \A i \in applicationsOf(u) : applications[i].status = "Rejected"

submitKyc(u, type) ==
  /\ ready
  /\ mayApply(u)
  /\ Len(applications) < MaxApplications
  /\ applications' =
       Append(applications, [user |-> u, type |-> type, status |-> "Submitted"])
  /\ begin("kyc.submit", Len(applications) + 1,
           publish("KycSubmitted", Len(applications) + 1))
  /\ UNCHANGED <<tier, accounts, pendingActions, transfers, audit, finishing,
                 clock, cut, faults, crashes>>

(* Faulty variant: an application decided before is decided again. *)
decideAnyway(i, status) ==
  /\ ready
  /\ applications' = [applications EXCEPT ![i].status = status]
  /\ UNCHANGED <<tier, accounts, pendingActions, transfers, audit, finishing,
                 clock, cut, faults, crashes>>

decide(i, status) ==
  /\ ready
  /\ applications[i].status = "Submitted"
  /\ applications' = [applications EXCEPT ![i].status = status]
  /\ UNCHANGED <<tier, accounts, pendingActions, transfers, audit, finishing,
                 clock, cut, faults, crashes>>

(* The row is committed first; tier, account and audit come after it. *)
approveKyc(i) ==
  /\ decide(i, "Approved")
  /\ begin("kyc.approve", i,
           << step("setTier", i) >> \o publish("KycApproved", i))

rejectKyc(i) ==
  /\ decide(i, "Rejected")
  /\ begin("kyc.reject", i, publish("KycRejected", i))

(* A decision is never taken back or repeated, not even one cut short. *)
refuseDecision(i) ==
  /\ ready
  /\ applications[i].status # "Submitted"
  /\ begin("refused", i, << >>)
  /\ UNCHANGED <<tables, audit, finishing, clock, cut, faults, crashes>>

hasBankingAccess(u) ==
  /\ isApproved(u)
  /\ \E a \in accountsOf(u) : isActive(accounts[a].row)

newAccount(u, type) == [user |-> u, type |-> type, row |-> open(0)]

openAdditionalAccount(u, type) ==
  /\ ready
  /\ hasBankingAccess(u)
  /\ Len(accounts) < MaxAccounts
  /\ accounts' = Append(accounts, newAccount(u, type))
  /\ begin("account.open", Len(accounts) + 1,
           publish("AccountOpened", Len(accounts) + 1))
  /\ UNCHANGED <<applications, tier, pendingActions, transfers, audit,
                 finishing, clock, cut, faults, crashes>>

setRow(a, row, route, event) ==
  /\ ready
  /\ accounts' = [accounts EXCEPT ![a].row = row]
  /\ begin(route, a, publish(event, a))
  /\ UNCHANGED <<applications, tier, pendingActions, transfers, audit,
                 finishing, clock, cut, faults, crashes>>

freezeAccount(a) ==
  /\ canFreeze(accounts[a].row)
  /\ setRow(a, freeze(accounts[a].row), "account.freeze", "AccountFrozen")

unfreezeAccount(a) ==
  /\ canUnfreeze(accounts[a].row)
  /\ setRow(a, unfreeze(accounts[a].row), "account.unfreeze", "AccountUnfrozen")

(* No deposit, card or standing instruction is in this module. *)
closeAccount(a) ==
  /\ hasBankingAccess(accounts[a].user)
  /\ accounts[a].type # "fixed_deposit"
  /\ canClose(accounts[a].row)
  /\ setRow(a, close(accounts[a].row), "account.close", "AccountClosed")
-----------------------------------------------------------------------------
(* The faucet and its maker-checker. *)

(* findByIdempotencyKey looks at every transfer, of whatever kind. *)
keyKnown(key) ==
  key # NoKey /\ \E d \in DOMAIN transfers : transfers[d].key = key

requiresMakerChecker(amount) == amount > Threshold

(* The request names any account id, and none is looked up. *)
createPendingAction(a, amount, key) ==
  /\ ready
  /\ requiresMakerChecker(amount)
  /\ Len(pendingActions) < MaxPending
  /\ pendingActions' =
       Append(pendingActions,
              [account |-> a, amount |-> amount, key |-> key,
               status |-> "pending"])
  /\ begin("admin.faucet", 0, << >>)
  /\ UNCHANGED <<applications, tier, accounts, transfers, audit, finishing,
                 clock, cut, faults, crashes>>

canDeposit(a, amount) ==
  /\ amount <= FaucetMax
  /\ a \in DOMAIN accounts
  /\ canCredit(accounts[a].row, amount)

(* A transfer between the customer's account and one that is not here, the *)
(* faucet or a biller's; `cause` is the pending action it executes, or 0.  *)
post(a, row, amount, key, cause) ==
  /\ accounts' = [accounts EXCEPT ![a].row = row]
  /\ transfers' = Append(transfers, [account |-> a, amount |-> amount,
                                    key |-> key, cause |-> cause])

(* faucetDeposit's transaction. *)
deposit(a, amount, key, cause) ==
  post(a, credit(accounts[a].row, amount), amount, key, cause)

(* skipMakerChecker lets any amount through here. *)
faucetDeposit(a, amount, key) ==
  /\ ready
  /\ Len(transfers) < MaxTransfers
  /\ ~ keyKnown(key)
  /\ canDeposit(a, amount)
  /\ deposit(a, amount, key, 0)
  /\ begin("admin.faucet", 0, publish("MoneyMoved", Len(transfers) + 1))
  /\ UNCHANGED <<applications, tier, pendingActions, audit, finishing, clock,
                 cut, faults, crashes>>

(* A deposit whose key is known answers with the transfer that has it. *)
repeatFaucetDeposit(key) ==
  /\ ready
  /\ keyKnown(key)
  /\ begin("admin.faucet", 0, << >>)
  /\ UNCHANGED <<tables, audit, finishing, clock, cut, faults, crashes>>

(* A customer pays a biller, with the same check of the key; a bill paid   *)
(* already ends as a repeated deposit does.  Nobody subscribes to BillPaid *)
(* but the audit log.                                                      *)
payBill(a, amount, key) ==
  LET account == accounts[a]
      n == Len(transfers) + 1
  IN  /\ ready
      /\ amount <= PerBillMax
      /\ hasBankingAccess(account.user)
      /\ Len(transfers) < MaxTransfers
      /\ ~ keyKnown(key)
      /\ canDebit(account.row, account.type, amount)
      /\ post(a, debit(account.row, amount), amount, key, 0)
      /\ begin("bill.pay", n, publish("MoneyMoved", n) \o publish("BillPaid", n))
      /\ UNCHANGED <<applications, tier, pendingActions, audit, finishing, clock,
                     cut, faults, crashes>>

(* Faulty variant: an approval that was cut short can be given again. *)
undecidedYet(p) == pendingActions[p].status # "executed"

undecided(p) == pendingActions[p].status = "pending"

(* Approved is committed before the deposit is tried. *)
approvePendingAction(p) ==
  /\ ready
  /\ undecided(p)
  /\ pendingActions' = [pendingActions EXCEPT ![p].status = "approved"]
  /\ begin("admin.pending.approve", p,
           << step("deposit", p), step("execute", p) >>)
  /\ UNCHANGED <<applications, tier, accounts, transfers, audit, finishing,
                 clock, cut, faults, crashes>>
-----------------------------------------------------------------------------
(* The steps of the request being handled. *)

next(do) == run.steps # << >> /\ Head(run.steps).do = do

subject == Head(run.steps).subject

continue(steps) == run' = [run EXCEPT !.steps = steps \o Tail(@)]

fail == run' = [run EXCEPT !.steps = << >>]

cutShort ==
  cut' = IF run.route = "kyc.approve" THEN cut \cup {run.subject} ELSE cut

setKycTier ==
  /\ next("setTier")
  /\ tier' = [tier EXCEPT ![applications[subject].user] = "full"]
  /\ continue(<< >>)
  /\ UNCHANGED <<applications, accounts, pendingActions, transfers, audit,
                 finishing, clock, cut, faults, crashes>>

(* Nothing happens if the user has an account of the type already. *)
createAccountForUser ==
  LET app == applications[subject]
      sameType == \E a \in accountsOf(app.user) : accounts[a].type = app.type
  IN  /\ next("openAccount")
      /\ accounts' = IF sameType THEN accounts
                     ELSE Append(accounts, newAccount(app.user, app.type))
      /\ continue(IF sameType THEN << >>
                  ELSE publish("AccountOpened", Len(accounts) + 1))
      /\ UNCHANGED <<applications, tier, pendingActions, transfers, audit,
                     finishing, clock, cut, faults, crashes>>

emitNotification ==
  /\ next("notify")
  /\ continue(<< >>)
  /\ UNCHANGED <<tables, audit, finishing, clock, cut, faults, crashes>>

executeDeposit ==
  LET action == pendingActions[subject]
  IN  /\ next("deposit")
      /\ ~ keyKnown(action.key)
      /\ canDeposit(action.account, action.amount)
      /\ deposit(action.account, action.amount, action.key, subject)
      /\ continue(publish("MoneyMoved", Len(transfers) + 1))
      /\ UNCHANGED <<applications, tier, pendingActions, audit, finishing,
                     clock, cut, faults, crashes>>

repeatDeposit ==
  /\ next("deposit")
  /\ pendingActions[subject].amount <= FaucetMax
  /\ keyKnown(pendingActions[subject].key)
  /\ continue(<< >>)
  /\ UNCHANGED <<tables, audit, finishing, clock, cut, faults, crashes>>

(* faucetDeposit throws, for an amount above its limit before it looks at  *)
(* the key: the action stays approved.                                     *)
depositRefused ==
  LET action == pendingActions[subject]
  IN  /\ next("deposit")
      /\ action.amount > FaucetMax \/ ~ keyKnown(action.key)
      /\ ~ canDeposit(action.account, action.amount)
      /\ fail
      /\ UNCHANGED <<tables, audit, finishing, clock, cut, faults, crashes>>

markPendingExecuted ==
  /\ next("execute")
  /\ pendingActions' = [pendingActions EXCEPT ![subject].status = "executed"]
  /\ continue(<< >>)
  /\ UNCHANGED <<applications, tier, accounts, transfers, audit, finishing,
                 clock, cut, faults, crashes>>
-----------------------------------------------------------------------------
(* The audit log. *)

(* Faulty variant: rows are ordered by the date they carry. *)
latestByDate ==
  IF audit = << >> THEN 0
  ELSE CHOOSE n \in DOMAIN audit :
         \A m \in DOMAIN audit : \/ audit[m].at < audit[n].at
                                 \/ audit[m].at = audit[n].at /\ m <= n

(* The row with the highest seq, 0 if there is none. *)
findLatest ==
  IF audit = << >> THEN 0
  ELSE CHOOSE n \in DOMAIN audit :
         \A m \in DOMAIN audit : audit[m].seq <= audit[n].seq

(* The hash of a row is the row, named by where it was inserted. *)
recordAudit(approval, at) ==
  LET prev == findLatest
  IN  audit' = Append(audit,
        [seq |-> (IF prev = 0 THEN 0 ELSE audit[prev].seq) + 1, prev |-> prev,
         approval |-> approval, at |-> at])

(* Events that carry a date fromBusEvent knows the name of. *)
Dated == {"KycApproved", "KycRejected", "MoneyMoved"}

auditEvent ==
  LET s == Head(run.steps)
  IN  /\ next("audit")
      /\ recordAudit(IF s.event = "KycApproved" THEN s.subject ELSE 0,
                     IF s.event \in Dated THEN s.at ELSE clock)
      /\ continue(<< >>)
      /\ UNCHANGED <<tables, finishing, clock, cut, faults, crashes>>

(* Every route here is audited but the approval of a pending action. *)
respond ==
  /\ run # NoRun
  /\ run.steps = << >>
  /\ finishing' =
       finishing + (IF run.route = "admin.pending.approve" THEN 0 ELSE 1)
  /\ run' = NoRun
  /\ UNCHANGED <<tables, audit, clock, cut, faults, crashes>>

(* "finish" or "close", once for each response. *)
auditMiddleware ==
  /\ run = NoRun
  /\ finishing > 0
  /\ recordAudit(0, clock)
  /\ finishing' = finishing - 1
  /\ UNCHANGED <<tables, run, clock, cut, faults, crashes>>
-----------------------------------------------------------------------------
(* Faults. *)

(* A wildcard subscriber's error is swallowed by publish. *)
auditFails ==
  /\ next("audit")
  /\ faults < MaxFaults
  /\ faults' = faults + 1
  /\ continue(<< >>)
  /\ UNCHANGED <<tables, audit, finishing, clock, cut, crashes>>

(* Any other error ends the request; what it committed stays. *)
stepFails ==
  /\ run.steps # << >>
  /\ ~ next("audit")
  /\ faults < MaxFaults
  /\ faults' = faults + 1
  /\ cutShort
  /\ fail
  /\ UNCHANGED <<tables, audit, finishing, clock, crashes>>

Crash ==
  /\ crashes < MaxCrashes
  /\ run # NoRun \/ finishing > 0
  /\ crashes' = crashes + 1
  /\ cutShort
  /\ run' = NoRun
  /\ finishing' = 0
  /\ UNCHANGED <<tables, audit, clock, faults>>

Tick ==
  /\ clock < MaxClock
  /\ clock' = clock + 1
  /\ UNCHANGED <<tables, audit, run, finishing, cut, faults, crashes>>

-----------------------------------------------------------------------------
KycRequest ==
  \/ \E u \in Users, type \in Types :
       \/ submitKyc(u, type)
       \/ openAdditionalAccount(u, type)
  \/ \E i \in DOMAIN applications :
       \/ approveKyc(i)
       \/ rejectKyc(i)
       \/ refuseDecision(i)

AccountRequest ==
  \E a \in DOMAIN accounts :
    freezeAccount(a) \/ unfreezeAccount(a) \/ closeAccount(a)

BillRequest ==
  \E a \in DOMAIN accounts, amount \in Amounts, key \in Keys \cup {NoKey} :
    payBill(a, amount, key)

FaucetRequest ==
  \/ \E a \in 1..MaxAccounts, amount \in Amounts, key \in Keys \cup {NoKey} :
       \/ createPendingAction(a, amount, key)
       \/ faucetDeposit(a, amount, key)
  \/ \E key \in Keys : repeatFaucetDeposit(key)
  \/ \E p \in DOMAIN pendingActions : approvePendingAction(p)

RunStep ==
  \/ setKycTier
  \/ createAccountForUser
  \/ emitNotification
  \/ executeDeposit
  \/ repeatDeposit
  \/ depositRefused
  \/ markPendingExecuted
  \/ auditEvent
  \/ respond

BackOfficeNext ==
  \/ KycRequest
  \/ AccountRequest
  \/ FaucetRequest
  \/ BillRequest
  \/ RunStep
  \/ auditMiddleware
  \/ auditFails
  \/ stepFails
  \/ Crash
  \/ Tick

BackOfficeSpec == BackOfficeInit /\ [][BackOfficeNext]_backOfficeVars
-----------------------------------------------------------------------------
(* Properties *)

(* The number of a run's approval while it is under way, else 0. *)
approving == IF run.route = "kyc.approve" THEN run.subject ELSE 0

(* An approved customer has an account of the type asked for, unless the   *)
(* approval was cut short between the commit of the application and that   *)
(* of the account; no customer without an approval has one.                *)
ApprovalOpensAccount ==
  /\ \A i \in DOMAIN applications :
       applications[i].status = "Approved" =>
         \/ \E a \in accountsOf(applications[i].user) :
              accounts[a].type = applications[i].type
         \/ i = approving
         \/ i \in cut
  /\ \A a \in DOMAIN accounts : isApproved(accounts[a].user)

(* The bus's audit row of an approval is the last thing the approval       *)
(* writes: where it stands, the tier is set and the account exists.        *)
AuditedApprovalIsComplete ==
  \A n \in DOMAIN audit :
    audit[n].approval # 0 =>
      LET app == applications[audit[n].approval]
      IN  /\ tier[app.user] = "full"
          /\ \E a \in accountsOf(app.user) : accounts[a].type = app.type

depositsFor(p) == { d \in DOMAIN transfers : transfers[d].cause = p }

(* However its approval is cut short and asked for again, a pending action *)
(* moves money once at most and never before it is approved; it is         *)
(* executed only when its deposit is there or another transfer, whoever's  *)
(* it is, has its key, so that no second deposit was due under that key.   *)
PendingActionPaysOnce ==
  \A p \in DOMAIN pendingActions :
    /\ Cardinality(depositsFor(p)) <= 1
    /\ pendingActions[p].status = "pending" => depositsFor(p) = {}
    /\ pendingActions[p].status = "executed" =>
         depositsFor(p) # {} \/ keyKnown(pendingActions[p].key)

(* GET /verify answers ok: in the order of seq, every row holds the hash   *)
(* of the row before it, whatever the order of the dates they carry.       *)
AuditChainVerifies ==
  \A n \in DOMAIN audit :
    /\ audit[n].prev = n - 1
    /\ audit[n].seq = n
=============================================================================
