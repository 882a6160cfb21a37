-------------------------- MODULE BackOfficeProofs --------------------------
(***************************************************************************)
(* What TLAPS proves of BackOffice for every set of users, account types,  *)
(* keys and amounts, and every bound.                                      *)
(***************************************************************************)
EXTENDS BackOffice, TLAPS, FiniteSetTheorems, SequenceTheorems

Kinds == {"setTier", "openAccount", "notify", "deposit", "execute", "audit"}

QuietEvents ==
  { "KycSubmitted", "KycRejected", "AccountOpened", "AccountFrozen",
    "AccountUnfrozen", "AccountClosed", "MoneyMoved", "BillPaid" }

Events == QuietEvents \cup {"none", "KycApproved"}

Routes ==
  { "none", "kyc.submit", "kyc.approve", "kyc.reject", "refused",
    "account.open", "account.freeze", "account.unfreeze", "account.close",
    "admin.faucet", "admin.pending.approve", "bill.pay" }

Step == [do : Kinds, event : Events, subject : Nat, at : Nat]

Application ==
  [user : Users, type : Types, status : {"Submitted", "Approved", "Rejected"}]

BankAccount == [user : Users, type : Types, row : Account]

Pending ==
  [ account : Nat, amount : Nat, key : Keys \cup {NoKey},
    status : {"pending", "approved", "executed"} ]

Transfer == [account : Nat, amount : Nat, key : Keys \cup {NoKey}, cause : Nat]

AuditRow == [seq : Nat, prev : Nat, approval : Nat, at : Nat]

TypeOK ==
  /\ applications \in Seq(Application)
  /\ tier \in [Users -> {"none", "full"}]
  /\ accounts \in Seq(BankAccount)
  /\ pendingActions \in Seq(Pending)
  /\ transfers \in Seq(Transfer)
  /\ audit \in Seq(AuditRow)
  /\ run \in [route : Routes, subject : Nat, steps : Seq(Step)]
  /\ finishing \in Nat /\ clock \in Nat
  /\ faults \in Nat /\ crashes \in Nat

hasAccount(i) ==
  \E a \in accountsOf(applications[i].user) :
    accounts[a].type = applications[i].type

hasTier(i) == tier[applications[i].user] = "full"

isPaid(p) == depositsFor(p) # {} \/ keyKnown(pendingActions[p].key)

(* A step of this kind stands before the k-th. *)
before(steps, do, k) == \E j \in 1..(k - 1) : steps[j].do = do

(* What an approval under way has still to do: what is not there yet is    *)
(* among the steps before the audit row, and the account is opened unless  *)
(* the approval is cut short.                                              *)
ApprovalSteps ==
  /\ run.route = "kyc.approve" =>
       /\ run.subject \in DOMAIN applications
       /\ applications[run.subject].status = "Approved"
       /\ \/ hasAccount(run.subject)
          \/ run.subject \in cut
          \/ before(run.steps, "openAccount", Len(run.steps) + 1)
  /\ \A k \in DOMAIN run.steps :
       /\ run.steps[k].do \in {"setTier", "openAccount"} =>
            run.route = "kyc.approve" /\ run.steps[k].subject = run.subject
       /\ run.steps[k].do = "audit" /\ run.steps[k].event = "KycApproved" =>
            /\ run.route = "kyc.approve" /\ run.steps[k].subject = run.subject
            /\ hasTier(run.subject) \/ before(run.steps, "setTier", k)
            /\ hasAccount(run.subject) \/ before(run.steps, "openAccount", k)

(* What the approval of a pending action has still to do: the deposit      *)
(* comes first and is not there before, and the action is marked executed  *)
(* only behind it.                                                         *)
DepositSteps ==
  /\ run.route = "admin.pending.approve" =>
       /\ run.subject \in DOMAIN pendingActions
       /\ pendingActions[run.subject].status # "pending"
  /\ \A k \in DOMAIN run.steps :
       /\ run.steps[k].do \in {"deposit", "execute"} =>
            /\ run.route = "admin.pending.approve"
            /\ run.steps[k].subject = run.subject
       /\ run.steps[k].do = "deposit" =>
            k = 1 /\ depositsFor(run.subject) = {}
       /\ run.steps[k].do = "execute" =>
            isPaid(run.subject) \/ before(run.steps, "deposit", k)

(* What is committed, whatever is under way. *)
Approved ==
  /\ \A i \in DOMAIN applications :
       applications[i].status = "Approved" =>
         hasAccount(i) \/ i = approving \/ i \in cut
  /\ \A a \in DOMAIN accounts : isApproved(accounts[a].user)

Audited ==
  \A n \in DOMAIN audit :
    audit[n].approval # 0 =>
      /\ audit[n].approval \in DOMAIN applications
      /\ hasTier(audit[n].approval) /\ hasAccount(audit[n].approval)

Paid ==
  /\ \A d \in DOMAIN transfers : transfers[d].cause <= Len(pendingActions)
  /\ \A d, e \in DOMAIN transfers :
       transfers[d].cause = transfers[e].cause /\ transfers[d].cause # 0 => d = e
  /\ \A p \in DOMAIN pendingActions :
       /\ pendingActions[p].status = "pending" => depositsFor(p) = {}
       /\ pendingActions[p].status = "executed" => isPaid(p)

(* The inductive invariant.  What is committed is safe because of what the *)
(* request under way has still to do, and a step is cut off in the order   *)
(* in which the steps stand.                                               *)
IInv ==
  /\ TypeOK
  /\ ApprovalSteps
  /\ DepositSteps
  /\ Approved
  /\ Audited
  /\ Paid
  /\ AuditChainVerifies
-----------------------------------------------------------------------------
(* Sequences of steps. *)

(* What is left when the first step is done and others take its place: the *)
(* new ones, then the old ones, with the same steps before each.           *)
LEMMA Continued ==
  ASSUME NEW steps \in Seq(Step), steps # << >>, NEW more \in Seq(Step)
  PROVE  LET left == more \o Tail(steps)
         IN  /\ left \in Seq(Step)
             /\ Len(left) = Len(more) + Len(steps) - 1
             /\ \A k \in DOMAIN left :
                  \/ k \in DOMAIN more /\ left[k] = more[k]
                  \/ \E m \in DOMAIN steps :
                       /\ m > 1 /\ left[k] = steps[m] /\ k = Len(more) + m - 1
             /\ \A k \in 2..(Len(steps) + 1), do \in Kinds :
                  before(steps, do, k) =>
                    \/ Head(steps).do = do
                    \/ before(left, do, Len(more) + k - 1)
<1> DEFINE left == more \o Tail(steps)
<1>1. /\ Tail(steps) \in Seq(Step)
      /\ Len(Tail(steps)) = Len(steps) - 1
      /\ Len(steps) \in Nat \ {0}
      /\ \A m \in 1..(Len(steps) - 1) : Tail(steps)[m] = steps[m + 1]
      /\ Head(steps) = steps[1]
  BY HeadTailProperties, EmptySeq, LenProperties
<1>2. /\ left \in Seq(Step)
      /\ Len(left) = Len(more) + Len(steps) - 1
      /\ \A k \in 1..Len(left) :
           left[k] = IF k <= Len(more) THEN more[k] ELSE Tail(steps)[k - Len(more)]
  BY <1>1, ConcatProperties
<1>3. Len(more) \in Nat /\ DOMAIN more = 1..Len(more)
      /\ DOMAIN steps = 1..Len(steps) /\ DOMAIN left = 1..Len(left)
  BY <1>2, LenProperties
<1> HIDE DEF left
<1>4. ASSUME NEW m \in 2..Len(steps)
      PROVE  /\ Len(more) + m - 1 \in 1..Len(left)
             /\ left[Len(more) + m - 1] = steps[m]
  <2> DEFINE k == Len(more) + m - 1
  <2>1. k \in 1..Len(left) /\ ~ k <= Len(more) /\ k - Len(more) = m - 1
    BY <1>1, <1>2, <1>3
  <2>2. left[k] = Tail(steps)[m - 1]
    BY <2>1, <1>2
  <2>3. m - 1 \in 1..(Len(steps) - 1) /\ (m - 1) + 1 = m
    BY <1>1, <1>3
  <2>4. Tail(steps)[m - 1] = steps[m]
    BY <2>3, <1>1
  <2> QED
    BY <2>1, <2>2, <2>4
<1>5. ASSUME NEW k \in DOMAIN left
      PROVE  \/ k \in DOMAIN more /\ left[k] = more[k]
             \/ \E m \in DOMAIN steps :
                  m > 1 /\ left[k] = steps[m] /\ k = Len(more) + m - 1
  <2>1. CASE k <= Len(more)
    BY <2>1, <1>2, <1>3
  <2>2. CASE ~ k <= Len(more)
    <3> DEFINE m == k - Len(more) + 1
    <3>1. m \in 2..Len(steps) /\ k = Len(more) + m - 1
      BY <2>2, <1>1, <1>2, <1>3
    <3>2. left[k] = steps[m] /\ m \in DOMAIN steps /\ m > 1
      BY <3>1, <1>3, <1>4
    <3> QED
      BY <3>1, <3>2
  <2> QED
    BY <2>1, <2>2
<1>6. ASSUME NEW k \in 2..(Len(steps) + 1), NEW do \in Kinds,
             before(steps, do, k)
      PROVE  Head(steps).do = do \/ before(left, do, Len(more) + k - 1)
  <2>1. PICK j \in 1..(k - 1) : steps[j].do = do
    BY <1>6 DEF before
  <2>2. CASE j = 1
    BY <2>1, <2>2, <1>1
  <2>3. CASE j # 1
    <3> DEFINE n == Len(more) + j - 1
    <3>1. j \in 2..Len(steps) /\ n \in 1..((Len(more) + k - 1) - 1)
      BY <2>1, <2>3, <1>1, <1>2, <1>3
    <3> QED
      BY <3>1, <1>4, <2>1 DEF before
  <2> QED
    BY <2>2, <2>3
<1> QED
  BY <1>2, <1>5, <1>6 DEF left

(* Steps nothing committed waits for. *)
Quiet(steps) ==
  \A k \in DOMAIN steps :
    steps[k].do \in {"notify", "audit"} /\ steps[k].event # "KycApproved"

(* The lists that publish and approveKyc build. *)
LEMMA Pair ==
  ASSUME NEW x \in Step, NEW y \in Step
  PROVE  << x >> \o << y >> = << x, y >>
<1> DEFINE a == << x >>
           b == << y >>
           c == << x, y >>
<1>1. /\ a \in Seq(Step) /\ Len(a) = 1 /\ a[1] = x
      /\ b \in Seq(Step) /\ Len(b) = 1 /\ b[1] = y
      /\ c \in Seq(Step) /\ Len(c) = 2 /\ c[1] = x /\ c[2] = y
  OBVIOUS
<1> HIDE DEF a, b, c
<1>2. a \o b \in Seq(Step) /\ Len(a \o b) = 2
  BY <1>1, ConcatProperties
<1>3. \A i \in 1..2 : (a \o b)[i] = c[i]
  BY <1>1, ConcatProperties
<1>4. a \o b = c
  BY <1>1, <1>2, <1>3, SeqEqual
<1> QED
  BY <1>4 DEF a, b, c

LEMMA ListOfFour ==
  ASSUME NEW w \in Step, NEW x \in Step, NEW y \in Step, NEW z \in Step
  PROVE  << w >> \o (<< x, y >> \o << z >>) = << w, x, y, z >>
<1> DEFINE a == << w >>
           b == << x, y >>
           c == << z >>
           d == << w, x, y, z >>
           e == b \o c
<1>1. /\ a \in Seq(Step) /\ Len(a) = 1 /\ a[1] = w
      /\ b \in Seq(Step) /\ Len(b) = 2 /\ b[1] = x /\ b[2] = y
      /\ c \in Seq(Step) /\ Len(c) = 1 /\ c[1] = z
      /\ d \in Seq(Step) /\ Len(d) = 4
      /\ d[1] = w /\ d[2] = x /\ d[3] = y /\ d[4] = z
  OBVIOUS
<1> HIDE DEF a, b, c, d
<1>2. /\ e \in Seq(Step) /\ Len(e) = Len(b) + Len(c)
      /\ \A i \in 1..(Len(b) + Len(c)) :
           e[i] = IF i <= Len(b) THEN b[i] ELSE c[i - Len(b)]
  BY <1>1, ConcatProperties
<1>3. Len(e) = 3 /\ e[1] = x /\ e[2] = y /\ e[3] = z
  BY <1>1, <1>2
<1> HIDE DEF e
<1>4. /\ a \o e \in Seq(Step) /\ Len(a \o e) = Len(a) + Len(e)
      /\ \A i \in 1..(Len(a) + Len(e)) :
           (a \o e)[i] = IF i <= Len(a) THEN a[i] ELSE e[i - Len(a)]
  <2>1. a \in Seq(Step) /\ e \in Seq(Step)
    BY <1>1, <1>2
  <2> QED
    BY <2>1, ConcatProperties
<1>5. Len(a \o e) = 4 /\ \A i \in 1..4 : (a \o e)[i] = d[i]
  BY <1>1, <1>3, <1>4
<1>6. a \o e = d
  BY <1>1, <1>4, <1>5, SeqEqual
<1> QED
  BY <1>6 DEF a, b, c, d, e

(* What every event but an approval leads to. *)
LEMMA Published ==
  ASSUME NEW about \in Nat, clock \in Nat, NEW event \in QuietEvents
  PROVE  publish(event, about) \in Seq(Step) /\ Quiet(publish(event, about))
<1> DEFINE n == step("notify", about)
           a == auditStep(event, about)
<1>1. n \in Step /\ a \in Step /\ n.do = "notify" /\ n.event = "none"
      /\ a.do = "audit" /\ a.event = event
  BY DEF step, auditStep, Step, Kinds, QuietEvents, Events
<1>2. event # "KycApproved"
  BY DEF QuietEvents
<1>3. handlersOf(event, about) = << n >> \/ handlersOf(event, about) = << >>
  BY <1>2 DEF handlersOf, QuietEvents
<1> HIDE DEF n
<1>4. CASE handlersOf(event, about) = << n >>
  <2>1. publish(event, about) = << n, a >>
    BY <1>4, <1>1, Pair DEF publish
  <2> HIDE DEF a
  <2>2. << n, a >> \in Seq(Step) /\ Quiet(<< n, a >>)
    BY <1>1, <1>2 DEF Quiet
  <2> QED
    BY <2>1, <2>2
<1>5. CASE handlersOf(event, about) = << >>
  <2>1. publish(event, about) = << a >>
    BY <1>5 DEF publish
  <2> HIDE DEF a
  <2>2. << a >> \in Seq(Step) /\ Quiet(<< a >>)
    BY <1>1, <1>2 DEF Quiet
  <2> QED
    BY <2>1, <2>2
<1> QED
  BY <1>3, <1>4, <1>5

(* The steps of an approval, in order. *)
LEMMA ApprovalPublished ==
  ASSUME NEW i \in Nat, clock \in Nat
  PROVE  LET steps == << step("setTier", i) >> \o publish("KycApproved", i)
         IN  /\ steps \in Seq(Step)
             /\ steps = << step("setTier", i), step("openAccount", i),
                           step("notify", i), auditStep("KycApproved", i) >>
<1> DEFINE w == step("setTier", i)
           x == step("openAccount", i)
           y == step("notify", i)
           z == auditStep("KycApproved", i)
<1>1. publish("KycApproved", i) = << x, y >> \o << z >>
  BY DEF publish, handlersOf
<1>2. w \in Step /\ x \in Step /\ y \in Step /\ z \in Step
  BY DEF step, auditStep, Step, Kinds, Events
<1> HIDE DEF w, x, y, z
<1>3. << w >> \o (<< x, y >> \o << z >>) = << w, x, y, z >>
  BY <1>2, ListOfFour
<1>4. << w, x, y, z >> \in Seq(Step)
  BY <1>2
<1>5. << w >> \o publish("KycApproved", i) = << w, x, y, z >>
  BY <1>1, <1>3
<1> QED
  BY <1>4, <1>5 DEF w, x, y, z
-----------------------------------------------------------------------------
(* Type correctness. *)

(* An account row stays one, whatever is done to it. *)
LEMMA RowsAreTyped ==
  ASSUME NEW acc \in Account, NEW amount \in Nat
  PROVE  /\ open(0) \in Account /\ freeze(acc) \in Account
         /\ unfreeze(acc) \in Account /\ close(acc) \in Account
         /\ credit(acc, amount) \in Account
BY DEF Account, AccountStatuses, open, freeze, unfreeze, close, credit

LEMMA RowsOfTables ==
  ASSUME TypeOK
  PROVE  /\ \A i \in DOMAIN applications : applications[i] \in Application /\ i \in Nat \ {0}
         /\ \A a \in DOMAIN accounts : accounts[a] \in BankAccount /\ a \in Nat \ {0}
         /\ \A p \in DOMAIN pendingActions :
              pendingActions[p] \in Pending /\ p \in Nat \ {0}
         /\ \A d \in DOMAIN transfers : transfers[d] \in Transfer /\ d \in Nat \ {0}
         /\ \A k \in DOMAIN run.steps : run.steps[k] \in Step /\ k \in Nat \ {0}
BY ElementOfSeq, LenProperties DEF TypeOK

(* The row written behind the latest one. *)
LEMMA AuditRowTyped ==
  ASSUME TypeOK, AuditChainVerifies,
         NEW approval \in Nat, NEW at \in Nat, recordAudit(approval, at)
  PROVE  /\ audit' = Append(audit, [seq |-> Len(audit) + 1, prev |-> Len(audit),
                                    approval |-> approval, at |-> at])
         /\ audit' \in Seq(AuditRow)
<1>1. audit \in Seq(AuditRow) /\ Len(audit) \in Nat /\ DOMAIN audit = 1..Len(audit)
  BY DEF TypeOK
<1>2. findLatest = Len(audit)
  <2>1. CASE audit = << >>
    BY <2>1 DEF findLatest
  <2>2. CASE audit # << >>
    <3>1. Len(audit) \in DOMAIN audit
      BY <2>2, <1>1, EmptySeq
    <3>2. \A n \in DOMAIN audit : audit[n].seq = n
      BY DEF AuditChainVerifies
    <3>3. \A n \in DOMAIN audit :
            (\A m \in DOMAIN audit : audit[m].seq <= audit[n].seq) <=> n = Len(audit)
      BY <3>1, <3>2, <1>1
    <3>4. findLatest = CHOOSE n \in DOMAIN audit : n = Len(audit)
      BY <2>2, <3>3 DEF findLatest
    <3> QED
      BY <3>1, <3>4
  <2> QED
    BY <2>1, <2>2
<1>3. (IF findLatest = 0 THEN 0 ELSE audit[findLatest].seq) = Len(audit)
  BY <1>1, <1>2 DEF AuditChainVerifies
<1>4. audit' = Append(audit, [seq |-> Len(audit) + 1, prev |-> Len(audit),
                              approval |-> approval, at |-> at])
  BY <1>2, <1>3 DEF recordAudit
<1> QED
  BY <1>1, <1>4 DEF AuditRow
-----------------------------------------------------------------------------
(* What a step leaves as it was. *)

(* Applications, accounts and tiers are never taken back, nor is a cut. *)
Grows ==
  /\ \A i \in DOMAIN applications :
       /\ i \in DOMAIN applications'
       /\ applications'[i].user = applications[i].user
       /\ applications'[i].type = applications[i].type
       /\ applications[i].status = "Approved" => applications'[i].status = "Approved"
  /\ \A a \in DOMAIN accounts :
       /\ a \in DOMAIN accounts'
       /\ accounts'[a].user = accounts[a].user
       /\ accounts'[a].type = accounts[a].type
  /\ \A u \in Users : tier[u] = "full" => tier'[u] = "full"
  /\ cut \subseteq cut'

(* Deposits stay, and a pending action once decided is not pending again. *)
MoneyGrows ==
  /\ \A d \in DOMAIN transfers :
       d \in DOMAIN transfers' /\ transfers'[d] = transfers[d]
  /\ \A p \in DOMAIN pendingActions :
       /\ p \in DOMAIN pendingActions'
       /\ pendingActions'[p].key = pendingActions[p].key
       /\ pendingActions[p].status # "pending" => pendingActions'[p].status # "pending"

LEMMA WhatGrowsIsKept ==
  ASSUME TypeOK, Grows
  PROVE  /\ \A i \in DOMAIN applications :
              /\ hasAccount(i) => hasAccount(i)'
              /\ hasTier(i) => hasTier(i)'
         /\ \A u : isApproved(u) => isApproved(u)'
<1>1. ASSUME NEW i \in DOMAIN applications
      PROVE  /\ hasAccount(i) => hasAccount(i)'
             /\ hasTier(i) => hasTier(i)'
  <2>1. applications[i].user \in Users
    BY RowsOfTables DEF Application
  <2> QED
    BY <2>1 DEF Grows, hasAccount, accountsOf, hasTier
<1>2. ASSUME NEW u, isApproved(u)
      PROVE  isApproved(u)'
  BY <1>2 DEF Grows, isApproved, applicationsOf
<1> QED
  BY <1>1, <1>2

LEMMA PaidIsKept ==
  ASSUME TypeOK, MoneyGrows
  PROVE  \A p \in DOMAIN pendingActions : isPaid(p) => isPaid(p)'
BY DEF MoneyGrows, isPaid, depositsFor, keyKnown

(* A request none of whose steps anything waits for. *)
LEMMA QuietRequest ==
  ASSUME NEW route \in Routes \ {"kyc.approve", "admin.pending.approve"},
         NEW about \in Nat, NEW steps \in Seq(Step), Quiet(steps),
         begin(route, about, steps)
  PROVE  /\ run' \in [route : Routes, subject : Nat, steps : Seq(Step)]
         /\ ApprovalSteps' /\ DepositSteps' /\ approving' = 0
BY DEF Quiet, begin, ApprovalSteps, DepositSteps, approving

(* The committed rows stay right as long as they grow, if the new ones are *)
(* right themselves.                                                       *)
LEMMA ApprovedIsKept ==
  ASSUME TypeOK, Approved, Grows,
         \A i \in DOMAIN applications' :
           i \notin DOMAIN applications \/ applications'[i].status # applications[i].status
             => applications'[i].status # "Approved" \/ i = approving',
         approving' = approving
           \/ \A i \in DOMAIN applications : i = approving => hasAccount(i)' \/ i \in cut',
         \A a \in DOMAIN accounts' :
           a \in DOMAIN accounts
             \/ \A u : u = accounts'[a].user => isApproved(u)'
  PROVE  Approved'
<1>1. ASSUME NEW i \in DOMAIN applications', applications'[i].status = "Approved"
      PROVE  hasAccount(i)' \/ i = approving' \/ i \in cut'
  <2>1. CASE i \in DOMAIN applications /\ applications[i].status = "Approved"
    <3>1. hasAccount(i) \/ i = approving \/ i \in cut
      BY <2>1 DEF Approved
    <3> QED
      BY <2>1, <3>1, WhatGrowsIsKept DEF Grows
  <2>2. CASE ~ (i \in DOMAIN applications /\ applications[i].status = "Approved")
    BY <1>1, <2>2
  <2> QED
    BY <2>1, <2>2
<1>2. ASSUME NEW a \in DOMAIN accounts'
      PROVE  \A u : u = accounts'[a].user => isApproved(u)'
  BY WhatGrowsIsKept DEF Grows, Approved
<1> QED
  BY <1>1, <1>2 DEF Approved

LEMMA AuditedIsKept ==
  ASSUME TypeOK, Audited, Grows,
         \A n \in DOMAIN audit' :
           \/ n \in DOMAIN audit /\ audit'[n] = audit[n]
           \/ audit'[n].approval # 0 =>
                /\ audit'[n].approval \in DOMAIN applications
                /\ hasTier(audit'[n].approval) /\ hasAccount(audit'[n].approval)
  PROVE  Audited'
<1>1. ASSUME NEW n \in DOMAIN audit', NEW i, i = audit'[n].approval, i # 0
      PROVE  i \in DOMAIN applications' /\ hasTier(i)' /\ hasAccount(i)'
  <2>1. i \in DOMAIN applications /\ hasTier(i) /\ hasAccount(i)
    BY <1>1 DEF Audited
  <2> QED
    BY <2>1, WhatGrowsIsKept DEF Grows
<1> QED
  BY <1>1 DEF Audited

(* The first step is done and quiet steps take its place: who waited for   *)
(* it finds what it was to write.                                          *)
LEMMA ContinueKeepsSteps ==
  ASSUME TypeOK, TypeOK', ApprovalSteps, DepositSteps, Grows, MoneyGrows,
         run.steps # << >>, NEW about, about = run.subject,
         NEW more \in Seq(Step), Quiet(more), continue(more),
         Head(run.steps).do = "setTier" => hasTier(about)',
         Head(run.steps).do = "openAccount" => hasAccount(about)',
         Head(run.steps).do = "deposit" => isPaid(about)'
  PROVE  ApprovalSteps' /\ DepositSteps' /\ approving' = approving
<1> DEFINE steps == run.steps
           left == more \o Tail(steps)
<1>1. /\ steps \in Seq(Step) /\ Len(steps) \in Nat \ {0} /\ DOMAIN steps = 1..Len(steps)
      /\ run'.route = run.route /\ run'.subject = about /\ run'.steps = left
      /\ Len(more) \in Nat
  BY EmptySeq, LenProperties DEF TypeOK, continue
<1>2. /\ left \in Seq(Step)
      /\ Len(left) = Len(more) + Len(steps) - 1
      /\ DOMAIN left = 1..Len(left)
      /\ \A k \in DOMAIN left :
           \/ k \in DOMAIN more /\ left[k] = more[k]
           \/ \E m \in DOMAIN steps :
                m > 1 /\ left[k] = steps[m] /\ k = Len(more) + m - 1
      /\ \A k \in 2..(Len(steps) + 1), do \in Kinds :
           before(steps, do, k) =>
             Head(steps).do = do \/ before(left, do, Len(more) + k - 1)
  BY <1>1, Continued, LenProperties
<1> HIDE DEF left
<1>3. /\ \A i \in DOMAIN applications :
           (hasAccount(i) => hasAccount(i)') /\ (hasTier(i) => hasTier(i)')
      /\ \A p \in DOMAIN pendingActions : isPaid(p) => isPaid(p)'
  BY WhatGrowsIsKept, PaidIsKept
<1>4. ASSUME run.route = "kyc.approve"
      PROVE  /\ about \in DOMAIN applications'
             /\ applications'[about].status = "Approved"
             /\ \/ hasAccount(about)'
                \/ about \in cut'
                \/ before(left, "openAccount", Len(left) + 1)
  <2>1. /\ about \in DOMAIN applications
        /\ applications[about].status = "Approved"
        /\ \/ hasAccount(about)
           \/ about \in cut
           \/ before(steps, "openAccount", Len(steps) + 1)
    BY <1>4 DEF ApprovalSteps
  <2>2. ASSUME before(steps, "openAccount", Len(steps) + 1)
        PROVE  \/ Head(steps).do = "openAccount"
               \/ before(left, "openAccount", Len(left) + 1)
    <3>1. /\ Len(steps) + 1 \in 2..(Len(steps) + 1) /\ "openAccount" \in Kinds
          /\ Len(more) + (Len(steps) + 1) - 1 = Len(left) + 1
      BY <1>1, <1>2 DEF Kinds
    <3> QED
      BY <2>2, <3>1, <1>2
  <2> QED
    BY <2>1, <2>2, <1>3 DEF Grows
<1>5. ASSUME NEW k \in DOMAIN left
      PROVE  /\ left[k].do \in {"setTier", "openAccount"} =>
                  run.route = "kyc.approve" /\ left[k].subject = about
             /\ left[k].do = "audit" /\ left[k].event = "KycApproved" =>
                  /\ run.route = "kyc.approve" /\ left[k].subject = about
                  /\ hasTier(about)' \/ before(left, "setTier", k)
                  /\ hasAccount(about)' \/ before(left, "openAccount", k)
             /\ left[k].do \in {"deposit", "execute"} =>
                  /\ run.route = "admin.pending.approve"
                  /\ left[k].subject = about
             /\ left[k].do # "deposit"
             /\ left[k].do = "execute" =>
                  isPaid(about)' \/ before(left, "deposit", k)
  <2>1. CASE k \in DOMAIN more /\ left[k] = more[k]
    BY <2>1 DEF Quiet
  <2>2. CASE \E m \in DOMAIN steps :
               m > 1 /\ left[k] = steps[m] /\ k = Len(more) + m - 1
    <3>1. PICK m \in DOMAIN steps :
                 m > 1 /\ left[k] = steps[m] /\ k = Len(more) + m - 1
      BY <2>2
    <3>2. m \in 2..(Len(steps) + 1)
      BY <3>1, <1>1
    <3>3. \A do \in {"setTier", "openAccount", "deposit"} :
            before(steps, do, m) => Head(steps).do = do \/ before(left, do, k)
      BY <3>1, <3>2, <1>2 DEF Kinds
    <3>4. steps[m].do \in {"setTier", "openAccount"} =>
            run.route = "kyc.approve" /\ steps[m].subject = about
      BY DEF ApprovalSteps
    <3>5. steps[m].do = "audit" /\ steps[m].event = "KycApproved" =>
            /\ run.route = "kyc.approve" /\ steps[m].subject = about
            /\ about \in DOMAIN applications
            /\ hasTier(about) \/ before(steps, "setTier", m)
            /\ hasAccount(about) \/ before(steps, "openAccount", m)
      BY DEF ApprovalSteps
    <3>6. /\ steps[m].do \in {"deposit", "execute"} =>
               /\ run.route = "admin.pending.approve"
               /\ steps[m].subject = about
               /\ about \in DOMAIN pendingActions
          /\ steps[m].do # "deposit"
          /\ steps[m].do = "execute" =>
               isPaid(about) \/ before(steps, "deposit", m)
      BY <3>1 DEF DepositSteps
    <3> QED
      BY <3>1, <3>3, <3>4, <3>5, <3>6, <1>3
  <2> QED
    BY <2>1, <2>2, <1>2
<1>6. ApprovalSteps'
  BY <1>1, <1>4, <1>5 DEF ApprovalSteps, hasTier, hasAccount, accountsOf
<1>7. DepositSteps'
  <2>1. run.route = "admin.pending.approve" =>
          /\ about \in DOMAIN pendingActions'
          /\ pendingActions'[about].status # "pending"
    BY DEF DepositSteps, MoneyGrows
  <2> QED
    BY <1>1, <1>5, <2>1 DEF DepositSteps, isPaid, depositsFor, keyKnown
<1>8. approving' = approving
  BY <1>1 DEF approving
<1> QED
  BY <1>6, <1>7, <1>8

(* The request ends early: its approval is cut short, or it is none.       *)
LEMMA FailKeepsSteps ==
  ASSUME TypeOK, ApprovalSteps, DepositSteps, Grows, MoneyGrows, fail,
         run.route = "kyc.approve" => run.subject \in cut'
  PROVE  ApprovalSteps' /\ DepositSteps' /\ approving' = approving
<1>1. /\ run'.route = run.route /\ run'.subject = run.subject
      /\ run'.steps = << >>
  BY DEF TypeOK, fail
<1> QED
  BY <1>1 DEF ApprovalSteps, DepositSteps, approving, Grows, MoneyGrows
-----------------------------------------------------------------------------
(* Every action preserves the invariant. *)

LEMMA UntouchedMoney ==
  ASSUME Paid, UNCHANGED <<pendingActions, transfers>>
  PROVE  Paid' /\ MoneyGrows
BY DEF Paid, MoneyGrows, isPaid, depositsFor, keyKnown

LEMMA UntouchedAudit ==
  ASSUME TypeOK, Audited, AuditChainVerifies, Grows, UNCHANGED audit
  PROVE  Audited' /\ AuditChainVerifies'
<1>1. Audited'
  BY AuditedIsKept
<1> QED
  BY <1>1 DEF AuditChainVerifies

LEMMA Idle ==
  ASSUME run = NoRun
  PROVE  approving = 0 /\ run.steps = << >>
BY DEF NoRun, approving

LEMMA SubmitKeeps ==
  ASSUME IInv, NEW u \in Users, NEW type \in Types, submitKyc(u, type)
  PROVE  IInv'
<1> USE DEF IInv
<1> DEFINE i == Len(applications) + 1
           row == [user |-> u, type |-> type, status |-> "Submitted"]
<1>1. /\ i \in Nat /\ row \in Application
      /\ applications' = Append(applications, row)
      /\ UNCHANGED <<tier, accounts, pendingActions, transfers, audit, finishing,
                     clock, cut, faults, crashes>>
      /\ begin("kyc.submit", i, publish("KycSubmitted", i))
      /\ approving = 0
  <2>1. Len(applications) \in Nat /\ row \in Application
    BY DEF TypeOK, Application
  <2> QED
    BY <2>1, Idle DEF submitKyc, ready
<1>2. /\ publish("KycSubmitted", i) \in Seq(Step)
      /\ Quiet(publish("KycSubmitted", i))
  BY <1>1, Published DEF TypeOK, QuietEvents
<1>3. /\ run' \in [route : Routes, subject : Nat, steps : Seq(Step)]
      /\ ApprovalSteps' /\ DepositSteps' /\ approving' = 0
  BY <1>1, <1>2, QuietRequest DEF Routes
<1>4. /\ applications' \in Seq(Application)
      /\ DOMAIN applications' = DOMAIN applications \cup {i}
      /\ \A j \in DOMAIN applications : applications'[j] = applications[j]
      /\ applications'[i] = row
  <2>1. applications \in Seq(Application)
    BY DEF TypeOK
  <2> QED
    BY ONLY <1>1, <2>1
<1>5. TypeOK'
  <2>1. UNCHANGED <<tier, accounts, pendingActions, transfers, audit, finishing,
                    clock, cut, faults, crashes>>
    BY <1>1
  <2> QED
    BY ONLY TypeOK, <1>3, <1>4, <2>1 DEF TypeOK
<1>6. Grows
  BY <1>1, <1>4 DEF Grows
<1>7. Approved'
  BY <1>1, <1>3, <1>4, <1>6, ApprovedIsKept
<1> QED
  BY <1>1, <1>3, <1>5, <1>6, <1>7, UntouchedMoney, UntouchedAudit

(* The decision is written before anything it leads to. *)
LEMMA DecideGrows ==
  ASSUME IInv, NEW i \in DOMAIN applications, NEW status \in {"Approved", "Rejected"},
         decide(i, status)
  PROVE  /\ applications' \in Seq(Application)
         /\ DOMAIN applications' = DOMAIN applications
         /\ \A j \in DOMAIN applications :
              /\ j # i => applications'[j] = applications[j]
              /\ applications'[i] = [applications[i] EXCEPT !.status = status]
         /\ Grows /\ approving = 0 /\ i \in Nat \ {0}
         /\ applications'[i].status = status
<1>1. /\ applications[i] \in Application /\ i \in Nat \ {0}
      /\ applications[i].status = "Submitted"
      /\ applications' = [applications EXCEPT ![i].status = status]
      /\ UNCHANGED <<tier, accounts, cut>>
      /\ approving = 0
  BY RowsOfTables, Idle DEF IInv, decide, ready
<1>2. [applications[i] EXCEPT !.status = status] \in Application
  BY <1>1 DEF Application
<1>3. /\ applications' \in Seq(Application)
      /\ DOMAIN applications' = DOMAIN applications
      /\ \A j \in DOMAIN applications :
           /\ j # i => applications'[j] = applications[j]
           /\ applications'[i] = [applications[i] EXCEPT !.status = status]
  BY <1>1, <1>2 DEF IInv, TypeOK
<1>4. applications'[i].status = status
  BY <1>1, <1>3 DEF Application
<1>5. Grows
  BY <1>1, <1>3 DEF Grows, Application
<1> QED
  BY <1>1, <1>3, <1>4, <1>5

LEMMA ApproveKeeps ==
  ASSUME IInv, NEW i \in DOMAIN applications, approveKyc(i)
  PROVE  IInv'
<1> USE DEF IInv
<1> DEFINE steps == << step("setTier", i) >> \o publish("KycApproved", i)
<1>1. /\ decide(i, "Approved") /\ begin("kyc.approve", i, steps)
      /\ UNCHANGED <<tier, accounts, pendingActions, transfers, audit, finishing,
                     clock, cut, faults, crashes>>
  BY DEF approveKyc, decide
<1>2. /\ applications' \in Seq(Application)
      /\ DOMAIN applications' = DOMAIN applications
      /\ \A j \in DOMAIN applications : j # i => applications'[j] = applications[j]
      /\ applications'[i].status = "Approved"
      /\ Grows /\ approving = 0 /\ i \in Nat \ {0}
  BY <1>1, DecideGrows
<1>3. /\ steps \in Seq(Step)
      /\ steps = << step("setTier", i), step("openAccount", i),
                    step("notify", i), auditStep("KycApproved", i) >>
  BY <1>1, <1>2, ApprovalPublished DEF TypeOK
<1> HIDE DEF steps
<1>4. /\ Len(steps) = 4 /\ DOMAIN steps = 1..4
      /\ steps[1].do = "setTier" /\ steps[1].subject = i
      /\ steps[2].do = "openAccount" /\ steps[2].subject = i
      /\ steps[3].do = "notify"
      /\ steps[4].do = "audit" /\ steps[4].subject = i
  BY <1>3 DEF step, auditStep
<1>5. run' = [route |-> "kyc.approve", subject |-> i, steps |-> steps]
  BY <1>1 DEF begin
<1>6. /\ before(steps, "openAccount", Len(steps) + 1)
      /\ before(steps, "setTier", 4) /\ before(steps, "openAccount", 4)
  BY <1>4 DEF before
<1>7. ApprovalSteps' /\ DepositSteps' /\ approving' = i
  <2>1. ApprovalSteps'
    <3>1. run'.route = "kyc.approve" /\ run'.subject = i /\ run'.steps = steps
      BY <1>5
    <3>2. ASSUME NEW k \in 1..4
          PROVE  /\ steps[k].do # "notify" => steps[k].subject = i
                 /\ steps[k].do = "audit" =>
                      before(steps, "setTier", k) /\ before(steps, "openAccount", k)
      <4>1. k = 1 \/ k = 2 \/ k = 3 \/ k = 4
        OBVIOUS
      <4> QED
        BY <4>1, <1>4, <1>6
    <3> QED
      BY <1>2, <1>4, <1>6, <3>1, <3>2 DEF ApprovalSteps
  <2>2. DepositSteps'
    BY <1>4, <1>5 DEF DepositSteps
  <2> QED
    BY <2>1, <2>2, <1>5 DEF approving
<1>8. TypeOK'
  BY <1>1, <1>2, <1>3, <1>5 DEF TypeOK, Routes
<1>9. Approved'
  <2>1. \A j \in DOMAIN applications : j # approving
    BY <1>2, RowsOfTables
  <2> QED
    BY <1>1, <1>2, <1>7, <2>1, ApprovedIsKept
<1> QED
  BY <1>1, <1>2, <1>7, <1>8, <1>9, UntouchedMoney, UntouchedAudit

LEMMA RejectKeeps ==
  ASSUME IInv, NEW i \in DOMAIN applications, rejectKyc(i)
  PROVE  IInv'
<1> USE DEF IInv
<1>1. /\ decide(i, "Rejected")
      /\ begin("kyc.reject", i, publish("KycRejected", i))
      /\ UNCHANGED <<tier, accounts, pendingActions, transfers, audit, finishing,
                     clock, cut, faults, crashes>>
  BY DEF rejectKyc, decide
<1>2. /\ applications' \in Seq(Application)
      /\ DOMAIN applications' = DOMAIN applications
      /\ \A j \in DOMAIN applications : j # i => applications'[j] = applications[j]
      /\ applications'[i].status = "Rejected"
      /\ Grows /\ approving = 0 /\ i \in Nat \ {0}
  BY <1>1, DecideGrows
<1>3. /\ publish("KycRejected", i) \in Seq(Step)
      /\ Quiet(publish("KycRejected", i))
  BY <1>2, Published DEF TypeOK, QuietEvents
<1>4. /\ run' \in [route : Routes, subject : Nat, steps : Seq(Step)]
      /\ ApprovalSteps' /\ DepositSteps' /\ approving' = 0
  BY <1>1, <1>2, <1>3, QuietRequest DEF Routes
<1>5. TypeOK'
  BY <1>1, <1>2, <1>4 DEF TypeOK
<1>6. Approved'
  BY <1>1, <1>2, <1>4, ApprovedIsKept
<1> QED
  BY <1>1, <1>2, <1>4, <1>5, <1>6, UntouchedMoney, UntouchedAudit

(* Requests that write no table, and those that write an account row or    *)
(* open an account.                                                        *)
LEMMA NothingWrittenKeeps ==
  ASSUME IInv, NEW route \in {"refused", "admin.faucet"}, NEW about \in Nat,
         run = NoRun, begin(route, about, << >>),
         UNCHANGED <<tables, audit, finishing, clock, cut, faults, crashes>>
  PROVE  IInv'
<1> USE DEF IInv, tables
<1>1. << >> \in Seq(Step) /\ Quiet(<< >>)
  BY DEF Quiet
<1>2. /\ run' \in [route : Routes, subject : Nat, steps : Seq(Step)]
      /\ ApprovalSteps' /\ DepositSteps' /\ approving' = 0
  BY <1>1, QuietRequest DEF Routes
<1>3. Grows /\ approving = 0
  BY Idle DEF Grows
<1>4. TypeOK'
  BY <1>2 DEF TypeOK
<1>5. Approved'
  BY <1>2, <1>3, ApprovedIsKept
<1> QED
  BY <1>2, <1>3, <1>4, <1>5, UntouchedMoney, UntouchedAudit

LEMMA OpenKeeps ==
  ASSUME IInv, NEW u \in Users, NEW type \in Types, openAdditionalAccount(u, type)
  PROVE  IInv'
<1> USE DEF IInv
<1> DEFINE a == Len(accounts) + 1
<1>1. /\ a \in Nat /\ newAccount(u, type) \in BankAccount
      /\ newAccount(u, type).user = u
      /\ accounts' = Append(accounts, newAccount(u, type))
      /\ UNCHANGED <<applications, tier, pendingActions, transfers, audit,
                     finishing, clock, cut, faults, crashes>>
      /\ begin("account.open", a, publish("AccountOpened", a))
      /\ isApproved(u) /\ approving = 0
  <2>1. open(0) \in Account
    BY DEF open, Account, AccountStatuses
  <2> QED
    BY <2>1, Idle DEF openAdditionalAccount, ready, TypeOK, newAccount, BankAccount,
      hasBankingAccess
<1>2. publish("AccountOpened", a) \in Seq(Step) /\ Quiet(publish("AccountOpened", a))
  BY <1>1, Published DEF TypeOK, QuietEvents
<1>3. /\ run' \in [route : Routes, subject : Nat, steps : Seq(Step)]
      /\ ApprovalSteps' /\ DepositSteps' /\ approving' = 0
  BY <1>1, <1>2, QuietRequest DEF Routes
<1>4. /\ accounts' \in Seq(BankAccount)
      /\ DOMAIN accounts' = DOMAIN accounts \cup {a}
      /\ \A b \in DOMAIN accounts : accounts'[b] = accounts[b]
      /\ accounts'[a].user = u
  BY SMTT(30), <1>1 DEF TypeOK
<1>5. TypeOK'
  BY <1>1, <1>3, <1>4 DEF TypeOK
<1>6. Grows
  BY <1>1, <1>4 DEF Grows
<1>7. Approved'
  <2>1. isApproved(u)'
    BY <1>1, <1>6, WhatGrowsIsKept
  <2> QED
    BY <1>1, <1>3, <1>4, <1>6, <2>1, ApprovedIsKept
<1> QED
  BY <1>1, <1>3, <1>5, <1>6, <1>7, UntouchedMoney, UntouchedAudit

LEMMA SetRowKeeps ==
  ASSUME IInv, NEW a \in DOMAIN accounts, NEW row \in Account,
         NEW route \in Routes \ {"kyc.approve", "admin.pending.approve"},
         NEW event \in QuietEvents, setRow(a, row, route, event)
  PROVE  IInv'
<1> USE DEF IInv
<1>1. /\ a \in Nat /\ accounts[a] \in BankAccount
      /\ accounts' = [accounts EXCEPT ![a].row = row]
      /\ UNCHANGED <<applications, tier, pendingActions, transfers, audit,
                     finishing, clock, cut, faults, crashes>>
      /\ begin(route, a, publish(event, a))
      /\ approving = 0
  BY Idle, RowsOfTables DEF setRow, ready
<1>2. publish(event, a) \in Seq(Step) /\ Quiet(publish(event, a))
  BY <1>1, Published DEF TypeOK
<1>3. /\ run' \in [route : Routes, subject : Nat, steps : Seq(Step)]
      /\ ApprovalSteps' /\ DepositSteps' /\ approving' = 0
  BY <1>1, <1>2, QuietRequest
<1>4. [accounts[a] EXCEPT !.row = row] \in BankAccount
  BY <1>1 DEF BankAccount
<1>5. /\ accounts' \in Seq(BankAccount)
      /\ DOMAIN accounts' = DOMAIN accounts
      /\ \A b \in DOMAIN accounts :
           accounts'[b].user = accounts[b].user /\ accounts'[b].type = accounts[b].type
  BY <1>1, <1>4 DEF TypeOK, BankAccount
<1>6. TypeOK'
  BY <1>1, <1>3, <1>5 DEF TypeOK
<1>7. Grows
  BY <1>1, <1>5 DEF Grows
<1>8. Approved'
  BY <1>1, <1>3, <1>5, <1>7, ApprovedIsKept
<1> QED
  BY <1>1, <1>3, <1>6, <1>7, <1>8, UntouchedMoney, UntouchedAudit

(* The row and the account that a transfer writes. *)
LEMMA PostWrites ==
  ASSUME TypeOK, NEW a \in DOMAIN accounts, NEW row \in Account, NEW amount \in Nat,
         NEW key \in Keys \cup {NoKey}, NEW cause \in Nat,
         post(a, row, amount, key, cause),
         UNCHANGED <<applications, tier, cut>>
  PROVE  LET d == Len(transfers) + 1
         IN  /\ accounts' \in Seq(BankAccount)
             /\ transfers' \in Seq(Transfer)
             /\ DOMAIN transfers' = DOMAIN transfers \cup {d} /\ d \in Nat
             /\ d \notin DOMAIN transfers
             /\ \A e \in DOMAIN transfers : transfers'[e] = transfers[e]
             /\ transfers'[d].cause = cause
             /\ Grows /\ DOMAIN accounts' = DOMAIN accounts
<1> DEFINE d == Len(transfers) + 1
           new == [account |-> a, amount |-> amount, key |-> key, cause |-> cause]
           acc == [accounts[a] EXCEPT !.row = row]
<1>1. /\ accounts[a] \in BankAccount /\ a \in Nat
      /\ new \in Transfer
      /\ accounts' = [accounts EXCEPT ![a] = acc]
      /\ transfers' = Append(transfers, new)
  BY RowsOfTables DEF post, Transfer
<1>2. /\ acc \in BankAccount
      /\ acc.user = accounts[a].user /\ acc.type = accounts[a].type
  BY <1>1 DEF BankAccount
<1>3. /\ accounts' \in Seq(BankAccount)
      /\ DOMAIN accounts' = DOMAIN accounts
      /\ \A b \in DOMAIN accounts :
           accounts'[b].user = accounts[b].user /\ accounts'[b].type = accounts[b].type
  BY <1>1, <1>2 DEF TypeOK
<1>4. /\ transfers' \in Seq(Transfer)
      /\ DOMAIN transfers' = DOMAIN transfers \cup {d} /\ d \in Nat
      /\ d \notin DOMAIN transfers
      /\ \A e \in DOMAIN transfers : transfers'[e] = transfers[e]
      /\ transfers'[d].cause = cause
  BY SMTT(30), <1>1 DEF TypeOK
<1>5. Grows
  BY <1>3 DEF Grows
<1> QED
  BY <1>3, <1>4, <1>5

(* A transfer that executes no pending action. *)
LEMMA OwnTransferKeeps ==
  ASSUME IInv, NEW a \in DOMAIN accounts, NEW row \in Account, NEW amount \in Nat,
         NEW key \in Keys \cup {NoKey}, post(a, row, amount, key, 0),
         NEW route \in Routes \ {"kyc.approve", "admin.pending.approve"},
         NEW about \in Nat, NEW steps \in Seq(Step), Quiet(steps),
         run = NoRun, begin(route, about, steps),
         UNCHANGED <<applications, tier, pendingActions, audit, finishing,
                     clock, cut, faults, crashes>>
  PROVE  IInv'
<1> USE DEF IInv
<1> DEFINE d == Len(transfers) + 1
<1>1. approving = 0
  BY Idle
<1>2. /\ accounts' \in Seq(BankAccount)
      /\ transfers' \in Seq(Transfer)
      /\ DOMAIN transfers' = DOMAIN transfers \cup {d}
      /\ d \notin DOMAIN transfers
      /\ \A e \in DOMAIN transfers : transfers'[e] = transfers[e]
      /\ transfers'[d].cause = 0
      /\ Grows /\ DOMAIN accounts' = DOMAIN accounts
  BY PostWrites
<1>3. /\ run' \in [route : Routes, subject : Nat, steps : Seq(Step)]
      /\ ApprovalSteps' /\ DepositSteps' /\ approving' = 0
  BY QuietRequest
<1>4. TypeOK'
  BY <1>2, <1>3 DEF TypeOK
<1>5. Approved'
  BY <1>1, <1>2, <1>3, ApprovedIsKept
<1>6. Paid'
  <2>1. MoneyGrows
    BY <1>2 DEF MoneyGrows
  <2>2. \A p \in DOMAIN pendingActions : depositsFor(p)' = depositsFor(p)
    BY <1>2, RowsOfTables DEF depositsFor
  <2>3. /\ \A e \in DOMAIN transfers' : transfers'[e].cause <= Len(pendingActions')
        /\ \A e, f \in DOMAIN transfers' :
             transfers'[e].cause = transfers'[f].cause /\ transfers'[e].cause # 0 => e = f
    BY <1>2 DEF Paid, TypeOK
  <2> QED
    BY <2>1, <2>2, <2>3, PaidIsKept DEF Paid
<1> QED
  BY <1>2, <1>3, <1>4, <1>5, <1>6, UntouchedAudit

LEMMA FaucetDepositKeeps ==
  ASSUME IInv, NEW a \in 1..MaxAccounts, NEW amount \in Amounts,
         NEW key \in Keys \cup {NoKey}, faucetDeposit(a, amount, key)
  PROVE  IInv'
<1> DEFINE d == Len(transfers) + 1
           row == credit(accounts[a].row, amount)
           steps == publish("MoneyMoved", d)
<1>1. /\ a \in DOMAIN accounts /\ amount \in Nat
      /\ post(a, row, amount, key, 0) /\ begin("admin.faucet", 0, steps)
      /\ run = NoRun /\ d \in Nat
      /\ UNCHANGED <<applications, tier, pendingActions, audit, finishing,
                     clock, cut, faults, crashes>>
  BY BackOfficeAssumption DEF faucetDeposit, canDeposit, deposit, ready, IInv, TypeOK
<1>2. row \in Account
  BY <1>1, RowsOfTables, RowsAreTyped DEF IInv, BankAccount
<1>3. steps \in Seq(Step) /\ Quiet(steps)
  BY <1>1, Published DEF IInv, TypeOK, QuietEvents
<1>4. "admin.faucet" \in Routes \ {"kyc.approve", "admin.pending.approve"}
  BY DEF Routes
<1> HIDE DEF row, steps
<1> QED
  BY <1>1, <1>2, <1>3, <1>4, OwnTransferKeeps

LEMMA QuietTogether ==
  ASSUME NEW s \in Seq(Step), NEW t \in Seq(Step), Quiet(s), Quiet(t)
  PROVE  s \o t \in Seq(Step) /\ Quiet(s \o t)
<1>1. /\ s \o t \in Seq(Step) /\ Len(s \o t) = Len(s) + Len(t)
      /\ \A k \in 1..(Len(s) + Len(t)) :
           (s \o t)[k] = IF k <= Len(s) THEN s[k] ELSE t[k - Len(s)]
  BY ConcatProperties
<1>2. /\ Len(s) \in Nat /\ Len(t) \in Nat
      /\ DOMAIN s = 1..Len(s) /\ DOMAIN t = 1..Len(t)
      /\ DOMAIN (s \o t) = 1..(Len(s) + Len(t))
  BY <1>1, LenProperties
<1>3. ASSUME NEW k \in DOMAIN (s \o t)
      PROVE  \/ k \in DOMAIN s /\ (s \o t)[k] = s[k]
             \/ k - Len(s) \in DOMAIN t /\ (s \o t)[k] = t[k - Len(s)]
  BY <1>1, <1>2
<1> QED
  BY <1>1, <1>3 DEF Quiet

LEMMA PayBillKeeps ==
  ASSUME IInv, NEW a \in DOMAIN accounts, NEW amount \in Amounts,
         NEW key \in Keys \cup {NoKey}, payBill(a, amount, key)
  PROVE  IInv'
<1> DEFINE n == Len(transfers) + 1
           row == debit(accounts[a].row, amount)
           steps == publish("MoneyMoved", n) \o publish("BillPaid", n)
<1>1. /\ amount \in Nat /\ canDebit(accounts[a].row, accounts[a].type, amount)
      /\ post(a, row, amount, key, 0) /\ begin("bill.pay", n, steps)
      /\ run = NoRun /\ n \in Nat
      /\ UNCHANGED <<applications, tier, pendingActions, audit, finishing,
                     clock, cut, faults, crashes>>
  BY BackOfficeAssumption DEF payBill, ready, IInv, TypeOK
<1>2. row \in Account
  <2>1. accounts[a].row \in Account
    BY RowsOfTables DEF IInv, BankAccount
  <2> QED
    BY <1>1, <2>1 DEF canDebit, availableBalance, debit, Account
<1>3. steps \in Seq(Step) /\ Quiet(steps)
  <2>1. /\ publish("MoneyMoved", n) \in Seq(Step) /\ Quiet(publish("MoneyMoved", n))
        /\ publish("BillPaid", n) \in Seq(Step) /\ Quiet(publish("BillPaid", n))
    BY <1>1, Published DEF IInv, TypeOK, QuietEvents
  <2> QED
    BY <2>1, QuietTogether
<1>4. "bill.pay" \in Routes \ {"kyc.approve", "admin.pending.approve"}
  BY DEF Routes
<1> HIDE DEF row, steps
<1> QED
  BY <1>1, <1>2, <1>3, <1>4, OwnTransferKeeps

LEMMA CreatePendingKeeps ==
  ASSUME IInv, NEW a \in 1..MaxAccounts, NEW amount \in Amounts,
         NEW key \in Keys \cup {NoKey}, createPendingAction(a, amount, key)
  PROVE  IInv'
<1> USE DEF IInv
<1> PICK n : n = Len(pendingActions) + 1
  OBVIOUS
<1> DEFINE row == [account |-> a, amount |-> amount, key |-> key, status |-> "pending"]
<1>1. /\ row \in Pending /\ n \in Nat
      /\ pendingActions' = Append(pendingActions, row)
      /\ UNCHANGED <<applications, tier, accounts, transfers, audit, finishing,
                     clock, cut, faults, crashes>>
      /\ begin("admin.faucet", 0, << >>)
      /\ approving = 0
  BY Idle, BackOfficeAssumption DEF createPendingAction, ready, TypeOK, Pending
<1>2. << >> \in Seq(Step) /\ Quiet(<< >>)
  BY DEF Quiet
<1>3. /\ run' \in [route : Routes, subject : Nat, steps : Seq(Step)]
      /\ ApprovalSteps' /\ DepositSteps' /\ approving' = 0
  BY <1>1, <1>2, QuietRequest DEF Routes
<1>4. /\ pendingActions' \in Seq(Pending) /\ Len(pendingActions') = n
      /\ DOMAIN pendingActions' = DOMAIN pendingActions \cup {n}
      /\ \A p \in DOMAIN pendingActions : pendingActions'[p] = pendingActions[p]
      /\ pendingActions'[n].status = "pending"
  BY <1>1 DEF TypeOK
<1>5. TypeOK'
  BY <1>1, <1>3, <1>4 DEF TypeOK
<1>6. Grows
  BY <1>1 DEF Grows
<1>7. Approved'
  BY <1>1, <1>3, <1>6, ApprovedIsKept
<1>8. Paid'
  <2>1. MoneyGrows
    BY <1>1, <1>4 DEF MoneyGrows
  <2>2. \A p \in DOMAIN pendingActions : depositsFor(p)' = depositsFor(p)
    BY <1>1 DEF depositsFor
  <2>3. depositsFor(n)' = {}
    <3>1. \A d \in DOMAIN transfers :
            /\ transfers[d].cause \in Nat /\ transfers[d].cause <= Len(pendingActions)
            /\ Len(pendingActions) \in Nat
      BY SMTT(30), RowsOfTables DEF Paid, Transfer, TypeOK
    <3>2. \A d \in DOMAIN transfers : transfers[d].cause # n
      BY <3>1
    <3> QED
      BY <1>1, <3>2 DEF depositsFor
  <2>4. \A d \in DOMAIN transfers' : transfers'[d].cause <= Len(pendingActions')
    <3>1. \A d \in DOMAIN transfers :
            /\ transfers[d].cause \in Nat /\ transfers[d].cause <= Len(pendingActions)
            /\ Len(pendingActions) \in Nat
      BY SMTT(30), RowsOfTables DEF Paid, Transfer, TypeOK
    <3> QED
      BY <1>1, <1>4, <3>1
  <2> QED
    BY <1>1, <1>4, <2>1, <2>2, <2>3, <2>4, PaidIsKept DEF Paid
<1> QED
  BY <1>1, <1>3, <1>5, <1>6, <1>7, <1>8, UntouchedAudit

LEMMA ApprovePendingKeeps ==
  ASSUME IInv, NEW p \in DOMAIN pendingActions, approvePendingAction(p)
  PROVE  IInv'
<1> USE DEF IInv
<1> DEFINE steps == << step("deposit", p), step("execute", p) >>
<1>1. /\ pendingActions[p] \in Pending /\ p \in Nat \ {0}
      /\ pendingActions[p].status = "pending"
      /\ pendingActions' = [pendingActions EXCEPT ![p].status = "approved"]
      /\ UNCHANGED <<applications, tier, accounts, transfers, audit, finishing,
                     clock, cut, faults, crashes>>
      /\ begin("admin.pending.approve", p, steps)
      /\ approving = 0
  BY Idle, RowsOfTables DEF approvePendingAction, ready, undecided
<1>2. /\ step("deposit", p) \in Step /\ step("execute", p) \in Step
      /\ step("deposit", p).do = "deposit" /\ step("execute", p).do = "execute"
      /\ step("deposit", p).subject = p /\ step("execute", p).subject = p
  BY <1>1 DEF step, Step, Kinds, Events, TypeOK
<1>3. /\ steps \in Seq(Step) /\ DOMAIN steps = 1..2
      /\ steps[1].do = "deposit" /\ steps[2].do = "execute"
      /\ steps[1].subject = p /\ steps[2].subject = p
  BY <1>2
<1> HIDE DEF steps
<1>4. [pendingActions[p] EXCEPT !.status = "approved"] \in Pending
  BY <1>1 DEF Pending
<1>5. /\ pendingActions' \in Seq(Pending)
      /\ DOMAIN pendingActions' = DOMAIN pendingActions
      /\ Len(pendingActions') = Len(pendingActions)
      /\ \A q \in DOMAIN pendingActions :
           /\ q # p => pendingActions'[q] = pendingActions[q]
           /\ pendingActions'[q].key = pendingActions[q].key
      /\ pendingActions'[p].status = "approved"
  <2> DEFINE row == [pendingActions[p] EXCEPT !.status = "approved"]
  <2>1. pendingActions' = [pendingActions EXCEPT ![p] = row]
    BY <1>1
  <2>2. /\ row \in Pending /\ row.status = "approved"
        /\ row.key = pendingActions[p].key
    BY <1>1, <1>4 DEF Pending
  <2> HIDE DEF row
  <2> QED
    BY <2>1, <2>2 DEF TypeOK
<1>6. run' = [route |-> "admin.pending.approve", subject |-> p, steps |-> steps]
  BY <1>1 DEF begin
<1>7. depositsFor(p) = {} /\ depositsFor(p)' = {}
  BY <1>1 DEF Paid, depositsFor
<1>8. ApprovalSteps' /\ approving' = 0
  <2>1. \A k \in 1..2 : steps[k].do \notin {"setTier", "openAccount", "audit"}
    BY <1>3
  <2> QED
    BY <1>3, <1>6, <2>1 DEF ApprovalSteps, approving
<1>9. DepositSteps'
  <2>1. before(steps, "deposit", 2)
    BY <1>3 DEF before
  <2>2. run'.route = "admin.pending.approve" /\ run'.subject = p /\ run'.steps = steps
    BY <1>6
  <2>3. ASSUME NEW k \in 1..2
        PROVE  /\ steps[k].subject = p
               /\ steps[k].do = "deposit" => k = 1
               /\ steps[k].do = "execute" => before(steps, "deposit", k)
    <3>1. k = 1 \/ k = 2
      OBVIOUS
    <3> QED
      BY <3>1, <2>1, <1>3
  <2> QED
    BY <1>3, <1>5, <1>7, <2>2, <2>3 DEF DepositSteps, depositsFor
<1>10. TypeOK'
  BY <1>1, <1>3, <1>5, <1>6 DEF TypeOK, Routes
<1>11. Grows
  BY <1>1 DEF Grows
<1>12. Approved'
  BY <1>1, <1>8, <1>11, ApprovedIsKept
<1>13. Paid'
  <2>1. MoneyGrows
    BY <1>1, <1>5 DEF MoneyGrows
  <2>2. \A q \in DOMAIN pendingActions : depositsFor(q)' = depositsFor(q)
    BY <1>1 DEF depositsFor
  <2>3. ASSUME NEW q \in DOMAIN pendingActions'
        PROVE  /\ pendingActions'[q].status = "pending" => depositsFor(q)' = {}
               /\ pendingActions'[q].status = "executed" => isPaid(q)'
    BY <1>5, <2>1, <2>2, PaidIsKept DEF Paid
  <2>4. /\ \A e \in DOMAIN transfers' : transfers'[e].cause <= Len(pendingActions')
        /\ \A e, f \in DOMAIN transfers' :
             transfers'[e].cause = transfers'[f].cause /\ transfers'[e].cause # 0 => e = f
    BY <1>1, <1>5 DEF Paid
  <2> QED
    BY <2>3, <2>4 DEF Paid
<1> QED
  BY <1>1, <1>8, <1>9, <1>10, <1>11, <1>12, <1>13, UntouchedAudit

(* The step that is next, and what is known of the request it belongs to. *)
LEMMA NextStep ==
  ASSUME IInv, NEW do, next(do)
  PROVE  /\ run.steps # << >>
         /\ Head(run.steps) = run.steps[1] /\ 1 \in DOMAIN run.steps
         /\ Head(run.steps).do = do
         /\ subject \in Nat
         /\ do \in {"setTier", "openAccount"} =>
              /\ subject = run.subject /\ run.route = "kyc.approve"
              /\ subject \in DOMAIN applications
              /\ applications[subject].status = "Approved"
         /\ do \in {"deposit", "execute"} =>
              /\ subject = run.subject /\ run.route = "admin.pending.approve"
              /\ subject \in DOMAIN pendingActions
         /\ do = "deposit" => depositsFor(subject) = {}
         /\ do = "execute" => isPaid(subject)
         /\ do = "audit" /\ Head(run.steps).event = "KycApproved" =>
              /\ subject \in DOMAIN applications
              /\ hasTier(subject) /\ hasAccount(subject)
<1> USE DEF IInv
<1>1. /\ run.steps # << >> /\ Head(run.steps) = run.steps[1]
      /\ 1 \in DOMAIN run.steps /\ run.steps[1] \in Step
      /\ Head(run.steps).do = do
      /\ subject = run.steps[1].subject /\ subject \in Nat
  <2>1. run.steps \in Seq(Step) /\ run.steps # << >> /\ Head(run.steps).do = do
    BY DEF TypeOK, next
  <2>2. 1 \in DOMAIN run.steps /\ Head(run.steps) = run.steps[1]
    BY <2>1, EmptySeq, LenProperties
  <2> QED
    BY <2>1, <2>2, RowsOfTables DEF subject, Step
<1>2. \A any : ~ before(run.steps, any, 1)
  BY DEF before
<1>3. do \in {"setTier", "openAccount"} =>
        /\ subject = run.subject /\ run.route = "kyc.approve"
        /\ subject \in DOMAIN applications
        /\ applications[subject].status = "Approved"
  BY <1>1 DEF ApprovalSteps
<1>4. do \in {"deposit", "execute"} =>
        /\ subject = run.subject /\ run.route = "admin.pending.approve"
        /\ subject \in DOMAIN pendingActions
  BY <1>1 DEF DepositSteps
<1>5. do = "deposit" => depositsFor(run.subject) = {}
  BY <1>1 DEF DepositSteps
<1>6. do = "execute" => isPaid(run.subject)
  BY <1>1, <1>2 DEF DepositSteps
<1>7. do = "audit" /\ Head(run.steps).event = "KycApproved" =>
        /\ subject = run.subject /\ run.subject \in DOMAIN applications
        /\ hasTier(run.subject) /\ hasAccount(run.subject)
  BY <1>1, <1>2 DEF ApprovalSteps
<1> QED
  BY <1>1, <1>3, <1>4, <1>5, <1>6, <1>7

LEMMA ContinueTyped ==
  ASSUME TypeOK, run.steps # << >>, NEW more \in Seq(Step), continue(more)
  PROVE  run' \in [route : Routes, subject : Nat, steps : Seq(Step)]
<1>1. more \o Tail(run.steps) \in Seq(Step)
  BY Continued DEF TypeOK
<1> QED
  BY <1>1 DEF TypeOK, continue

LEMMA SetTierKeeps ==
  ASSUME IInv, setKycTier
  PROVE  IInv'
<1> USE DEF IInv
<1> PICK i : i = subject
  OBVIOUS
<1>1. /\ run.steps # << >> /\ Head(run.steps).do = "setTier"
      /\ i = run.subject /\ i \in DOMAIN applications
      /\ applications[i].user \in Users
  BY NextStep, RowsOfTables DEF setKycTier, Application
<1>2. /\ tier' = [tier EXCEPT ![applications[i].user] = "full"]
      /\ continue(<< >>)
      /\ UNCHANGED <<applications, accounts, pendingActions, transfers, audit,
                     finishing, clock, cut, faults, crashes>>
  BY DEF setKycTier
<1>3. << >> \in Seq(Step) /\ Quiet(<< >>)
  BY DEF Quiet
<1>4. Grows /\ hasTier(i)'
  BY <1>1, <1>2 DEF Grows, hasTier, TypeOK
<1>5. TypeOK'
  BY <1>1, <1>2, <1>3, ContinueTyped DEF TypeOK
<1>6. ApprovalSteps' /\ DepositSteps' /\ approving' = approving
  BY <1>1, <1>2, <1>3, <1>4, <1>5, UntouchedMoney, ContinueKeepsSteps
<1>7. Approved'
  BY <1>2, <1>4, <1>6, ApprovedIsKept
<1> QED
  BY <1>2, <1>4, <1>5, <1>6, <1>7, UntouchedMoney, UntouchedAudit

LEMMA OpenAccountKeeps ==
  ASSUME IInv, createAccountForUser
  PROVE  IInv'
<1> USE DEF IInv
<1> PICK i : i = subject
  OBVIOUS
<1> DEFINE app == applications[i]
           sameType == \E a \in accountsOf(app.user) : accounts[a].type = app.type
           n == Len(accounts) + 1
<1>1. /\ run.steps # << >> /\ Head(run.steps).do = "openAccount"
      /\ i = run.subject /\ i \in DOMAIN applications
      /\ app.user \in Users /\ app.type \in Types /\ app.status = "Approved"
  BY NextStep, RowsOfTables DEF createAccountForUser, Application
<1>2. /\ accounts' = IF sameType THEN accounts
                     ELSE Append(accounts, newAccount(app.user, app.type))
      /\ continue(IF sameType THEN << >> ELSE publish("AccountOpened", n))
      /\ UNCHANGED <<applications, tier, pendingActions, transfers, audit,
                     finishing, clock, cut, faults, crashes>>
  BY DEF createAccountForUser
<1>3. PICK more \in Seq(Step) : Quiet(more) /\ continue(more)
  <2>1. << >> \in Seq(Step) /\ Quiet(<< >>)
    BY DEF Quiet
  <2>2. /\ publish("AccountOpened", n) \in Seq(Step)
        /\ Quiet(publish("AccountOpened", n))
    <3>1. n \in Nat /\ clock \in Nat /\ "AccountOpened" \in QuietEvents
      BY LenProperties DEF TypeOK, QuietEvents
    <3> QED
      BY <3>1, Published
  <2> QED
    BY <1>2, <2>1, <2>2
<1>4. /\ accounts' \in Seq(BankAccount)
      /\ Grows /\ hasAccount(i)'
      /\ \A a \in DOMAIN accounts' :
           a \in DOMAIN accounts \/ \A u : u = accounts'[a].user => isApproved(u)'
  <2>1. CASE sameType
    <3>1. accounts' = accounts
      BY <1>2, <2>1
    <3> QED
      BY <1>2, <2>1, <3>1 DEF TypeOK, Grows, hasAccount, accountsOf
  <2>2. CASE ~ sameType
    <3>1. /\ accounts' = Append(accounts, newAccount(app.user, app.type))
          /\ newAccount(app.user, app.type) \in BankAccount
          /\ newAccount(app.user, app.type).user = app.user
          /\ newAccount(app.user, app.type).type = app.type
      <4>1. open(0) \in Account
        BY DEF open, Account, AccountStatuses
      <4> QED
        BY <1>1, <1>2, <2>2, <4>1 DEF newAccount, BankAccount
    <3>2. /\ accounts' \in Seq(BankAccount) /\ n \in Nat
          /\ DOMAIN accounts' = DOMAIN accounts \cup {n}
          /\ \A a \in DOMAIN accounts : accounts'[a] = accounts[a]
          /\ accounts'[n].user = app.user /\ accounts'[n].type = app.type
      BY <3>1 DEF TypeOK
    <3>3. Grows
      BY <1>2, <3>2 DEF Grows
    <3>4. hasAccount(i)'
      BY <1>2, <3>2 DEF hasAccount, accountsOf
    <3>5. \A u : u = app.user => isApproved(u)'
      BY <1>1, <1>2 DEF isApproved, applicationsOf
    <3> QED
      BY <3>2, <3>3, <3>4, <3>5
  <2> QED
    BY <2>1, <2>2
<1>5. TypeOK'
  BY <1>1, <1>2, <1>3, <1>4, ContinueTyped DEF TypeOK
<1>6. ApprovalSteps' /\ DepositSteps' /\ approving' = approving
  BY <1>1, <1>2, <1>3, <1>4, <1>5, UntouchedMoney, ContinueKeepsSteps
<1>7. Approved'
  BY <1>2, <1>4, <1>6, ApprovedIsKept
<1> QED
  BY <1>2, <1>4, <1>5, <1>6, <1>7, UntouchedMoney, UntouchedAudit

(* A step that only moves on, and is not waited for. *)
LEMMA MoveOnKeeps ==
  ASSUME IInv, run.steps # << >>,
         Head(run.steps).do \notin {"setTier", "openAccount"},
         \A p : p = run.subject /\ Head(run.steps).do = "deposit" =>
           p \in DOMAIN pendingActions /\ isPaid(p),
         continue(<< >>), faults' \in Nat,
         UNCHANGED <<tables, audit, finishing, clock, cut, crashes>>
  PROVE  IInv'
<1> USE DEF IInv, tables
<1> PICK p : p = run.subject
  OBVIOUS
<1>1. << >> \in Seq(Step) /\ Quiet(<< >>)
  BY DEF Quiet
<1>2. Grows
  BY DEF Grows
<1>3. TypeOK'
  BY <1>1, ContinueTyped DEF TypeOK
<1>4. ApprovalSteps' /\ DepositSteps' /\ approving' = approving
  BY <1>1, <1>2, <1>3, UntouchedMoney, PaidIsKept, ContinueKeepsSteps
<1>5. Approved'
  BY <1>2, <1>4, ApprovedIsKept
<1> QED
  BY <1>2, <1>3, <1>4, <1>5, UntouchedMoney, UntouchedAudit

LEMMA NotifyKeeps ==
  ASSUME IInv, emitNotification
  PROVE  IInv'
<1>1. run.steps # << >> /\ Head(run.steps).do = "notify"
  BY NextStep DEF emitNotification
<1> QED
  BY <1>1, MoveOnKeeps DEF emitNotification, IInv, TypeOK

LEMMA RepeatDepositKeeps ==
  ASSUME IInv, repeatDeposit
  PROVE  IInv'
<1> PICK p : p = subject
  OBVIOUS
<1>1. /\ run.steps # << >> /\ Head(run.steps).do = "deposit"
      /\ p = run.subject /\ p \in DOMAIN pendingActions
  BY NextStep DEF repeatDeposit
<1>2. isPaid(p)
  BY DEF repeatDeposit, isPaid
<1> QED
  BY <1>1, <1>2, MoveOnKeeps DEF repeatDeposit, IInv, TypeOK

LEMMA AuditFailsKeeps ==
  ASSUME IInv, auditFails
  PROVE  IInv'
<1>1. run.steps # << >> /\ Head(run.steps).do = "audit"
  BY NextStep DEF auditFails
<1>2. faults' \in Nat
  BY DEF auditFails, IInv, TypeOK
<1> QED
  BY <1>1, <1>2, MoveOnKeeps DEF auditFails

(* The deposit of a pending action is its first. *)
LEMMA ExecuteDepositKeeps ==
  ASSUME IInv, executeDeposit
  PROVE  IInv'
<1> USE DEF IInv
<1> PICK p : p = subject
  OBVIOUS
<1> PICK action : action = pendingActions[p]
  OBVIOUS
<1> PICK d : d = Len(transfers) + 1
  OBVIOUS
<1>1. /\ run.steps # << >> /\ Head(run.steps).do = "deposit"
      /\ p = run.subject /\ p \in DOMAIN pendingActions /\ p \in Nat \ {0}
      /\ action \in Pending
      /\ depositsFor(p) = {} /\ run.route = "admin.pending.approve"
  BY NextStep, RowsOfTables DEF executeDeposit
<1> PICK row : row = credit(accounts[action.account].row, action.amount)
  OBVIOUS
<1>2. /\ action.account \in DOMAIN accounts
      /\ post(action.account, row, action.amount, action.key, p)
      /\ continue(publish("MoneyMoved", d))
      /\ UNCHANGED <<applications, tier, pendingActions, audit, finishing,
                     clock, cut, faults, crashes>>
  BY DEF executeDeposit, canDeposit, deposit
<1>3. /\ accounts' \in Seq(BankAccount)
      /\ transfers' \in Seq(Transfer)
      /\ DOMAIN transfers' = DOMAIN transfers \cup {d} /\ d \in Nat
      /\ d \notin DOMAIN transfers
      /\ \A e \in DOMAIN transfers : transfers'[e] = transfers[e]
      /\ transfers'[d].cause = p
      /\ Grows /\ DOMAIN accounts' = DOMAIN accounts
  <2>1. action.amount \in Nat /\ action.key \in Keys \cup {NoKey} /\ p \in Nat
    BY <1>1 DEF Pending
  <2>2. row \in Account
    BY <1>2, <2>1, RowsOfTables, RowsAreTyped DEF BankAccount
  <2>3. TypeOK /\ UNCHANGED <<applications, tier, cut>>
    BY <1>2
  <2>4. post(action.account, row, action.amount, action.key, p)
    BY <1>2
  <2>5. action.account \in DOMAIN accounts
    BY <1>2
  <2> HIDE DEF IInv
  <2> QED
    BY ONLY ZenonT(60), <2>1, <2>2, <2>3, <2>4, <2>5, PostWrites, d = Len(transfers) + 1
<1>4. publish("MoneyMoved", d) \in Seq(Step) /\ Quiet(publish("MoneyMoved", d))
  BY <1>3, Published DEF TypeOK, QuietEvents
<1>5. TypeOK'
  BY <1>1, <1>2, <1>3, <1>4, ContinueTyped DEF TypeOK
<1>6. MoneyGrows /\ isPaid(p)'
  BY <1>2, <1>3 DEF MoneyGrows, isPaid, depositsFor
<1>7. ApprovalSteps' /\ DepositSteps' /\ approving' = approving
  BY <1>1, <1>2, <1>3, <1>4, <1>5, <1>6, ContinueKeepsSteps
<1>8. Approved'
  BY <1>2, <1>3, <1>7, ApprovedIsKept
<1>9. Paid'
  <2>1. pendingActions[p].status # "pending"
    BY <1>1 DEF DepositSteps
  <2>2. \A q \in DOMAIN pendingActions : q # p => depositsFor(q)' = depositsFor(q)
    BY <1>3 DEF depositsFor
  <2>3. ASSUME NEW q \in DOMAIN pendingActions'
        PROVE  /\ pendingActions'[q].status = "pending" => depositsFor(q)' = {}
               /\ pendingActions'[q].status = "executed" => isPaid(q)'
    BY <1>2, <1>6, <2>1, <2>2, PaidIsKept DEF Paid
  <2>4. \A e \in DOMAIN transfers' : transfers'[e].cause <= Len(pendingActions')
    <3>1. p <= Len(pendingActions)
      BY <1>1, LenProperties DEF TypeOK
    <3> QED
      BY <1>2, <1>3, <3>1 DEF Paid
  <2>5. \A e, f \in DOMAIN transfers' :
          transfers'[e].cause = transfers'[f].cause /\ transfers'[e].cause # 0 => e = f
    <3>1. \A e \in DOMAIN transfers : transfers[e].cause # p
      BY <1>1 DEF depositsFor
    <3> QED
      BY <1>3, <3>1 DEF Paid
  <2> QED
    BY <2>3, <2>4, <2>5 DEF Paid
<1> QED
  BY <1>2, <1>3, <1>5, <1>7, <1>8, <1>9, UntouchedAudit

(* The request throws: what it had committed stays. *)
LEMMA EndKeeps ==
  ASSUME IInv, NEW about, about = run.subject, fail, faults' \in Nat, cut \subseteq cut',
         run.route = "kyc.approve" => about \in cut',
         UNCHANGED <<tables, audit, finishing, clock, crashes>>
  PROVE  IInv'
<1> USE DEF IInv, tables
<1>1. Grows
  BY DEF Grows
<1>2. ApprovalSteps' /\ DepositSteps' /\ approving' = approving
  BY <1>1, FailKeepsSteps, UntouchedMoney
<1>3. TypeOK'
  <2>1. << >> \in Seq(Step)
    OBVIOUS
  <2>2. run' \in [route : Routes, subject : Nat, steps : Seq(Step)]
    BY <2>1 DEF TypeOK, fail
  <2> QED
    BY <2>2 DEF TypeOK
<1>4. Approved'
  BY <1>1, <1>2, ApprovedIsKept
<1> QED
  BY <1>1, <1>2, <1>3, <1>4, UntouchedMoney, UntouchedAudit

LEMMA DepositRefusedKeeps ==
  ASSUME IInv, depositRefused
  PROVE  IInv'
<1> PICK p : p = run.subject
  OBVIOUS
<1>1. run.route = "admin.pending.approve"
  BY NextStep DEF depositRefused
<1> QED
  BY <1>1, EndKeeps DEF depositRefused, IInv, TypeOK

LEMMA StepFailsKeeps ==
  ASSUME IInv, stepFails
  PROVE  IInv'
<1> PICK p : p = run.subject
  OBVIOUS
<1>1. /\ cut \subseteq cut'
      /\ run.route = "kyc.approve" => p \in cut'
      /\ faults' \in Nat
  BY DEF stepFails, cutShort, IInv, TypeOK
<1> QED
  BY <1>1, EndKeeps DEF stepFails

LEMMA MarkExecutedKeeps ==
  ASSUME IInv, markPendingExecuted
  PROVE  IInv'
<1> USE DEF IInv
<1> PICK p : p = subject
  OBVIOUS
<1>1. /\ run.steps # << >> /\ Head(run.steps).do = "execute"
      /\ p = run.subject /\ p \in DOMAIN pendingActions
      /\ pendingActions[p] \in Pending
      /\ isPaid(p)
  BY NextStep, RowsOfTables DEF markPendingExecuted
<1>2. /\ pendingActions' = [pendingActions EXCEPT ![p].status = "executed"]
      /\ continue(<< >>)
      /\ UNCHANGED <<applications, tier, accounts, transfers, audit, finishing,
                     clock, cut, faults, crashes>>
  BY DEF markPendingExecuted
<1>3. /\ pendingActions' \in Seq(Pending)
      /\ DOMAIN pendingActions' = DOMAIN pendingActions
      /\ Len(pendingActions') = Len(pendingActions)
      /\ \A q \in DOMAIN pendingActions :
           /\ q # p => pendingActions'[q] = pendingActions[q]
           /\ pendingActions'[q].key = pendingActions[q].key
      /\ pendingActions'[p].status = "executed"
  <2> DEFINE row == [pendingActions[p] EXCEPT !.status = "executed"]
  <2>1. pendingActions' = [pendingActions EXCEPT ![p] = row]
    BY <1>1, <1>2
  <2>2. /\ row \in Pending /\ row.status = "executed"
        /\ row.key = pendingActions[p].key
    BY <1>1 DEF Pending
  <2> HIDE DEF row
  <2> QED
    BY <2>1, <2>2, <1>1 DEF TypeOK
<1>4. << >> \in Seq(Step) /\ Quiet(<< >>)
  BY DEF Quiet
<1>5. Grows
  BY <1>2 DEF Grows
<1>6. MoneyGrows
  BY <1>2, <1>3 DEF MoneyGrows
<1>7. TypeOK'
  BY <1>1, <1>2, <1>3, <1>4, ContinueTyped DEF TypeOK
<1>8. ApprovalSteps' /\ DepositSteps' /\ approving' = approving
  BY <1>1, <1>2, <1>4, <1>5, <1>6, <1>7, ContinueKeepsSteps
<1>9. Approved'
  BY <1>2, <1>5, <1>8, ApprovedIsKept
<1>10. Paid'
  <2>1. \A q \in DOMAIN pendingActions : depositsFor(q)' = depositsFor(q)
    BY <1>2 DEF depositsFor
  <2>2. ASSUME NEW q \in DOMAIN pendingActions'
        PROVE  /\ pendingActions'[q].status = "pending" => depositsFor(q)' = {}
               /\ pendingActions'[q].status = "executed" => isPaid(q)'
    BY <1>1, <1>3, <1>6, <2>1, PaidIsKept DEF Paid
  <2>3. /\ \A e \in DOMAIN transfers' : transfers'[e].cause <= Len(pendingActions')
        /\ \A e, f \in DOMAIN transfers' :
             transfers'[e].cause = transfers'[f].cause /\ transfers'[e].cause # 0 => e = f
    BY <1>2, <1>3 DEF Paid
  <2> QED
    BY <2>2, <2>3 DEF Paid
<1> QED
  BY <1>2, <1>5, <1>7, <1>8, <1>9, <1>10, UntouchedAudit

(* A row written behind the latest one, for an approval that is complete.  *)
LEMMA RecordKeeps ==
  ASSUME IInv, Grows, NEW approval \in Nat, NEW at \in Nat,
         recordAudit(approval, at),
         approval # 0 =>
           approval \in DOMAIN applications /\ hasTier(approval) /\ hasAccount(approval)
  PROVE  audit' \in Seq(AuditRow) /\ Audited' /\ AuditChainVerifies'
<1> USE DEF IInv
<1> DEFINE n == Len(audit) + 1
           row == [seq |-> n, prev |-> Len(audit), approval |-> approval, at |-> at]
<1>1. audit' \in Seq(AuditRow) /\ audit' = Append(audit, row)
  BY AuditRowTyped
<1>2. /\ DOMAIN audit' = DOMAIN audit \cup {n} /\ n \in Nat
      /\ \A k \in DOMAIN audit : audit'[k] = audit[k]
      /\ audit'[n].approval = approval
      /\ audit'[n].seq = n /\ audit'[n].prev = n - 1
  BY <1>1 DEF TypeOK
<1>3. ASSUME NEW k \in DOMAIN audit'
      PROVE  \/ k \in DOMAIN audit /\ audit'[k] = audit[k]
             \/ audit'[k].approval # 0 =>
                  /\ audit'[k].approval \in DOMAIN applications
                  /\ hasTier(audit'[k].approval) /\ hasAccount(audit'[k].approval)
  <2>1. CASE k \in DOMAIN audit
    BY <2>1, <1>2
  <2>2. CASE k = n
    BY <2>2, <1>2
  <2> QED
    BY <2>1, <2>2, <1>2
<1>4. Audited'
  BY <1>3, AuditedIsKept
<1>5. AuditChainVerifies'
  BY <1>2 DEF AuditChainVerifies
<1> QED
  BY <1>1, <1>4, <1>5

(* The audit row of the bus: the steps before it are done. *)
LEMMA AuditEventKeeps ==
  ASSUME IInv, auditEvent
  PROVE  IInv'
<1> USE DEF IInv, tables
<1> PICK s : s = Head(run.steps)
  OBVIOUS
<1> PICK approval : approval = IF s.event = "KycApproved" THEN s.subject ELSE 0
  OBVIOUS
<1> PICK at : at = IF s.event \in Dated THEN s.at ELSE clock
  OBVIOUS
<1>1. /\ run.steps # << >> /\ s.do = "audit" /\ s \in Step
      /\ approval # 0 =>
           approval \in DOMAIN applications /\ hasTier(approval) /\ hasAccount(approval)
  <2>1. next("audit") /\ subject = s.subject
    BY DEF auditEvent, subject
  <2> QED
    BY <2>1, NextStep, RowsOfTables
<1>2. /\ recordAudit(approval, at) /\ continue(<< >>)
      /\ UNCHANGED <<tables, finishing, clock, cut, faults, crashes>>
  BY DEF auditEvent
<1>3. approval \in Nat /\ at \in Nat
  BY <1>1 DEF Step, TypeOK
<1>4. << >> \in Seq(Step) /\ Quiet(<< >>)
  BY DEF Quiet
<1>5. Grows
  BY <1>2 DEF Grows
<1>6. audit' \in Seq(AuditRow) /\ Audited' /\ AuditChainVerifies'
  BY <1>1, <1>2, <1>3, <1>5, RecordKeeps
<1>7. TypeOK'
  BY <1>1, <1>2, <1>4, <1>6, ContinueTyped DEF TypeOK
<1>8. ApprovalSteps' /\ DepositSteps' /\ approving' = approving
  BY <1>1, <1>2, <1>4, <1>5, <1>7, UntouchedMoney, ContinueKeepsSteps
<1>9. Approved'
  BY <1>2, <1>5, <1>8, ApprovedIsKept
<1> QED
  BY <1>2, <1>5, <1>6, <1>7, <1>8, <1>9, UntouchedMoney

LEMMA MiddlewareKeeps ==
  ASSUME IInv, auditMiddleware
  PROVE  IInv'
<1> USE DEF IInv, tables
<1>1. /\ recordAudit(0, clock) /\ finishing' = finishing - 1 /\ finishing > 0
      /\ UNCHANGED <<tables, run, clock, cut, faults, crashes>>
  BY DEF auditMiddleware
<1>2. Grows
  BY <1>1 DEF Grows
<1>3. audit' \in Seq(AuditRow) /\ Audited' /\ AuditChainVerifies'
  BY <1>1, <1>2, RecordKeeps DEF TypeOK
<1>4. ApprovalSteps' /\ DepositSteps' /\ Approved' /\ approving' = approving
  BY <1>1 DEF ApprovalSteps, DepositSteps, Approved, approving, hasTier, hasAccount,
    accountsOf, isPaid, depositsFor, keyKnown, isApproved, applicationsOf, before
<1>5. TypeOK'
  BY <1>1, <1>3 DEF TypeOK
<1> QED
  BY <1>1, <1>3, <1>4, <1>5, UntouchedMoney

(* No request is under way any more.                                       *)
LEMMA LeaveKeeps ==
  ASSUME IInv, run' = NoRun, cut \subseteq cut', finishing' \in Nat, crashes' \in Nat,
         \A i \in DOMAIN applications :
           i = approving => hasAccount(i) \/ i \in cut',
         UNCHANGED <<tables, audit, clock, faults>>
  PROVE  IInv'
<1> USE DEF IInv, tables
<1>1. run' \in [route : Routes, subject : Nat, steps : Seq(Step)]
      /\ ApprovalSteps' /\ DepositSteps' /\ approving' = 0
  BY DEF NoRun, Routes, ApprovalSteps, DepositSteps, approving
<1>2. Grows
  BY DEF Grows
<1>3. TypeOK'
  BY <1>1 DEF TypeOK
<1>4. Approved'
  BY <1>1, <1>2 DEF Approved, hasAccount, accountsOf, isApproved, applicationsOf
<1> QED
  BY <1>1, <1>2, <1>3, <1>4, UntouchedMoney, UntouchedAudit

(* A response is sent when no step is left, so an approval has its account *)
(* or was cut short.                                                       *)
LEMMA RespondKeeps ==
  ASSUME IInv, respond
  PROVE  IInv'
<1> USE DEF IInv
<1>1. ASSUME NEW i \in DOMAIN applications, i = approving
      PROVE  hasAccount(i) \/ i \in cut'
  <2>1. i # 0
    BY RowsOfTables
  <2>2. run.route = "kyc.approve" /\ i = run.subject
    BY <1>1, <2>1 DEF approving
  <2>3. run.steps = << >> /\ Len(run.steps) = 0 /\ UNCHANGED cut
    BY DEF respond
  <2>4. ~ before(run.steps, "openAccount", Len(run.steps) + 1)
    BY <2>3 DEF before
  <2> QED
    BY <2>2, <2>3, <2>4 DEF ApprovalSteps
<1>2. finishing' \in Nat /\ crashes' \in Nat
  BY DEF respond, TypeOK
<1> QED
  BY <1>1, <1>2, LeaveKeeps DEF respond

LEMMA CrashKeeps ==
  ASSUME IInv, Crash
  PROVE  IInv'
<1> USE DEF IInv
<1>1. \A i \in DOMAIN applications : i = approving => i \in cut'
  BY RowsOfTables DEF Crash, cutShort, approving
<1>2. cut \subseteq cut' /\ finishing' \in Nat /\ crashes' \in Nat
  BY DEF Crash, cutShort, TypeOK
<1> QED
  BY <1>1, <1>2, LeaveKeeps DEF Crash

(* Neither the clock nor a step that changes nothing matters. *)
LEMMA UntouchedKeeps ==
  ASSUME IInv, clock' \in Nat,
         UNCHANGED <<tables, audit, run, finishing, cut, faults, crashes>>
  PROVE  IInv'
<1> USE DEF IInv, tables
<1>1. TypeOK' /\ Grows
  BY DEF TypeOK, Grows
<1>2. ApprovalSteps'
  BY DEF ApprovalSteps, hasTier, hasAccount, accountsOf, before
<1>3. DepositSteps'
  BY DEF DepositSteps, isPaid, depositsFor, keyKnown, before
<1>4. Approved'
  BY DEF Approved, approving, hasAccount, accountsOf, isApproved, applicationsOf
<1> QED
  BY <1>1, <1>2, <1>3, <1>4, UntouchedMoney, UntouchedAudit

LEMMA AccountRequestKeeps ==
  ASSUME IInv, AccountRequest
  PROVE  IInv'
<1> PICK a \in DOMAIN accounts :
           freezeAccount(a) \/ unfreezeAccount(a) \/ closeAccount(a)
  BY DEF AccountRequest
<1>1. accounts[a].row \in Account
  BY RowsOfTables DEF IInv, BankAccount
<1>2. CASE freezeAccount(a)
  <2>1. freeze(accounts[a].row) \in Account
    BY <1>1, RowsAreTyped
  <2> QED
    BY <1>2, <2>1, SetRowKeeps DEF freezeAccount, Routes, QuietEvents
<1>3. CASE unfreezeAccount(a)
  <2>1. unfreeze(accounts[a].row) \in Account
    BY <1>1, RowsAreTyped
  <2> QED
    BY <1>3, <2>1, SetRowKeeps DEF unfreezeAccount, Routes, QuietEvents
<1>4. CASE closeAccount(a)
  <2>1. close(accounts[a].row) \in Account
    BY <1>1, RowsAreTyped
  <2> QED
    BY <1>4, <2>1, SetRowKeeps DEF closeAccount, Routes, QuietEvents
<1> QED
  BY <1>2, <1>3, <1>4

(* The first state. *)
LEMMA InitIInv ==
  ASSUME BackOfficeInit
  PROVE  IInv
<1> USE DEF BackOfficeInit
<1>1. << >> \in Seq(Step)
  OBVIOUS
<1>2. run \in [route : Routes, subject : Nat, steps : Seq(Step)]
  BY <1>1 DEF NoRun, Routes
<1>3. TypeOK
  BY <1>2 DEF TypeOK
<1>4. ApprovalSteps /\ DepositSteps
  BY DEF ApprovalSteps, DepositSteps, NoRun
<1>5. Approved /\ Audited /\ Paid /\ AuditChainVerifies
  BY DEF Approved, Audited, Paid, AuditChainVerifies
<1> QED
  BY <1>3, <1>4, <1>5 DEF IInv

LEMMA NextKeeps ==
  ASSUME IInv, [BackOfficeNext]_backOfficeVars
  PROVE  IInv'
<1>1. CASE KycRequest
  <2>1. ASSUME NEW u \in Users, NEW type \in Types,
               submitKyc(u, type) \/ openAdditionalAccount(u, type)
        PROVE  IInv'
    BY <2>1, SubmitKeeps, OpenKeeps
  <2>2. ASSUME NEW i \in DOMAIN applications,
               approveKyc(i) \/ rejectKyc(i) \/ refuseDecision(i)
        PROVE  IInv'
    <3>1. i \in Nat
      BY RowsOfTables DEF IInv
    <3>2. ASSUME refuseDecision(i)
          PROVE  IInv'
      BY <3>1, <3>2, NothingWrittenKeeps DEF refuseDecision, ready
    <3> QED
      BY <2>2, <3>2, ApproveKeeps, RejectKeeps
  <2> QED
    BY <1>1, <2>1, <2>2 DEF KycRequest
<1>2. CASE AccountRequest
  BY <1>2, AccountRequestKeeps
<1>3. CASE FaucetRequest
  <2>1. ASSUME NEW a \in 1..MaxAccounts, NEW amount \in Amounts,
               NEW key \in Keys \cup {NoKey},
               createPendingAction(a, amount, key) \/ faucetDeposit(a, amount, key)
        PROVE  IInv'
    BY <2>1, CreatePendingKeeps, FaucetDepositKeeps
  <2>2. ASSUME NEW key \in Keys, repeatFaucetDeposit(key)
        PROVE  IInv'
    BY <2>2, NothingWrittenKeeps DEF repeatFaucetDeposit, ready
  <2>3. ASSUME NEW p \in DOMAIN pendingActions, approvePendingAction(p)
        PROVE  IInv'
    BY <2>3, ApprovePendingKeeps
  <2> QED
    BY <1>3, <2>1, <2>2, <2>3 DEF FaucetRequest
<1>4. CASE BillRequest
  BY <1>4, PayBillKeeps DEF BillRequest
<1>5. CASE RunStep
  BY <1>5, SetTierKeeps, OpenAccountKeeps, NotifyKeeps, ExecuteDepositKeeps,
    RepeatDepositKeeps, DepositRefusedKeeps, MarkExecutedKeeps, AuditEventKeeps,
    RespondKeeps DEF RunStep
<1>6. CASE auditMiddleware
  BY <1>6, MiddlewareKeeps
<1>7. CASE auditFails
  BY <1>7, AuditFailsKeeps
<1>8. CASE stepFails
  BY <1>8, StepFailsKeeps
<1>9. CASE Crash
  BY <1>9, CrashKeeps
<1>10. CASE Tick
  BY <1>10, UntouchedKeeps DEF Tick, IInv, TypeOK
<1>11. CASE UNCHANGED backOfficeVars
  BY <1>11, UntouchedKeeps DEF backOfficeVars, tables, IInv, TypeOK
<1> QED
  BY <1>1, <1>2, <1>3, <1>4, <1>5, <1>6, <1>7, <1>8, <1>9, <1>10, <1>11
    DEF BackOfficeNext
-----------------------------------------------------------------------------
(* The theorems. *)

LEMMA InvariantHolds == BackOfficeSpec => []IInv
<1>1. BackOfficeInit => IInv
  BY InitIInv
<1>2. IInv /\ [BackOfficeNext]_backOfficeVars => IInv'
  BY NextKeeps
<1> QED
  BY <1>1, <1>2, PTL DEF BackOfficeSpec

(* The tables, the log and the steps still to run keep their types. *)
THEOREM TypeCorrect == BackOfficeSpec => []TypeOK
<1>1. IInv => TypeOK
  BY DEF IInv
<1> QED
  BY <1>1, InvariantHolds, PTL

(* Whatever throws or stops between the commits of an approval, an         *)
(* approved customer has the account asked for, or the approval is under   *)
(* way or was cut short, and only approved customers have accounts.        *)
THEOREM ApprovalOpensAccountHolds == BackOfficeSpec => []ApprovalOpensAccount
<1>1. IInv => ApprovalOpensAccount
  BY DEF IInv, Approved, ApprovalOpensAccount, hasAccount
<1> QED
  BY <1>1, InvariantHolds, PTL

(* The bus's audit row of an approval stands only behind the tier and the  *)
(* account that the approval is to write, and they stay.                   *)
THEOREM AuditedApprovalIsCompleteHolds == BackOfficeSpec => []AuditedApprovalIsComplete
<1>1. IInv => AuditedApprovalIsComplete
  BY DEF IInv, Audited, AuditedApprovalIsComplete, hasAccount, hasTier
<1> QED
  BY <1>1, InvariantHolds, PTL

(* A pending action moves money once at most, never before it is approved, *)
(* and is executed only when its deposit is there or another transfer,     *)
(* whoever's it is, has its idempotency key.                               *)
THEOREM PendingActionPaysOnceHolds == BackOfficeSpec => []PendingActionPaysOnce
<1>1. ASSUME IInv, NEW p \in DOMAIN pendingActions
      PROVE  Cardinality(depositsFor(p)) <= 1
  <2>1. p # 0
    BY <1>1, RowsOfTables DEF IInv
  <2>2. CASE depositsFor(p) = {}
    <3>1. Cardinality({}) = 0
      BY FS_EmptySet
    <3> QED
      BY <2>2, <3>1
  <2>3. CASE depositsFor(p) # {}
    <3>1. PICK d : d \in depositsFor(p)
      BY <2>3
    <3>2. depositsFor(p) = {d}
      BY <1>1, <2>1, <3>1 DEF IInv, Paid, depositsFor
    <3>3. Cardinality({d}) = 1
      BY FS_Singleton
    <3> QED
      BY <3>2, <3>3
  <2> QED
    BY <2>2, <2>3
<1>2. IInv => PendingActionPaysOnce
  BY <1>1 DEF IInv, Paid, PendingActionPaysOnce, isPaid
<1> QED
  BY <1>2, InvariantHolds, PTL

(* In the order of seq every audit row holds the hash of the row before    *)
(* it, in whatever order events and responses write them.                  *)
THEOREM AuditChainVerifiesHolds == BackOfficeSpec => []AuditChainVerifies
<1>1. IInv => AuditChainVerifies
  BY DEF IInv
<1> QED
  BY <1>1, InvariantHolds, PTL
=============================================================================
