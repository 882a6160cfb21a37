# Verification of the bank server

TLA+ models of the server in `src/`, the TLC runs that check them on small instances
and the theorems about them that TLAPS proves. `PROJECT.json` is the index: components,
runs, the source lines each definition translates, a faulty variant for each property,
and the hazards of the code with the properties that cover them.

    tlc -workers 2 -config MCPayments.cfg MCPayments.tla
    tlapm PaymentsProofs.tla

## The system

One Node process on one SQLite file. better-sqlite3 is synchronous, so a handler without
an `await` runs from its first read to its response with nothing in between, and a
`db.transaction` is committed or rolled back as a whole. Three `setInterval` loops of
`main.ts` (standing instructions, fixed deposits, NEFT/RTGS settlement) run in the same
thread. What is left to go wrong, and is modelled, is therefore

- the order of requests, ticks and administration, over a long history;
- the process stopping between two commits of one operation;
- a throw after a commit (a bus handler, a second write) inside a larger operation;
- rows read, kept while other rows are written, and then written back whole;
- the `await`s of the identity context, on bcrypt and on the WebAuthn library, during which
  other requests run;
- memory that is forgotten: sessions, nonces, codes, tokens and counters expire, are evicted
  or cleared, and end with the process.

| Part | State | Operations | Interacts with | What makes it correct |
|---|---|---|---|---|
| accounts | `accounts` | open, freeze, unfreeze, close, place and release hold, debit, credit | every money movement | holds are covered, balances never negative, funded accounts stay open |
| payments | `transfers`, `ledger_entries` | internal/IMPS/UPI transfer, NEFT/RTGS request, settlement tick, faucet | accounts, limits, bus | money conserved, double entry, one transfer per key, holds match pending transfers |
| disputes | `disputes` | file, reject, approve (reversal and update) | payments | an approval has its reversal, a decision stands |
| bills | billers, saved accounts | pay a bill | payments | as payments |
| standing instructions | `standing_instructions` | create, pause, resume, cancel, run | payments (key per run), beneficiaries (cascade), notifications | each run paid once, in order; the loop catches up |
| fixed deposits | `fixed_deposits` | open, mature, close early | accounts | principal and interest paid once |
| cards | `debit_cards` | issue, freeze, cancel, limits, spend | payments | no order of limits and payments spends more than the bank allows |
| statements | reads | query a month | ledger | a statement adds up and joins the one before |
| kyc | `kyc_applications` | submit, decide | bus, accounts | an approved user gets an account |
| maker-checker | `admin_pending_actions` | request, approve, execute | faucet | an approved action pays once |
| audit | `audit_log` | append, verify | bus, middleware | a gapless chain |
| identity | `users`, credentials, recovery codes, login states | register, log in, lock, enrol, revoke | sessions | wrong passwords bounded, one ceremony per grant, the flag means a passkey |
| encrypted sessions | in-memory maps | handshake, nonce, bind, evict, expire | every request | one key per id, a replay found out up to the end of its window, a channel keeps its user |
| step-up | in-memory maps | OTP, action tokens, velocity | sensitive routes | a token is used once, guesses and actions are bounded |
| event bus | subscribers | publish | kyc, accounts, notifications, audit | typed handlers first, wildcards swallowed |
| notifications, beneficiaries, nominees, database, HTTP layer | rows, wiring | | | see `PROJECT.json` |

`PROJECT.json` lists 40 hazards at their lines, with the properties that cover them; two
have none, and say why.

## Modules

**Accounts** is the aggregate of `account.ts`: for each operation an operator `can...`
(the conditions under which the code does not throw) and one for the row it returns.

**Payments** extends it with the tables and one action per operation. A transaction is
one action; an operation of several commits is several actions:

| Code | Model |
|---|---|
| `executeTransfer` from the routes, with the owner and the KYC tier | `ExecuteTransfer`: access and limits, then `executeTransfer`; a known key is a stutter, or `RetryTransfer` on IMPS and UPI |
| `executeTransfer` from `runDueInstructions`, with neither | `RunInstruction`: internal, under an instruction's key, no access check and no limits |
| `executeRailTransfer`, second transaction | `StampUtr`, pending while `stamping` is not 0 |
| `createPendingRailTransfer` | `CreatePendingRailTransfer` |
| `settlePendingTransfers`, from `main.ts` | `SettleTick` reads the pending transfers into `batch`; `SettlePending` or `SettleFails` for each, NEFT first and newest first |
| `payBill`, `faucetDeposit`, `freezeAccount`, `unfreezeAccount`, `closeAccount` | the actions of these names |
| the process stops | `Crash`: forgets `batch` and `stamping`, keeps every table |
| midnight | `NextDay` |

A call that throws or is refused changes nothing, so it is a stutter and has no action;
`SettleFails` has one because the loop goes on. Account rows are saved whole, in the
code's order, from rows read before either save (`updateBoth`): with one account at both
ends the credited row wins, as in the code.

**Disputes** extends Payments. An approval is `ReverseTransfer` (the transaction) and
`RecordApproval` (the update after it), with `CrashDeciding` between them. Filing does not
look at the transfer's status or at other disputes of it, and neither does the model.

**FixedDeposits** extends Payments. Opening and early closure are one transaction each; the
maturity loop is `MatureTick`, then `Mature` or `MatureFails` per due deposit in insertion
order, with `CrashMaturing` between two. Both ways of paying back go through `payBack`: empty
and close the deposit's account, credit the payout account with principal and interest. The
id of a deposit account not opened yet stands for no row; `accounts` has a closed, empty one,
and no transfer names it. `PaymentsStep` is any step of Payments outside the loop, with the check of
`closeAccount` for payout accounts. Interest is computed as in the code, rounding down, with
the rate card, the penalty and the two lengths of a month (30 days earn one, a calendar
tenure has longer ones) as constants.

**StandingInstructions** models the owner's operations and the loop of `runDueInstructions`:
transfer (`PayRun`), row (`Advance`), announcement (`Announce`), with `WriteThrows` leading
to the catch branch and `Crash` anywhere in the loop. It sees Payments as two things the
loop depends on: whether a transfer would be accepted (`canPay`, which changes with any
request and with the transfers of the loop itself) and the idempotency keys on posted
transfers (`paid`). What a run does to accounts and ledger is `RunInstruction` of Payments.
**PaymentSchedule** is the abstract specification, what an instruction promises: its runs
are paid in order, each once, none before its time. `ImplementsSchedule` is the refinement,
with the identity on `paid` and `now`.

**Cards** extends Payments: a card payment is `postTransfer` to the merchant's account under
the card's limits, measured over the card's own transfers (`cardIds`, the column `cardId`).
`PaymentsStep` is any step of Payments, with `closeAccount`'s check for active cards.
**Statements** is the read model: `queryStatement` over the ledger of Payments, whose opening
balance is worked out backwards from the first line. The lines of a statement are positions of
rows in the ledger of the account: rows of one millisecond are taken in their order of
insertion, which the query does not promise.

**SecureChannel** is the abstract specification of the encrypted sessions: one key per id,
one user per channel, and a message only while the channel is open and the message timely:
once, or once more by a request during which it ceases to be timely. **Sessions** implements
it with the two stores, lazy expiry, sweeps, eviction and nonces; the mapping computes
`channel` from the stores (`hasSession`, and whether a key was ever given), `user` from
`getBoundUser` and `timely` from the clock. The three readings of the clock in one request,
by `getSessionKey`, the timestamp check and `recordNonce`, are three values in
`ReceiveMessage`; the other handlers read it once in the model, since no two of their checks
have to meet at one instant. **StepUp** extends Sessions with codes, tokens and counters.
**Login** uses the sessions by what SecureChannel promises of them: `OpenSession` and
`SessionEnds` happen at any time, and its own steps must be steps of SecureChannel.

| Code | Model |
|---|---|
| `POST /security/handshake`, `GET /security/session` | `Handshake`, `GetSession` |
| `decryptMiddleware`, `encryptedResponse` | `ReceiveMessage`, `GetSessionKey` |
| `bindUser`, `deleteSessionsByUser` | `BindUser`, `WipeOthers`, `Logout` |
| the two `setInterval` sweeps | `SweepHandshakes`, `SweepSessions` |
| `/otp/request`, `/otp/verify` | `RequestOtp`, `VerifyOtpRight`, `VerifyOtpWrong` |
| `requireOtp`, then `requireStepUp` | `Gate`; `GateRefusesActionToken` spends the first token only |
| `loginWithPassword`, up to bcrypt and after it | `PasswordRead`, then `PasswordMiss` or `PasswordHit` |
| passkey options, verify up to the library, after it | `Options`, `VerifyBegins`, `PasskeyVerified`, `RegistrationVerified` or `NotVerified` |

**BackOffice** has the decisions of admins, and the bills customers pay:
`findByIdempotencyKey` looks at all transfers, so the keys of both are one space
(`keyKnown`). A handler commits its row and publishes, each subscriber commits rows of its
own; the request is the list `run.steps` of the commits to come. `stepFails` throws in front
of one, `Crash` drops the rest, `auditFails` is the wildcard subscriber's swallowed error.
Audit rows of the middleware come after the response (`finishing`), in any order with the
next request.

`MC...` modules give the constants their values. `...Proofs` modules hold the theorems about
the module they are named after; `StepUpProofs` has those about Sessions as well.

## Runs

| Run | What it asks | States | Result |
|---|---|---|---|
| `payments` | holds, ledger, keys, UTRs among all operations, over days and crashes | 210,607 | holds |
| `cards` | money conserved, holds accounted, limits across days, statements, settlement not starved | 424,532 | holds |
| `disputes` | two-commit approvals over moving transfers | 333,420 | holds |
| `fixed_deposits` | the principal is locked, paid back once, and matures | 176,974 | holds |
| `standing_instructions` | the loop implements the schedule and catches up | 374,586 | holds |
| `sessions` | the stores implement SecureChannel, with a clock that moves during a request; tokens, guesses, velocity | 640,498 | holds |
| `login` | lockout, passkeys and grants among parallel requests | 983,352 | holds |
| `back_office` | approvals, maker-checker and audit, cut short anywhere, beside a customer's bills | 1,380,786 | holds |
| `cross_user_fd` | README: no cross-user transfers into a fixed deposit | | violated |
| `self_settle` | comment: settlement releases the hold and debits the source | | violated |
| `si_auto_pause` | README: no auto-pause | | violated |
| `fd_top_up` | comment: closing a deposit zeroes its principal | | violated |

What the passing runs show that tests hardly reach:

- `HoldsAccounted`, `MoneyConserved`: in every interleaving the hold of an account is exactly
  the sum of its pending transfers, and the balances are the opening balances plus the
  faucet. Both have one named exception, `postedToSelf`: a transfer with one account at both
  ends, which NEFT/RTGS and bill payments let through, makes money and (on NEFT/RTGS) leaves
  a hold for good. The properties say how much, so anything else would violate them.
- `StrandedStaysStranded`: money on hold for a transfer to a closed account is never
  released; a `pending` transfer to one can only stay pending.
- `FundedNeverCloses`: `close` wants balance 0, `debit` leaves the minimum balance, and so no
  account that was ever funded can be closed.
- `UtrsMissingAfterCrash`: posted IMPS/UPI transfers lack their UTR only by a crash between
  the two transactions, one per crash.
- `InstantWithinLimits`: the transfers a user requests on the instant rails never exceed the
  limits of a day or a month, even though NEFT/RTGS transfers are not checked and count on the
  day they settle. Runs of standing instructions are not checked either (see below): the
  property is about requests alone, and a transfer under an instruction's key counts as a run.
- `CardsWithinBankMax`: raising and lowering a card's limits between payments gains nothing
  over the bank's own limits.
- `StatementsAddUp`: statements of consecutive periods join, although settlement dates a
  transfer later than its request.
- `ReversalsAttributed`: money goes back once per approval, plus at most once per crash
  between reversal and update.
- `DepositsBacked`, `MoneyConservedWithInterest`: the two tables of a deposit agree in every
  interleaving, and it is paid back once. Money transferred to a deposit is the named
  exception: it vanishes when the deposit is paid back, and the equation says how much.
- `HeldDepositIsStuck`: one NEFT or RTGS request from a deposit's account keeps that deposit
  from ever being paid back.
- `EarlyNeverPaysMore`: even past its maturity, with a late tick, early closure gains nothing.
- `RowMatchesTransfers`: whatever throws or stops, an instruction's row is at most one run
  behind its transfers and never ahead of them.
- `ImplementsSecureChannel`: expiry, eviction and pruning never bring an id back, and let a
  message through a second time in one case only: its window ends between the timestamp
  check of the replay and the pruning of the nonces. There is no third time.
- `TokensAcceptedOnce`, `GuessesBounded`: both say what is left of "once" and of "five
  attempts" after the code's own resets: one more use per clearing of the consumed ids, a new
  set of guesses per cooldown.
- `LockoutBound`: parallel logins get past the lock, since each writes the lock it computed
  before bcrypt. The bound says how far.
- `EnrolledHasPasskey`, `CeremoniesHaveGrants`: in no order of enrolment, revocation,
  throw and stop is a user sent to a passkey step without a passkey, and no ceremony completes
  that no password, code or step-up paid for.
- `UsesSecureChannel`: what logs in after an await binds an open session that speaks for
  nobody else.
- `ApprovalOpensAccount`, `AuditedApprovalIsComplete`: an approval without its account is one
  that was cut short, and its audit row, the last thing written, is proof that it was not.
- `PendingActionPaysOnce`: whatever is cut short, an action pays once at most, and it is
  executed unpaid only when another transfer, whoever's, has its key.
- `AuditChainVerifies`: rows that come late or carry an older date keep the chain whole.

### What the models brought to light

Besides the findings, behaviour that no document denies and that the properties name:

- standing instructions are run without owner and tier (`runDueInstructions.ts:60`): neither
  banking access nor the daily and monthly limits are checked for a run, and runs can take a
  user past the limits, though they count when the next request is checked;
- a replay is found out by a nonce that `recordNonce` may just have pruned: `decrypt.ts:102` and
  `sessionStore.ts:89` read the clock separately, so a replay that passes the timestamp check
  in the last millisecond of its window is accepted if that millisecond is over at the second
  reading;
- a pending action whose key is on any other transfer, a customer's bill included, is executed
  and no money moves (`faucetDeposit.ts:49`);
- an action whose deposit throws stays `approved` for ever: it cannot be approved again;
- an approval of an application cut short cannot be repeated: the customer is approved and has
  no account, and `openAdditionalAccount` wants an account to be there;
- `createAccountForUser` answers with the account of the same type, a branch no approval
  reaches, since an approved customer cannot apply again;
- the approval of a pending action is the one admin decision without an audit row of its own;
- a month without ledger rows has opening and closing balance 0, though README.md:259 says
  the opening balance is the balance at its start;
- a card can be issued for, and unfrozen on, a closed account; its payments are refused;
- the retry of a card payment can be refused by the limit that the payment used up, since
  limits come before the idempotency key;
- a request turned away by the velocity counters has lost its tokens.

### Bounds

`payments`: three accounts of two users (Alice's savings and fixed deposit, a shop's current
account that collects for a biller), one amount, the rails internal, IMPS, NEFT and RTGS,
one key besides none, which a request or the run of an instruction takes, two transfers, one
crash, two days. The amount is one that Alice's
balance covers once, so that a debit which overlooked a hold would show. Two transfers are a
held and an interfering one, on any pair of accounts, one account at both ends included; UPI
takes the path of IMPS. `disputes` runs three transfers through the same actions, without
the faucet; two disputes over the same or different transfers. `cards`: Alice's account and
the shop's, one card, two transfers of one amount that her balance covers together, two days
of one month, limits of two and three units, so that the daily limit binds at once and the
monthly one on the second day, and one idempotency key, that of a standing instruction,
whose run takes her past either. The code has two calendars, local time for the limits and
UTC for statements; the model has one, so what differs around midnight is not seen.
`fixed_deposits`: one customer, two deposits of one month, three days, so that the second
can be opened after the first is due and a tick can be a month late; one transfer, which is
enough to top a deposit up or to put a hold on it (two make three million states); the rate
and the penalty are high enough for rounding not to hide them. `standing_instructions`: one
instruction of period 2 without an end and one of period 1 that ends inside the run; four
instants, a failure limit of 2, one throwing write, one crash. `MaxUtrs`, `MaxFailureCount`
only cap counters that no decision but the pause reads.

`sessions`: two session ids for a store of one, so that the second handshake evicts the
first; two users, one message that is fresh at the first two of three instants and may
arrive at any, with the clock moving on while it is judged, TTLs of one instant, nonce
window 1, so that the boundary between fresh and forgotten is an instant and the second
delivery across it happens; a second timestamp, ahead of the server's clock (976,392
states), finds nothing else; one request that needs both factors and one that needs the
action token; a code that locks at its first miss, two tokens, and consumed ids cleared at
the second. Velocity allows one action in two instants and two in three: two tokens reach
the minute's cap and not the day's. Session ids and users are only compared, hence the
symmetry. `login`: one user with two sessions, two passkeys and one recovery code, two
requests awaiting at once, a lock after two misses for one instant of two, two login states.
The formula of `LockoutBound` held on nine other choices of threshold, window, clock and
number of requests. `back_office`: one customer who may apply twice, one faucet request over
the threshold and smaller ones, amounts below, at and above both limits, two transfers, so
that a bill can take the key of an action, one throw, one stop, and up to five audit rows
when a request comes in.

Deadlock is checked in `standing_instructions`. In the other runs it is off: with every
table full, every account closed and the clock at its end a bounded instance really stops.

### Fairness

`setInterval` fires for ever, hence weak fairness of `SettleTick` and `Tick`; a loop that has
started runs on by itself, hence weak fairness of `SettleStep` and `LoopStep`, and of
`StampUtr`; in `cards` the same three, leaving the cards alone. In `fixed_deposits` the
maturity loop and the settlement loop share the thread, so
each tick is disabled now and then while the other runs: `MatureTick` is strongly fair, since
a due timer runs when the thread is next free. Requests, administrators, the clock and crashes
have none. Crashes are bounded,
which is what `SettlementNotStarved`, `MaturityNotStarved` and `CatchesUp` need: a process that stops in every
loop promises nothing. Sessions, Login and BackOffice have safety properties only: no loop of
theirs owes anybody progress.

### Refinements

StandingInstructions implements PaymentSchedule (model-checked and proved). StepUp, through
Sessions, implements SecureChannel, and Login, with the sessions it assumes, does as well: what
one proves of the stores is what the other relies on. All three are model-checked and proved.

## Proofs

The theorems hold for every value of the constants. They rest on the named ASSUMEs of the
modules alone, which every run evaluates: minimum balances of the spendable types and
amounts are positive, bounds and limits are natural, there are finitely many accounts, a
deposit's account id has no opening balance (deposits are opened by the model), a penalty is
at most the whole interest, `Login` has requests.

Every proof has the same shape: an inductive invariant, one lemma per action that it is
kept, a step per action in the lemma about `Next`, and the properties read off the
invariant.

### Payments

*Rows.* `IInv` is type correctness; the hold is covered by the balance; the last ledger row
ends at the balance (`Books`); pending transfers have a source account (`PendingHasSource`),
without which settlement would not be well typed; an account with a balance is not closed
and an account that has had one keeps one (`Live`); keys are unique. From it follow
`TypeCorrect`, `HoldsAreCovered`, `LedgerAgrees`, `NoFundedClose`, `KeysPayOnce` and the
action properties `TransfersAreFinal` and `StrandedForGood`. `LedgerAgrees` covers the
transfer to the same account too: the two rows are appended in the order in which the two
saves overwrite each other.

*Sums.* The provers have no induction rule they can instantiate, so `SetInduction` derives
one for finite sets, from the well-foundedness of strict inclusion, for a predicate given as
the set of subsets it holds of. From it come the lemmas on sums: what one more element adds
(`SumAdds`), what one changed value changes (`SumOfUpdate`), that a part is at most the
whole (`SumAtLeast`).

*Money.* `Tallied` says three things of one state: the hold of each account is the sum of
its pending transfers and of the holds kept by transfers to itself; the balances are a base
plus the faucet and what transfers to themselves made; what is pending is on a batch rail.
Neither of the first two is inductive alone: settlement releases a hold because the transfer
was pending, and it kept one only where the two ends are one account. The base is a
parameter, because with deposits it moves (below). From it: `HoldsAreAccounted`,
`MoneyIsConserved`.

*Double entry.* `Posted` places the ledger rows: a transfer has its debit and its credit, at
two places or one, exactly from the moment it is posted, and no row is of a transfer that is
not there. Counted, that is `BooksAreDouble`.

*Limits.* `Limited` counts what the limits protect, the instant transfers a user requested in
a window, as a part of what the check sums; a run of an instruction adds to the sum and not to
the part (`RunKeepsLimits`). A posted row keeps its day; a settled one gets the
present day, later than every window that has ended, and is not instant; and the check of a
day looks at least as far back as the window of any later day begins (`MonthStarts`). Hence
`LimitsHold`.

*UTRs.* Rows without a UTR are counted against the stops and the request that is stamping:
`UtrsMissAfterCrashes`.

### Disputes

A Payments step preserves the invariant by the lemmas of `PaymentsProofs`; the conjuncts
added relate `disputes` and `deciding` to the reversal rows. It yields
`DisputesTypeCorrect`, `ApprovalsAreReversed`, `DecisionsAreFinal`. `ReversalsAreAttributed`
counts the reversals that no approval stands for: the one being decided, and one for each
stop; that no other operation writes a reversal is a lemma.

### Cards

The limits of a card change at any time, so nothing can be said of a card's spending and its
own limits. `CInv` says that the limits of every card are below the bank's, whoever set
them, that card payments are posted from the start (so settlement never gives one a new
day), and that what a card spent on a day, or from the beginning of a month to it, is within
the bank's. A payment keeps that, because what it is checked against counts at least those.
`CardsStayWithinBankMax` follows, and `CardsKeepPayments`: under CardsSpec money is
conserved, the books double, holds accounted for and the limits on requested transfers hold, since a
card payment is one step more of the kind `PaymentsProofs` knows.

`StatementsJoin` rests on an invariant of the ledger alone, `Joined`: each running balance
follows from the one before by the amount of its row (`RunsOn`), and rows are in the order of
their days (`InDayOrder`). A transfer to the same account is the exception: its credit comes
right after its debit and adds the amount twice, since the credit overwrites the balance the
debit wrote. It is kept because settlement gives a transfer its day when it posts it, and no
step changes the day of a posted one. So the lines of a period are a stretch of positions
(`WindowIs`) whose first is never the second row of such a transfer (`OpensBefore`): working
back from it finds the balance before the period. Summed over the stretch the amounts make up
the difference (`PeriodAdds`), and the rows that count twice are one for each transfer to the
same account (`DoubledIs`, by `SumOfImage`).

### Fixed deposits

`IInv` is of no use here: deposits break its ledger conjunct. Of every step of Payments it
is shown that it spares deposit accounts (`Spared`: money and holds are only added, a closed
row stays as it is), and of the steps of FixedDeposits that they write one deposit's account
and a spendable one; `FInv` adds that no two deposits have one account and that none pays
back to a deposit account. From it: `DepositsTypeCorrect`, `DepositsAreLocked`,
`HoldsAreForever`.

For the exact statements, `MInv` adds that a deposit's account holds the principal and what
was sent to it since (`Gained`: each step of Payments raises it by just the transfers it
posts to it), and that `Tallied` holds with a base that opening leaves alone and paying back
moves, by the interest and by the top-ups that are lost. From it: `DepositsAreBacked`,
`MoneyIsConservedWithInterest`.

`EarlyPaysNoMore`: interest grows with the time, division rounding down is monotone, and a
penalty up to the whole takes away no less than nothing; a deposit already due is paid for
its tenure at most.

### Standing instructions

The loop implements PaymentSchedule: the row of an instruction is on its last paid run or on
the one after it (`RowsFollow`), so whether the key of the row's run is on a transfer tells
which of the two it is (`KeyTellsRun`); and the row that `Advance` and the catch branch
write back is the one that was read, still on the run just paid, of an instruction nobody
else has touched (`LoopReads`). `RowsFollow` needs that no paid run is later than the last,
which `RowMatchesTransfers` does not say. From the same invariant: `TypeCorrect`,
`RowsMatch`, `ActivePays`, `CancelIsFinal`.

### Sessions and step-up

`SessionsImplementSecureChannel`: the invariant says that an id waiting for its handshake
has had no key and one with a session exactly one (`OneKey`), and that every message handled
on a session is remembered until it is too old to be fresh (`Remembered`). A step then only
closes channels, opens one, hands over one message or binds one user; each kind maps to an
action of SecureChannel or a stutter. A message accepted at the last reading of the clock was
either never handled before or is too old at that reading (`FreshIsNew`), and in the second
case no later request passes the timestamp check with it. While a message is judged time may
also close channels, its own included (`ReceivingCloses`).

The factors only touch a session, so `FactorsKeepSessions` and with it
`FactorsKeepSecureChannel`. `TokensAcceptedOnceHolds`: uses beyond the first are of tokens
no longer in the consumed set, one set cleared for each. `GuessesBoundedHolds`: the misses
before the live code was made had a code in each cooldown that ended since, so theirs are
bounded by when it was made; those of codes that were forgotten stand, since the process
stopped and the session ended with it. `VelocityBoundHolds`: the counter of a window says
how many of the session's actions came since it began, and those before are bounded window
by window; the counters go only when the session does.

### Login

`EnrolledHasPasskeyHolds`: what writes the flag and what deletes a passkey are single
commits, and each leaves a passkey or no flag. `CeremoniesHaveGrantsHolds` is a balance:
ceremonies completed, ceremonies awaiting the library and login states kept are no more than
the grants; each step moves one to the next or drops it. `LockoutBoundHolds`: a request that
read the row before a lock may still miss, and what it writes can lift the lock again. The
potential counts the misses taken and those to come: below the threshold every request may
have read a count whose miss lifts a lock, from it on none reads one any more, and those
that did use themselves up; each window lets every request miss once.
`LoginUsesSecureChannel` is the refinement, for the login of a session that was opened
before the await.

### Back office

What a request still has to commit is part of the state (`run.steps`). The invariant says
what is already safe because of what is still to do: the tier and account of an approval are
there or in the list, or the list was cut short (which is what the named exceptions count);
an action is executed only by the deposit in front of it, or when its key was already on a
transfer; an audit row is last. The chain is
an invariant of its own: a row gets the next number and the hash of the last row there is,
at the moment it is inserted. Theorems: `ApprovalOpensAccountHolds`,
`AuditedApprovalIsCompleteHolds`, `PendingActionPaysOnceHolds`, `AuditChainVerifiesHolds`.

### Only model-checked

All liveness (`SettlementNotStarved`, `MaturityNotStarved`, `CatchesUp`), out of the
prover's reach, and with it termination of the loops. Every safety invariant and action
property of a passing run is a theorem.

Some theorems state what no run checks any more because another property says it better:
`ActivePays` (only active instructions before their end pay), `CancelIsFinal` and the type
invariants of Disputes, FixedDeposits and StandingInstructions.

## Findings

Four statements of the documentation or comments that the code does not keep, each with a run that
ends in a counterexample of a few steps: see `findings` in `PROJECT.json`.

## Not modelled

Currency (there is one), formatting, logging, rate limits, HTTP and database plumbing,
cryptographic primitives, WebAuthn itself, the exports of statements, routes for development.
Nominees, billers, saved bill accounts, contact and role changes: single rows no modelled
decision reads. The cooling period of a beneficiary, which stops no transfer. Calendar
arithmetic, for which there are days and periods. Eviction from the code and counter maps past
`MAX_KEYS`, and the admin route that asks for a code alone. Bus events without a typed
subscriber or an audit row. Payments begins at a snapshot of funded accounts and has no
deposit operations; FixedDeposits has them, Cards and Statements go without.

## Plan

1. The two findings on settlement as theorems of what the code does do: what a transfer to
   itself keeps on hold is never released (`HoldsAccounted` says how much, not that it stays).
2. Safety halves of the liveness properties: a tick that ends has visited every row it read.
