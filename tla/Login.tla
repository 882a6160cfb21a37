-------------------------------- MODULE Login --------------------------------
(***************************************************************************)
(* Signing up and logging in: the user row with its lockout, the password  *)
(* step, passkeys and their ceremonies, recovery codes, and what settings  *)
(* and administrators change.  A request that awaits (bcrypt, WebAuthn) is *)
(* kept in inFlight with what it read before; the rest of a handler runs   *)
(* in one step.  Of the sessions only what SecureChannel promises is used. *)
(*                                                                         *)
(* Whether a password, a nonce, an assertion or a code is right is an      *)
(* input.  The one-time codes and tokens in front of the settings are in   *)
(* StepUp.                                                                 *)
(***************************************************************************)
EXTENDS Integers, FiniteSets, Functions

CONSTANTS
  SessionIds,
  Users,
  NoUser,
  Credentials,    \* passkeys
  Codes,          \* recovery codes
  NoCode,
  Requests,       \* bound: requests that may await at one time
  Threshold,      \* LOCKOUT_THRESHOLD
  LockoutWindow,  \* LOCKOUT_WINDOW_MS
  StateTtl,       \* TTL_MS of a login state and CHALLENGE_TTL_MS
  CodeTtl,        \* TTL_MS of a recovery code
  MaxClock,       \* bound: the last tick of the clock
  MaxGrants       \* bound: login states ever set

ASSUME LoginAssumption ==
  /\ {Threshold, LockoutWindow} \subseteq Nat \ {0}
  /\ {StateTtl, CodeTtl, MaxClock, MaxGrants} \subseteq Nat
  /\ NoUser \notin Users /\ NoCode \notin Codes
  /\ IsFiniteSet(Requests) /\ Requests # {}

VARIABLES
  clock,
  row,          \* users: the row of each user name
  owner,        \* webauthn_credentials: the user of each passkey
  codes,        \* recovery_codes: the row of each code issued
  channel,      \* the sessions: new, open or closed
  boundTo,      \* the user bound to a session
  loginStates,  \* stateBySession
  challenges,   \* passkeyChallenges and pendingChallenges, by session
  inFlight,     \* the requests that await
  granted,      \* history: login states set for a session
  completed     \* history: passkey ceremonies a session completed

vars == <<clock, row, owner, codes, channel, boundTo, loginStates,
          challenges, inFlight, granted, completed>>

rows     == <<row, owner, codes>>
sessions == <<channel, boundTo>>
flow     == <<loginStates, challenges>>
history  == <<granted, completed>>

Null == 0   \* lockedUntil when it is not set; real times are positive

UserRow ==
  [ exists          : BOOLEAN,
    accountStatus   : {"Active", "Locked"},
    failedAttempts  : Nat,
    lockedUntil     : Nat,
    passkeyEnrolled : BOOLEAN ]

(* createUser; exists is set by the insert. *)
createUser ==
  [ exists |-> TRUE, accountStatus |-> "Active", failedAttempts |-> 0,
    lockedUntil |-> Null, passkeyEnrolled |-> FALSE ]

Purposes == {"enroll-passkey", "auth-passkey", "enroll-additional"}

Init ==
  /\ clock = 0
  /\ row = [u \in Users |-> [createUser EXCEPT !.exists = FALSE]]
  /\ owner = [c \in Credentials |-> NoUser]
  /\ codes = << >>
  /\ channel = [s \in SessionIds |-> "new"]
  /\ boundTo = [s \in SessionIds |-> NoUser]
  /\ loginStates = << >>
  /\ challenges = << >>
  /\ inFlight = << >>
  /\ granted = [s \in SessionIds |-> 0]
  /\ completed = [s \in SessionIds |-> 0]

without(f, keys) == [k \in DOMAIN f \ keys |-> f[k]]

with(f, key, value) ==
  [k \in DOMAIN f \cup {key} |-> IF k = key THEN value ELSE f[k]]

hasSession(s) == channel[s] = "open"

idle(q) == q \notin DOMAIN inFlight

await(q, request) == inFlight' = with(inFlight, q, request)

answer(q) == inFlight' = without(inFlight, {q})
-----------------------------------------------------------------------------
(* Signing up *)

SignupRead(q, u) ==
  /\ idle(q)
  /\ ~ row[u].exists
  /\ await(q, [kind |-> "signup", user |-> u])
  /\ UNCHANGED <<clock, rows, sessions, flow, history>>

(* Of two signups of one name that both read no row, the unique index      *)
(* refuses the second insert.                                              *)
SignupInsert(q) ==
  /\ ~ idle(q) /\ inFlight[q].kind = "signup"
  /\ LET u == inFlight[q].user IN
       row' = IF row[u].exists THEN row ELSE [row EXCEPT ![u] = createUser]
  /\ answer(q)
  /\ UNCHANGED <<clock, owner, codes, sessions, flow, history>>
-----------------------------------------------------------------------------
(* The password step: login and login with a recovery code *)

isLocked(u) ==
  row[u].accountStatus = "Locked" \/ row[u].lockedUntil > clock

(* Of the count that was read only how far it is from the threshold        *)
(* matters (see lockFrom).                                                 *)
attemptsRead(u) ==
  IF row[u].failedAttempts < Threshold THEN row[u].failedAttempts ELSE Threshold

(* loginWithPassword up to its await.  The row it read is used after it; a *)
(* recovery code in the request is not.                                    *)
PasswordRead(q, u, s) ==
  /\ idle(q)
  /\ hasSession(s)
  /\ row[u].exists
  /\ ~ isLocked(u)
  /\ await(q, [ kind |-> "password", user |-> u, session |-> s,
                failedAttempts |-> attemptsRead(u),
                passkeyEnrolled |-> row[u].passkeyEnrolled ])
  /\ UNCHANGED <<clock, rows, sessions, flow, history>>

(* Faulty variant: the miss that reaches the threshold does not lock. *)
lockFromLate(failedAttempts) ==
  IF failedAttempts >= Threshold THEN clock + LockoutWindow ELSE Null

(* lockedUntil from the count as read, which may be old: below the         *)
(* threshold it clears a lock that another request set meanwhile.  The     *)
(* clock was read before the await too (see Tick).                         *)
lockFrom(failedAttempts) ==
  IF failedAttempts + 1 >= Threshold THEN clock + LockoutWindow ELSE Null

recordFailedAttempt(u, failedAttempts) ==
  row' = [row EXCEPT ![u].failedAttempts = @ + 1,
                     ![u].lockedUntil = lockFrom(failedAttempts)]

PasswordMiss(q) ==
  /\ ~ idle(q) /\ inFlight[q].kind = "password"
  /\ recordFailedAttempt(inFlight[q].user, inFlight[q].failedAttempts)
  /\ answer(q)
  /\ UNCHANGED <<clock, owner, codes, sessions, flow, history>>

clearLockout(u) ==
  row' = [row EXCEPT ![u].failedAttempts = 0, ![u].lockedUntil = Null]

(* How many login states were ever set. *)
grants == FoldFunction(+, 0, granted)

(* A new state replaces the one the session had. *)
setLoginState(s, u, purpose) ==
  /\ grants < MaxGrants
  /\ loginStates' = with(loginStates, s,
       [user |-> u, purpose |-> purpose, expiresAt |-> clock + StateTtl])
  /\ granted' = [granted EXCEPT ![s] = @ + 1]

isActiveCode(c, u) ==
  /\ c \in DOMAIN codes
  /\ codes[c].user = u
  /\ ~ codes[c].consumed
  /\ codes[c].expiresAt > clock

(* Faulty variant: nextStep itself is stored as the purpose. *)
nextStepAsPurpose(passkeyEnrolled) ==
  IF passkeyEnrolled THEN "auth" ELSE "enroll"

purposeAfterPassword(passkeyEnrolled) ==
  IF passkeyEnrolled THEN "auth-passkey" ELSE "enroll-passkey"

(* The next step follows the row as read: a login that began before the    *)
(* first passkey was enrolled is still told to enroll one.                 *)
PasswordHit(q, code) ==
  /\ ~ idle(q) /\ inFlight[q].kind = "password"
  /\ LET r == inFlight[q] IN
     /\ clearLockout(r.user)
     /\ \/ /\ code = NoCode
           /\ setLoginState(r.session, r.user,
                purposeAfterPassword(r.passkeyEnrolled))
           /\ UNCHANGED codes
        \/ /\ isActiveCode(code, r.user)
           /\ codes' = [codes EXCEPT ![code].consumed = TRUE]
           /\ setLoginState(r.session, r.user, "enroll-additional")
        \/ /\ code # NoCode /\ ~ isActiveCode(code, r.user)
           /\ UNCHANGED <<codes, loginStates, granted>>
  /\ answer(q)
  /\ UNCHANGED <<clock, owner, sessions, challenges, completed>>
-----------------------------------------------------------------------------
(* Passkey ceremonies *)

peekLoginState(s, purposes) ==
  /\ s \in DOMAIN loginStates
  /\ loginStates[s].expiresAt >= clock
  /\ loginStates[s].purpose \in purposes

ForLogin == {"auth-passkey"}
ForEnrolling == {"enroll-passkey", "enroll-additional"}

(* POST /identity/login/passkey/options and /webauthn/registration/options *)
(* The library's promise in between is left out: it waits for nothing, and *)
(* a challenge opens nothing without the login state.                      *)
Options(s, purposes) ==
  /\ hasSession(s)
  /\ peekLoginState(s, purposes)
  /\ purposes = ForLogin => \E c \in Credentials : owner[c] = loginStates[s].user
  /\ challenges' = with(challenges, <<s, purposes>>, clock + StateTtl)
  /\ UNCHANGED <<clock, rows, sessions, loginStates, inFlight, history>>

(* Faulty variant: the state is read and left in place. *)
peekOnly(s) == loginStates

consumeLoginState(s) == without(loginStates, {s})

hasChallenge(s, purposes) ==
  /\ <<s, purposes>> \in DOMAIN challenges
  /\ challenges[<<s, purposes>>] >= clock

(* The verify step up to its await: the login state is consumed before the *)
(* nonce is compared, the challenge once it has been.                      *)
VerifyBegins(q, s, purposes, accepted, request) ==
  /\ idle(q)
  /\ hasSession(s)
  /\ peekLoginState(s, purposes)
  /\ loginStates' = consumeLoginState(s)
  /\ \/ UNCHANGED <<challenges, inFlight>>      \* another nonce
     \/ /\ challenges' = without(challenges, {<<s, purposes>>})
        /\ IF hasChallenge(s, purposes) /\ accepted
           THEN await(q, request) ELSE UNCHANGED inFlight
  /\ UNCHANGED <<clock, rows, sessions, history>>

(* POST /identity/login/passkey/verify with the credential c *)
PasskeyVerifyBegins(q, s, c) ==
  VerifyBegins(q, s, ForLogin, owner[c] = loginStates[s].user,
    [kind |-> "assert", session |-> s, user |-> loginStates[s].user])

(* POST /webauthn/registration/verify *)
RegistrationVerifyBegins(q, s) ==
  VerifyBegins(q, s, ForEnrolling, TRUE,
    [ kind |-> "register", session |-> s, user |-> loginStates[s].user,
      first |-> loginStates[s].purpose = "enroll-passkey" ])

(* Faulty variant: the session looked up before the await is trusted. *)
bindAnyway(s, u) ==
  /\ boundTo' = [boundTo EXCEPT ![s] = u]
  /\ completed' = [completed EXCEPT ![s] = @ + 1]

(* bindUser throws for a session that ended during the await and for one   *)
(* that speaks for another user.                                           *)
bindUser(s, u) ==
  IF hasSession(s) /\ boundTo[s] \in {NoUser, u}
  THEN /\ boundTo' = [boundTo EXCEPT ![s] = u]
       /\ completed' = [completed EXCEPT ![s] = @ + 1]
  ELSE UNCHANGED <<boundTo, completed>>

(* The credential is not read again: one revoked meanwhile still logs in.  *)
PasskeyVerified(q) ==
  /\ ~ idle(q) /\ inFlight[q].kind = "assert"
  /\ bindUser(inFlight[q].session, inFlight[q].user)
  /\ answer(q)
  /\ UNCHANGED <<clock, rows, channel, flow, granted>>

(* The credential is inserted, then a first one marks the user, then the   *)
(* session is bound: when bindUser throws the passkey stays.               *)
RegistrationVerified(q, c) ==
  /\ ~ idle(q) /\ inFlight[q].kind = "register"
  /\ owner[c] = NoUser
  /\ LET r == inFlight[q] IN
     /\ owner' = [owner EXCEPT ![c] = r.user]
     /\ row' = IF r.first THEN [row EXCEPT ![r.user].passkeyEnrolled = TRUE]
               ELSE row
     /\ bindUser(r.session, r.user)
  /\ answer(q)
  /\ UNCHANGED <<clock, codes, channel, flow, granted>>

(* The library refuses or throws. *)
NotVerified(q) ==
  /\ ~ idle(q) /\ inFlight[q].kind \in {"assert", "register"}
  /\ answer(q)
  /\ UNCHANGED <<clock, rows, sessions, flow, history>>
-----------------------------------------------------------------------------
(* Settings of a user who is logged in *)

loggedIn(s) == hasSession(s) /\ boundTo[s] # NoUser

(* POST /identity/credentials/enroll-options *)
EnrollOptions(s) ==
  /\ loggedIn(s)
  /\ setLoginState(s, boundTo[s], "enroll-additional")
  /\ UNCHANGED <<clock, rows, sessions, challenges, inFlight, completed>>

passkeysOf(u) == { c \in Credentials : owner[c] = u }

(* Faulty variant: the passkey itself is not counted. *)
mayRevokeLast(c) == Cardinality(passkeysOf(owner[c])) > 0

mayRevoke(c) == Cardinality(passkeysOf(owner[c])) > 1

(* POST /identity/credentials/:id/revoke *)
Revoke(s, c) ==
  /\ loggedIn(s)
  /\ owner[c] = boundTo[s]
  /\ mayRevoke(c)
  /\ owner' = [owner EXCEPT ![c] = NoUser]
  /\ UNCHANGED <<clock, row, codes, sessions, flow, inFlight, history>>

(* POST /identity/password/change: the old password is compared, the new   *)
(* one hashed, and setPassword also clears the lockout.                    *)
ChangePasswordRead(q, s) ==
  /\ idle(q)
  /\ loggedIn(s)
  /\ await(q, [kind |-> "change", user |-> boundTo[s]])
  /\ UNCHANGED <<clock, rows, sessions, flow, history>>

ChangePassword(q) ==
  /\ ~ idle(q) /\ inFlight[q].kind = "change"
  /\ \/ clearLockout(inFlight[q].user)
     \/ UNCHANGED row       \* the old password is wrong, the new one weak
  /\ answer(q)
  /\ UNCHANGED <<clock, owner, codes, sessions, flow, history>>

end(S) ==
  /\ channel' = [s \in SessionIds |-> IF s \in S THEN "closed" ELSE channel[s]]
  /\ boundTo' = [s \in SessionIds |-> IF s \in S THEN NoUser ELSE boundTo[s]]

(* POST /identity/sessions/wipe-others.  A login in flight is bound to no  *)
(* user yet and is not found.                                              *)
WipeOthers(s) ==
  /\ loggedIn(s)
  /\ end({ t \in SessionIds \ {s} : boundTo[t] = boundTo[s] })
  /\ UNCHANGED <<clock, rows, flow, inFlight, history>>

(* POST /identity/logout *)
Logout(s) ==
  /\ loggedIn(s)
  /\ loginStates' = without(loginStates, {s})
  /\ end({s})
  /\ UNCHANGED <<clock, rows, challenges, inFlight, history>>
-----------------------------------------------------------------------------
(* Administrators *)

Unlock(u) ==
  /\ row[u].exists
  /\ row' = [row EXCEPT ![u].accountStatus = "Active",
               ![u].failedAttempts = 0, ![u].lockedUntil = Null]
  /\ UNCHANGED <<clock, owner, codes, sessions, flow, inFlight, history>>

(* Sessions, login states and requests of the user go on. *)
Lock(u) ==
  /\ row[u].exists
  /\ row' = [row EXCEPT ![u].accountStatus = "Locked"]
  /\ UNCHANGED <<clock, owner, codes, sessions, flow, inFlight, history>>

IssueRecoveryCode(u, c) ==
  /\ row[u].exists
  /\ c \notin DOMAIN codes
  /\ codes' = with(codes, c,
       [user |-> u, expiresAt |-> clock + CodeTtl, consumed |-> FALSE])
  /\ UNCHANGED <<clock, row, owner, sessions, flow, inFlight, history>>
-----------------------------------------------------------------------------
(* Sessions, timers and the process *)

OpenSession(s) ==
  /\ channel[s] = "new"
  /\ channel' = [channel EXCEPT ![s] = "open"]
  /\ UNCHANGED <<clock, rows, boundTo, flow, inFlight, history>>

(* Expiry or eviction. *)
SessionEnds(s) ==
  /\ hasSession(s)
  /\ end({s})
  /\ UNCHANGED <<clock, rows, flow, inFlight, history>>

Sweep ==
  /\ loginStates' = without(loginStates,
       { s \in DOMAIN loginStates : clock > loginStates[s].expiresAt })
  /\ challenges' = without(challenges,
       { k \in DOMAIN challenges : clock > challenges[k] })
  /\ UNCHANGED <<clock, rows, sessions, inFlight, history>>

InFlightOf(kind) == { q \in DOMAIN inFlight : inFlight[q].kind = kind }

(* A tick is LOCKOUT_WINDOW_MS at the most and a bcrypt comparison far     *)
(* shorter: the clock that is read before it is the one that runs after.   *)
Tick ==
  /\ clock < MaxClock
  /\ InFlightOf("password") = {}
  /\ clock' = clock + 1
  /\ UNCHANGED <<rows, sessions, flow, inFlight, history>>

forget ==
  /\ end({ s \in SessionIds : channel[s] = "open" })
  /\ loginStates' = << >>
  /\ challenges' = << >>
  /\ inFlight' = << >>
  /\ UNCHANGED <<clock, codes, history>>

Crash == forget /\ UNCHANGED <<row, owner>>

(* A stop between the insert of a first passkey and its flag. *)
CrashWhileRegistering(q, c) ==
  /\ ~ idle(q) /\ inFlight[q].kind = "register"
  /\ owner[c] = NoUser
  /\ owner' = [owner EXCEPT ![c] = inFlight[q].user]
  /\ forget
  /\ UNCHANGED row
-----------------------------------------------------------------------------
PasswordStep ==
  \E q \in Requests :
    \/ \E u \in Users : SignupRead(q, u)
    \/ SignupInsert(q)
    \/ \E u \in Users, s \in SessionIds : PasswordRead(q, u, s)
    \/ PasswordMiss(q)
    \/ \E code \in Codes \cup {NoCode} : PasswordHit(q, code)

Ceremony ==
  \/ \E s \in SessionIds, p \in {ForLogin, ForEnrolling} : Options(s, p)
  \/ \E q \in Requests :
       \/ \E s \in SessionIds, c \in Credentials : PasskeyVerifyBegins(q, s, c)
       \/ \E s \in SessionIds : RegistrationVerifyBegins(q, s)
       \/ PasskeyVerified(q)
       \/ \E c \in Credentials : RegistrationVerified(q, c)
       \/ NotVerified(q)
       \/ \E c \in Credentials : CrashWhileRegistering(q, c)

Settings ==
  \E s \in SessionIds :
    \/ EnrollOptions(s)
    \/ \E c \in Credentials : Revoke(s, c)
    \/ \E q \in Requests : ChangePasswordRead(q, s)
    \/ WipeOthers(s)
    \/ Logout(s)
    \/ OpenSession(s)
    \/ SessionEnds(s)

Administration ==
  \E u \in Users :
    \/ Unlock(u)
    \/ Lock(u)
    \/ \E c \in Codes : IssueRecoveryCode(u, c)

Next ==
  \/ PasswordStep
  \/ Ceremony
  \/ Settings
  \/ Administration
  \/ \E q \in Requests : ChangePassword(q)
  \/ Sweep
  \/ Tick
  \/ Crash

Spec == Init /\ [][Next]_vars
-----------------------------------------------------------------------------
(* Properties *)

(* What a request keeps while it awaits. *)
Awaiting ==
  [kind : {"signup", "change"}, user : Users]
    \cup [ kind : {"password"}, user : Users, session : SessionIds,
           failedAttempts : 0..Threshold, passkeyEnrolled : BOOLEAN ]
    \cup [kind : {"assert"}, user : Users, session : SessionIds]
    \cup [ kind : {"register"}, user : Users, session : SessionIds,
           first : BOOLEAN ]

TypeOK ==
  /\ clock \in 0..MaxClock
  /\ row \in [Users -> UserRow]
  /\ owner \in [Credentials -> Users \cup {NoUser}]
  /\ DOMAIN codes \subseteq Codes
  /\ \A c \in DOMAIN codes :
       codes[c] \in [user : Users, expiresAt : Nat, consumed : BOOLEAN]
  /\ channel \in [SessionIds -> {"new", "open", "closed"}]
  /\ boundTo \in [SessionIds -> Users \cup {NoUser}]
  /\ DOMAIN loginStates \subseteq SessionIds
  /\ \A s \in DOMAIN loginStates :
       loginStates[s] \in [user : Users, purpose : Purposes, expiresAt : Nat]
  /\ DOMAIN challenges \subseteq SessionIds \X {ForLogin, ForEnrolling}
  /\ \A k \in DOMAIN challenges : challenges[k] \in Nat
  /\ DOMAIN inFlight \subseteq Requests
  /\ \A q \in DOMAIN inFlight : inFlight[q] \in Awaiting
  /\ granted \in [SessionIds -> Nat]
  /\ completed \in [SessionIds -> Nat]

(* How many wrong passwords an account takes, counted since the last right *)
(* one.  One at a time they are THRESHOLD, and one more each time a lock   *)
(* runs out.  With P requests awaiting, P - 1 of them read the count below *)
(* the threshold and answer after the lock is set; each writes its lock    *)
(* from the old count, lifts the lock and lets others in.                  *)
LockoutBound ==
  LET P == Cardinality(Requests) IN
  \A u \in Users :
    row[u].failedAttempts <=
      (Threshold - 1) + (P - 1) + (P * (P + 1)) \div 2
        + P * (clock \div LockoutWindow)

(* A user marked as enrolled has a passkey to log in with, whatever is     *)
(* revoked, fails or stops on the way: the flag sends the user to the      *)
(* passkey step, which no one without a passkey can pass.                  *)
EnrolledHasPasskey ==
  \A u \in Users : row[u].passkeyEnrolled => passkeysOf(u) # {}

(* A right password, a recovery code or a step-up is good for one passkey  *)
(* ceremony: what a session completed, has under way and may still begin   *)
(* does not exceed the login states it was given, whatever the order of    *)
(* its requests.                                                           *)
CeremoniesHaveGrants ==
  \A s \in SessionIds :
    LET underWay == { q \in InFlightOf("assert") \cup InFlightOf("register") :
                        inFlight[q].session = s }
        open == DOMAIN loginStates \cap {s}
    IN  completed[s] + Cardinality(underWay) + Cardinality(open) <= granted[s]

(* Logging in uses the sessions as their specification allows: a user is   *)
(* bound to an open session only, and to one of no other user, although    *)
(* the session was looked up before the await.                             *)
Channel == INSTANCE SecureChannel
  WITH Messages <- {},
       keysGiven <- [s \in SessionIds |-> IF channel[s] = "new" THEN 0 ELSE 1],
       user <- boundTo, timely <- {},
       delivered <- [s \in SessionIds |-> << >>]

UsesSecureChannel == Channel!Spec
=============================================================================
