----------------------------- MODULE LoginProofs -----------------------------
(***************************************************************************)
(* What TLAPS proves of Login for every set of users, sessions, passkeys   *)
(* and codes, every number of requests that await at one time, and every   *)
(* threshold and window.                                                   *)
(***************************************************************************)
EXTENDS Login, TLAPS, FiniteSetTheorems
-----------------------------------------------------------------------------
(* Type correctness, by the parts of the state. *)

RowsTyped ==
  /\ row \in [Users -> UserRow]
  /\ owner \in [Credentials -> Users \cup {NoUser}]
  /\ DOMAIN codes \subseteq Codes
  /\ \A c \in DOMAIN codes :
       codes[c] \in [user : Users, expiresAt : Nat, consumed : BOOLEAN]

SessionsTyped ==
  /\ channel \in [SessionIds -> {"new", "open", "closed"}]
  /\ boundTo \in [SessionIds -> Users \cup {NoUser}]

StatesTyped ==
  /\ DOMAIN loginStates \subseteq SessionIds
  /\ \A s \in DOMAIN loginStates :
       loginStates[s] \in [user : Users, purpose : Purposes, expiresAt : Nat]

ChallengesTyped ==
  /\ DOMAIN challenges \subseteq SessionIds \X {ForLogin, ForEnrolling}
  /\ \A k \in DOMAIN challenges : challenges[k] \in Nat

InFlightTyped ==
  /\ DOMAIN inFlight \subseteq Requests
  /\ \A q \in DOMAIN inFlight : inFlight[q] \in Awaiting

HistoryTyped ==
  /\ granted \in [SessionIds -> Nat]
  /\ completed \in [SessionIds -> Nat]

LEMMA PartsOfType ==
  ASSUME TypeOK,
         clock' \in 0..MaxClock,
         UNCHANGED <<row, owner, codes>> \/ RowsTyped',
         UNCHANGED <<channel, boundTo>> \/ SessionsTyped',
         UNCHANGED loginStates \/ StatesTyped',
         UNCHANGED challenges \/ ChallengesTyped',
         UNCHANGED inFlight \/ InFlightTyped',
         UNCHANGED <<granted, completed>> \/ HistoryTyped'
  PROVE  TypeOK'
BY DEF TypeOK, RowsTyped, SessionsTyped, StatesTyped, ChallengesTyped,
  InFlightTyped, HistoryTyped

LEMMA Constants ==
  /\ Threshold \in Nat \ {0} /\ LockoutWindow \in Nat \ {0}
  /\ StateTtl \in Nat /\ CodeTtl \in Nat /\ MaxClock \in Nat /\ MaxGrants \in Nat
  /\ NoUser \notin Users /\ NoCode \notin Codes
BY LoginAssumption

(* What a request in flight is. *)
LEMMA InFlightIs ==
  ASSUME TypeOK, NEW q, ~ idle(q)
  PROVE  /\ q \in Requests /\ q \in DOMAIN inFlight
         /\ inFlight[q].user \in Users
         /\ inFlight[q].kind \in {"password", "assert", "register"} =>
              inFlight[q].session \in SessionIds
         /\ inFlight[q].kind = "password" =>
              /\ inFlight[q].failedAttempts \in 0..Threshold
              /\ inFlight[q].passkeyEnrolled \in BOOLEAN
         /\ inFlight[q].kind = "register" => inFlight[q].first \in BOOLEAN
<1>1. q \in DOMAIN inFlight /\ q \in Requests /\ inFlight[q] \in Awaiting
  BY DEF idle, TypeOK
<1> QED
  BY <1>1 DEF Awaiting

LEMMA AwaitTyped ==
  ASSUME TypeOK, NEW q \in Requests, NEW request \in Awaiting, await(q, request)
  PROVE  InFlightTyped'
BY DEF TypeOK, InFlightTyped, await, with

LEMMA AnswerTyped ==
  ASSUME TypeOK, NEW q, answer(q)
  PROVE  InFlightTyped'
BY DEF TypeOK, InFlightTyped, answer, without

LEMMA StateSet ==
  ASSUME TypeOK, NEW s \in SessionIds, NEW u \in Users, NEW purpose \in Purposes,
         setLoginState(s, u, purpose), UNCHANGED completed
  PROVE  StatesTyped' /\ HistoryTyped'
<1>1. clock + StateTtl \in Nat
  BY Constants DEF TypeOK
<1>2. StatesTyped'
  BY <1>1 DEF TypeOK, StatesTyped, setLoginState, with
<1>3. HistoryTyped'
  BY DEF TypeOK, HistoryTyped, setLoginState
<1> QED
  BY <1>2, <1>3

LEMMA StatesLeft ==
  ASSUME TypeOK, NEW S, loginStates' = without(loginStates, S)
  PROVE  StatesTyped'
BY DEF TypeOK, StatesTyped, without

LEMMA ChallengesLeft ==
  ASSUME TypeOK, NEW S, challenges' = without(challenges, S)
  PROVE  ChallengesTyped'
BY DEF TypeOK, ChallengesTyped, without

LEMMA SessionsEnded ==
  ASSUME TypeOK, NEW S, end(S)
  PROVE  SessionsTyped'
BY DEF TypeOK, SessionsTyped, end

LEMMA UserBound ==
  ASSUME TypeOK, NEW s \in SessionIds, NEW u \in Users, bindUser(s, u),
         UNCHANGED <<channel, granted>>
  PROVE  SessionsTyped' /\ HistoryTyped'
BY DEF TypeOK, SessionsTyped, HistoryTyped, bindUser

(* The row of one user is written. *)
LEMMA RowWritten ==
  ASSUME TypeOK, NEW u \in Users, NEW r \in UserRow, row' = [row EXCEPT ![u] = r],
         UNCHANGED <<owner, codes>>
  PROVE  RowsTyped'
BY DEF TypeOK, RowsTyped

LEMMA PasskeyAdded ==
  ASSUME TypeOK, NEW u \in Users, NEW c \in Credentials, NEW r \in UserRow,
         owner' = [owner EXCEPT ![c] = u],
         row' = row \/ row' = [row EXCEPT ![u] = r],
         UNCHANGED codes
  PROVE  RowsTyped'
BY DEF TypeOK, RowsTyped
-----------------------------------------------------------------------------
LEMMA PasswordStepTyped ==
  ASSUME TypeOK, PasswordStep
  PROVE  TypeOK'
<1> USE DEF rows, sessions, flow, history
<1>1. PICK q \in Requests :
        \/ \E u \in Users : SignupRead(q, u)
        \/ SignupInsert(q)
        \/ \E u \in Users, s \in SessionIds : PasswordRead(q, u, s)
        \/ PasswordMiss(q)
        \/ \E code \in Codes \cup {NoCode} : PasswordHit(q, code)
  BY DEF PasswordStep
<1>2. ASSUME NEW u \in Users, SignupRead(q, u)
      PROVE  TypeOK'
  <2>1. [kind |-> "signup", user |-> u] \in Awaiting
    BY DEF Awaiting
  <2>2. InFlightTyped'
    BY <1>2, <2>1, AwaitTyped DEF SignupRead
  <2> QED
    BY <1>2, <2>2, PartsOfType DEF SignupRead, TypeOK
<1>3. ASSUME SignupInsert(q)
      PROVE  TypeOK'
  <2>1. inFlight[q].user \in Users /\ createUser \in UserRow
    BY <1>3, InFlightIs DEF SignupInsert, createUser, UserRow, Null
  <2>2. RowsTyped'
    BY <1>3, <2>1 DEF SignupInsert, TypeOK, RowsTyped
  <2>3. InFlightTyped'
    BY <1>3, AnswerTyped DEF SignupInsert
  <2> QED
    BY <1>3, <2>2, <2>3, PartsOfType DEF SignupInsert, TypeOK
<1>4. ASSUME NEW u \in Users, NEW s \in SessionIds, PasswordRead(q, u, s)
      PROVE  TypeOK'
  <2>1. row[u] \in UserRow
    BY DEF TypeOK
  <2>2. attemptsRead(u) \in 0..Threshold /\ row[u].passkeyEnrolled \in BOOLEAN
    BY <2>1, Constants DEF UserRow, attemptsRead
  <2> PICK request :
        request = [ kind |-> "password", user |-> u, session |-> s,
                    failedAttempts |-> attemptsRead(u),
                    passkeyEnrolled |-> row[u].passkeyEnrolled ]
    OBVIOUS
  <2>3. request \in Awaiting
    BY <2>2 DEF Awaiting
  <2>4. InFlightTyped'
    BY <1>4, <2>3, AwaitTyped DEF PasswordRead
  <2> QED
    BY <1>4, <2>4, PartsOfType DEF PasswordRead, TypeOK
<1>5. ASSUME PasswordMiss(q)
      PROVE  TypeOK'
  <2> PICK u : u = inFlight[q].user
    OBVIOUS
  <2> PICK n : n = inFlight[q].failedAttempts
    OBVIOUS
  <2>1. u \in Users /\ n \in Nat
    BY <1>5, InFlightIs, Constants DEF PasswordMiss
  <2>2. lockFrom(n) \in Nat
    BY <2>1, Constants DEF lockFrom, Null, TypeOK
  <2>3. RowsTyped'
    BY <1>5, <2>1, <2>2 DEF PasswordMiss, recordFailedAttempt, TypeOK, RowsTyped, UserRow
  <2>4. InFlightTyped'
    BY <1>5, AnswerTyped DEF PasswordMiss
  <2> QED
    BY <1>5, <2>3, <2>4, PartsOfType DEF PasswordMiss, TypeOK
<1>6. ASSUME NEW code \in Codes \cup {NoCode}, PasswordHit(q, code)
      PROVE  TypeOK'
  <2> PICK r : r = inFlight[q]
    OBVIOUS
  <2>1. r.user \in Users /\ r.session \in SessionIds /\ r.passkeyEnrolled \in BOOLEAN
    BY <1>6, InFlightIs DEF PasswordHit
  <2>2. row' \in [Users -> UserRow]
    <3>1. clearLockout(r.user)
      BY <1>6 DEF PasswordHit
    <3> QED
      BY <2>1, <3>1 DEF clearLockout, TypeOK, UserRow, Null
  <2>3. CASE /\ setLoginState(r.session, r.user, purposeAfterPassword(r.passkeyEnrolled))
             /\ UNCHANGED codes
    <3>1. purposeAfterPassword(r.passkeyEnrolled) \in Purposes
      BY DEF purposeAfterPassword, Purposes
    <3>2. StatesTyped' /\ HistoryTyped'
      BY <1>6, <2>1, <2>3, <3>1, StateSet DEF PasswordHit
    <3>3. RowsTyped'
      BY <1>6, <2>2, <2>3 DEF PasswordHit, RowsTyped, TypeOK
    <3>4. InFlightTyped'
      BY <1>6, AnswerTyped DEF PasswordHit
    <3> QED
      BY <1>6, <3>2, <3>3, <3>4, PartsOfType DEF PasswordHit, TypeOK
  <2>4. CASE /\ isActiveCode(code, r.user)
             /\ codes' = [codes EXCEPT ![code].consumed = TRUE]
             /\ setLoginState(r.session, r.user, "enroll-additional")
    <3>1. StatesTyped' /\ HistoryTyped'
      BY <1>6, <2>1, <2>4, StateSet DEF PasswordHit, Purposes
    <3>2. RowsTyped'
      BY <1>6, <2>2, <2>4 DEF PasswordHit, RowsTyped, TypeOK, isActiveCode
    <3>3. InFlightTyped'
      BY <1>6, AnswerTyped DEF PasswordHit
    <3> QED
      BY <1>6, <3>1, <3>2, <3>3, PartsOfType DEF PasswordHit, TypeOK
  <2>5. CASE UNCHANGED <<codes, loginStates, granted>>
    <3>1. InFlightTyped'
      BY <1>6, AnswerTyped DEF PasswordHit
    <3>2. RowsTyped'
      BY <1>6, <2>2, <2>5 DEF PasswordHit, RowsTyped, TypeOK
    <3> QED
      BY <1>6, <2>5, <3>1, <3>2, PartsOfType DEF PasswordHit, TypeOK
  <2> QED
    BY <1>6, <2>3, <2>4, <2>5 DEF PasswordHit
<1> QED
  BY <1>1, <1>2, <1>3, <1>4, <1>5, <1>6

LEMMA VerifyTyped ==
  ASSUME TypeOK, NEW q \in Requests, NEW s \in SessionIds, NEW purposes, NEW accepted,
         NEW request, s \in DOMAIN loginStates => request \in Awaiting,
         VerifyBegins(q, s, purposes, accepted, request)
  PROVE  TypeOK'
<1> USE DEF rows, sessions, history
<1>1. request \in Awaiting /\ StatesTyped'
  BY StatesLeft DEF VerifyBegins, peekLoginState, consumeLoginState
<1>2. UNCHANGED challenges \/ ChallengesTyped'
  BY ChallengesLeft DEF VerifyBegins
<1>3. UNCHANGED inFlight \/ InFlightTyped'
  BY <1>1, AwaitTyped DEF VerifyBegins
<1> QED
  BY <1>1, <1>2, <1>3, PartsOfType DEF VerifyBegins, TypeOK

(* Everything the process held is gone. *)
LEMMA ForgetTyped ==
  ASSUME TypeOK, forget, RowsTyped' \/ UNCHANGED <<row, owner>>
  PROVE  TypeOK'
<1> USE DEF history
<1>1. SessionsTyped'
  BY SessionsEnded DEF forget
<1>2. StatesTyped' /\ ChallengesTyped' /\ InFlightTyped'
  BY DEF forget, StatesTyped, ChallengesTyped, InFlightTyped
<1> QED
  BY <1>1, <1>2, PartsOfType DEF forget, TypeOK

LEMMA CeremonyTyped ==
  ASSUME TypeOK, Ceremony
  PROVE  TypeOK'
<1> USE DEF rows, sessions, flow, history
<1>1. ASSUME NEW s \in SessionIds, NEW p \in {ForLogin, ForEnrolling}, Options(s, p)
      PROVE  TypeOK'
  <2>1. ChallengesTyped'
    BY <1>1, Constants DEF Options, with, ChallengesTyped, TypeOK
  <2> QED
    BY <1>1, <2>1, PartsOfType DEF Options, TypeOK
<1>2. ASSUME NEW q \in Requests, NEW s \in SessionIds, NEW c \in Credentials,
             PasskeyVerifyBegins(q, s, c)
      PROVE  TypeOK'
  <2> PICK request :
        request = [kind |-> "assert", session |-> s, user |-> loginStates[s].user]
    OBVIOUS
  <2>1. s \in DOMAIN loginStates => request \in Awaiting
    BY DEF TypeOK, Awaiting
  <2> QED
    BY <1>2, <2>1, VerifyTyped DEF PasskeyVerifyBegins
<1>3. ASSUME NEW q \in Requests, NEW s \in SessionIds, RegistrationVerifyBegins(q, s)
      PROVE  TypeOK'
  <2> PICK request :
        request = [ kind |-> "register", session |-> s, user |-> loginStates[s].user,
                    first |-> loginStates[s].purpose = "enroll-passkey" ]
    OBVIOUS
  <2>1. s \in DOMAIN loginStates => request \in Awaiting
    BY DEF TypeOK, Awaiting
  <2> QED
    BY <1>3, <2>1, VerifyTyped DEF RegistrationVerifyBegins
<1>4. ASSUME NEW q \in Requests, PasskeyVerified(q)
      PROVE  TypeOK'
  <2>1. SessionsTyped' /\ HistoryTyped'
    BY <1>4, InFlightIs, UserBound DEF PasskeyVerified
  <2>2. InFlightTyped'
    BY <1>4, AnswerTyped DEF PasskeyVerified
  <2> QED
    BY <1>4, <2>1, <2>2, PartsOfType DEF PasskeyVerified, TypeOK
<1>5. ASSUME NEW q \in Requests, NEW c \in Credentials, RegistrationVerified(q, c)
      PROVE  TypeOK'
  <2> PICK u : u = inFlight[q].user
    OBVIOUS
  <2> PICK r : r = [row[u] EXCEPT !.passkeyEnrolled = TRUE]
    OBVIOUS
  <2>1. u \in Users /\ inFlight[q].session \in SessionIds
    BY <1>5, InFlightIs DEF RegistrationVerified
  <2>2. r \in UserRow
    <3>1. row[u] \in UserRow
      BY <2>1 DEF TypeOK
    <3> QED
      BY <3>1 DEF UserRow
  <2>3. /\ owner' = [owner EXCEPT ![c] = u]
        /\ row' = row \/ row' = [row EXCEPT ![u] = r]
        /\ bindUser(inFlight[q].session, u)
    BY <1>5 DEF RegistrationVerified
  <2>4. RowsTyped'
    BY <1>5, <2>1, <2>2, <2>3, PasskeyAdded DEF RegistrationVerified
  <2>5. SessionsTyped' /\ HistoryTyped'
    BY <1>5, <2>1, <2>3, UserBound DEF RegistrationVerified
  <2>6. InFlightTyped'
    BY <1>5, AnswerTyped DEF RegistrationVerified
  <2> QED
    BY <1>5, <2>4, <2>5, <2>6, PartsOfType DEF RegistrationVerified, TypeOK
<1>6. ASSUME NEW q \in Requests, NotVerified(q)
      PROVE  TypeOK'
  BY <1>6, AnswerTyped, PartsOfType DEF NotVerified, TypeOK
<1>7. ASSUME NEW q \in Requests, NEW c \in Credentials, CrashWhileRegistering(q, c)
      PROVE  TypeOK'
  <2>1. inFlight[q].user \in Users
    BY <1>7, InFlightIs DEF CrashWhileRegistering
  <2>2. RowsTyped'
    BY <1>7, <2>1 DEF CrashWhileRegistering, forget, RowsTyped, TypeOK
  <2> QED
    BY <1>7, <2>2, ForgetTyped DEF CrashWhileRegistering
<1> QED
  BY <1>1, <1>2, <1>3, <1>4, <1>5, <1>6, <1>7 DEF Ceremony

LEMMA SettingsTyped ==
  ASSUME TypeOK, Settings
  PROVE  TypeOK'
<1> USE DEF rows, sessions, flow, history
<1>1. PICK s \in SessionIds :
        \/ EnrollOptions(s)
        \/ \E c \in Credentials : Revoke(s, c)
        \/ \E q \in Requests : ChangePasswordRead(q, s)
        \/ WipeOthers(s)
        \/ Logout(s)
        \/ OpenSession(s)
        \/ SessionEnds(s)
  BY DEF Settings
<1>2. loggedIn(s) => boundTo[s] \in Users
  BY DEF loggedIn, TypeOK
<1>3. ASSUME EnrollOptions(s)
      PROVE  TypeOK'
  <2>1. StatesTyped' /\ HistoryTyped'
    BY <1>2, <1>3, StateSet DEF EnrollOptions, Purposes
  <2> QED
    BY <1>3, <2>1, PartsOfType DEF EnrollOptions, TypeOK
<1>4. ASSUME NEW c \in Credentials, Revoke(s, c)
      PROVE  TypeOK'
  <2>1. RowsTyped'
    BY <1>4 DEF Revoke, RowsTyped, TypeOK
  <2> QED
    BY <1>4, <2>1, PartsOfType DEF Revoke, TypeOK
<1>5. ASSUME NEW q \in Requests, ChangePasswordRead(q, s)
      PROVE  TypeOK'
  <2> PICK request : request = [kind |-> "change", user |-> boundTo[s]]
    OBVIOUS
  <2>1. request \in Awaiting
    BY <1>2, <1>5 DEF ChangePasswordRead, Awaiting
  <2>2. InFlightTyped'
    BY <1>5, <2>1, AwaitTyped DEF ChangePasswordRead
  <2> QED
    BY <1>5, <2>2, PartsOfType DEF ChangePasswordRead, TypeOK
<1>6. ASSUME WipeOthers(s)
      PROVE  TypeOK'
  <2>1. SessionsTyped'
    BY <1>6, SessionsEnded DEF WipeOthers
  <2> QED
    BY <1>6, <2>1, PartsOfType DEF WipeOthers, TypeOK
<1>7. ASSUME Logout(s)
      PROVE  TypeOK'
  <2>1. SessionsTyped' /\ StatesTyped'
    BY <1>7, SessionsEnded, StatesLeft DEF Logout
  <2> QED
    BY <1>7, <2>1, PartsOfType DEF Logout, TypeOK
<1>8. ASSUME OpenSession(s)
      PROVE  TypeOK'
  <2>1. SessionsTyped'
    BY <1>8 DEF OpenSession, SessionsTyped, TypeOK
  <2> QED
    BY <1>8, <2>1, PartsOfType DEF OpenSession, TypeOK
<1>9. ASSUME SessionEnds(s)
      PROVE  TypeOK'
  <2>1. SessionsTyped'
    BY <1>9, SessionsEnded DEF SessionEnds
  <2> QED
    BY <1>9, <2>1, PartsOfType DEF SessionEnds, TypeOK
<1> QED
  BY <1>1, <1>3, <1>4, <1>5, <1>6, <1>7, <1>8, <1>9

LEMMA RestTyped ==
  ASSUME TypeOK,
         \/ Administration
         \/ \E q \in Requests : ChangePassword(q)
         \/ Sweep
         \/ Tick
         \/ Crash
         \/ UNCHANGED vars
  PROVE  TypeOK'
<1> USE DEF rows, sessions, flow, history
<1>1. ASSUME NEW u \in Users, Unlock(u) \/ Lock(u)
      PROVE  TypeOK'
  <2>1. RowsTyped'
    BY <1>1 DEF Unlock, Lock, RowsTyped, TypeOK, UserRow, Null
  <2> QED
    BY <1>1, <2>1, PartsOfType DEF Unlock, Lock, TypeOK
<1>2. ASSUME NEW u \in Users, NEW c \in Codes, IssueRecoveryCode(u, c)
      PROVE  TypeOK'
  <2>1. RowsTyped'
    BY <1>2, Constants DEF IssueRecoveryCode, RowsTyped, TypeOK, with
  <2> QED
    BY <1>2, <2>1, PartsOfType DEF IssueRecoveryCode, TypeOK
<1>3. ASSUME NEW q \in Requests, ChangePassword(q)
      PROVE  TypeOK'
  <2> PICK u : u = inFlight[q].user
    OBVIOUS
  <2>1. u \in Users /\ (clearLockout(u) \/ UNCHANGED row)
    BY <1>3, InFlightIs DEF ChangePassword
  <2>2. RowsTyped'
    <3>1. row' \in [Users -> UserRow]
      BY <2>1 DEF clearLockout, TypeOK, UserRow, Null
    <3> QED
      BY <1>3, <3>1 DEF ChangePassword, RowsTyped, TypeOK
  <2>3. InFlightTyped'
    BY <1>3, AnswerTyped DEF ChangePassword
  <2> QED
    BY <1>3, <2>2, <2>3, PartsOfType DEF ChangePassword, TypeOK
<1>4. CASE Sweep
  <2>1. StatesTyped' /\ ChallengesTyped'
    BY <1>4, StatesLeft, ChallengesLeft DEF Sweep
  <2> QED
    BY <1>4, <2>1, PartsOfType DEF Sweep, TypeOK
<1>5. CASE Tick
  BY <1>5, Constants, PartsOfType DEF Tick, TypeOK
<1>6. CASE Crash
  BY <1>6, ForgetTyped DEF Crash
<1>7. CASE UNCHANGED vars
  BY <1>7, PartsOfType DEF vars, TypeOK
<1> QED
  BY <1>1, <1>2, <1>3, <1>4, <1>5, <1>6, <1>7 DEF Administration

LEMMA TypeInductive == TypeOK /\ [Next]_vars => TypeOK'
BY PasswordStepTyped, CeremonyTyped, SettingsTyped, RestTyped DEF Next

LEMMA InitTyped ==
  ASSUME Init
  PROVE  TypeOK
<1> PICK r : r = [createUser EXCEPT !.exists = FALSE]
  OBVIOUS
<1>1. r \in UserRow
  BY DEF createUser, UserRow, Null
<1>2. /\ clock \in 0..MaxClock
      /\ row \in [Users -> UserRow]
      /\ owner \in [Credentials -> Users \cup {NoUser}]
  BY <1>1, Constants DEF Init
<1>3. /\ DOMAIN codes = {} /\ DOMAIN loginStates = {}
      /\ DOMAIN challenges = {} /\ DOMAIN inFlight = {}
  BY DEF Init
<1>4. /\ channel \in [SessionIds -> {"new", "open", "closed"}]
      /\ boundTo \in [SessionIds -> Users \cup {NoUser}]
      /\ granted \in [SessionIds -> Nat]
      /\ completed \in [SessionIds -> Nat]
  BY DEF Init
<1> QED
  BY <1>2, <1>3, <1>4 DEF TypeOK

(* Every row, session, login state, challenge and waiting request keeps    *)
(* its type.                                                               *)
THEOREM LoginTypeCorrect == Spec => []TypeOK
BY TypeInductive, InitTyped, PTL DEF Spec
-----------------------------------------------------------------------------
(* Passkeys *)

(* The actions that write a user's row or a passkey. *)
LEMMA WhoWritesRows ==
  ASSUME [Next]_vars
  PROVE  \/ UNCHANGED <<row, owner>>
         \/ \E q \in Requests :
              \/ SignupInsert(q)
              \/ PasswordMiss(q)
              \/ \E code \in Codes \cup {NoCode} : PasswordHit(q, code)
              \/ ChangePassword(q)
              \/ \E c \in Credentials :
                   RegistrationVerified(q, c) \/ CrashWhileRegistering(q, c)
         \/ \E u \in Users : Unlock(u) \/ Lock(u)
         \/ \E s \in SessionIds, c \in Credentials : Revoke(s, c)
<1> USE DEF rows
<1>1. CASE PasswordStep
  BY <1>1 DEF PasswordStep, SignupRead, PasswordRead
<1>2. CASE Ceremony
  BY <1>2 DEF Ceremony, Options, PasskeyVerifyBegins, RegistrationVerifyBegins,
    VerifyBegins, PasskeyVerified, NotVerified
<1>3. CASE Settings
  BY <1>3 DEF Settings, EnrollOptions, ChangePasswordRead, WipeOthers, Logout,
    OpenSession, SessionEnds
<1>4. CASE Administration
  BY <1>4 DEF Administration, IssueRecoveryCode
<1>5. CASE Sweep \/ Tick \/ Crash \/ UNCHANGED vars
  BY <1>5 DEF Sweep, Tick, Crash, vars
<1> QED
  BY <1>1, <1>2, <1>3, <1>4, <1>5 DEF Next

(* The flag is set behind the insert of a passkey, and only a revocation   *)
(* that leaves another one takes a passkey away.                           *)
LEMMA EnrolledInductive ==
  ASSUME TypeOK, EnrolledHasPasskey, [Next]_vars
  PROVE  EnrolledHasPasskey'
<1> SUFFICES ASSUME NEW u \in Users, row'[u].passkeyEnrolled
             PROVE  \E k \in Credentials : owner'[k] = u
  BY DEF EnrolledHasPasskey, passkeysOf
<1>1. row[u].passkeyEnrolled => \E k \in Credentials : owner[k] = u
  BY DEF EnrolledHasPasskey, passkeysOf
<1>2. row[u] \in UserRow /\ row \in [Users -> UserRow] /\ u # NoUser
      /\ owner \in [Credentials -> Users \cup {NoUser}]
  BY Constants DEF TypeOK
<1>3. ASSUME row'[u].passkeyEnrolled => row[u].passkeyEnrolled, UNCHANGED owner
      PROVE  \E k \in Credentials : owner'[k] = u
  BY <1>1, <1>3
<1>4. ASSUME NEW q \in Requests, SignupInsert(q)
      PROVE  \E k \in Credentials : owner'[k] = u
  <2>1. inFlight[q].user \in Users
    BY <1>4, InFlightIs DEF SignupInsert
  <2> QED
    BY <1>2, <1>3, <1>4, <2>1 DEF SignupInsert, createUser
<1>5. ASSUME NEW q \in Requests, PasswordMiss(q)
      PROVE  \E k \in Credentials : owner'[k] = u
  <2> PICK v : v = inFlight[q].user
    OBVIOUS
  <2>1. v \in Users /\ recordFailedAttempt(v, inFlight[q].failedAttempts)
    BY <1>5, InFlightIs DEF PasswordMiss
  <2>2. row'[u].passkeyEnrolled = row[u].passkeyEnrolled
    BY <1>2, <2>1 DEF recordFailedAttempt, UserRow
  <2> QED
    BY <1>3, <1>5, <2>2 DEF PasswordMiss
<1>6. ASSUME NEW v \in Users, clearLockout(v)
      PROVE  row'[u].passkeyEnrolled = row[u].passkeyEnrolled
  BY <1>2, <1>6 DEF clearLockout, UserRow
<1>7. ASSUME NEW q \in Requests, NEW code \in Codes \cup {NoCode}, PasswordHit(q, code)
      PROVE  \E k \in Credentials : owner'[k] = u
  <2>1. inFlight[q].user \in Users /\ clearLockout(inFlight[q].user)
    BY <1>7, InFlightIs DEF PasswordHit
  <2> QED
    BY <1>3, <1>6, <1>7, <2>1 DEF PasswordHit
<1>8. ASSUME NEW q \in Requests, ChangePassword(q)
      PROVE  \E k \in Credentials : owner'[k] = u
  <2>1. /\ inFlight[q].user \in Users
        /\ clearLockout(inFlight[q].user) \/ UNCHANGED row
    BY <1>8, InFlightIs DEF ChangePassword
  <2> QED
    BY <1>3, <1>6, <1>8, <2>1 DEF ChangePassword
<1>9. ASSUME NEW q \in Requests, NEW c \in Credentials, RegistrationVerified(q, c)
      PROVE  \E k \in Credentials : owner'[k] = u
  <2> PICK v : v = inFlight[q].user
    OBVIOUS
  <2>1. /\ v \in Users /\ owner[c] = NoUser /\ owner' = [owner EXCEPT ![c] = v]
        /\ row' = row \/ row' = [row EXCEPT ![v].passkeyEnrolled = TRUE]
    BY <1>9, InFlightIs DEF RegistrationVerified
  <2>2. CASE u = v
    BY <1>2, <2>1, <2>2
  <2>3. CASE u # v
    <3>1. row'[u] = row[u]
      BY <1>2, <2>1, <2>3
    <3>2. PICK k \in Credentials : owner[k] = u
      BY <1>1, <3>1
    <3>3. k # c
      BY <1>2, <2>1, <3>2
    <3> QED
      BY <1>2, <2>1, <3>2, <3>3
  <2> QED
    BY <2>2, <2>3
<1>10. ASSUME NEW q \in Requests, NEW c \in Credentials, CrashWhileRegistering(q, c)
       PROVE  \E k \in Credentials : owner'[k] = u
  <2>1. PICK k \in Credentials : owner[k] = u
    BY <1>1, <1>10 DEF CrashWhileRegistering
  <2> QED
    BY <1>2, <1>10, <2>1 DEF CrashWhileRegistering
<1>11. ASSUME NEW v \in Users, Unlock(v) \/ Lock(v)
       PROVE  \E k \in Credentials : owner'[k] = u
  BY <1>2, <1>3, <1>11 DEF Unlock, Lock, UserRow
<1>12. ASSUME NEW s \in SessionIds, NEW c \in Credentials, Revoke(s, c)
       PROVE  \E k \in Credentials : owner'[k] = u
  <2>1. /\ owner' = [owner EXCEPT ![c] = NoUser]
        /\ Cardinality(passkeysOf(owner[c])) > 1
        /\ UNCHANGED row
    BY <1>12 DEF Revoke, mayRevoke
  <2>2. PICK k \in Credentials : owner[k] = u
    BY <1>1, <2>1
  <2>3. CASE k # c
    BY <1>2, <2>1, <2>2, <2>3
  <2>4. CASE k = c
    <3>1. passkeysOf(owner[c]) # {c}
      <4>1. Cardinality({c}) = 1
        BY FS_Singleton
      <4> QED
        BY <2>1, <4>1
    <3>2. PICK j \in passkeysOf(owner[c]) : j # c
      BY <3>1, <2>4 DEF passkeysOf
    <3> QED
      BY <1>2, <2>1, <2>2, <2>4, <3>2 DEF passkeysOf
  <2> QED
    BY <2>3, <2>4
<1> QED
  BY <1>3, <1>4, <1>5, <1>7, <1>8, <1>9, <1>10, <1>11, <1>12, WhoWritesRows

(* No order of enrolments, revocations, failures and stops leaves a user   *)
(* who is sent to the passkey step without a passkey.                      *)
THEOREM EnrolledHasPasskeyHolds == Spec => []EnrolledHasPasskey
<1>1. Init => EnrolledHasPasskey
  <2> SUFFICES ASSUME Init, NEW u \in Users
               PROVE  ~ row[u].passkeyEnrolled
    BY DEF EnrolledHasPasskey
  <2> QED
    BY DEF Init, createUser
<1>2. TypeOK /\ EnrolledHasPasskey /\ [Next]_vars => EnrolledHasPasskey'
  BY EnrolledInductive
<1> QED
  BY <1>1, <1>2, LoginTypeCorrect, PTL DEF Spec
-----------------------------------------------------------------------------
(* Sessions *)

BoundIsOpen == \A s \in SessionIds : boundTo[s] # NoUser => channel[s] = "open"

(* The actions that open, bind or end a session. *)
LEMMA WhoWritesSessions ==
  ASSUME TypeOK, BoundIsOpen, [Next]_vars
  PROVE  \/ UNCHANGED <<channel, boundTo>>
         \/ \E s \in SessionIds, u \in Users : bindUser(s, u) /\ UNCHANGED channel
         \/ \E S \in SUBSET SessionIds : end(S) /\ \A s \in S : channel[s] = "open"
         \/ \E s \in SessionIds : OpenSession(s)
<1> USE DEF sessions
<1>1. CASE PasswordStep
  BY <1>1 DEF PasswordStep, SignupRead, SignupInsert, PasswordRead, PasswordMiss, PasswordHit
<1>2. ASSUME NEW q \in Requests, PasskeyVerified(q) \/ \E c \in Credentials : RegistrationVerified(q, c)
      PROVE  \E s \in SessionIds, u \in Users : bindUser(s, u) /\ UNCHANGED channel
  BY <1>2, InFlightIs DEF PasskeyVerified, RegistrationVerified
<1>3. ASSUME forget
      PROVE  \E S \in SUBSET SessionIds : end(S) /\ \A s \in S : channel[s] = "open"
  BY <1>3 DEF forget
<1>4. CASE Ceremony
  BY <1>2, <1>3, <1>4 DEF Ceremony, Options, PasskeyVerifyBegins, RegistrationVerifyBegins,
    VerifyBegins, NotVerified, CrashWhileRegistering
<1>5. ASSUME NEW s \in SessionIds, WipeOthers(s)
      PROVE  \E S \in SUBSET SessionIds : end(S) /\ \A t \in S : channel[t] = "open"
  BY <1>5 DEF WipeOthers, loggedIn, BoundIsOpen
<1>6. ASSUME NEW s \in SessionIds, Logout(s) \/ SessionEnds(s)
      PROVE  \E S \in SUBSET SessionIds : end(S) /\ \A t \in S : channel[t] = "open"
  BY <1>6 DEF Logout, SessionEnds, loggedIn, hasSession
<1>7. CASE Settings
  BY <1>5, <1>6, <1>7 DEF Settings, EnrollOptions, Revoke, ChangePasswordRead
<1>8. CASE Administration
  BY <1>8 DEF Administration, Unlock, Lock, IssueRecoveryCode
<1>9. CASE (\E q \in Requests : ChangePassword(q)) \/ Sweep \/ Tick \/ UNCHANGED vars
  BY <1>9 DEF ChangePassword, Sweep, Tick, vars
<1>10. CASE Crash
  BY <1>3, <1>10 DEF Crash
<1> QED
  BY <1>1, <1>4, <1>7, <1>8, <1>9, <1>10 DEF Next

LEMMA BoundIsOpenInductive ==
  ASSUME TypeOK, BoundIsOpen, [Next]_vars
  PROVE  BoundIsOpen'
<1>1. ASSUME NEW s \in SessionIds, NEW u \in Users, bindUser(s, u), UNCHANGED channel
      PROVE  BoundIsOpen'
  BY <1>1 DEF bindUser, hasSession, BoundIsOpen, TypeOK
<1>2. ASSUME NEW S \in SUBSET SessionIds, end(S)
      PROVE  BoundIsOpen'
  BY <1>2 DEF end, BoundIsOpen, TypeOK
<1>3. ASSUME NEW s \in SessionIds, OpenSession(s)
      PROVE  BoundIsOpen'
  BY <1>3 DEF OpenSession, BoundIsOpen, TypeOK
<1>4. CASE UNCHANGED <<channel, boundTo>>
  BY <1>4 DEF BoundIsOpen
<1> QED
  BY <1>1, <1>2, <1>3, <1>4, WhoWritesSessions

(* Initial states are initial; the end of a login binds, or changes        *)
(* nothing; everything that ends sessions closes open channels.            *)
LEMMA InitImplements == Init => Channel!Init
BY DEF Init, Channel!Init

LEMMA NextImplements ==
  ASSUME TypeOK, BoundIsOpen, [Next]_vars
  PROVE  [Channel!Next]_(Channel!channelVars)
<1> DEFINE keys == [s \in SessionIds |-> IF channel[s] = "new" THEN 0 ELSE 1]
<1>1. ASSUME NEW s \in SessionIds, NEW u \in Users, bindUser(s, u), UNCHANGED channel
      PROVE  \/ Channel!Bind(s, u)
             \/ UNCHANGED <<channel, boundTo>>
  BY <1>1 DEF bindUser, hasSession, Channel!Bind, TypeOK
<1>2. ASSUME NEW S \in SUBSET SessionIds, end(S), \A s \in S : channel[s] = "open"
      PROVE  S \in SUBSET Channel!Open /\ Channel!Close(S)
  <2>1. keys' = keys
    BY <1>2 DEF end
  <2> QED
    BY <1>2, <2>1 DEF end, Channel!Close, Channel!close, Channel!silence, Channel!Open
<1>3. ASSUME NEW s \in SessionIds, OpenSession(s)
      PROVE  Channel!Establish(s, {})
  <2>1. /\ channel[s] = "new" /\ channel' = [channel EXCEPT ![s] = "open"]
        /\ UNCHANGED boundTo
        /\ channel \in [SessionIds -> {"new", "open", "closed"}]
        /\ boundTo \in [SessionIds -> Users \cup {NoUser}]
    BY <1>3 DEF OpenSession, TypeOK
  <2>2. keys[s] = 0 /\ keys' = [keys EXCEPT ![s] = 1]
    BY <2>1
  <2>3. Channel!close({}) = channel /\ Channel!silence({}) = boundTo
    BY <2>1 DEF Channel!close, Channel!silence
  <2> QED
    BY <2>1, <2>2, <2>3 DEF Channel!Establish
<1>4. ASSUME UNCHANGED <<channel, boundTo>>
      PROVE  UNCHANGED Channel!channelVars
  BY <1>4 DEF Channel!channelVars
<1> QED
  BY <1>1, <1>2, <1>3, <1>4, WhoWritesSessions DEF Channel!Next

(* However long a login awaits and whatever ends its session meanwhile,    *)
(* logging in treats the sessions as SecureChannel allows.                 *)
THEOREM LoginUsesSecureChannel == Spec => UsesSecureChannel
<1>1. Init => BoundIsOpen
  BY DEF Init, BoundIsOpen
<1>2. TypeOK /\ BoundIsOpen /\ [Next]_vars => BoundIsOpen'
  BY BoundIsOpenInductive
<1>3. TypeOK /\ BoundIsOpen /\ [Next]_vars => [Channel!Next]_(Channel!channelVars)
  BY NextImplements
<1> QED
  BY <1>1, <1>2, <1>3, InitImplements, LoginTypeCorrect, PTL
     DEF Spec, UsesSecureChannel, Channel!Spec
-----------------------------------------------------------------------------
(* Passkey ceremonies *)

UnderWay(s) ==
  { q \in InFlightOf("assert") \cup InFlightOf("register") : inFlight[q].session = s }

OpenState(s) == DOMAIN loginStates \cap {s}

Granted(s) ==
  completed[s] + Cardinality(UnderWay(s)) + Cardinality(OpenState(s)) <= granted[s]

LEMMA Counts ==
  ASSUME TypeOK, NEW s \in SessionIds
  PROVE  /\ IsFiniteSet(UnderWay(s)) /\ IsFiniteSet(OpenState(s))
         /\ Cardinality(UnderWay(s)) \in Nat
         /\ Cardinality(OpenState(s)) = IF s \in DOMAIN loginStates THEN 1 ELSE 0
         /\ completed[s] \in Nat /\ granted[s] \in Nat
<1>1. UnderWay(s) \in SUBSET Requests /\ IsFiniteSet(Requests)
  BY LoginAssumption DEF TypeOK, UnderWay, InFlightOf
<1>2. IsFiniteSet(UnderWay(s)) /\ Cardinality(UnderWay(s)) \in Nat
  BY <1>1, FS_Subset, FS_CardinalityType
<1>3. OpenState(s) = IF s \in DOMAIN loginStates THEN {s} ELSE {}
  BY DEF OpenState
<1>4. /\ IsFiniteSet(OpenState(s))
      /\ Cardinality(OpenState(s)) = IF s \in DOMAIN loginStates THEN 1 ELSE 0
  BY <1>3, FS_Singleton, FS_EmptySet
<1> QED
  BY <1>2, <1>4 DEF TypeOK

(* Four ways in which the count of a session stays within its grants:      *)
(* nothing new begins, a state is granted, a state becomes a ceremony, a   *)
(* ceremony ends.                                                          *)
LEMMA Balance ==
  ASSUME TypeOK, TypeOK', NEW s \in SessionIds, Granted(s),
         \/ /\ UnderWay(s)' \subseteq UnderWay(s)
            /\ DOMAIN loginStates' \cap {s} \subseteq DOMAIN loginStates
            /\ completed'[s] = completed[s] /\ granted'[s] = granted[s]
         \/ /\ UnderWay(s)' \subseteq UnderWay(s)
            /\ completed'[s] = completed[s] /\ granted'[s] = granted[s] + 1
         \/ /\ s \in DOMAIN loginStates /\ s \notin DOMAIN loginStates'
            /\ \E q : UnderWay(s)' \subseteq UnderWay(s) \cup {q}
            /\ completed'[s] = completed[s] /\ granted'[s] = granted[s]
         \/ /\ \E q \in UnderWay(s) : UnderWay(s)' \subseteq UnderWay(s) \ {q}
            /\ DOMAIN loginStates' \cap {s} \subseteq DOMAIN loginStates
            /\ completed'[s] <= completed[s] + 1 /\ granted'[s] = granted[s]
  PROVE  Granted(s)'
<1> DEFINE n == Cardinality(UnderWay(s))
           m == Cardinality(UnderWay(s)')
           open == IF s \in DOMAIN loginStates THEN 1 ELSE 0
           open2 == IF s \in DOMAIN loginStates' THEN 1 ELSE 0
<1>1. /\ IsFiniteSet(UnderWay(s)) /\ n \in Nat
      /\ Cardinality(OpenState(s)) = open
      /\ completed[s] \in Nat /\ granted[s] \in Nat
  BY Counts
<1>2. /\ IsFiniteSet(UnderWay(s)') /\ m \in Nat
      /\ Cardinality(OpenState(s)') = open2
      /\ completed'[s] \in Nat /\ granted'[s] \in Nat
  <2>1. /\ UnderWay(s)' \in SUBSET Requests /\ IsFiniteSet(Requests)
    BY LoginAssumption DEF TypeOK, UnderWay, InFlightOf
  <2>2. OpenState(s)' = IF s \in DOMAIN loginStates' THEN {s} ELSE {}
    BY DEF OpenState
  <2>3. Cardinality(OpenState(s)') = open2
    BY <2>2, FS_Singleton, FS_EmptySet
  <2> QED
    BY <2>1, <2>3, FS_Subset, FS_CardinalityType DEF TypeOK
<1>3. UnderWay(s)' \subseteq UnderWay(s) => m <= n
  BY <1>1, FS_Subset
<1>4. ASSUME NEW q, UnderWay(s)' \subseteq UnderWay(s) \cup {q}
      PROVE  m <= n + 1
  <2>1. /\ IsFiniteSet(UnderWay(s) \cup {q})
        /\ Cardinality(UnderWay(s) \cup {q}) <= n + 1
    <3>1. /\ IsFiniteSet(UnderWay(s) \cup {q})
          /\ Cardinality(UnderWay(s) \cup {q}) = IF q \in UnderWay(s) THEN n ELSE n + 1
      BY <1>1, FS_AddElement
    <3> HIDE DEF n
    <3> QED
      BY <1>1, <3>1
  <2>2. m <= Cardinality(UnderWay(s) \cup {q}) /\ Cardinality(UnderWay(s) \cup {q}) \in Nat
    BY <1>4, <2>1, FS_Subset, FS_CardinalityType
  <2> QED
    BY <1>1, <1>2, <2>1, <2>2
<1>5. ASSUME NEW q \in UnderWay(s), UnderWay(s)' \subseteq UnderWay(s) \ {q}
      PROVE  m <= n - 1
  <2>1. /\ IsFiniteSet(UnderWay(s) \ {q})
        /\ Cardinality(UnderWay(s) \ {q}) = n - 1
    BY <1>1, FS_RemoveElement
  <2> QED
    BY <1>5, <2>1, FS_Subset
<1>6. completed[s] + n + open <= granted[s]
  BY <1>1 DEF Granted
<1> HIDE DEF n, m
<1>7. completed'[s] + m + open2 <= granted'[s]
  BY <1>1, <1>2, <1>3, <1>4, <1>5, <1>6
<1> QED
  BY <1>2, <1>7 DEF Granted, n, m

(* A request that is no ceremony comes or goes. *)
LEMMA OtherRequests ==
  ASSUME TypeOK, NEW q, NEW s,
         \/ answer(q)
         \/ /\ idle(q)
            /\ \E request : await(q, request) /\ request.kind \notin {"assert", "register"}
  PROVE  UnderWay(s)' \subseteq UnderWay(s)
BY DEF answer, idle, await, UnderWay, InFlightOf, without, with

LEMMA VerifyIsGranted ==
  ASSUME TypeOK, NEW q, NEW s \in SessionIds, NEW purposes, NEW accepted,
         NEW request, request.session = s, NEW t \in SessionIds,
         VerifyBegins(q, s, purposes, accepted, request)
  PROVE  \/ /\ UnderWay(t)' \subseteq UnderWay(t)
            /\ DOMAIN loginStates' \cap {t} \subseteq DOMAIN loginStates
         \/ /\ t \in DOMAIN loginStates /\ t \notin DOMAIN loginStates'
            /\ \E p : UnderWay(t)' \subseteq UnderWay(t) \cup {p}
<1>1. /\ s \in DOMAIN loginStates
      /\ DOMAIN loginStates' = DOMAIN loginStates \ {s}
      /\ UNCHANGED inFlight \/ (idle(q) /\ await(q, request))
  BY DEF VerifyBegins, peekLoginState, consumeLoginState, without
<1>2. CASE UNCHANGED inFlight
  BY <1>1, <1>2 DEF UnderWay, InFlightOf
<1>3. CASE idle(q) /\ await(q, request)
  <2>1. UnderWay(t)' \subseteq UnderWay(t) \cup {q}
    BY <1>3 DEF idle, await, with, UnderWay, InFlightOf
  <2>2. t # s => UnderWay(t)' \subseteq UnderWay(t)
    BY <1>3 DEF idle, await, with, UnderWay, InFlightOf
  <2> QED
    BY <1>1, <2>1, <2>2
<1> QED
  BY <1>1, <1>2, <1>3

LEMMA StateIsGranted ==
  ASSUME TypeOK, NEW s \in SessionIds, NEW u, NEW purpose, NEW t \in SessionIds,
         setLoginState(s, u, purpose)
  PROVE  \/ granted'[t] = granted[t] + 1
         \/ /\ granted'[t] = granted[t]
            /\ DOMAIN loginStates' \cap {t} \subseteq DOMAIN loginStates
BY DEF TypeOK, setLoginState, with

LEMMA CeremonyEnds ==
  ASSUME TypeOK, NEW q, ~ idle(q), inFlight[q].kind \in {"assert", "register"}, answer(q),
         \/ bindUser(inFlight[q].session, inFlight[q].user)
         \/ UNCHANGED completed,
         UNCHANGED <<loginStates, granted>>, NEW t \in SessionIds
  PROVE  \/ /\ UnderWay(t)' \subseteq UnderWay(t)
            /\ completed'[t] = completed[t]
         \/ /\ \E p \in UnderWay(t) : UnderWay(t)' \subseteq UnderWay(t) \ {p}
            /\ completed'[t] <= completed[t] + 1
<1> PICK s : s = inFlight[q].session
  OBVIOUS
<1>1. s \in SessionIds /\ q \in UnderWay(s) /\ completed \in [SessionIds -> Nat]
  BY InFlightIs DEF TypeOK, UnderWay, InFlightOf, idle
<1>2. UnderWay(t)' \subseteq UnderWay(t) \ {q}
  BY DEF answer, without, UnderWay, InFlightOf
<1>3. completed' = completed \/ completed' = [completed EXCEPT ![s] = @ + 1]
  BY DEF bindUser
<1> QED
  BY <1>1, <1>2, <1>3

LEMMA GrantedInductive ==
  ASSUME TypeOK, TypeOK', [Next]_vars, NEW t \in SessionIds, Granted(t)
  PROVE  Granted(t)'
<1> USE DEF rows, sessions, flow, history
<1>1. ASSUME UnderWay(t)' \subseteq UnderWay(t), UNCHANGED <<loginStates, granted, completed>>
      PROVE  Granted(t)'
  BY <1>1, Balance
<1>2. CASE UNCHANGED inFlight /\ UNCHANGED <<loginStates, granted, completed>>
  BY <1>1, <1>2 DEF UnderWay, InFlightOf
<1>3. CASE PasswordStep
  <2>1. ASSUME NEW q \in Requests,
               \/ \E u \in Users : SignupRead(q, u)
               \/ SignupInsert(q)
               \/ \E u \in Users, s \in SessionIds : PasswordRead(q, u, s)
               \/ PasswordMiss(q)
        PROVE  Granted(t)'
    <3>1. /\ \/ answer(q)
             \/ /\ idle(q)
                /\ \E request : await(q, request) /\ request.kind \notin {"assert", "register"}
          /\ UNCHANGED <<loginStates, granted, completed>>
      <4>1. ASSUME NEW u \in Users, SignupRead(q, u)
            PROVE  /\ idle(q)
                   /\ \E request : /\ await(q, request)
                                   /\ request.kind \notin {"assert", "register"}
        BY <4>1 DEF SignupRead
      <4>2. ASSUME NEW u \in Users, NEW s \in SessionIds, PasswordRead(q, u, s)
            PROVE  /\ idle(q)
                   /\ \E request : /\ await(q, request)
                                   /\ request.kind \notin {"assert", "register"}
        BY <4>2 DEF PasswordRead
      <4>3. SignupInsert(q) \/ PasswordMiss(q) => answer(q)
        BY DEF SignupInsert, PasswordMiss
      <4>4. UNCHANGED <<loginStates, granted, completed>>
        BY <2>1 DEF SignupRead, SignupInsert, PasswordRead, PasswordMiss
      <4> QED
        BY <2>1, <4>1, <4>2, <4>3, <4>4
    <3> QED
      BY <1>1, <3>1, OtherRequests
  <2>2. ASSUME NEW q \in Requests, NEW code \in Codes \cup {NoCode}, PasswordHit(q, code)
        PROVE  Granted(t)'
    <3>1. inFlight[q].session \in SessionIds /\ answer(q) /\ UNCHANGED completed
      BY <2>2, InFlightIs DEF PasswordHit
    <3>2. UnderWay(t)' \subseteq UnderWay(t)
      BY <3>1, OtherRequests
    <3>3. \/ UNCHANGED <<loginStates, granted>>
          \/ \E purpose : setLoginState(inFlight[q].session, inFlight[q].user, purpose)
      BY <2>2 DEF PasswordHit
    <3> QED
      BY <1>1, <3>1, <3>2, <3>3, StateIsGranted, Balance
  <2> QED
    BY <1>3, <2>1, <2>2 DEF PasswordStep
<1>4. CASE Ceremony
  <2>1. ASSUME NEW q \in Requests, NEW s \in SessionIds,
               \/ \E c \in Credentials : PasskeyVerifyBegins(q, s, c)
               \/ RegistrationVerifyBegins(q, s)
        PROVE  Granted(t)'
    <3>1. /\ \E purposes, accepted, request :
               request.session = s /\ VerifyBegins(q, s, purposes, accepted, request)
          /\ UNCHANGED <<granted, completed>>
      BY <2>1 DEF PasskeyVerifyBegins, RegistrationVerifyBegins, VerifyBegins
    <3> QED
      BY <3>1, VerifyIsGranted, Balance
  <2>2. ASSUME NEW q \in Requests,
               \/ PasskeyVerified(q)
               \/ \E c \in Credentials : RegistrationVerified(q, c)
               \/ NotVerified(q)
        PROVE  Granted(t)'
    <3>1. /\ ~ idle(q) /\ inFlight[q].kind \in {"assert", "register"} /\ answer(q)
          /\ \/ bindUser(inFlight[q].session, inFlight[q].user)
             \/ UNCHANGED completed
          /\ UNCHANGED <<loginStates, granted>>
      BY <2>2 DEF PasskeyVerified, RegistrationVerified, NotVerified
    <3> QED
      BY <3>1, CeremonyEnds, Balance
  <2>3. ASSUME NEW q \in Requests, NEW c \in Credentials, CrashWhileRegistering(q, c)
        PROVE  Granted(t)'
    BY <2>3, Balance DEF CrashWhileRegistering, forget, UnderWay, InFlightOf
  <2> QED
    BY <1>2, <1>4, <2>1, <2>2, <2>3 DEF Ceremony, Options
<1>5. CASE Settings
  <2>1. ASSUME NEW s \in SessionIds, EnrollOptions(s)
        PROVE  Granted(t)'
    <3>1. UnderWay(t)' \subseteq UnderWay(t) /\ UNCHANGED completed
      BY <2>1 DEF EnrollOptions, UnderWay, InFlightOf
    <3>2. setLoginState(s, boundTo[s], "enroll-additional")
      BY <2>1 DEF EnrollOptions
    <3> QED
      BY <3>1, <3>2, StateIsGranted, Balance
  <2>2. ASSUME NEW s \in SessionIds, NEW q \in Requests, ChangePasswordRead(q, s)
        PROVE  Granted(t)'
    <3>1. /\ idle(q)
          /\ \E request : await(q, request) /\ request.kind \notin {"assert", "register"}
          /\ UNCHANGED <<loginStates, granted, completed>>
      BY <2>2 DEF ChangePasswordRead
    <3> QED
      BY <1>1, <3>1, OtherRequests
  <2>3. ASSUME NEW s \in SessionIds, Logout(s)
        PROVE  Granted(t)'
    BY <2>3, Balance DEF Logout, without, UnderWay, InFlightOf
  <2> QED
    BY <1>2, <1>5, <2>1, <2>2, <2>3 DEF Settings, Revoke, WipeOthers, OpenSession, SessionEnds
<1>6. CASE Administration
  BY <1>2, <1>6 DEF Administration, Unlock, Lock, IssueRecoveryCode
<1>7. ASSUME NEW q \in Requests, ChangePassword(q)
      PROVE  Granted(t)'
  <2>1. answer(q) /\ UNCHANGED <<loginStates, granted, completed>>
    BY <1>7 DEF ChangePassword
  <2> QED
    BY <1>1, <2>1, OtherRequests
<1>8. CASE Sweep
  BY <1>8, Balance DEF Sweep, without, UnderWay, InFlightOf
<1>9. CASE Crash
  BY <1>9, Balance DEF Crash, forget, UnderWay, InFlightOf
<1>10. CASE Tick \/ UNCHANGED vars
  BY <1>2, <1>10 DEF Tick, vars
<1> QED
  BY <1>3, <1>4, <1>5, <1>6, <1>7, <1>8, <1>9, <1>10 DEF Next

(* A right password, a recovery code or a step-up is good for one passkey  *)
(* ceremony, whatever the order of a session's requests.                   *)
THEOREM CeremoniesHaveGrantsHolds == Spec => []CeremoniesHaveGrants
<1> DEFINE Inv == \A s \in SessionIds : Granted(s)
<1>1. Init => Inv
  <2> SUFFICES ASSUME Init, NEW s \in SessionIds
               PROVE  Granted(s)
    OBVIOUS
  <2>1. UnderWay(s) = {} /\ OpenState(s) = {}
    BY DEF Init, UnderWay, InFlightOf, OpenState
  <2> QED
    BY <2>1, FS_EmptySet DEF Init, Granted
<1>2. TypeOK /\ TypeOK' /\ Inv /\ [Next]_vars => Inv'
  BY GrantedInductive
<1>3. Inv => CeremoniesHaveGrants
  BY DEF Granted, UnderWay, OpenState, CeremoniesHaveGrants
<1> QED
  BY <1>1, <1>2, <1>3, LoginTypeCorrect, PTL DEF Spec
-----------------------------------------------------------------------------
(* The lockout *)

P == Cardinality(Requests)

LEMMA SomeRequests == P \in Nat \ {0}
<1>1. P \in Nat /\ P # 0
  BY LoginAssumption, FS_CardinalityType, FS_EmptySet DEF P
<1> QED
  BY <1>1

(* The requests of a user whose miss lifts a lock, having read the count   *)
(* below the threshold, and those whose miss sets one.                     *)
Lifting(u) ==
  { q \in InFlightOf("password") :
      inFlight[q].user = u /\ inFlight[q].failedAttempts + 1 < Threshold }

Locking(u) ==
  { q \in InFlightOf("password") :
      inFlight[q].user = u /\ inFlight[q].failedAttempts + 1 >= Threshold }

lockRuns(u) == row[u].lockedUntil > clock

(* Twice the misses of the requests that enter each time one of j lifting  *)
(* requests has lifted the lock: P, P - 1, ... at the most.                *)
twiceEntering(j) == 2 * (j * P) - j * (j - 1)

(* Twice the misses still to come before the clock moves. *)
twiceToCome(lifting, locking, locked) ==
  2 * lifting + twiceEntering(lifting) + 2 * (IF locked THEN locking ELSE P - lifting)

(* How many windows began by the time the account was last open. *)
windows(lockedUntil, now) ==
  (IF lockedUntil > now THEN lockedUntil - LockoutWindow ELSE now) \div LockoutWindow

Budget == 2 * (Threshold - 1) + 2 * (P - 1) + P * (P + 1)

(* A lock is set a window ahead, and is over a window later at the latest. *)
LockIsRecent(u) ==
  \/ row[u].lockedUntil = Null
  \/ /\ LockoutWindow <= row[u].lockedUntil
     /\ row[u].lockedUntil <= clock + LockoutWindow

(* Misses taken and misses to come, from the threshold on.  Below it every *)
(* request may read a count that lifts; from then on none does, and those  *)
(* that did use themselves up.                                             *)
MissesCounted(u) ==
  row[u].failedAttempts >= Threshold - 1 =>
    2 * row[u].failedAttempts
      + twiceToCome(Cardinality(Lifting(u)), Cardinality(Locking(u)), lockRuns(u))
    <= Budget + 2 * (P * windows(row[u].lockedUntil, clock))

LEMMA Windows ==
  /\ \A a \in Nat : a \div LockoutWindow \in Nat
  /\ \A a, b \in Nat : a <= b => a \div LockoutWindow <= b \div LockoutWindow
  /\ \A a \in Nat : (a + LockoutWindow) \div LockoutWindow = (a \div LockoutWindow) + 1
<1>1. LockoutWindow \in Nat \ {0}
  BY Constants
<1>2. \A a \in Nat : a \div LockoutWindow \in Nat
  BY <1>1
<1>3. ASSUME NEW a \in Nat, NEW b \in Nat, a <= b
      PROVE  a \div LockoutWindow <= b \div LockoutWindow
  BY <1>1, <1>3
<1>4. ASSUME NEW a \in Nat
      PROVE  (a + LockoutWindow) \div LockoutWindow = (a \div LockoutWindow) + 1
  BY <1>1
<1> QED
  BY <1>2, <1>3, <1>4

LEMMA Entering ==
  ASSUME NEW j \in 0..P
  PROVE  /\ twiceEntering(j) \in Nat /\ twiceEntering(0) = 0
         /\ j > 0 => twiceEntering(j - 1) = twiceEntering(j) - 2 * P + 2 * j - 2
         /\ j < P =>
              2 * j + twiceEntering(j) + 2 * (P - j) <= 2 * (P - 1) + P * (P + 1)
<1> P \in Nat \ {0}
  BY SomeRequests
<1>1. twiceEntering(j) \in Int /\ twiceEntering(0) = 0
  BY DEF twiceEntering
<1>2. twiceEntering(j) >= 0
  <2>1. twiceEntering(j) = j * (2 * P - (j - 1))
    BY DEF twiceEntering
  <2>2. 2 * P - (j - 1) \in Nat
    OBVIOUS
  <2> PICK n \in Nat : n = 2 * P - (j - 1)
    BY <2>2
  <2>3. \A x, y \in Nat : x * y >= 0
    OBVIOUS
  <2> QED
    BY <2>1, <2>3
<1>3. j > 0 => twiceEntering(j - 1) = twiceEntering(j) - 2 * P + 2 * j - 2
  BY DEF twiceEntering
<1>4. j < P => 2 * j + twiceEntering(j) + 2 * (P - j) <= 2 * (P - 1) + P * (P + 1)
  <2> HAVE j < P
  <2> PICK d \in Nat : d + 1 = P - j
    <3>1. P - j - 1 \in Nat
      OBVIOUS
    <3> QED
      BY <3>1
  <2>1. P = j + d + 1 /\ d * d >= 0
    OBVIOUS
  <2> QED
    BY <2>1 DEF twiceEntering
<1> QED
  BY <1>1, <1>2, <1>3, <1>4

LEMMA BudgetIsInt == Budget \in Int
BY SomeRequests, Constants DEF Budget

LEMMA ToComeIsNat ==
  ASSUME NEW lifting \in 0..P, NEW locking \in Nat, NEW locked \in BOOLEAN
  PROVE  twiceToCome(lifting, locking, locked) \in Nat
<1> PICK e \in Nat : e = twiceEntering(lifting)
  BY Entering
<1>1. P \in Nat
  BY SomeRequests
<1>2. 2 * lifting + e + 2 * locking \in Nat /\ 2 * lifting + e + 2 * (P - lifting) \in Nat
  BY <1>1
<1>3. CASE locked = TRUE
  BY <1>2, <1>3 DEF twiceToCome
<1>4. CASE locked = FALSE
  BY <1>2, <1>4 DEF twiceToCome
<1> QED
  BY <1>3, <1>4

(* A request that misses leaves; what it lets in was counted. *)
LEMMA MissIsCounted ==
  ASSUME NEW n \in Nat, NEW lifting \in 0..P, NEW locking \in Nat, NEW locked \in BOOLEAN,
         NEW w \in Nat, NEW w2 \in Nat, w <= w2,
         lifting + locking <= P,
         n >= Threshold - 1 =>
           2 * n + twiceToCome(lifting, locking, locked) <= Budget + 2 * (P * w),
         n + 1 >= Threshold - 1
  PROVE  /\ lifting > 0 =>
              2 * (n + 1) + twiceToCome(lifting - 1, locking, FALSE) <= Budget + 2 * (P * w2)
         /\ locking > 0 =>
              2 * (n + 1) + twiceToCome(lifting, locking - 1, TRUE) <= Budget + 2 * (P * w2)
<1>1. P \in Nat \ {0} /\ Threshold \in Nat \ {0} /\ Budget \in Int
  BY SomeRequests, Constants, BudgetIsInt
<1>2. P * w \in Nat /\ P * w2 \in Nat /\ P * w <= P * w2
  <2>1. \A x, y, z \in Nat : x <= y => z * x <= z * y
    OBVIOUS
  <2> QED
    BY <1>1, <2>1
<1>3. /\ twiceEntering(lifting) \in Nat
      /\ lifting > 0 =>
           twiceEntering(lifting - 1) = twiceEntering(lifting) - 2 * P + 2 * lifting - 2
      /\ lifting < P =>
           2 * lifting + twiceEntering(lifting) + 2 * (P - lifting)
             <= 2 * (P - 1) + P * (P + 1)
  BY Entering
<1>4. lifting > 0 =>
        /\ lifting - 1 \in 0..P
        /\ 2 * (lifting - 1) + twiceEntering(lifting - 1) + 2 * (P - (lifting - 1))
             <= 2 * (P - 1) + P * (P + 1)
  BY <1>1, Entering
<1> PICK before \in Nat : before = P * w
  BY <1>2
<1> PICK after \in Nat : after = P * w2
  BY <1>2
<1> PICK first \in Int : first = 2 * (P - 1) + P * (P + 1)
  BY <1>1
<1>5. before <= after /\ Budget = 2 * (Threshold - 1) + first
  BY <1>1, <1>2 DEF Budget
<1>6. CASE n >= Threshold - 1
  BY <1>1, <1>3, <1>5, <1>6 DEF twiceToCome
<1>7. CASE n + 1 = Threshold - 1
  BY <1>1, <1>3, <1>4, <1>5, <1>7 DEF twiceToCome
<1>8. n >= Threshold - 1 \/ n + 1 = Threshold - 1
  BY <1>1
<1> QED
  BY <1>6, <1>7, <1>8

(* The requests of a user that await: how many they are, and how many are  *)
(* left when one of them answers.                                          *)
LEMMA AwaitingCounts ==
  ASSUME TypeOK, NEW u \in Users
  PROVE  /\ IsFiniteSet(Lifting(u)) /\ IsFiniteSet(Locking(u))
         /\ Cardinality(Lifting(u)) \in 0..P /\ Cardinality(Locking(u)) \in Nat
         /\ Cardinality(Lifting(u)) + Cardinality(Locking(u)) <= P
         /\ \A q \in Lifting(u) :
              /\ Cardinality(Lifting(u)) > 0
              /\ Cardinality(Lifting(u) \ {q}) = Cardinality(Lifting(u)) - 1
         /\ \A q \in Locking(u) :
              /\ Cardinality(Locking(u)) > 0
              /\ Cardinality(Locking(u) \ {q}) = Cardinality(Locking(u)) - 1
<1> PICK A : A = Lifting(u)
  OBVIOUS
<1> PICK B : B = Locking(u)
  OBVIOUS
<1>1. /\ A \in SUBSET Requests /\ B \in SUBSET Requests /\ A \cap B = {}
      /\ A \cup B \in SUBSET Requests
  BY Constants DEF TypeOK, Lifting, Locking, InFlightOf, Awaiting
<1>2. IsFiniteSet(Requests)
  BY LoginAssumption
<1>3. /\ IsFiniteSet(A) /\ IsFiniteSet(B)
      /\ Cardinality(A) \in Nat /\ Cardinality(B) \in Nat
  BY <1>1, <1>2, FS_Subset, FS_CardinalityType
<1>4. Cardinality(A \cup B) = Cardinality(A) + Cardinality(B)
  BY <1>1, <1>3, FS_Union, FS_EmptySet
<1>5. Cardinality(A \cup B) <= P
  BY <1>1, <1>2, FS_Subset DEF P
<1>6. /\ \A q \in A : Cardinality(A \ {q}) = Cardinality(A) - 1
      /\ \A q \in B : Cardinality(B \ {q}) = Cardinality(B) - 1
  BY <1>3, FS_RemoveElement
<1>7. /\ A # {} => Cardinality(A) > 0
      /\ B # {} => Cardinality(B) > 0
  BY <1>3, FS_EmptySet
<1>8. Cardinality(A) \in 0..P
  BY <1>3, <1>4, <1>5, SomeRequests
<1> QED
  BY <1>3, <1>4, <1>5, <1>6, <1>7, <1>8

(* The lock as the row says it. *)
LEMMA LockIs ==
  ASSUME TypeOK, NEW u \in Users, LockIsRecent(u)
  PROVE  /\ row[u] \in UserRow /\ row[u].failedAttempts \in Nat
         /\ row[u].lockedUntil \in Nat /\ clock \in Nat
         /\ windows(row[u].lockedUntil, clock) \in Nat
         /\ windows(row[u].lockedUntil, clock) <= clock \div LockoutWindow
         /\ lockRuns(u) \in BOOLEAN
<1>1. row[u] \in UserRow /\ clock \in Nat
  BY Constants DEF TypeOK
<1>2. row[u].failedAttempts \in Nat /\ row[u].lockedUntil \in Nat
  BY <1>1 DEF UserRow
<1>3. /\ windows(row[u].lockedUntil, clock) \in Nat
      /\ windows(row[u].lockedUntil, clock) <= clock \div LockoutWindow
  <2>1. CASE row[u].lockedUntil > clock
    <3>1. /\ row[u].lockedUntil - LockoutWindow \in Nat
          /\ row[u].lockedUntil - LockoutWindow <= clock
      BY <1>1, <1>2, <2>1, Constants DEF LockIsRecent, Null
    <3> QED
      BY <1>1, <2>1, <3>1, Windows DEF windows
  <2>2. CASE ~ row[u].lockedUntil > clock
    <3>1. /\ clock \div LockoutWindow \in Nat
          /\ windows(row[u].lockedUntil, clock) = clock \div LockoutWindow
      BY <1>1, <2>2, Windows DEF windows
    <3> QED
      BY <3>1
  <2> QED
    BY <2>1, <2>2
<1> QED
  BY <1>1, <1>2, <1>3 DEF lockRuns

(* What the miss of a request of the user does. *)
LEMMA MissKeeps ==
  ASSUME TypeOK, TypeOK', NEW u \in Users, LockIsRecent(u), MissesCounted(u),
         NEW q, PasswordMiss(q), inFlight[q].user = u
  PROVE  LockIsRecent(u)' /\ MissesCounted(u)'
<1> PICK n \in Nat : n = inFlight[q].failedAttempts
  BY InFlightIs, Constants DEF PasswordMiss
<1>1. /\ ~ idle(q) /\ inFlight[q].kind = "password" /\ answer(q)
      /\ row'[u].failedAttempts = row[u].failedAttempts + 1
      /\ row'[u].lockedUntil = lockFrom(n)
      /\ UNCHANGED clock
  BY DEF PasswordMiss, recordFailedAttempt, TypeOK, UserRow
<1>2. /\ row[u].failedAttempts \in Nat
      /\ row[u].lockedUntil \in Nat /\ clock \in Nat
      /\ windows(row[u].lockedUntil, clock) \in Nat
      /\ windows(row[u].lockedUntil, clock) <= clock \div LockoutWindow
      /\ lockRuns(u) \in BOOLEAN
  BY LockIs
<1>3. /\ lockFrom(n) = IF n + 1 >= Threshold THEN clock + LockoutWindow ELSE 0
      /\ LockIsRecent(u)'
  BY <1>1, <1>2, Constants DEF lockFrom, LockIsRecent, Null
<1>4. /\ Cardinality(Lifting(u)) \in 0..P /\ Cardinality(Locking(u)) \in Nat
      /\ Cardinality(Lifting(u)) + Cardinality(Locking(u)) <= P
  BY AwaitingCounts
<1>5. windows(row'[u].lockedUntil, clock) = clock \div LockoutWindow
  BY <1>1, <1>2, <1>3, Constants DEF windows
<1>6. clock \div LockoutWindow \in Nat
  BY <1>2, Windows
<1>7. CASE n + 1 < Threshold
  <2>1. q \in Lifting(u)
    BY <1>1, <1>7 DEF Lifting, InFlightOf, idle
  <2>2. Lifting(u)' = Lifting(u) \ {q} /\ Locking(u)' = Locking(u)
    BY <1>1, <1>7, Constants DEF Lifting, Locking, InFlightOf, answer, without, idle
  <2>3. /\ Cardinality(Lifting(u)) > 0
        /\ Cardinality(Lifting(u)') = Cardinality(Lifting(u)) - 1
    BY <2>1, <2>2, AwaitingCounts
  <2>4. lockRuns(u)' = FALSE
    BY <1>1, <1>2, <1>3, <1>7, Constants DEF lockRuns
  <2>5. row[u].failedAttempts + 1 >= Threshold - 1 =>
          2 * (row[u].failedAttempts + 1)
            + twiceToCome(Cardinality(Lifting(u)) - 1, Cardinality(Locking(u)), FALSE)
          <= Budget + 2 * (P * (clock \div LockoutWindow))
    BY <1>2, <1>4, <1>6, <2>3, MissIsCounted DEF MissesCounted
  <2> QED
    BY <1>1, <1>3, <1>5, <2>2, <2>3, <2>4, <2>5 DEF MissesCounted
<1>8. CASE n + 1 >= Threshold
  <2>1. q \in Locking(u)
    BY <1>1, <1>8 DEF Locking, InFlightOf, idle
  <2>2. Locking(u)' = Locking(u) \ {q} /\ Lifting(u)' = Lifting(u)
    BY <1>1, <1>8, Constants DEF Lifting, Locking, InFlightOf, answer, without, idle
  <2>3. /\ Cardinality(Locking(u)) > 0
        /\ Cardinality(Locking(u)') = Cardinality(Locking(u)) - 1
    BY <2>1, <2>2, AwaitingCounts
  <2>4. lockRuns(u)' = TRUE
    BY <1>1, <1>2, <1>3, <1>8, Constants DEF lockRuns
  <2>5. row[u].failedAttempts + 1 >= Threshold - 1 =>
          2 * (row[u].failedAttempts + 1)
            + twiceToCome(Cardinality(Lifting(u)), Cardinality(Locking(u)) - 1, TRUE)
          <= Budget + 2 * (P * (clock \div LockoutWindow))
    BY <1>2, <1>4, <1>6, <2>3, MissIsCounted DEF MissesCounted
  <2> QED
    BY <1>1, <1>3, <1>5, <2>2, <2>3, <2>4, <2>5 DEF MissesCounted
<1> QED
  BY <1>7, <1>8, Constants

LockCounted(u) == LockIsRecent(u) /\ MissesCounted(u)

(* Every request there may be misses once and none of them lifts a lock. *)
LEMMA AllMayMiss ==
  ASSUME NEW k, NEW w \in Nat
  PROVE  2 * 0 + twiceToCome(0, k, FALSE) <= Budget + 2 * (P * w)
<1>1. P \in Nat \ {0} /\ P * w \in Nat /\ P * (P + 1) >= 2
  <2>1. \A x, y \in Nat : x * y \in Nat
    OBVIOUS
  <2>2. \A x \in Nat \ {0} : x * (x + 1) >= 2
    OBVIOUS
  <2> QED
    BY <2>1, <2>2, SomeRequests
<1>2. twiceToCome(0, k, FALSE) = 2 * P
  BY <1>1, Entering DEF twiceToCome
<1>3. 2 * P <= Budget + 2 * (P * w)
  BY <1>1, Constants DEF Budget
<1>4. 2 * 0 + 2 * P = 2 * P
  BY <1>1
<1> QED
  BY <1>2, <1>3, <1>4

(* The count starts again, for a user whose requests still await. *)
LEMMA ResetKeeps ==
  ASSUME TypeOK', NEW u \in Users,
         row'[u].failedAttempts = 0, row'[u].lockedUntil = Null
  PROVE  LockCounted(u)'
<1>1. LockIsRecent(u)'
  BY DEF LockIsRecent
<1>2. clock' \in Nat /\ clock' \div LockoutWindow \in Nat /\ Threshold \in Nat \ {0}
  <2>1. clock' \in Nat /\ Threshold \in Nat \ {0}
    BY Constants DEF TypeOK
  <2> QED
    BY <2>1, Windows
<1>3. CASE Threshold > 1
  BY <1>1, <1>2, <1>3 DEF LockCounted, MissesCounted
<1>4. CASE Threshold = 1
  <2>1. Lifting(u)' = {}
    BY <1>4 DEF Lifting, InFlightOf, TypeOK, Awaiting
  <2>2. Cardinality(Lifting(u)') = 0 /\ lockRuns(u)' = FALSE
    BY <1>2, <2>1, FS_EmptySet DEF lockRuns, Null
  <2>3. windows(row'[u].lockedUntil, clock') = clock' \div LockoutWindow
    BY <1>2 DEF windows, Null
  <2> PICK w \in Nat : w = clock' \div LockoutWindow
    BY <1>2
  <2> PICK k : k = Cardinality(Locking(u)')
    OBVIOUS
  <2>4. 2 * 0 + twiceToCome(0, k, FALSE) <= Budget + 2 * (P * w)
    BY AllMayMiss
  <2> QED
    BY <1>1, <2>2, <2>3, <2>4 DEF LockCounted, MissesCounted
<1> QED
  BY <1>2, <1>3, <1>4

LEMMA StayKeeps ==
  ASSUME NEW u \in Users, LockCounted(u), UNCHANGED clock,
         row'[u].failedAttempts = row[u].failedAttempts,
         row'[u].lockedUntil = row[u].lockedUntil,
         Lifting(u)' = Lifting(u), Locking(u)' = Locking(u)
  PROVE  LockCounted(u)'
BY DEF LockCounted, LockIsRecent, MissesCounted, lockRuns

(* A request that reads the row of the user before it awaits: from the     *)
(* threshold on it is one that locks.                                      *)
LEMMA ReadKeeps ==
  ASSUME TypeOK, NEW u \in Users, LockCounted(u), NEW q, NEW s, PasswordRead(q, u, s)
  PROVE  LockCounted(u)'
<1> USE DEF rows, LockCounted
<1> PICK request :
      request = [ kind |-> "password", user |-> u, session |-> s,
                  failedAttempts |-> attemptsRead(u),
                  passkeyEnrolled |-> row[u].passkeyEnrolled ]
  OBVIOUS
<1>1. /\ idle(q) /\ await(q, request) /\ UNCHANGED <<row, clock>>
      /\ ~ row[u].lockedUntil > clock
  BY DEF PasswordRead, isLocked
<1>2. LockIsRecent(u)'
  BY <1>1 DEF LockIsRecent
<1>3. CASE row[u].failedAttempts < Threshold - 1
  BY <1>1, <1>2, <1>3, Constants, LockIs DEF MissesCounted
<1>4. CASE row[u].failedAttempts >= Threshold - 1
  <2>1. attemptsRead(u) + 1 >= Threshold
    BY <1>4, Constants, LockIs DEF attemptsRead
  <2>2. /\ request.failedAttempts \in Nat
        /\ request.failedAttempts + 1 >= Threshold /\ request.user = u
    BY <2>1, Constants, LockIs DEF attemptsRead
  <2>3. Lifting(u)' = Lifting(u)
    BY <1>1, <2>2, Constants DEF Lifting, InFlightOf, idle, await, with, TypeOK, Awaiting
  <2>4. ~ lockRuns(u) /\ ~ lockRuns(u)'
    BY <1>1 DEF lockRuns
  <2> QED
    BY <1>1, <1>2, <2>3, <2>4 DEF MissesCounted, twiceToCome
<1> QED
  BY <1>3, <1>4, Constants, LockIs

(* The process stops: the requests it had are gone. *)
LEMMA DropKeeps ==
  ASSUME TypeOK, NEW u \in Users, LockCounted(u), UNCHANGED clock, inFlight' = << >>,
         row'[u].failedAttempts = row[u].failedAttempts,
         row'[u].lockedUntil = row[u].lockedUntil
  PROVE  LockCounted(u)'
<1> USE DEF LockCounted
<1> PICK j : j = Cardinality(Lifting(u))
  OBVIOUS
<1> PICK k : k = Cardinality(Locking(u))
  OBVIOUS
<1>1. j \in 0..P /\ k \in Nat /\ P \in Nat \ {0}
  BY AwaitingCounts, SomeRequests
<1>2. Lifting(u)' = {} /\ Locking(u)' = {}
  BY DEF Lifting, Locking, InFlightOf
<1>3. Cardinality(Lifting(u)') = 0 /\ Cardinality(Locking(u)') = 0
  BY <1>2, FS_EmptySet
<1>4. LockIsRecent(u)' /\ lockRuns(u)' = lockRuns(u)
  BY DEF LockIsRecent, lockRuns
<1>5. \A locked \in BOOLEAN :
        /\ twiceToCome(0, 0, locked) \in Int /\ twiceToCome(j, k, locked) \in Int
        /\ twiceToCome(0, 0, locked) <= twiceToCome(j, k, locked)
  <2>1. /\ twiceEntering(0) = 0 /\ twiceEntering(j) \in Nat
    BY <1>1, Entering
  <2>2. /\ twiceToCome(0, 0, TRUE) = 0
        /\ twiceToCome(j, k, TRUE) = 2 * j + twiceEntering(j) + 2 * k
    BY <1>1, <2>1 DEF twiceToCome
  <2>3. /\ twiceToCome(0, 0, FALSE) = 2 * P
        /\ twiceToCome(j, k, FALSE) = 2 * j + twiceEntering(j) + 2 * (P - j)
    BY <1>1, <2>1 DEF twiceToCome
  <2> PICK e \in Nat : e = twiceEntering(j)
    BY <2>1
  <2>4. /\ twiceToCome(0, 0, TRUE) \in Int /\ twiceToCome(j, k, TRUE) \in Int
        /\ twiceToCome(0, 0, TRUE) <= twiceToCome(j, k, TRUE)
    <3>1. 0 <= 2 * j + e + 2 * k /\ 0 \in Int /\ 2 * j + e + 2 * k \in Int
      BY <1>1
    <3> QED
      BY <2>2, <3>1
  <2>5. /\ twiceToCome(0, 0, FALSE) \in Int /\ twiceToCome(j, k, FALSE) \in Int
        /\ twiceToCome(0, 0, FALSE) <= twiceToCome(j, k, FALSE)
    <3>1. /\ 2 * P <= 2 * j + e + 2 * (P - j) /\ 2 * P \in Int
          /\ 2 * j + e + 2 * (P - j) \in Int
      BY <1>1
    <3> QED
      BY <2>3, <3>1
  <2> QED
    BY <2>4, <2>5
<1> PICK bound :
      bound = Budget + 2 * (P * windows(row[u].lockedUntil, clock))
  OBVIOUS
<1>6. bound \in Int /\ row[u].failedAttempts \in Nat /\ lockRuns(u) \in BOOLEAN
  BY <1>1, LockIs, BudgetIsInt
<1>7. row[u].failedAttempts >= Threshold - 1 =>
        2 * row[u].failedAttempts + twiceToCome(j, k, lockRuns(u)) <= bound
  BY DEF MissesCounted
<1>8. row[u].failedAttempts >= Threshold - 1 =>
        2 * row[u].failedAttempts + twiceToCome(0, 0, lockRuns(u)) <= bound
  BY <1>5, <1>6, <1>7
<1> QED
  BY <1>3, <1>4, <1>8 DEF MissesCounted

(* No password awaits when the clock moves; a lock that runs out opens a   *)
(* window for every request there may be.                                  *)
LEMMA TickKeeps ==
  ASSUME TypeOK, NEW u \in Users, LockCounted(u), Tick
  PROVE  LockCounted(u)'
<1> USE DEF rows, LockCounted
<1>1. /\ clock' = clock + 1 /\ UNCHANGED <<row, inFlight>> /\ InFlightOf("password") = {}
  BY DEF Tick
<1>2. Lifting(u) = {} /\ Locking(u) = {} /\ Lifting(u)' = {} /\ Locking(u)' = {}
  BY <1>1 DEF Lifting, Locking, InFlightOf
<1>3. /\ Cardinality(Lifting(u)) = 0 /\ Cardinality(Locking(u)) = 0
      /\ Cardinality(Lifting(u)') = 0 /\ Cardinality(Locking(u)') = 0
  BY <1>2, FS_EmptySet
<1>4. /\ row[u].failedAttempts \in Nat /\ row[u].lockedUntil \in Nat /\ clock \in Nat
      /\ windows(row[u].lockedUntil, clock) \in Nat
      /\ P \in Nat \ {0} /\ Budget \in Int /\ LockoutWindow \in Nat \ {0}
      /\ Threshold \in Nat \ {0}
  BY LockIs, SomeRequests, BudgetIsInt, Constants
<1>5. LockIsRecent(u)'
  BY <1>1, <1>4 DEF LockIsRecent
<1>6. twiceEntering(0) = 0
  BY <1>4 DEF twiceEntering
<1> PICK w \in Nat : w = windows(row[u].lockedUntil, clock)
  BY <1>4
<1> PICK w2 : w2 = windows(row[u].lockedUntil, clock + 1)
  OBVIOUS
<1> PICK lock \in Nat : lock = row[u].lockedUntil
  BY <1>4
<1> PICK n \in Nat : n = row[u].failedAttempts
  BY <1>4
<1>7. n >= Threshold - 1 =>
        2 * n + (IF lock > clock THEN 0 ELSE 2 * P) <= Budget + 2 * (P * w)
  <2>1. n >= Threshold - 1 =>
          2 * n + twiceToCome(0, 0, lock > clock) <= Budget + 2 * (P * w)
    BY <1>3 DEF MissesCounted, lockRuns
  <2>2. CASE lock > clock
    <3>1. twiceToCome(0, 0, lock > clock) = 0
      BY <1>4, <1>6, <2>2 DEF twiceToCome
    <3> QED
      BY <2>1, <2>2, <3>1
  <2>3. CASE ~ lock > clock
    <3>1. twiceToCome(0, 0, lock > clock) = 2 * P
      BY <1>4, <1>6, <2>3 DEF twiceToCome
    <3> QED
      BY <2>1, <2>3, <3>1
  <2> QED
    BY <2>2, <2>3
<1>8. /\ w2 \in Nat
      /\ lock > clock + 1 => w2 = w
      /\ lock > clock /\ ~ lock > clock + 1 => w2 = w + 1
      /\ ~ lock > clock => w2 >= w
  <2>1. CASE lock > clock + 1
    <3>1. w2 = w /\ lock > clock
      BY <2>1, <1>4 DEF windows
    <3> QED
      BY <2>1, <3>1
  <2>2. CASE lock > clock /\ ~ lock > clock + 1
    <3>1. lock = clock + 1 /\ lock - LockoutWindow \in Nat
      BY <2>2, <1>4 DEF LockIsRecent, Null
    <3>2. /\ w = (lock - LockoutWindow) \div LockoutWindow
          /\ w2 = lock \div LockoutWindow
      BY <2>2, <3>1, <1>4 DEF windows
    <3>3. lock = (lock - LockoutWindow) + LockoutWindow
      BY <1>4
    <3>4. ((lock - LockoutWindow) + LockoutWindow) \div LockoutWindow = w + 1
      BY <3>1, <3>2, Windows
    <3> QED
      BY <2>2, <3>2, <3>3, <3>4, <1>4
  <2>3. CASE ~ lock > clock
    <3>1. w = clock \div LockoutWindow /\ w2 = (clock + 1) \div LockoutWindow
      BY <2>3, <1>4 DEF windows
    <3>2. clock + 1 \in Nat /\ clock <= clock + 1
      BY <1>4
    <3>3. w2 \in Nat /\ w <= w2
      BY <3>1, <3>2, <1>4, Windows
    <3>4. ~ lock > clock + 1
      BY <2>3, <1>4
    <3> QED
      BY <2>3, <3>3, <3>4
  <2>4. clock \in Nat /\ lock \in Nat /\ w \in Nat
    BY <1>4
  <2>5. (lock > clock + 1) \/ (lock > clock /\ ~ lock > clock + 1) \/ ~ lock > clock
    BY <2>4
  <2> QED
    BY <2>1, <2>2, <2>3, <2>4, <2>5
<1>9. /\ P * w \in Nat /\ P * w2 \in Nat
      /\ w2 >= w => P * w <= P * w2
      /\ w2 = w + 1 => P * w2 = P * w + P
  <2>1. \A x, y, z \in Nat :
          /\ z * x \in Nat
          /\ x <= y => z * x <= z * y
          /\ y = x + 1 => z * y = z * x + z
    OBVIOUS
  <2> QED
    BY <1>4, <1>8, <2>1
<1>10. n >= Threshold - 1 =>
         2 * n + (IF lock > clock + 1 THEN 0 ELSE 2 * P) <= Budget + 2 * (P * w2)
  <2> PICK product \in Nat : product = P * w
    BY <1>9
  <2> PICK product2 \in Nat : product2 = P * w2
    BY <1>9
  <2>1. /\ lock > clock + 1 => product2 = product
        /\ lock > clock /\ ~ lock > clock + 1 => product2 = product + P
        /\ ~ lock > clock => product2 >= product
    BY <1>4, <1>8, <1>9
  <2>2. n >= Threshold - 1 =>
          2 * n + (IF lock > clock THEN 0 ELSE 2 * P) <= Budget + 2 * product
    BY <1>7
  <2> QED
    BY <1>4, <2>1, <2>2
<1>11. n >= Threshold - 1 =>
         2 * n + twiceToCome(0, 0, lock > clock + 1) <= Budget + 2 * (P * w2)
  <2>1. CASE lock > clock + 1
    <3>1. twiceToCome(0, 0, lock > clock + 1) = 0
      BY <1>4, <1>6, <2>1 DEF twiceToCome
    <3> QED
      BY <1>10, <2>1, <3>1
  <2>2. CASE ~ lock > clock + 1
    <3>1. twiceToCome(0, 0, lock > clock + 1) = 2 * P
      BY <1>4, <1>6, <2>2 DEF twiceToCome
    <3> QED
      BY <1>10, <2>2, <3>1
  <2> QED
    BY <2>1, <2>2
<1> QED
  BY <1>1, <1>3, <1>5, <1>11 DEF MissesCounted, lockRuns

(* What other requests begin and answer leaves the user's own alone. *)
LEMMA OthersKeep ==
  ASSUME TypeOK, NEW u \in Users, LockCounted(u), UNCHANGED clock,
         row'[u].failedAttempts = row[u].failedAttempts,
         row'[u].lockedUntil = row[u].lockedUntil,
         NEW q,
         \/ UNCHANGED inFlight
         \/ /\ answer(q)
            /\ inFlight[q].kind = "password" => inFlight[q].user # u
         \/ /\ idle(q)
            /\ \E request : /\ await(q, request)
                            /\ request.kind = "password" => request.user # u
  PROVE  LockCounted(u)'
<1>1. CASE UNCHANGED inFlight
  BY <1>1, StayKeeps DEF Lifting, Locking, InFlightOf
<1>2. CASE answer(q) /\ (inFlight[q].kind = "password" => inFlight[q].user # u)
  <2>1. Lifting(u)' = Lifting(u) /\ Locking(u)' = Locking(u)
    BY <1>2 DEF Lifting, Locking, InFlightOf, answer, without
  <2> QED
    BY <2>1, StayKeeps
<1>3. ASSUME idle(q), NEW request, await(q, request),
             request.kind = "password" => request.user # u
      PROVE  LockCounted(u)'
  <2>1. Lifting(u)' = Lifting(u) /\ Locking(u)' = Locking(u)
    BY <1>3 DEF Lifting, Locking, InFlightOf, idle, await, with
  <2> QED
    BY <2>1, StayKeeps
<1> QED
  BY <1>1, <1>2, <1>3

LEMMA LockoutInductive ==
  ASSUME TypeOK, TypeOK', [Next]_vars, NEW u \in Users, LockCounted(u)
  PROVE  LockCounted(u)'
<1> USE DEF rows
<1>1. row[u] \in UserRow /\ row \in [Users -> UserRow]
  BY DEF TypeOK
<1>2. ASSUME UNCHANGED <<row, clock>>, NEW q, NEW request, idle(q), await(q, request),
             request.kind # "password"
      PROVE  LockCounted(u)'
  BY <1>2, OthersKeep
<1>3. ASSUME UNCHANGED <<row, clock, inFlight>>
      PROVE  LockCounted(u)'
  BY <1>3, OthersKeep
<1>4. ASSUME NEW v \in Users, clearLockout(v), UNCHANGED clock,
             NEW q, answer(q), inFlight[q].user = v
      PROVE  LockCounted(u)'
  <2>1. CASE v = u
    <3>1. row'[u].failedAttempts = 0 /\ row'[u].lockedUntil = Null
      BY <1>1, <1>4, <2>1 DEF clearLockout, UserRow
    <3> QED
      BY <3>1, ResetKeeps
  <2>2. CASE v # u
    BY <1>1, <1>4, <2>2, OthersKeep DEF clearLockout
  <2> QED
    BY <2>1, <2>2
<1>5. CASE PasswordStep
  <2>1. ASSUME NEW q \in Requests, NEW v \in Users, SignupRead(q, v)
        PROVE  LockCounted(u)'
    <3> PICK request : request = [kind |-> "signup", user |-> v]
      OBVIOUS
    <3> QED
      BY <1>2, <2>1 DEF SignupRead
  <2>2. ASSUME NEW q \in Requests, SignupInsert(q)
        PROVE  LockCounted(u)'
    <3> PICK v : v = inFlight[q].user
      OBVIOUS
    <3>1. /\ row' = IF row[v].exists THEN row ELSE [row EXCEPT ![v] = createUser]
          /\ answer(q) /\ inFlight[q].kind = "signup" /\ UNCHANGED clock
      BY <2>2 DEF SignupInsert
    <3>2. CASE row'[u] = row[u]
      BY <3>1, <3>2, OthersKeep
    <3>3. CASE row'[u] = createUser
      BY <3>3, ResetKeeps DEF createUser
    <3> QED
      BY <1>1, <3>1, <3>2, <3>3
  <2>3. ASSUME NEW q \in Requests, NEW v \in Users, NEW s \in SessionIds,
               PasswordRead(q, v, s)
        PROVE  LockCounted(u)'
    <3>1. CASE v = u
      BY <2>3, <3>1, ReadKeeps
    <3>2. CASE v # u
      <4> PICK request :
            request = [ kind |-> "password", user |-> v, session |-> s,
                        failedAttempts |-> attemptsRead(v),
                        passkeyEnrolled |-> row[v].passkeyEnrolled ]
        OBVIOUS
      <4>1. /\ idle(q) /\ await(q, request) /\ request.user # u
            /\ UNCHANGED <<row, clock>>
        BY <2>3, <3>2 DEF PasswordRead
      <4> QED
        BY <4>1, OthersKeep
    <3> QED
      BY <3>1, <3>2
  <2>4. ASSUME NEW q \in Requests, PasswordMiss(q)
        PROVE  LockCounted(u)'
    <3>1. CASE inFlight[q].user = u
      BY <2>4, <3>1, MissKeeps DEF LockCounted
    <3>2. CASE inFlight[q].user # u
      <4>1. row'[u] = row[u] /\ UNCHANGED clock /\ answer(q)
        BY <1>1, <2>4, <3>2 DEF PasswordMiss, recordFailedAttempt
      <4> QED
        BY <3>2, <4>1, OthersKeep
    <3> QED
      BY <3>1, <3>2
  <2>5. ASSUME NEW q \in Requests, NEW code \in Codes \cup {NoCode}, PasswordHit(q, code)
        PROVE  LockCounted(u)'
    <3>1. /\ inFlight[q].user \in Users /\ clearLockout(inFlight[q].user)
          /\ answer(q) /\ UNCHANGED clock
      BY <2>5, InFlightIs DEF PasswordHit
    <3> QED
      BY <1>4, <3>1
  <2> QED
    BY <1>5, <2>1, <2>2, <2>3, <2>4, <2>5 DEF PasswordStep
<1>6. CASE Ceremony
  <2>1. ASSUME NEW q \in Requests, NEW s, NEW purposes, NEW accepted, NEW request,
               request.kind # "password", VerifyBegins(q, s, purposes, accepted, request)
        PROVE  LockCounted(u)'
    <3>1. UNCHANGED <<row, clock>> /\ idle(q) /\ (UNCHANGED inFlight \/ await(q, request))
      BY <2>1 DEF VerifyBegins
    <3> QED
      BY <1>2, <1>3, <2>1, <3>1
  <2>2. ASSUME NEW q \in Requests, NEW s \in SessionIds, NEW c \in Credentials,
               PasskeyVerifyBegins(q, s, c)
        PROVE  LockCounted(u)'
    <3> PICK request :
          request = [kind |-> "assert", session |-> s, user |-> loginStates[s].user]
      OBVIOUS
    <3> QED
      BY <2>1, <2>2 DEF PasskeyVerifyBegins
  <2>3. ASSUME NEW q \in Requests, NEW s \in SessionIds, RegistrationVerifyBegins(q, s)
        PROVE  LockCounted(u)'
    <3> PICK request :
          request = [ kind |-> "register", session |-> s, user |-> loginStates[s].user,
                      first |-> loginStates[s].purpose = "enroll-passkey" ]
      OBVIOUS
    <3> QED
      BY <2>1, <2>3 DEF RegistrationVerifyBegins
  <2>4. ASSUME NEW q \in Requests, PasskeyVerified(q) \/ NotVerified(q)
        PROVE  LockCounted(u)'
    <3>1. /\ answer(q) /\ inFlight[q].kind # "password" /\ UNCHANGED <<row, clock>>
      BY <2>4 DEF PasskeyVerified, NotVerified
    <3> QED
      BY <3>1, OthersKeep
  <2>5. ASSUME NEW q \in Requests, NEW c \in Credentials, RegistrationVerified(q, c)
        PROVE  LockCounted(u)'
    <3> PICK v : v = inFlight[q].user
      OBVIOUS
    <3>1. /\ answer(q) /\ inFlight[q].kind # "password" /\ UNCHANGED clock
          /\ row' = row \/ row' = [row EXCEPT ![v].passkeyEnrolled = TRUE]
      BY <2>5 DEF RegistrationVerified
    <3>2. /\ row'[u].failedAttempts = row[u].failedAttempts
          /\ row'[u].lockedUntil = row[u].lockedUntil
      BY <1>1, <3>1 DEF UserRow
    <3> QED
      BY <3>1, <3>2, OthersKeep
  <2>6. ASSUME NEW q \in Requests, NEW c \in Credentials, CrashWhileRegistering(q, c)
        PROVE  LockCounted(u)'
    BY <2>6, DropKeeps DEF CrashWhileRegistering, forget
  <2> QED
    BY <1>3, <1>6, <2>2, <2>3, <2>4, <2>5, <2>6 DEF Ceremony, Options
<1>7. CASE Settings
  <2>1. ASSUME NEW s \in SessionIds, NEW q \in Requests, ChangePasswordRead(q, s)
        PROVE  LockCounted(u)'
    <3> PICK request : request = [kind |-> "change", user |-> boundTo[s]]
      OBVIOUS
    <3> QED
      BY <1>2, <2>1 DEF ChangePasswordRead
  <2> QED
    BY <1>3, <1>7, <2>1 DEF Settings, EnrollOptions, Revoke, WipeOthers, Logout,
      OpenSession, SessionEnds
<1>8. CASE Administration
  <2>1. ASSUME NEW v \in Users, Unlock(v)
        PROVE  LockCounted(u)'
    <3>1. CASE v = u
      <4>1. row'[u].failedAttempts = 0 /\ row'[u].lockedUntil = Null
        BY <1>1, <2>1, <3>1 DEF Unlock, UserRow
      <4> QED
        BY <4>1, ResetKeeps
    <3>2. CASE v # u
      BY <1>1, <2>1, <3>2, OthersKeep DEF Unlock
    <3> QED
      BY <3>1, <3>2
  <2>2. ASSUME NEW v \in Users, Lock(v)
        PROVE  LockCounted(u)'
    <3>1. /\ row'[u].failedAttempts = row[u].failedAttempts
          /\ row'[u].lockedUntil = row[u].lockedUntil
      BY <1>1, <2>2 DEF Lock, UserRow
    <3> QED
      BY <2>2, <3>1, OthersKeep DEF Lock
  <2> QED
    BY <1>3, <1>8, <2>1, <2>2 DEF Administration, IssueRecoveryCode
<1>9. ASSUME NEW q \in Requests, ChangePassword(q)
      PROVE  LockCounted(u)'
  <2>1. /\ inFlight[q].user \in Users /\ answer(q) /\ UNCHANGED clock
        /\ inFlight[q].kind = "change"
        /\ clearLockout(inFlight[q].user) \/ UNCHANGED row
    BY <1>9, InFlightIs DEF ChangePassword
  <2> QED
    BY <1>4, <2>1, OthersKeep
<1>10. CASE Tick
  BY <1>10, TickKeeps
<1>11. CASE Crash
  BY <1>11, DropKeeps DEF Crash, forget
<1>12. CASE Sweep \/ UNCHANGED vars
  BY <1>3, <1>12 DEF Sweep, vars
<1> QED
  BY <1>5, <1>6, <1>7, <1>8, <1>9, <1>10, <1>11, <1>12 DEF Next

(* However many requests await at one time, and whatever they read before  *)
(* a lock was set, the wrong passwords an account takes between two right  *)
(* ones are bounded: the threshold, what each lifted lock lets in, and P   *)
(* for each window that has passed.                                        *)
THEOREM LockoutBoundHolds == Spec => []LockoutBound
<1> DEFINE Inv == \A u \in Users : LockCounted(u)
<1>1. Init => TypeOK
  BY InitTyped
<1>2. Init => Inv
  <2> SUFFICES ASSUME Init, NEW u \in Users
               PROVE  LockCounted(u)
    OBVIOUS
  <2>1. /\ row[u].failedAttempts = 0 /\ row[u].lockedUntil = Null /\ clock = 0
        /\ inFlight = << >>
    BY DEF Init, createUser
  <2>2. Lifting(u) = {} /\ Locking(u) = {}
    BY <2>1 DEF Lifting, Locking, InFlightOf
  <2>3. /\ Cardinality(Lifting(u)) = 0 /\ Cardinality(Locking(u)) = 0
        /\ lockRuns(u) = FALSE
    BY <2>1, <2>2, FS_EmptySet DEF lockRuns, Null
  <2>4. /\ windows(row[u].lockedUntil, clock) = 0 \div LockoutWindow
        /\ 0 \div LockoutWindow \in Nat
    BY <2>1, Windows DEF windows, Null
  <2> PICK w \in Nat : w = 0 \div LockoutWindow
    BY <2>4
  <2>5. 2 * 0 + twiceToCome(0, 0, FALSE) <= Budget + 2 * (P * w)
    BY AllMayMiss
  <2> QED
    BY <2>1, <2>3, <2>4, <2>5 DEF LockCounted, LockIsRecent, MissesCounted
<1>3. TypeOK /\ TypeOK' /\ Inv /\ [Next]_vars => Inv'
  BY LockoutInductive
<1>4. TypeOK /\ Inv => LockoutBound
  <2> SUFFICES ASSUME TypeOK, NEW u \in Users, LockCounted(u)
               PROVE  row[u].failedAttempts <=
                        (Threshold - 1) + (P - 1) + (P * (P + 1)) \div 2
                          + P * (clock \div LockoutWindow)
    BY DEF LockoutBound, P
  <2>1. /\ row[u].failedAttempts \in Nat /\ clock \in Nat
        /\ windows(row[u].lockedUntil, clock) \in Nat
        /\ windows(row[u].lockedUntil, clock) <= clock \div LockoutWindow
        /\ clock \div LockoutWindow \in Nat
        /\ P \in Nat \ {0} /\ Threshold \in Nat \ {0}
    BY LockIs, Windows, SomeRequests, Constants DEF LockCounted
  <2> PICK n \in Nat : n = row[u].failedAttempts
    BY <2>1
  <2> PICK w \in Nat : w = windows(row[u].lockedUntil, clock)
    BY <2>1
  <2> PICK w2 \in Nat : w2 = clock \div LockoutWindow
    BY <2>1
  <2> PICK pairs \in Nat : pairs = P * (P + 1)
    BY <2>1
  <2> PICK misses \in Int :
        misses = twiceToCome(Cardinality(Lifting(u)), Cardinality(Locking(u)), lockRuns(u))
    BY <2>1, AwaitingCounts, ToComeIsNat, LockIs DEF LockCounted
  <2>2. misses >= 0
    BY <2>1, AwaitingCounts, ToComeIsNat, LockIs DEF LockCounted
  <2>3. P * w \in Nat /\ P * w2 \in Nat /\ P * w <= P * w2
    <3>1. \A x, y, z \in Nat : z * x \in Nat /\ (x <= y => z * x <= z * y)
      OBVIOUS
    <3> QED
      BY <2>1, <3>1
  <2> PICK before \in Nat : before = P * w
    BY <2>3
  <2> PICK after \in Nat : after = P * w2
    BY <2>3
  <2>4. n >= Threshold - 1 =>
          2 * n + misses <= 2 * (Threshold - 1) + 2 * (P - 1) + pairs + 2 * before
    BY DEF LockCounted, MissesCounted, Budget
  <2>5. pairs \div 2 \in Nat /\ pairs <= 2 * (pairs \div 2) + 1
    OBVIOUS
  <2>6. n <= (Threshold - 1) + (P - 1) + pairs \div 2 + after
    BY <2>1, <2>2, <2>3, <2>4, <2>5
  <2> QED
    BY <2>6
<1> QED
  BY <1>1, <1>2, <1>3, <1>4, LoginTypeCorrect, PTL DEF Spec
=============================================================================
