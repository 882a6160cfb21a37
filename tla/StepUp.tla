------------------------------- MODULE StepUp -------------------------------
(***************************************************************************)
(* The factors a sensitive request must show, on top of the sessions: the  *)
(* one-time code and the token it is exchanged for, the action token of a  *)
(* passkey assertion, and the velocity counters behind them.  Codes and    *)
(* tokens belong to a session and to one request: an action with its body. *)
(*                                                                         *)
(* Left out: the eviction of codes and counters past MAX_KEYS, the         *)
(* comparison of the code's user with the session's, which cannot differ   *)
(* since a session never changes its user, and the one endpoint that asks  *)
(* for a code and no passkey (an administrator's recovery code).           *)
(***************************************************************************)
EXTENDS Sessions, Sequences

CONSTANTS
  Requests,       \* pairs of an action and a body, by paramsHash
  ActionOf,       \* the action of each request
  NeedsOtp,       \* the requests of OTP_REQUIRED_ACTIONS
  OtpTtl,         \* TTL_MS of a code
  Cooldown,       \* RESEND_COOLDOWN_MS
  MaxAttempts,    \* MAX_ATTEMPTS
  TokenTtl,       \* TOKEN_TTL_MS, of both kinds
  MaxLiveTokens,  \* MAX_LIVE_TOKENS, of both kinds
  Minute,         \* MINUTE_MS
  PerMinuteMax,   \* PER_MINUTE_MAX
  Day,            \* DAY_MS
  PerDayMax,      \* PER_DAY_MAX
  MaxTokens       \* bound: tokens minted, of both kinds together

ASSUME StepUpAssumption ==
  /\ {OtpTtl, TokenTtl, MaxLiveTokens, MaxTokens} \subseteq Nat
  /\ {Minute, Day, Cooldown, MaxAttempts} \subseteq Nat \ {0}
  /\ {PerMinuteMax, PerDayMax} \subseteq Nat \ {0}
  /\ Cooldown <= OtpTtl
  /\ NeedsOtp \subseteq Requests

Actions == { ActionOf[r] : r \in Requests }

Kinds == {"otp", "action"}   \* otpTokens.ts and actionTokens.ts

VARIABLES
  slots,     \* otpService: the live code of a session and request
  minted,    \* the tokens of each kind, in the order they were minted
  consumed,  \* consumedJti, the numbers of the tokens, by kind
  clears,    \* history: how often consumedJti was cleared, by kind
  velocity,  \* the counters of a session and action
  wrong,     \* history: wrong codes taken since the last right one
  allowed    \* history: when a session was allowed an action

factorVars == <<slots, minted, consumed, clears, velocity, wrong, allowed>>
stepUpVars == <<vars, factorVars>>

Token ==
  [ session : SessionIds, request : Requests, exp : Nat,
    uses : Nat ]              \* history: how often it was accepted

StepUpInit ==
  /\ Init
  /\ slots = << >>
  /\ minted = [k \in Kinds |-> << >>]
  /\ consumed = [k \in Kinds |-> {}]
  /\ clears = [k \in Kinds |-> 0]
  /\ velocity = << >>
  /\ wrong = [s \in SessionIds |-> [r \in Requests |-> 0]]
  /\ allowed = [s \in SessionIds |-> [a \in Actions |-> << >>]]

(* decryptMiddleware and requireSession, in front of all endpoints below   *)
(* but those of /webauthn.                                                 *)
authenticated(s) ==
  /\ getBoundUser(s) # NoUser
  /\ sessions' = with(sessions, s, touched(s))
  /\ UNCHANGED <<clock, pending, issued, keysGiven, delivered>>
-----------------------------------------------------------------------------
(* One-time codes *)

(* Faulty variant: asking again always gives a fresh code. *)
coolingNever(s, r) == FALSE

(* A code is sent again, with the misses it has taken, until the cooldown  *)
(* is over; then a new one with none replaces it, even when it is locked.  *)
coolingDown(s, r) ==
  /\ <<s, r>> \in DOMAIN slots
  /\ clock < slots[<<s, r>>].expiresAt
  /\ clock < slots[<<s, r>>].createdAt + Cooldown

(* POST /identity/otp/request.  A session that gets the same code again    *)
(* changes nothing.                                                        *)
RequestOtp(s, r) ==
  /\ r \in NeedsOtp
  /\ authenticated(s)
  /\ slots' = IF coolingDown(s, r) THEN slots
              ELSE with(slots, <<s, r>>,
                [ createdAt |-> clock, expiresAt |-> clock + OtpTtl,
                  attempts |-> 0 ])
  /\ UNCHANGED <<minted, consumed, clears, velocity, wrong, allowed>>

jtiBucket(k) == Cardinality(consumed[k]) > MaxLiveTokens

(* mintOtpToken and mintActionToken: the set of consumed ids is emptied    *)
(* when it has outgrown its limit.                                         *)
mint(k, s, r) ==
  /\ Len(minted["otp"]) + Len(minted["action"]) < MaxTokens
  /\ minted' = [minted EXCEPT ![k] = Append(@,
       [session |-> s, request |-> r, exp |-> clock + TokenTtl, uses |-> 0])]
  /\ IF jtiBucket(k)
     THEN /\ consumed' = [consumed EXCEPT ![k] = {}]
          /\ clears' = [clears EXCEPT ![k] = @ + 1]
     ELSE UNCHANGED <<consumed, clears>>

codeExpired(s, r) == clock > slots[<<s, r>>].expiresAt

(* Faulty variant: one miss too many. *)
lockedLate(s, r) == slots[<<s, r>>].attempts > MaxAttempts

locked(s, r) == slots[<<s, r>>].attempts >= MaxAttempts

(* POST /identity/otp/verify with the right code or a wrong one. *)
VerifyOtpRight(s, r) ==
  /\ authenticated(s)
  /\ <<s, r>> \in DOMAIN slots
  /\ ~ codeExpired(s, r)
  /\ ~ locked(s, r)
  /\ slots' = without(slots, {<<s, r>>})
  /\ wrong' = [wrong EXCEPT ![s][r] = 0]
  /\ mint("otp", s, r)
  /\ UNCHANGED <<velocity, allowed>>

VerifyOtpWrong(s, r) ==
  /\ authenticated(s)
  /\ <<s, r>> \in DOMAIN slots
  /\ ~ codeExpired(s, r)
  /\ ~ locked(s, r)
  /\ slots' = [slots EXCEPT ![<<s, r>>].attempts = @ + 1]
  /\ wrong' = [wrong EXCEPT ![s][r] = @ + 1]
  /\ UNCHANGED <<minted, consumed, clears, velocity, allowed>>

(* Dropped by a verification or by the sweep. *)
DropExpiredCode(s, r) ==
  /\ <<s, r>> \in DOMAIN slots
  /\ codeExpired(s, r)
  /\ slots' = without(slots, {<<s, r>>})
  /\ UNCHANGED <<vars, minted, consumed, clears, velocity, wrong, allowed>>

(* POST /webauthn/authentication/verify after a good assertion.  The       *)
(* session `caller` sends it, and the token is for the session named when  *)
(* the challenge was made, which need not be the caller's or logged in; if *)
(* it ended meanwhile, no gate will take the token.                        *)
MintActionToken(caller, s, r) ==
  /\ hasSession(caller)
  /\ hasSession(s)
  /\ sessions' = with(sessions, caller, touched(caller))
  /\ mint("action", s, r)
  /\ UNCHANGED <<clock, pending, issued, keysGiven, delivered>>
  /\ UNCHANGED <<slots, velocity, wrong, allowed>>
-----------------------------------------------------------------------------
(* The gate of a sensitive endpoint: requireOtp, then requireStepUp *)

(* Faulty variant: the consumed ids are not asked. *)
acceptsAgain(k, i, s, r) ==
  /\ i \in 1..Len(minted[k])
  /\ clock <= minted[k][i].exp
  /\ minted[k][i].session = s
  /\ minted[k][i].request = r

(* consumeOtpToken and consumeActionToken *)
acceptsToken(k, i, s, r) ==
  /\ i \in 1..Len(minted[k])
  /\ clock <= minted[k][i].exp
  /\ i \notin consumed[k]
  /\ minted[k][i].session = s
  /\ minted[k][i].request = r

spend(K, token) ==
  /\ consumed' = [k \in Kinds |->
       IF k \in K THEN consumed[k] \cup {token[k]} ELSE consumed[k]]
  /\ minted' = [k \in Kinds |->
       IF k \in K THEN [minted[k] EXCEPT ![token[k]].uses = @ + 1]
       ELSE minted[k]]
  /\ UNCHANGED clears

counter(since, count) == [since |-> since, count |-> count]

(* The counters recordAttempt judges: a window that is over starts anew,   *)
(* at this attempt.                                                        *)
windowsOf(s, a) ==
  LET v == IF <<s, a>> \in DOMAIN velocity THEN velocity[<<s, a>>]
           ELSE [minute |-> counter(clock, 0), day |-> counter(clock, 0)]
  IN  [ minute |-> IF clock - v.minute.since >= Minute
                   THEN counter(clock, 0) ELSE v.minute,
        day    |-> IF clock - v.day.since >= Day
                   THEN counter(clock, 0) ELSE v.day ]

(* Faulty variant: one attempt too many. *)
underCapOrAt(v) == v.minute.count <= PerMinuteMax /\ v.day.count < PerDayMax

underCap(v) == v.minute.count < PerMinuteMax /\ v.day.count < PerDayMax

(* recordAttempt: an attempt is counted only when it is allowed. *)
recordAttempt(s, a) ==
  LET v == windowsOf(s, a) IN
  IF underCap(v)
  THEN /\ velocity' = with(velocity, <<s, a>>,
            [ minute |-> counter(v.minute.since, v.minute.count + 1),
              day    |-> counter(v.day.since, v.day.count + 1) ])
       /\ allowed' = [allowed EXCEPT ![s][a] = Append(@, clock)]
  ELSE /\ velocity' = with(velocity, <<s, a>>, v)
       /\ UNCHANGED allowed

factorsOf(r) == IF r \in NeedsOtp THEN Kinds ELSE {"action"}

(* Both tokens are spent before velocity has its say: a request turned     *)
(* away with 429 has to collect its factors again.                         *)
Gate(s, r, token) ==
  /\ authenticated(s)
  /\ \A k \in factorsOf(r) : acceptsToken(k, token[k], s, r)
  /\ spend(factorsOf(r), token)
  /\ recordAttempt(s, ActionOf[r])
  /\ UNCHANGED <<slots, wrong>>

(* A good otp token is spent although the action token is refused. *)
GateRefusesActionToken(s, r, token) ==
  /\ r \in NeedsOtp
  /\ authenticated(s)
  /\ acceptsToken("otp", token["otp"], s, r)
  /\ ~ acceptsToken("action", token["action"], s, r)
  /\ spend({"otp"}, token)
  /\ UNCHANGED <<slots, velocity, wrong, allowed>>
-----------------------------------------------------------------------------
Tokens == [Kinds -> 1..MaxTokens]

FactorStep ==
  \E s \in SessionIds, r \in Requests :
    \/ RequestOtp(s, r)
    \/ VerifyOtpRight(s, r)
    \/ VerifyOtpWrong(s, r)
    \/ DropExpiredCode(s, r)
    \/ \E caller \in SessionIds : MintActionToken(caller, s, r)
    \/ \E token \in Tokens : Gate(s, r, token)
    \/ \E token \in Tokens : GateRefusesActionToken(s, r, token)

(* Codes, consumed ids and counters are memory too; signed tokens are not, *)
(* and the HMAC key of a process without one in its environment is new.    *)
RestartFactors ==
  /\ Restart
  /\ slots' = << >>
  /\ velocity' = << >>
  /\ consumed' = [k \in Kinds |-> {}]
  /\ minted' = [k \in Kinds |-> << >>]
  /\ UNCHANGED <<clears, wrong, allowed>>

SessionStep ==
  \/ \E s \in SessionIds :
       \/ GetSession(s)
       \/ \E keyOk \in BOOLEAN : Handshake(s, keyOk)
       \/ GetSessionKey(s)
       \/ \E m \in Messages : ReceiveMessage(s, m)
       \/ \E u \in Users : BindUser(s, u)
       \/ Logout(s)
       \/ WipeOthers(s)
  \/ SweepHandshakes
  \/ SweepSessions
  \/ Tick

StepUpNext ==
  \/ FactorStep
  \/ SessionStep /\ UNCHANGED factorVars
  \/ RestartFactors

StepUpSpec == StepUpInit /\ [][StepUpNext]_stepUpVars
-----------------------------------------------------------------------------
(* Properties *)

StepUpTypeOK ==
  /\ TypeOK
  /\ DOMAIN slots \subseteq SessionIds \X NeedsOtp
  /\ \A k \in DOMAIN slots : slots[k].attempts \in 0..MaxAttempts
  /\ minted \in [Kinds -> Seq(Token)]
  /\ \A k \in Kinds : consumed[k] \subseteq 1..Len(minted[k])
  /\ clears \in [Kinds -> Nat]
  /\ DOMAIN velocity \subseteq SessionIds \X Actions
  /\ wrong \in [SessionIds -> [Requests -> Nat]]
  /\ allowed \in [SessionIds -> [Actions -> Seq(0..MaxClock)]]

(* A token is accepted once; the one way to a second time is the clearing  *)
(* of the consumed ids, when more were consumed than MAX_LIVE_TOKENS.      *)
TokensAcceptedOnce ==
  \A k \in Kinds : \A i \in 1..Len(minted[k]) :
    minted[k][i].uses <= 1 + clears[k]

(* Guessing is bounded by time alone: a code takes MAX_ATTEMPTS misses,    *)
(* and asking again gives a new one only every cooldown, locked or not.    *)
(* Only a right code gives a new one sooner.                               *)
GuessesBounded ==
  \A s \in SessionIds, r \in Requests :
    wrong[s][r] <= MaxAttempts * (1 + clock \div Cooldown)

(* However the two fixed windows open, reopen and refuse for each other,   *)
(* every stretch of time sees at most the actions of the windows it can    *)
(* touch: those that begin in it, a window apart, and the one before.      *)
VelocityBound ==
  \A s \in SessionIds, a \in Actions, t \in 0..MaxClock :
    LET since == { n \in DOMAIN allowed[s][a] : allowed[s][a][n] >= t }
        windows(length) == 1 + (clock - t) \div length + IF t = 0 THEN 0 ELSE 1
    IN  t <= clock =>
          /\ Cardinality(since) <= PerMinuteMax * windows(Minute)
          /\ Cardinality(since) <= PerDayMax * windows(Day)
=============================================================================
