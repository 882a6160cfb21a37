------------------------------ MODULE Sessions ------------------------------
(***************************************************************************)
(* The encrypted sessions: the handshake store, the session store with its *)
(* nonces and its expiry, the decryption middleware and the user bound to  *)
(* a session.  All of it is memory of one process.                         *)
(*                                                                         *)
(* A key is not modelled as bytes: what matters is which session ids have  *)
(* one, and how many they were given.  Whoever seals a message is outside; *)
(* a message may arrive any number of times, in any order, at any time.    *)
(***************************************************************************)
EXTENDS Integers, FiniteSets

CONSTANTS
  SessionIds,      \* values crypto.randomUUID may return
  Users,
  NoUser,
  Nonces,
  Timestamps,      \* the times clients stamp on their messages
  IdleTtl,         \* SESSION_IDLE_TTL_MS
  HardTtl,         \* SESSION_HARD_TTL_MS
  NonceWindow,     \* NONCE_WINDOW_MS and TIMESTAMP_WINDOW_MS
  HandshakeTtl,    \* HANDSHAKE_TTL_MS
  MaxSessions,     \* MAX_SESSIONS
  MaxHandshakes,   \* MAX_HANDSHAKES
  MaxNonces,       \* MAX_NONCES_PER_SESSION
  MaxClock,        \* bound: the last tick of the clock
  MaxDelivered     \* bound: messages handed to a handler

ASSUME SessionsAssumption ==
  /\ {IdleTtl, HardTtl, NonceWindow, HandshakeTtl} \subseteq Nat
  /\ {MaxSessions, MaxHandshakes, MaxNonces} \subseteq Nat \ {0}
  /\ {MaxClock, MaxDelivered} \subseteq Nat
  /\ Timestamps \subseteq Int
  /\ NoUser \notin Users

VARIABLES
  clock,       \* Date.now()
  pending,     \* handshakeStore: the time each pending handshake was made
  sessions,    \* sessionStore: the entry of each session id it holds
  issued,      \* session ids generated so far
  keysGiven,   \* history: how many keys a session id was given
  delivered    \* history: how often a message of a session reached a handler

vars == <<clock, pending, sessions, issued, keysGiven, delivered>>

(* The part of an envelope that decryptMiddleware judges. *)
Messages == [nonce : Nonces, timestamp : Timestamps]

SessionEntry ==
  [ createdAt  : 0..MaxClock,
    lastUsedAt : 0..MaxClock,
    seenNonces : SUBSET Messages,     \* a Map from nonce to timestamp
    userId     : Users \cup {NoUser} ]

Init ==
  /\ clock = 0
  /\ pending = << >>
  /\ sessions = << >>
  /\ issued = {}
  /\ keysGiven = [s \in SessionIds |-> 0]
  /\ delivered = [s \in SessionIds |-> [m \in Messages |-> 0]]

without(store, ids) == [s \in DOMAIN store \ ids |-> store[s]]

with(store, s, entry) ==
  [t \in DOMAIN store \cup {s} |-> IF t = s THEN entry ELSE store[t]]
-----------------------------------------------------------------------------
(* The handshake store *)

handshakeExpired(s) == clock - pending[s].createdAt > HandshakeTtl

(* The ids evictOldest may drop: entries of one millisecond are told apart *)
(* by their place in the Map, which is left open here.                     *)
oldestHandshakes ==
  { s \in DOMAIN pending : \A t \in DOMAIN pending :
      pending[s].createdAt <= pending[t].createdAt }

setHandshake(s) ==
  \E room \in IF Cardinality(DOMAIN pending) >= MaxHandshakes
              THEN { {t} : t \in oldestHandshakes } ELSE { {} } :
    pending' = with(without(pending, room), s, [createdAt |-> clock])

(* GET /security/session *)
GetSession(s) ==
  /\ s \notin issued
  /\ issued' = issued \cup {s}
  /\ setHandshake(s)
  /\ UNCHANGED <<clock, sessions, keysGiven, delivered>>
-----------------------------------------------------------------------------
(* The session store *)

isExpired(s) ==
  \/ clock - sessions[s].lastUsedAt > IdleTtl
  \/ clock - sessions[s].createdAt > HardTtl

hasSession(s) == s \in DOMAIN sessions /\ ~isExpired(s)

(* Expired entries that were not swept yet take part: a session that hit   *)
(* its hard limit while in use stays, and an idle one goes.                *)
oldestSessions(ids) ==
  { s \in ids : \A t \in ids : sessions[s].lastUsedAt <= sessions[t].lastUsedAt }

setSessionKey(s, room) ==
  /\ sessions' = with(without(sessions, {s} \cup room), s,
       [ createdAt |-> clock, lastUsedAt |-> clock,
         seenNonces |-> {}, userId |-> NoUser ])
  /\ keysGiven' = [keysGiven EXCEPT ![s] = @ + 1]

evictions(s) ==
  IF Cardinality(DOMAIN sessions \ {s}) >= MaxSessions
  THEN { {t} : t \in oldestSessions(DOMAIN sessions \ {s}) }
  ELSE { {} }

consumeHandshake(s) == without(pending, {s})

(* POST /security/handshake.  hasSession drops the id's own expired entry; *)
(* the handshake is consumed before its age is looked at and before the    *)
(* key is derived, which fails on a bad client key (keyOk).                *)
Handshake(s, keyOk) ==
  /\ ~ hasSession(s)
  /\ s \in DOMAIN pending
  /\ pending' = consumeHandshake(s)
  /\ \/ /\ keyOk /\ ~ handshakeExpired(s)
        /\ \E room \in evictions(s) : setSessionKey(s, room)
     \/ /\ ~keyOk \/ handshakeExpired(s)
        /\ sessions' = without(sessions, {s})
        /\ UNCHANGED keysGiven
  /\ UNCHANGED <<clock, issued, delivered>>

touched(s) == [sessions[s] EXCEPT !.lastUsedAt = clock]

(* A request that only passes getSessionKey: a GET, a POST turned away     *)
(* before recordNonce, a response being sealed.                            *)
GetSessionKey(s) ==
  /\ s \in DOMAIN sessions
  /\ sessions' = IF isExpired(s) THEN without(sessions, {s})
                 ELSE with(sessions, s, touched(s))
  /\ UNCHANGED <<clock, pending, issued, keysGiven, delivered>>
-----------------------------------------------------------------------------
(* decryptMiddleware *)

deliveries == { d \in SessionIds \X Messages : delivered[d[1]][d[2]] > 0 }

(* Math.abs: a client's clock may be ahead of the server's. *)
inWindow(m, now) ==
  now - m.timestamp <= NonceWindow /\ m.timestamp - now <= NonceWindow

(* Faulty variant: nonces are dropped as they reach the window. *)
prunedEarly(s, now) ==
  { n \in sessions[s].seenNonces : now - n.timestamp < NonceWindow }

pruned(s, now) ==
  { n \in sessions[s].seenNonces : now - n.timestamp <= NonceWindow }

(* What recordNonce accepts once it has pruned: below its cap, a nonce     *)
(* not in the Map.                                                         *)
isFresh(s, m, now) ==
  /\ \A n \in pruned(s, now) : n.nonce # m.nonce
  /\ Cardinality(pruned(s, now)) < MaxNonces

(* A sealed message passes getSessionKey, the timestamp check and then     *)
(* recordNonce, in one synchronous run of decryptMiddleware.  Each of the  *)
(* three reads Date.now() for itself: at `clock`, `now` and `later`.       *)
ReceiveMessage(s, m) ==
  /\ hasSession(s)
  /\ delivered[s][m] > 0 \/ Cardinality(deliveries) < MaxDelivered
  /\ \E now \in clock..MaxClock : \E later \in now..MaxClock :
       /\ inWindow(m, now)
       /\ sessions' = with(sessions, s, [touched(s) EXCEPT !.seenNonces =
                        pruned(s, later) \cup IF isFresh(s, m, later) THEN {m} ELSE {}])
       /\ delivered' = IF isFresh(s, m, later)
                       THEN [delivered EXCEPT ![s][m] = @ + 1] ELSE delivered
       /\ clock' = later
  /\ UNCHANGED <<pending, issued, keysGiven>>
-----------------------------------------------------------------------------
(* Users *)

mayBind(s, u) == hasSession(s) /\ sessions[s].userId \in {NoUser, u}

(* bindUser: the end of a login.  It throws for an expired session and for *)
(* another user's, and does not touch lastUsedAt: the request did, before  *)
(* its awaits.                                                             *)
BindUser(s, u) ==
  /\ mayBind(s, u)
  /\ sessions' = with(sessions, s, [sessions[s] EXCEPT !.userId = u])
  /\ UNCHANGED <<clock, pending, issued, keysGiven, delivered>>

getBoundUser(s) == IF hasSession(s) THEN sessions[s].userId ELSE NoUser

(* POST /identity/logout *)
Logout(s) ==
  /\ getBoundUser(s) # NoUser
  /\ sessions' = without(sessions, {s})
  /\ UNCHANGED <<clock, pending, issued, keysGiven, delivered>>

(* deleteSessionsByUser takes expired entries along. *)
sessionsOf(u) == { s \in DOMAIN sessions : sessions[s].userId = u }

(* POST /identity/sessions/wipe-others *)
WipeOthers(s) ==
  /\ getBoundUser(s) # NoUser
  /\ sessions' = with(without(sessions, sessionsOf(sessions[s].userId)),
                      s, touched(s))
  /\ UNCHANGED <<clock, pending, issued, keysGiven, delivered>>
-----------------------------------------------------------------------------
(* Timers and the process *)

SweepHandshakes ==
  /\ pending' = without(pending, { s \in DOMAIN pending : handshakeExpired(s) })
  /\ UNCHANGED <<clock, sessions, issued, keysGiven, delivered>>

SweepSessions ==
  /\ sessions' = without(sessions, { s \in DOMAIN sessions : isExpired(s) })
  /\ UNCHANGED <<clock, pending, issued, keysGiven, delivered>>

Tick ==
  /\ clock < MaxClock
  /\ clock' = clock + 1
  /\ UNCHANGED <<pending, sessions, issued, keysGiven, delivered>>

Restart ==
  /\ pending' = << >>
  /\ sessions' = << >>
  /\ UNCHANGED <<clock, issued, keysGiven, delivered>>

Next ==
  \/ \E s \in SessionIds :
       \/ GetSession(s)
       \/ \E keyOk \in BOOLEAN : Handshake(s, keyOk)
       \/ GetSessionKey(s)
       \/ \E m \in Messages : ReceiveMessage(s, m)
       \/ \E u \in Users : BindUser(s, u)
       \/ Logout(s)
       \/ WipeOthers(s)
  \/ SweepHandshakes
  \/ SweepSessions
  \/ Tick
  \/ Restart

Spec == Init /\ [][Next]_vars
-----------------------------------------------------------------------------
(* Properties *)

TypeOK ==
  /\ clock \in 0..MaxClock
  /\ issued \subseteq SessionIds
  /\ DOMAIN pending \subseteq issued
  /\ DOMAIN sessions \subseteq issued
  /\ pending \in [DOMAIN pending -> [createdAt : 0..MaxClock]]
  /\ sessions \in [DOMAIN sessions -> SessionEntry]
  /\ Cardinality(DOMAIN pending) <= MaxHandshakes
  /\ Cardinality(DOMAIN sessions) <= MaxSessions
  /\ keysGiven \in [SessionIds -> Nat]
  /\ delivered \in [SessionIds -> [Messages -> Nat]]

channel ==
  [ s \in SessionIds |->
      IF hasSession(s) THEN "open"
      ELSE IF keysGiven[s] > 0 THEN "closed" ELSE "new" ]

timely == { m \in Messages : clock - m.timestamp <= NonceWindow }

(* The stores keep the promise of SecureChannel.  Nonces are forgotten     *)
(* once their window has passed, entries expire lazily, are swept or       *)
(* evicted, and the process restarts; still no id gets a second key, no    *)
(* channel changes its user, and no message is handed to the handlers      *)
(* twice, unless its window ends between the timestamp check and           *)
(* recordNonce of the second request (decrypt.ts:102, sessionStore.ts:89). *)
Channel == INSTANCE SecureChannel
  WITH channel <- channel, user <- [s \in SessionIds |-> getBoundUser(s)],
       timely <- timely

ImplementsSecureChannel == Channel!Spec
=============================================================================
