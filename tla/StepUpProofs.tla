----------------------------- MODULE StepUpProofs -----------------------------
(***************************************************************************)
(* The session stores, and the factors of a sensitive request over them.   *)
(* The session stores implement SecureChannel.  The argument has three     *)
(* parts: an id has a handshake, then an entry, then neither; an entry     *)
(* remembers each nonce it accepted for as long as the timestamp sealed    *)
(* with it is accepted; and whatever else removes entries, or lets them    *)
(* expire, only closes channels.                                           *)
(* What a factor step does to a session is a request that only touches it, *)
(* so what is shown of the sessions holds with the factors too; that an    *)
(* ended session never comes back is what the bounds on guesses and on     *)
(* actions need when the process restarts and forgets its counters.        *)
(***************************************************************************)
EXTENDS StepUp, TLAPS, FiniteSetTheorems, SequenceTheorems

LEMMA Constants ==
  /\ IdleTtl \in Nat /\ HardTtl \in Nat /\ NonceWindow \in Nat /\ MaxClock \in Nat
  /\ MaxSessions \in Nat \ {0} /\ MaxHandshakes \in Nat \ {0}
  /\ Timestamps \subseteq Int /\ NoUser \notin Users
BY SessionsAssumption

LEMMA WithoutIs ==
  ASSUME NEW store, NEW ids, NEW E, store \in [DOMAIN store -> E]
  PROVE  /\ DOMAIN without(store, ids) = DOMAIN store \ ids
         /\ without(store, ids) \in [DOMAIN without(store, ids) -> E]
         /\ \A t \in DOMAIN store \ ids : without(store, ids)[t] = store[t]
BY DEF without

LEMMA WithIs ==
  ASSUME NEW store, NEW s, NEW E, NEW entry \in E, store \in [DOMAIN store -> E]
  PROVE  /\ DOMAIN with(store, s, entry) = DOMAIN store \cup {s}
         /\ with(store, s, entry) \in [DOMAIN with(store, s, entry) -> E]
         /\ with(store, s, entry)[s] = entry
         /\ \A t \in DOMAIN store \ {s} : with(store, s, entry)[t] = store[t]
BY DEF with

(* A store that makes room before it adds an entry stays within its limit. *)
LEMMA RoomIsMade ==
  ASSUME NEW ids, IsFiniteSet(ids), NEW limit \in Nat \ {0}, Cardinality(ids) <= limit,
         NEW s, s \notin ids, NEW room,
         \/ Cardinality(ids) >= limit /\ \E t \in ids : room = {t}
         \/ ~ Cardinality(ids) >= limit /\ room = {}
  PROVE  IsFiniteSet((ids \ room) \cup {s}) /\ Cardinality((ids \ room) \cup {s}) <= limit
<1>1. Cardinality(ids) \in Nat
  BY FS_CardinalityType
<1>2. /\ IsFiniteSet(ids \ room)
      /\ Cardinality(ids \ room) \in Nat /\ Cardinality(ids \ room) < limit
  <2>1. CASE Cardinality(ids) >= limit /\ \E t \in ids : room = {t}
    <3>1. PICK t \in ids : room = {t}
      BY <2>1
    <3>2. /\ IsFiniteSet(ids \ {t})
          /\ Cardinality(ids \ {t}) = Cardinality(ids) - 1
      BY FS_RemoveElement
    <3>3. Cardinality(ids \ {t}) \in Nat
      BY <3>2, FS_CardinalityType
    <3> QED
      BY <1>1, <3>1, <3>2, <3>3
  <2>2. CASE ~ Cardinality(ids) >= limit /\ room = {}
    <3>1. ids \ room = ids
      BY <2>2
    <3> QED
      BY <1>1, <2>2, <3>1
  <2> QED
    BY <2>1, <2>2
<1>3. s \notin ids \ room
  OBVIOUS
<1>4. /\ IsFiniteSet((ids \ room) \cup {s})
      /\ Cardinality((ids \ room) \cup {s}) = Cardinality(ids \ room) + 1
  BY <1>2, <1>3, FS_AddElement
<1> QED
  BY <1>2, <1>4
-----------------------------------------------------------------------------
(* Types *)

PendingTyped ==
  /\ DOMAIN pending \subseteq issued
  /\ pending \in [DOMAIN pending -> [createdAt : 0..MaxClock]]
  /\ IsFiniteSet(DOMAIN pending)
  /\ Cardinality(DOMAIN pending) <= MaxHandshakes

EntriesTyped ==
  /\ DOMAIN sessions \subseteq issued
  /\ sessions \in [DOMAIN sessions -> SessionEntry]
  /\ IsFiniteSet(DOMAIN sessions)
  /\ Cardinality(DOMAIN sessions) <= MaxSessions

Typed ==
  /\ clock \in 0..MaxClock
  /\ issued \subseteq SessionIds
  /\ PendingTyped
  /\ EntriesTyped
  /\ keysGiven \in [SessionIds -> Nat]
  /\ delivered \in [SessionIds -> [Messages -> Nat]]

LEMMA InitTyped == Init => Typed
<1> SUFFICES ASSUME Init
             PROVE  Typed
  OBVIOUS
<1>1. DOMAIN pending = {} /\ DOMAIN sessions = {}
  BY DEF Init
<1>2. Cardinality({}) = 0 /\ IsFiniteSet({})
  BY FS_EmptySet
<1>3. PendingTyped
  BY <1>1, <1>2, Constants DEF PendingTyped, Init
<1>4. EntriesTyped
  BY <1>1, <1>2, Constants DEF EntriesTyped, Init
<1> QED
  BY <1>3, <1>4, Constants DEF Typed, Init

LEMMA PendingRemoved ==
  ASSUME Typed, NEW ids, pending' = without(pending, ids), UNCHANGED issued
  PROVE  PendingTyped'
<1>1. DOMAIN pending' = DOMAIN pending \ ids
  BY DEF without
<1>2. /\ IsFiniteSet(DOMAIN pending')
      /\ Cardinality(DOMAIN pending') <= Cardinality(DOMAIN pending)
      /\ Cardinality(DOMAIN pending') \in Nat /\ Cardinality(DOMAIN pending) \in Nat
  BY <1>1, FS_Subset, FS_CardinalityType DEF Typed, PendingTyped
<1>3. pending' \in [DOMAIN pending' -> [createdAt : 0..MaxClock]]
  BY <1>1, WithoutIs DEF Typed, PendingTyped
<1>4. Cardinality(DOMAIN pending') <= MaxHandshakes
  BY <1>2, Constants DEF Typed, PendingTyped
<1> QED
  BY <1>1, <1>2, <1>3, <1>4 DEF Typed, PendingTyped

LEMMA EntriesRemoved ==
  ASSUME Typed, NEW ids, sessions' = without(sessions, ids), UNCHANGED issued
  PROVE  EntriesTyped'
<1>1. DOMAIN sessions' = DOMAIN sessions \ ids
  BY DEF without
<1>2. /\ IsFiniteSet(DOMAIN sessions')
      /\ Cardinality(DOMAIN sessions') <= Cardinality(DOMAIN sessions)
      /\ Cardinality(DOMAIN sessions') \in Nat /\ Cardinality(DOMAIN sessions) \in Nat
  BY <1>1, FS_Subset, FS_CardinalityType DEF Typed, EntriesTyped
<1>3. sessions' \in [DOMAIN sessions' -> SessionEntry]
  BY <1>1, WithoutIs DEF Typed, EntriesTyped
<1>4. Cardinality(DOMAIN sessions') <= MaxSessions
  BY <1>2, Constants DEF Typed, EntriesTyped
<1> QED
  BY <1>1, <1>2, <1>3, <1>4 DEF Typed, EntriesTyped

(* An entry that is there is written, and others may go. *)
LEMMA EntryWritten ==
  ASSUME Typed, NEW ids, NEW s \in DOMAIN sessions, NEW entry \in SessionEntry,
         sessions' = with(without(sessions, ids), s, entry), UNCHANGED issued
  PROVE  EntriesTyped'
<1>1. DOMAIN sessions' = (DOMAIN sessions \ ids) \cup {s}
  BY DEF without, with
<1>2. DOMAIN sessions' \subseteq DOMAIN sessions
  BY <1>1
<1>3. /\ IsFiniteSet(DOMAIN sessions')
      /\ Cardinality(DOMAIN sessions') <= Cardinality(DOMAIN sessions)
      /\ Cardinality(DOMAIN sessions') \in Nat /\ Cardinality(DOMAIN sessions) \in Nat
  BY <1>2, FS_Subset, FS_CardinalityType DEF Typed, EntriesTyped
<1>4. sessions' \in [DOMAIN sessions' -> SessionEntry]
  BY <1>1 DEF Typed, EntriesTyped, with, without
<1>5. Cardinality(DOMAIN sessions') <= MaxSessions
  BY <1>3, Constants DEF Typed, EntriesTyped
<1> QED
  BY <1>2, <1>3, <1>4, <1>5 DEF Typed, EntriesTyped

LEMMA TouchedTyped ==
  ASSUME Typed, NEW s \in DOMAIN sessions
  PROVE  /\ touched(s) \in SessionEntry
         /\ touched(s).userId = sessions[s].userId
         /\ touched(s).createdAt = sessions[s].createdAt
         /\ touched(s).lastUsedAt = clock
         /\ touched(s).seenNonces = sessions[s].seenNonces
BY DEF Typed, EntriesTyped, SessionEntry, touched

(* A single entry written is the case where nothing goes. *)
LEMMA NothingRemoved ==
  ASSUME Typed
  PROVE  without(sessions, {}) = sessions
BY DEF Typed, EntriesTyped, without

LEMMA HandshakeTyped ==
  ASSUME Typed, NEW s \in SessionIds, NEW keyOk \in BOOLEAN, Handshake(s, keyOk)
  PROVE  Typed'
<1>1. PendingTyped'
  BY PendingRemoved DEF Handshake, consumeHandshake
<1>2. s \in issued /\ UNCHANGED <<clock, issued, delivered>>
  BY DEF Handshake, Typed, PendingTyped
<1>3. CASE sessions' = without(sessions, {s}) /\ UNCHANGED keysGiven
  BY <1>1, <1>2, <1>3, EntriesRemoved DEF Typed
<1>4. ASSUME NEW room \in evictions(s), setSessionKey(s, room)
      PROVE  Typed'
  <2> PICK ids : ids = DOMAIN sessions \ {s}
    OBVIOUS
  <2> PICK entry :
        entry = [ createdAt |-> clock, lastUsedAt |-> clock,
                  seenNonces |-> {}, userId |-> NoUser ]
    OBVIOUS
  <2>1. entry \in SessionEntry
    BY DEF Typed, SessionEntry
  <2>2. sessions' = with(without(sessions, {s} \cup room), s, entry)
    BY <1>4 DEF setSessionKey
  <2>3. DOMAIN sessions' = (ids \ room) \cup {s}
    BY <2>2 DEF with, without
  <2>4. /\ IsFiniteSet(ids)
        /\ Cardinality(ids) <= Cardinality(DOMAIN sessions)
        /\ Cardinality(ids) \in Nat /\ Cardinality(DOMAIN sessions) \in Nat
    BY FS_Subset, FS_CardinalityType DEF Typed, EntriesTyped
  <2>5. Cardinality(ids) <= MaxSessions
    BY <2>4, Constants DEF Typed, EntriesTyped
  <2>6. \/ Cardinality(ids) >= MaxSessions /\ \E t \in ids : room = {t}
        \/ ~ Cardinality(ids) >= MaxSessions /\ room = {}
    BY DEF evictions, oldestSessions
  <2>7. IsFiniteSet(DOMAIN sessions') /\ Cardinality(DOMAIN sessions') <= MaxSessions
    <3>1. /\ IsFiniteSet((ids \ room) \cup {s})
          /\ Cardinality((ids \ room) \cup {s}) <= MaxSessions
      BY <2>4, <2>5, <2>6, Constants, RoomIsMade
    <3> QED
      BY <2>3, <3>1
  <2>8. sessions' \in [DOMAIN sessions' -> SessionEntry]
    BY <2>1, <2>2, <2>3 DEF Typed, EntriesTyped, with, without
  <2>9. EntriesTyped'
    BY <1>2, <2>3, <2>7, <2>8 DEF EntriesTyped, Typed
  <2>10. keysGiven' \in [SessionIds -> Nat]
    BY <1>4 DEF setSessionKey, Typed
  <2> QED
    BY <1>1, <1>2, <2>9, <2>10 DEF Typed
<1> QED
  BY <1>3, <1>4 DEF Handshake

(* A message is received between two readings of the clock.                *)
LEMMA ReceiveReads ==
  ASSUME Typed, NEW s \in SessionIds, NEW m \in Messages, ReceiveMessage(s, m)
  PROVE  \E now \in clock..MaxClock : \E later \in now..MaxClock :
           /\ inWindow(m, now) /\ clock' = later
           /\ later \in 0..MaxClock /\ clock <= now /\ now <= later
           /\ sessions' = with(sessions, s, [touched(s) EXCEPT !.seenNonces =
                            pruned(s, later) \cup IF isFresh(s, m, later) THEN {m} ELSE {}])
           /\ delivered' = IF isFresh(s, m, later)
                           THEN [delivered EXCEPT ![s][m] = @ + 1] ELSE delivered
<1>1. clock \in 0..MaxClock /\ MaxClock \in Nat
  BY Constants DEF Typed
<1>2. \A now \in clock..MaxClock : \A later \in now..MaxClock :
        later \in 0..MaxClock /\ clock <= now /\ now <= later
  BY <1>1
<1> QED
  BY <1>2 DEF ReceiveMessage

LEMMA ReceiveTyped ==
  ASSUME Typed, NEW s \in SessionIds, NEW m \in Messages, ReceiveMessage(s, m)
  PROVE  Typed'
<1>1. PICK later \in 0..MaxClock :
        /\ clock' = later
        /\ sessions' = with(sessions, s, [touched(s) EXCEPT !.seenNonces =
                         pruned(s, later) \cup IF isFresh(s, m, later) THEN {m} ELSE {}])
        /\ delivered' \in {delivered, [delivered EXCEPT ![s][m] = @ + 1]}
  BY ReceiveReads
<1> PICK seen : seen = pruned(s, later) \cup IF isFresh(s, m, later) THEN {m} ELSE {}
  OBVIOUS
<1>2. s \in DOMAIN sessions /\ sessions[s] \in SessionEntry
  BY DEF ReceiveMessage, hasSession, Typed, EntriesTyped
<1>3. seen \in SUBSET Messages
  BY <1>2 DEF pruned, SessionEntry
<1>4. [touched(s) EXCEPT !.seenNonces = seen] \in SessionEntry
  BY <1>2, <1>3, TouchedTyped DEF SessionEntry
<1>5. /\ sessions' = with(sessions, s, [touched(s) EXCEPT !.seenNonces = seen])
      /\ UNCHANGED <<pending, issued, keysGiven>>
  BY <1>1 DEF ReceiveMessage
<1>6. EntriesTyped'
  BY <1>2, <1>4, <1>5, NothingRemoved, EntryWritten
<1>7. delivered' \in [SessionIds -> [Messages -> Nat]]
  <2>1. delivered \in [SessionIds -> [Messages -> Nat]]
    BY DEF Typed
  <2> QED
    BY ONLY <1>1, <2>1, s \in SessionIds, m \in Messages
<1>8. PendingTyped'
  BY <1>5 DEF Typed, PendingTyped
<1> QED
  BY <1>1, <1>5, <1>6, <1>7, <1>8 DEF Typed

LEMMA TypeInductive == Typed /\ [Next]_vars => Typed'
<1> SUFFICES ASSUME Typed, [Next]_vars
             PROVE  Typed'
  OBVIOUS
<1>1. ASSUME EntriesTyped', UNCHANGED <<clock, pending, issued, keysGiven, delivered>>
      PROVE  Typed'
  BY <1>1 DEF Typed, PendingTyped
<1>2. ASSUME PendingTyped', UNCHANGED <<clock, sessions, issued, keysGiven, delivered>>
      PROVE  Typed'
  BY <1>2 DEF Typed, EntriesTyped
<1>3. ASSUME NEW s \in SessionIds, GetSession(s)
      PROVE  Typed'
  <2>1. PICK room :
          /\ \/ /\ Cardinality(DOMAIN pending) >= MaxHandshakes
                /\ \E t \in DOMAIN pending : room = {t}
             \/ ~ Cardinality(DOMAIN pending) >= MaxHandshakes /\ room = {}
          /\ pending' = with(without(pending, room), s, [createdAt |-> clock])
    BY <1>3 DEF GetSession, setHandshake, oldestHandshakes
  <2>2. /\ s \notin DOMAIN pending /\ issued' = issued \cup {s}
        /\ UNCHANGED <<clock, sessions, keysGiven, delivered>>
    BY <1>3 DEF GetSession, Typed, PendingTyped
  <2>3. DOMAIN pending' = (DOMAIN pending \ room) \cup {s}
    BY <2>1 DEF with, without
  <2>4. /\ IsFiniteSet(DOMAIN pending')
        /\ Cardinality(DOMAIN pending') <= MaxHandshakes
    <3> PICK ids : ids = DOMAIN pending
      OBVIOUS
    <3>1. IsFiniteSet(ids) /\ Cardinality(ids) <= MaxHandshakes /\ s \notin ids
      BY <2>2 DEF Typed, PendingTyped
    <3>2. \/ Cardinality(ids) >= MaxHandshakes /\ \E t \in ids : room = {t}
          \/ ~ Cardinality(ids) >= MaxHandshakes /\ room = {}
      BY <2>1
    <3>3. /\ IsFiniteSet((ids \ room) \cup {s})
          /\ Cardinality((ids \ room) \cup {s}) <= MaxHandshakes
      BY <3>1, <3>2, Constants, RoomIsMade
    <3> QED
      BY <2>3, <3>3
  <2>5. pending' \in [DOMAIN pending' -> [createdAt : 0..MaxClock]]
    BY <2>1, <2>3 DEF Typed, PendingTyped, with, without
  <2> QED
    BY <2>2, <2>3, <2>4, <2>5 DEF Typed, PendingTyped, EntriesTyped
<1>4. ASSUME NEW s \in SessionIds, GetSessionKey(s)
      PROVE  Typed'
  <2>1. CASE sessions' = without(sessions, {s})
    BY <1>1, <1>4, <2>1, EntriesRemoved DEF GetSessionKey
  <2>2. CASE sessions' = with(sessions, s, touched(s))
    BY <1>1, <1>4, <2>2, TouchedTyped, NothingRemoved, EntryWritten DEF GetSessionKey
  <2> QED
    BY <1>4, <2>1, <2>2 DEF GetSessionKey
<1>5. ASSUME NEW s \in SessionIds, NEW u \in Users, BindUser(s, u)
      PROVE  Typed'
  <2>1. s \in DOMAIN sessions
    BY <1>5 DEF BindUser, mayBind, hasSession
  <2>2. [sessions[s] EXCEPT !.userId = u] \in SessionEntry
    BY <2>1 DEF Typed, EntriesTyped, SessionEntry
  <2> QED
    BY <1>1, <1>5, <2>1, <2>2, NothingRemoved, EntryWritten DEF BindUser
<1>6. ASSUME NEW s \in SessionIds, Logout(s)
      PROVE  Typed'
  BY <1>1, <1>6, EntriesRemoved DEF Logout
<1>7. ASSUME NEW s \in SessionIds, WipeOthers(s)
      PROVE  Typed'
  <2>1. s \in DOMAIN sessions
    BY <1>7 DEF WipeOthers, getBoundUser, hasSession
  <2> QED
    BY <1>1, <1>7, <2>1, TouchedTyped, EntryWritten DEF WipeOthers
<1>8. CASE SweepHandshakes
  BY <1>2, <1>8, PendingRemoved DEF SweepHandshakes
<1>9. CASE SweepSessions
  BY <1>1, <1>9, EntriesRemoved DEF SweepSessions
<1>10. CASE Tick
  <2>1. clock' \in 0..MaxClock
    BY <1>10, Constants DEF Tick, Typed
  <2> QED
    BY <1>10, <2>1 DEF Tick, Typed, PendingTyped, EntriesTyped
<1>11. CASE Restart
  <2>1. DOMAIN pending' = {} /\ DOMAIN sessions' = {}
    BY <1>11 DEF Restart
  <2>2. Cardinality({}) = 0 /\ IsFiniteSet({})
    BY FS_EmptySet
  <2> QED
    BY <1>11, <2>1, <2>2, Constants DEF Restart, Typed, PendingTyped, EntriesTyped
<1>12. CASE UNCHANGED vars
  BY <1>12 DEF vars, Typed, PendingTyped, EntriesTyped
<1> QED
  BY <1>3, <1>4, <1>5, <1>6, <1>7, <1>8, <1>9, <1>10, <1>11, <1>12, HandshakeTyped,
    ReceiveTyped DEF Next

(* Both stores stay within their limits, whatever expires, is evicted or   *)
(* swept, and hold only ids that were handed out.                          *)
THEOREM SessionsTypeCorrect == Spec => []TypeOK
<1>1. Typed => TypeOK
  BY DEF Typed, PendingTyped, EntriesTyped, TypeOK
<1> QED
  BY <1>1, InitTyped, TypeInductive, PTL DEF Spec
-----------------------------------------------------------------------------
(* The inductive invariant behind the refinement *)

(* An id has no key until its handshake is consumed, and one from then on. *)
OneKey(s) ==
  /\ keysGiven[s] \in {0, 1}
  /\ s \notin issued \/ s \in DOMAIN pending => keysGiven[s] = 0
  /\ s \in DOMAIN sessions => keysGiven[s] = 1

(* What was handed to a handler is remembered until its timestamp is one   *)
(* that no message is accepted with.                                       *)
Remembered(s, m) ==
  /\ keysGiven[s] = 0 => delivered[s][m] = 0
  /\ s \in DOMAIN sessions /\ delivered[s][m] # 0 =>
       \/ m \in sessions[s].seenNonces
       \/ clock - m.timestamp > NonceWindow

Memory ==
  \A s \in SessionIds : OneKey(s) /\ \A m \in Messages : Remembered(s, m)

(* A step that hands out no key and no message: entries may go or run out. *)
Forgetting ==
  /\ UNCHANGED <<keysGiven, delivered>>
  /\ clock' \in Int /\ clock <= clock'
  /\ issued \subseteq issued'
  /\ \A t \in DOMAIN pending' : t \in DOMAIN pending \/ t \notin issued
  /\ \A t \in DOMAIN sessions' :
       /\ t \in DOMAIN sessions
       /\ sessions'[t].seenNonces = sessions[t].seenNonces

(* ... and no entry that still speaks for a user comes to speak for        *)
(* another.                                                                *)
Closing ==
  /\ Forgetting
  /\ \A t \in SessionIds :
       hasSession(t)' => hasSession(t) /\ sessions'[t].userId = sessions[t].userId

LEMMA MessagesAre ==
  \A m \in Messages : m.timestamp \in Int
BY Constants DEF Messages

LEMMA ForgettingKeeps ==
  ASSUME Typed, Typed', Memory, Forgetting
  PROVE  Memory'
<1> SUFFICES ASSUME NEW s \in SessionIds
             PROVE  OneKey(s)' /\ \A m \in Messages : Remembered(s, m)'
  BY DEF Memory
<1>1. OneKey(s)'
  BY DEF Memory, OneKey, Forgetting
<1>2. ASSUME NEW m \in Messages
      PROVE  Remembered(s, m)'
  <2>1. /\ clock \in Int /\ m.timestamp \in Int /\ NonceWindow \in Int
        /\ Remembered(s, m)
    BY Constants, MessagesAre DEF Typed, Memory
  <2>2. clock - m.timestamp > NonceWindow => clock' - m.timestamp > NonceWindow
    BY <2>1 DEF Forgetting
  <2> QED
    BY <2>1, <2>2 DEF Forgetting, Remembered
<1> QED
  BY <1>1, <1>2

LEMMA ClockStays ==
  ASSUME Typed, UNCHANGED clock
  PROVE  clock' \in Int /\ clock <= clock'
BY DEF Typed

LEMMA EntryIs ==
  ASSUME Typed, NEW s \in DOMAIN sessions
  PROVE  /\ sessions[s] \in SessionEntry /\ s \in SessionIds
         /\ sessions[s].createdAt \in 0..MaxClock /\ sessions[s].lastUsedAt \in 0..MaxClock
         /\ clock \in Int /\ clock - clock = 0 /\ 0 \leq IdleTtl /\ 0 \leq HardTtl
BY Constants DEF Typed, EntriesTyped, SessionEntry

LEMMA OthersClose ==
  ASSUME Typed, Memory, NEW s \in SessionIds,
         \/ GetSession(s)
         \/ GetSessionKey(s)
         \/ Logout(s)
         \/ WipeOthers(s)
         \/ UNCHANGED keysGiven /\ \E keyOk \in BOOLEAN : Handshake(s, keyOk)
  PROVE  Closing
<1>1. ASSUME UNCHANGED <<keysGiven, delivered, clock>>, issued \subseteq issued',
             \A t \in DOMAIN pending' : t \in DOMAIN pending \/ t \notin issued,
             NEW ids, sessions' = without(sessions, ids)
      PROVE  Closing
  BY <1>1, ClockStays DEF Closing, Forgetting, without, hasSession, isExpired
<1>2. ASSUME UNCHANGED <<keysGiven, delivered, clock, pending, issued>>, hasSession(s),
             NEW ids, sessions' = with(without(sessions, ids), s, touched(s))
      PROVE  Closing
  <2>1. s \in DOMAIN sessions
    BY <1>2 DEF hasSession
  <2>2. /\ touched(s).userId = sessions[s].userId
        /\ touched(s).seenNonces = sessions[s].seenNonces
    BY <2>1, TouchedTyped
  <2>3. sessions'[s] = touched(s) /\ DOMAIN sessions' \subseteq DOMAIN sessions
    BY <1>2, <2>1 DEF with, without
  <2>4. \A t \in DOMAIN sessions' \ {s} : sessions'[t] = sessions[t]
    BY <1>2 DEF with, without
  <2>5. Forgetting
    BY <1>2, <2>2, <2>3, <2>4, ClockStays DEF Forgetting
  <2>6. ASSUME NEW t \in SessionIds, hasSession(t)'
        PROVE  hasSession(t) /\ sessions'[t].userId = sessions[t].userId
    <3>1. CASE t = s
      BY <1>2, <2>2, <2>3, <3>1
    <3>2. CASE t # s
      BY <1>2, <2>3, <2>4, <2>6, <3>2 DEF hasSession, isExpired
    <3> QED
      BY <3>1, <3>2
  <2> QED
    BY <2>5, <2>6 DEF Closing
<1>3. CASE GetSession(s)
  <2>1. /\ issued \subseteq issued' /\ UNCHANGED <<clock, sessions, keysGiven, delivered>>
        /\ s \notin issued
    BY <1>3 DEF GetSession
  <2>2. \A t \in DOMAIN pending' : t \in DOMAIN pending \/ t = s
    BY <1>3 DEF GetSession, setHandshake, with, without
  <2>3. sessions' = without(sessions, {})
    BY <2>1, NothingRemoved
  <2> QED
    BY <1>1, <2>1, <2>2, <2>3
<1>4. CASE GetSessionKey(s)
  <2>1. CASE isExpired(s)
    BY <1>1, <1>4, <2>1 DEF GetSessionKey
  <2>2. CASE ~ isExpired(s)
    BY <1>2, <1>4, <2>2, NothingRemoved DEF GetSessionKey, hasSession
  <2> QED
    BY <2>1, <2>2
<1>5. CASE Logout(s)
  BY <1>1, <1>5 DEF Logout
<1>6. CASE WipeOthers(s)
  BY <1>2, <1>6 DEF WipeOthers, getBoundUser
<1>7. CASE UNCHANGED keysGiven /\ \E keyOk \in BOOLEAN : Handshake(s, keyOk)
  <2>1. /\ UNCHANGED <<clock, issued, delivered, keysGiven>>
        /\ pending' = without(pending, {s})
        /\ \/ sessions' = without(sessions, {s})
           \/ \E room \in evictions(s) : setSessionKey(s, room)
    BY <1>7 DEF Handshake, consumeHandshake
  <2>2. keysGiven[s] + 1 # keysGiven[s]
    BY DEF Typed
  <2>3. ~ \E room \in evictions(s) : setSessionKey(s, room)
    BY <2>1, <2>2 DEF setSessionKey, Typed
  <2> QED
    BY <1>1, <2>1, <2>3 DEF without
<1> QED
  BY <1>3, <1>4, <1>5, <1>6, <1>7

(* While the clock runs, sessions run out.                                 *)
LEMMA LaterIsExpired ==
  ASSUME Typed, NEW t \in DOMAIN sessions, t \in DOMAIN sessions',
         clock' \in Int, clock <= clock', ~ isExpired(t)',
         sessions'[t].createdAt = sessions[t].createdAt,
         sessions'[t].lastUsedAt = sessions[t].lastUsedAt
  PROVE  ~ isExpired(t)
<1> PICK created, used : created = sessions[t].createdAt /\ used = sessions[t].lastUsedAt
  OBVIOUS
<1>1. /\ clock \in Int /\ created \in Int /\ used \in Int
      /\ IdleTtl \in Int /\ HardTtl \in Int
  BY EntryIs, Constants
<1>2. ~ (clock' - used > IdleTtl) /\ ~ (clock' - created > HardTtl)
  BY DEF isExpired
<1>3. ~ (clock - used > IdleTtl) /\ ~ (clock - created > HardTtl)
  BY <1>1, <1>2
<1> QED
  BY <1>3 DEF isExpired

LEMMA TimersClose ==
  ASSUME Typed, SweepHandshakes \/ SweepSessions \/ Tick \/ Restart
  PROVE  Closing
<1>1. CASE SweepHandshakes
  BY <1>1, ClockStays DEF SweepHandshakes, Closing, Forgetting, without, hasSession, isExpired
<1>2. CASE SweepSessions
  BY <1>2, ClockStays DEF SweepSessions, Closing, Forgetting, without, hasSession, isExpired
<1>3. CASE Tick
  <2>1. /\ clock' = clock + 1 /\ clock \in Int
        /\ UNCHANGED <<pending, sessions, issued, keysGiven, delivered>>
    BY <1>3 DEF Tick, Typed
  <2>2. ASSUME NEW t \in SessionIds, hasSession(t)'
        PROVE  hasSession(t)
    BY <2>1, <2>2, LaterIsExpired DEF hasSession
  <2> QED
    BY <2>1, <2>2 DEF Closing, Forgetting
<1>4. CASE Restart
  BY <1>4, ClockStays DEF Restart, Closing, Forgetting, hasSession
<1> QED
  BY <1>1, <1>2, <1>3, <1>4
-----------------------------------------------------------------------------
(* The steps that give a key, hand over a message or bind a user *)

(* A handshake that succeeds, and makes room. *)
Opens(s, room) ==
  /\ ~ hasSession(s) /\ s \in DOMAIN pending /\ s \in SessionIds
  /\ pending' = without(pending, {s})
  /\ setSessionKey(s, room)
  /\ UNCHANGED <<clock, issued, delivered>>

LEMMA OpensIs ==
  ASSUME Typed, Memory, NEW s \in SessionIds, NEW room, Opens(s, room)
  PROVE  /\ keysGiven[s] = 0 /\ s \notin DOMAIN sessions
         /\ keysGiven' = [keysGiven EXCEPT ![s] = 1]
         /\ hasSession(s)' /\ sessions'[s].userId = NoUser /\ sessions'[s].seenNonces = {}
         /\ DOMAIN sessions' = (DOMAIN sessions \ room) \cup {s}
         /\ \A t \in DOMAIN sessions' \ {s} : sessions'[t] = sessions[t]
<1>1. keysGiven[s] = 0 /\ s \notin DOMAIN sessions
  BY DEF Opens, Memory, OneKey
<1>2. keysGiven' = [keysGiven EXCEPT ![s] = 1]
  BY <1>1 DEF Opens, setSessionKey, Typed
<1> PICK entry :
      entry = [ createdAt |-> clock, lastUsedAt |-> clock,
                seenNonces |-> {}, userId |-> NoUser ]
  OBVIOUS
<1>3. sessions' = with(without(sessions, {s} \cup room), s, entry) /\ UNCHANGED clock
  BY DEF Opens, setSessionKey
<1>4. /\ DOMAIN sessions' = (DOMAIN sessions \ room) \cup {s}
      /\ sessions'[s] = entry
      /\ \A t \in DOMAIN sessions' \ {s} : sessions'[t] = sessions[t]
  BY <1>3 DEF with, without
<1>5. hasSession(s)'
  <2>1. clock - clock = 0 /\ IdleTtl \in Nat /\ HardTtl \in Nat
    BY Constants DEF Typed
  <2> QED
    BY <1>3, <1>4, <2>1 DEF hasSession, isExpired
<1> QED
  BY <1>1, <1>2, <1>4, <1>5

LEMMA OpensKeeps ==
  ASSUME Typed, Memory, NEW s \in SessionIds, NEW room, Opens(s, room)
  PROVE  Memory'
<1> SUFFICES ASSUME NEW t \in SessionIds
             PROVE  OneKey(t)' /\ \A m \in Messages : Remembered(t, m)'
  BY DEF Memory
<1>1. /\ UNCHANGED <<clock, issued, delivered>>
      /\ s \in issued /\ pending' = without(pending, {s})
      /\ keysGiven \in [SessionIds -> Nat]
  BY DEF Opens, Typed, PendingTyped
<1>2. OneKey(t) /\ \A m \in Messages : Remembered(t, m)
  BY DEF Memory
<1> PICK entries : entries = DOMAIN sessions'
  OBVIOUS
<1> PICK after : after = sessions'
  OBVIOUS
<1>5. /\ keysGiven' = [keysGiven EXCEPT ![s] = 1]
      /\ entries = (DOMAIN sessions \ room) \cup {s}
      /\ \A e \in entries \ {s} : after[e] = sessions[e]
  BY OpensIs
<1>3. CASE t = s
  <2>1. OneKey(s)'
    <3>1. keysGiven'[s] = 1
      BY <1>1, <1>5
    <3>2. s \notin DOMAIN pending' /\ s \in issued'
      BY <1>1 DEF without
    <3> QED
      BY <3>1, <3>2 DEF OneKey
  <2>2. \A m \in Messages : delivered[s][m] = 0
    BY <1>2, <1>3, OpensIs DEF Remembered
  <2> QED
    BY <1>1, <1>3, <2>1, <2>2 DEF Remembered
<1>4. CASE t # s
  <2>1. keysGiven'[t] = keysGiven[t]
    BY <1>1, <1>4, OpensIs
  <2>2. t \in DOMAIN sessions' => t \in DOMAIN sessions /\ sessions'[t] = sessions[t]
    BY <1>4, <1>5
  <2>3. t \in DOMAIN pending' => t \in DOMAIN pending
    BY <1>1 DEF without
  <2> QED
    BY <1>1, <1>2, <2>1, <2>2, <2>3 DEF OneKey, Remembered
<1> QED
  BY <1>3, <1>4

(* The fact the nonces are kept for: what is accepted was never accepted   *)
(* before, or has grown too old since it passed the timestamp check.       *)
LEMMA FreshIsNew ==
  ASSUME Typed, Memory, NEW s \in SessionIds, NEW m \in Messages, hasSession(s),
         NEW later \in Int, clock <= later, isFresh(s, m, later)
  PROVE  delivered[s][m] = 0 \/ later - m.timestamp > NonceWindow
<1>1. s \in DOMAIN sessions /\ Remembered(s, m)
  BY DEF hasSession, Memory
<1>2. clock \in Int /\ m.timestamp \in Int /\ NonceWindow \in Int
  BY Constants, MessagesAre DEF Typed
<1>3. m \notin pruned(s, later)
  BY DEF isFresh
<1>4. m \in sessions[s].seenNonces => later - m.timestamp > NonceWindow
  BY <1>2, <1>3 DEF pruned
<1>5. clock - m.timestamp > NonceWindow => later - m.timestamp > NonceWindow
  BY <1>2
<1> QED
  BY <1>1, <1>4, <1>5 DEF Remembered

(* The entry of the session a message came for. *)
LEMMA ReceivedEntryIs ==
  ASSUME Typed, NEW s \in SessionIds, NEW m \in Messages, ReceiveMessage(s, m)
  PROVE  /\ DOMAIN sessions' = DOMAIN sessions /\ s \in DOMAIN sessions
         /\ \A t \in DOMAIN sessions \ {s} : sessions'[t] = sessions[t]
         /\ sessions'[s].userId = sessions[s].userId
         /\ sessions'[s].seenNonces =
              pruned(s, clock') \cup IF isFresh(s, m, clock') THEN {m} ELSE {}
<1>1. PICK later \in 0..MaxClock :
        /\ clock' = later
        /\ sessions' = with(sessions, s, [touched(s) EXCEPT !.seenNonces =
                         pruned(s, later) \cup IF isFresh(s, m, later) THEN {m} ELSE {}])
  BY ReceiveReads
<1> PICK seen : seen = pruned(s, later) \cup IF isFresh(s, m, later) THEN {m} ELSE {}
  OBVIOUS
<1>2. s \in DOMAIN sessions
  BY DEF ReceiveMessage, hasSession
<1>3. /\ DOMAIN sessions' = DOMAIN sessions
      /\ sessions'[s] = [touched(s) EXCEPT !.seenNonces = seen]
      /\ \A t \in DOMAIN sessions \ {s} : sessions'[t] = sessions[t]
  BY <1>1, <1>2 DEF with
<1>4. sessions'[s].seenNonces = seen /\ sessions'[s].userId = sessions[s].userId
  BY <1>2, <1>3, TouchedTyped DEF SessionEntry
<1> QED
  BY <1>1, <1>2, <1>3, <1>4

LEMMA ReceiveIs ==
  ASSUME Typed, Memory, NEW s \in SessionIds, NEW m \in Messages, ReceiveMessage(s, m)
  PROVE  /\ clock' \in Int /\ clock <= clock' /\ UNCHANGED <<pending, issued, keysGiven>>
         /\ \/ UNCHANGED delivered
            \/ /\ delivered[s][m] = 0 \/ clock' - m.timestamp > NonceWindow
               /\ clock - m.timestamp <= NonceWindow
               /\ delivered' = [delivered EXCEPT ![s][m] = @ + 1]
               /\ m \in sessions'[s].seenNonces
         /\ \A n \in sessions[s].seenNonces :
              n \in sessions'[s].seenNonces \/ clock' - n.timestamp > NonceWindow
         /\ DOMAIN sessions' = DOMAIN sessions
         /\ \A t \in DOMAIN sessions \ {s} : sessions'[t] = sessions[t]
         /\ hasSession(s)
         /\ sessions'[s].userId = sessions[s].userId
<1>1. PICK now \in Int, later \in Int :
        /\ inWindow(m, now) /\ clock' = later /\ clock <= now /\ now <= later
        /\ delivered' = IF isFresh(s, m, later)
                        THEN [delivered EXCEPT ![s][m] = @ + 1] ELSE delivered
  <2>1. clock \in 0..MaxClock /\ MaxClock \in Nat
    BY Constants DEF Typed
  <2>2. \A now \in clock..MaxClock : \A later \in now..MaxClock :
          now \in Int /\ later \in Int
    BY <2>1
  <2> QED
    BY <2>2, ReceiveReads
<1>2. /\ hasSession(s) /\ UNCHANGED <<pending, issued, keysGiven>>
  BY DEF ReceiveMessage
<1>3. /\ clock \in Int /\ NonceWindow \in Int /\ m.timestamp \in Int
      /\ s \in DOMAIN sessions /\ sessions[s].seenNonces \subseteq Messages
      /\ \A n \in Messages : n.timestamp \in Int
  BY <1>2, Constants, MessagesAre, EntryIs DEF Typed, hasSession, SessionEntry
<1>4. clock <= later /\ clock - m.timestamp <= NonceWindow
  BY <1>1, <1>3 DEF inWindow
<1>5. \A n \in sessions[s].seenNonces :
        n \in pruned(s, later) \/ later - n.timestamp > NonceWindow
  BY <1>3 DEF pruned
<1>6. CASE isFresh(s, m, later)
  <2>1. delivered[s][m] = 0 \/ later - m.timestamp > NonceWindow
    BY <1>2, <1>4, <1>6, FreshIsNew
  <2> QED
    BY <1>1, <1>2, <1>4, <1>5, <1>6, <2>1, ReceivedEntryIs
<1>7. CASE ~ isFresh(s, m, later)
  BY <1>1, <1>2, <1>4, <1>5, <1>7, ReceivedEntryIs
<1> QED
  BY <1>6, <1>7

(* Nothing but time closes a session while a message is received.          *)
LEMMA ReceivingCloses ==
  ASSUME Typed, Memory, NEW s \in SessionIds, NEW m \in Messages, ReceiveMessage(s, m),
         NEW t \in SessionIds, hasSession(t)'
  PROVE  hasSession(t) /\ sessions'[t].userId = sessions[t].userId
<1>1. CASE t = s
  BY <1>1, ReceiveIs
<1>2. CASE t # s
  <2>1. t \in DOMAIN sessions' /\ ~ isExpired(t)'
    BY DEF hasSession
  <2>2. t \in DOMAIN sessions /\ sessions'[t] = sessions[t]
    BY <1>2, <2>1, ReceiveIs
  <2>3. ~ isExpired(t)
    BY <2>1, <2>2, ReceiveIs, LaterIsExpired
  <2> QED
    BY <2>2, <2>3 DEF hasSession
<1> QED
  BY <1>1, <1>2

LEMMA ReceiveKeeps ==
  ASSUME Typed, Memory, NEW s \in SessionIds, NEW m \in Messages, ReceiveMessage(s, m)
  PROVE  Memory'
<1> SUFFICES ASSUME NEW t \in SessionIds
             PROVE  OneKey(t)' /\ \A n \in Messages : Remembered(t, n)'
  BY DEF Memory
<1>1. /\ UNCHANGED <<pending, issued, keysGiven>>
      /\ clock \in Int /\ clock' \in Int /\ clock <= clock' /\ NonceWindow \in Int
      /\ delivered \in [SessionIds -> [Messages -> Nat]]
      /\ OneKey(t) /\ \A n \in Messages : Remembered(t, n)
      /\ OneKey(s)
  BY ReceiveIs, Constants DEF Typed, Memory
<1>2. OneKey(t)'
  BY <1>1, ReceiveIs DEF OneKey
<1>3. ASSUME NEW n \in Messages
      PROVE  Remembered(t, n)'
  <2>1. n.timestamp \in Int /\ Remembered(t, n)
    BY <1>1, MessagesAre
  <2>2. clock - n.timestamp > NonceWindow => clock' - n.timestamp > NonceWindow
    BY <1>1, <2>1
  <2>3. CASE t # s
    <3>1. delivered'[t][n] = delivered[t][n]
      BY <1>1, <2>3, ReceiveIs
    <3>2. t \in DOMAIN sessions' => t \in DOMAIN sessions /\ sessions'[t] = sessions[t]
      BY <2>3, ReceiveIs
    <3> QED
      BY <1>1, <2>1, <2>2, <3>1, <3>2 DEF Remembered
  <2>4. CASE t = s
    <3>1. s \in DOMAIN sessions /\ keysGiven[s] = 1
      BY <1>1, ReceiveIs DEF hasSession, OneKey
    <3>2. CASE n = m /\ m \in sessions'[s].seenNonces
      BY <1>1, <2>4, <3>1, <3>2 DEF Remembered
    <3>3. CASE ~ (n = m /\ m \in sessions'[s].seenNonces)
      <4>1. delivered'[s][n] = delivered[s][n]
        BY <1>1, <3>3, ReceiveIs
      <4>2. n \in sessions[s].seenNonces =>
              n \in sessions'[s].seenNonces \/ clock' - n.timestamp > NonceWindow
        BY ReceiveIs
      <4> QED
        BY <1>1, <2>1, <2>2, <2>4, <3>1, <4>1, <4>2 DEF Remembered
    <3> QED
      BY <3>2, <3>3
  <2> QED
    BY <2>3, <2>4
<1> QED
  BY <1>2, <1>3

LEMMA BindIs ==
  ASSUME Typed, NEW s \in SessionIds, NEW u \in Users, BindUser(s, u)
  PROVE  /\ Forgetting
         /\ hasSession(s) /\ sessions[s].userId \in {NoUser, u}
         /\ sessions'[s].userId = u
         /\ \A t \in SessionIds :
              /\ hasSession(t)' <=> hasSession(t)
              /\ t # s => (hasSession(t) => sessions'[t].userId = sessions[t].userId)
<1>1. /\ hasSession(s) /\ s \in DOMAIN sessions /\ sessions[s].userId \in {NoUser, u}
      /\ sessions' = with(sessions, s, [sessions[s] EXCEPT !.userId = u])
      /\ UNCHANGED <<clock, pending, issued, keysGiven, delivered>>
  BY DEF BindUser, mayBind, hasSession
<1>2. /\ DOMAIN sessions' = DOMAIN sessions
      /\ sessions'[s] = [sessions[s] EXCEPT !.userId = u]
      /\ \A t \in DOMAIN sessions \ {s} : sessions'[t] = sessions[t]
  BY <1>1 DEF with
<1>3. /\ sessions'[s].userId = u
      /\ sessions'[s].createdAt = sessions[s].createdAt
      /\ sessions'[s].lastUsedAt = sessions[s].lastUsedAt
      /\ sessions'[s].seenNonces = sessions[s].seenNonces
  BY <1>1, <1>2, EntryIs DEF SessionEntry
<1>4. Forgetting
  BY <1>1, <1>2, <1>3, ClockStays DEF Forgetting
<1>5. ASSUME NEW t \in SessionIds
      PROVE  /\ hasSession(t)' <=> hasSession(t)
             /\ t # s => (hasSession(t) => sessions'[t].userId = sessions[t].userId)
  <2>1. CASE t = s
    BY <1>1, <1>2, <1>3, <2>1 DEF hasSession, isExpired
  <2>2. CASE t # s
    BY <1>1, <1>2, <2>2 DEF hasSession, isExpired
  <2> QED
    BY <2>1, <2>2
<1> QED
  BY <1>1, <1>3, <1>4, <1>5

(* Every step is one of four kinds. *)
LEMMA Steps ==
  ASSUME Typed, Memory, Next
  PROVE  \/ Closing
         \/ \E s \in SessionIds, room \in SUBSET DOMAIN sessions : Opens(s, room)
         \/ \E s \in SessionIds, m \in Messages : ReceiveMessage(s, m)
         \/ \E s \in SessionIds, u \in Users : BindUser(s, u)
<1>1. ASSUME NEW s \in SessionIds, NEW keyOk \in BOOLEAN, Handshake(s, keyOk)
      PROVE  \/ Closing
             \/ \E room \in SUBSET DOMAIN sessions : Opens(s, room)
  <2>1. CASE UNCHANGED keysGiven
    BY <1>1, <2>1, OthersClose
  <2>2. CASE keysGiven' # keysGiven
    <3>1. PICK room \in evictions(s) : setSessionKey(s, room)
      BY <1>1, <2>2 DEF Handshake
    <3>2. room \subseteq DOMAIN sessions
      BY <3>1 DEF evictions, oldestSessions
    <3>3. Opens(s, room)
      BY <1>1, <2>2, <3>1 DEF Handshake, consumeHandshake, Opens
    <3> QED
      BY <3>2, <3>3
  <2> QED
    BY <2>1, <2>2
<1> QED
  BY <1>1, OthersClose, TimersClose DEF Next

LEMMA MemoryInductive == Typed /\ Typed' /\ Memory /\ [Next]_vars => Memory'
<1> SUFFICES ASSUME Typed, Typed', Memory, [Next]_vars
             PROVE  Memory'
  OBVIOUS
<1>1. CASE Next
  <2>1. CASE Closing
    BY <2>1, ForgettingKeeps DEF Closing
  <2>2. ASSUME NEW s \in SessionIds, NEW u \in Users, BindUser(s, u)
        PROVE  Memory'
    BY <2>2, BindIs, ForgettingKeeps
  <2> QED
    BY <1>1, <2>1, <2>2, Steps, OpensKeeps, ReceiveKeeps
<1>2. CASE UNCHANGED vars
  BY <1>2 DEF vars, Memory, OneKey, Remembered
<1> QED
  BY <1>1, <1>2
-----------------------------------------------------------------------------
(* The refinement *)

LEMMA ChannelIs ==
  ASSUME NEW s \in SessionIds
  PROVE  /\ channel[s] = "open" <=> hasSession(s)
         /\ channel[s] = "new" <=> ~ hasSession(s) /\ ~ keysGiven[s] > 0
         /\ channel[s] \in {"open", "closed", "new"}
BY DEF channel

LEMMA InitImplements == Init => Channel!Init
<1> SUFFICES ASSUME Init
             PROVE  Channel!Init
  OBVIOUS
<1>1. \A s \in SessionIds : ~ hasSession(s) /\ keysGiven[s] = 0
  BY DEF Init, hasSession
<1> QED
  BY <1>1 DEF Init, Channel!Init, channel, getBoundUser, timely

(* Where no session opens and none changes its user, channels only close.  *)
OnlyClosing ==
  /\ clock' \in Int /\ clock <= clock' /\ UNCHANGED keysGiven
  /\ \A t \in SessionIds :
       hasSession(t)' => hasSession(t) /\ sessions'[t].userId = sessions[t].userId

LEMMA OnlyClosingIs ==
  ASSUME Typed, Memory, OnlyClosing
  PROVE  \E S \in SUBSET Channel!Open :
           /\ channel' = Channel!close(S)
           /\ [t \in SessionIds |-> getBoundUser(t)]' = Channel!silence(S)
           /\ timely' \subseteq timely
<1> PICK S : S = { t \in SessionIds : hasSession(t) /\ ~ hasSession(t)' }
  OBVIOUS
<1>1. S \in SUBSET Channel!Open
  BY ChannelIs DEF Channel!Open
<1>2. ASSUME NEW t \in SessionIds
      PROVE  /\ keysGiven[t] = keysGiven'[t]
             /\ hasSession(t) => keysGiven[t] > 0
             /\ hasSession(t)' => hasSession(t) /\ sessions'[t].userId = sessions[t].userId
             /\ t \in S <=> hasSession(t) /\ ~ hasSession(t)'
  BY DEF OnlyClosing, Memory, OneKey, hasSession
<1>3. channel' = Channel!close(S)
  BY <1>2 DEF channel, Channel!close
<1>4. [t \in SessionIds |-> getBoundUser(t)]' = Channel!silence(S)
  BY <1>2 DEF getBoundUser, Channel!silence
<1>5. timely' \subseteq timely
  <2>1. clock \in Int /\ clock' \in Int /\ clock <= clock' /\ NonceWindow \in Int
    BY Constants DEF Typed, OnlyClosing
  <2>2. \A m \in Messages :
          clock' - m.timestamp <= NonceWindow => clock - m.timestamp <= NonceWindow
    BY <2>1, MessagesAre
  <2> QED
    BY <2>2 DEF timely
<1> QED
  BY <1>1, <1>3, <1>4, <1>5

LEMMA ClosingImplements ==
  ASSUME Typed, Memory, Closing
  PROVE  Channel!Next
<1>1. OnlyClosing /\ UNCHANGED <<keysGiven, delivered>>
  BY DEF Closing, Forgetting, OnlyClosing
<1>2. PICK S \in SUBSET Channel!Open :
        /\ channel' = Channel!close(S)
        /\ [t \in SessionIds |-> getBoundUser(t)]' = Channel!silence(S)
        /\ timely' \subseteq timely
  BY <1>1, OnlyClosingIs
<1>3. Channel!Close(S)
  BY <1>1, <1>2 DEF Channel!Close
<1> QED
  BY <1>3 DEF Channel!Next

LEMMA OpensImplements ==
  ASSUME Typed, Memory, NEW s \in SessionIds, NEW room \in SUBSET DOMAIN sessions,
         Opens(s, room)
  PROVE  Channel!Next
<1> PICK S : S = { t \in SessionIds : t \in room /\ hasSession(t) }
  OBVIOUS
<1>1. S \in SUBSET Channel!Open
  BY ChannelIs DEF Channel!Open
<1>2. keysGiven[s] = 0 /\ ~ hasSession(s) /\ hasSession(s)' /\ s \notin S
  BY OpensIs DEF hasSession
<1>3. ASSUME NEW t \in SessionIds, t # s
      PROVE  /\ keysGiven'[t] = keysGiven[t]
             /\ hasSession(t) => keysGiven[t] > 0
             /\ hasSession(t)' <=> hasSession(t) /\ t \notin S
             /\ hasSession(t)' => sessions'[t].userId = sessions[t].userId
  <2>1. keysGiven'[t] = keysGiven[t] /\ UNCHANGED clock
    BY <1>3, OpensIs DEF Opens, Typed
  <2>2. hasSession(t) => keysGiven[t] > 0
    BY DEF Memory, OneKey, hasSession
  <2> PICK entries : entries = DOMAIN sessions'
    OBVIOUS
  <2> PICK after : after = sessions'
    OBVIOUS
  <2>4. /\ entries = (DOMAIN sessions \ room) \cup {s}
        /\ \A e \in entries \ {s} : after[e] = sessions[e]
    BY OpensIs
  <2>3. /\ t \in DOMAIN sessions' <=> t \in DOMAIN sessions /\ t \notin room
        /\ t \in DOMAIN sessions' => sessions'[t] = sessions[t]
    BY <1>3, <2>4
  <2> QED
    BY <2>1, <2>2, <2>3 DEF hasSession, isExpired
<1>4. channel' = [Channel!close(S) EXCEPT ![s] = "open"]
  BY <1>2, <1>3 DEF channel, Channel!close
<1>5. [t \in SessionIds |-> getBoundUser(t)]' = Channel!silence(S)
  <2>1. sessions'[s].userId = NoUser
    BY OpensIs
  <2> QED
    BY <1>2, <1>3, <2>1 DEF getBoundUser, Channel!silence
<1>6. /\ channel[s] = "new" /\ keysGiven' = [keysGiven EXCEPT ![s] = 1]
      /\ UNCHANGED <<timely, delivered>>
  <2>1. channel[s] = "new"
    BY <1>2, ChannelIs
  <2>2. keysGiven' = [keysGiven EXCEPT ![s] = 1]
    BY OpensIs
  <2> QED
    BY <2>1, <2>2 DEF Opens, timely
<1> QED
  BY <1>1, <1>2, <1>4, <1>5, <1>6 DEF Channel!Next, Channel!Establish

LEMMA ReceiveImplements ==
  ASSUME Typed, Memory, NEW s \in SessionIds, NEW m \in Messages, ReceiveMessage(s, m)
  PROVE  Channel!Next
<1>1. OnlyClosing
  BY ReceiveIs, ReceivingCloses DEF OnlyClosing
<1>2. PICK S \in SUBSET Channel!Open :
        /\ channel' = Channel!close(S)
        /\ [t \in SessionIds |-> getBoundUser(t)]' = Channel!silence(S)
        /\ timely' \subseteq timely
  BY <1>1, OnlyClosingIs
<1>3. CASE UNCHANGED delivered
  <2>1. Channel!Close(S)
    BY <1>2, <1>3, ReceiveIs DEF Channel!Close
  <2> QED
    BY <2>1 DEF Channel!Next
<1>4. CASE /\ delivered[s][m] = 0 \/ clock' - m.timestamp > NonceWindow
           /\ clock - m.timestamp <= NonceWindow
           /\ delivered' = [delivered EXCEPT ![s][m] = @ + 1]
  <2>1. channel[s] = "open" /\ UNCHANGED keysGiven
    BY ChannelIs, ReceiveIs
  <2>2. m \in timely /\ (delivered[s][m] = 0 \/ m \notin timely')
    <3>1. ~ (clock' - m.timestamp <= NonceWindow) \/ delivered[s][m] = 0
      BY <1>4, ReceiveIs, MessagesAre, Constants
    <3> QED
      BY <1>4, <3>1 DEF timely
  <2>3. Channel!Deliver(s, m, S)
    BY <1>2, <1>4, <2>1, <2>2 DEF Channel!Deliver
  <2> QED
    BY <2>3 DEF Channel!Next
<1> QED
  BY <1>3, <1>4, ReceiveIs

LEMMA BindImplements ==
  ASSUME Typed, Memory, NEW s \in SessionIds, NEW u \in Users, BindUser(s, u)
  PROVE  Channel!Next \/ UNCHANGED Channel!channelVars
<1>1. UNCHANGED <<keysGiven, timely, delivered>>
  BY DEF BindUser, timely
<1>2. channel' = channel
  BY <1>1, BindIs DEF channel
<1>3. channel[s] = "open"
  BY BindIs, ChannelIs
<1>4. CASE sessions[s].userId = u
  <2>1. [t \in SessionIds |-> getBoundUser(t)]' = [t \in SessionIds |-> getBoundUser(t)]
    BY <1>4, BindIs DEF getBoundUser
  <2> QED
    BY <1>1, <1>2, <2>1 DEF Channel!channelVars
<1>5. CASE sessions[s].userId = NoUser
  <2>1. [t \in SessionIds |-> getBoundUser(t)]'
          = [[t \in SessionIds |-> getBoundUser(t)] EXCEPT ![s] = u]
    BY BindIs DEF getBoundUser
  <2>2. getBoundUser(s) = NoUser
    BY <1>5 DEF getBoundUser
  <2>3. Channel!Bind(s, u)
    BY <1>1, <1>2, <1>3, <2>1, <2>2 DEF Channel!Bind
  <2> QED
    BY <2>3 DEF Channel!Next
<1> QED
  BY <1>4, <1>5, BindIs

LEMMA NextImplements ==
  Typed /\ Memory /\ [Next]_vars => [Channel!Next]_(Channel!channelVars)
<1> SUFFICES ASSUME Typed, Memory, [Next]_vars
             PROVE  Channel!Next \/ UNCHANGED Channel!channelVars
  OBVIOUS
<1>1. CASE Next
  BY <1>1, Steps, ClosingImplements, OpensImplements, ReceiveImplements, BindImplements
<1>2. CASE UNCHANGED vars
  BY <1>2 DEF vars, Channel!channelVars, channel, getBoundUser, hasSession, isExpired,
    timely
<1> QED
  BY <1>1, <1>2

LEMMA InitRemembers == Init => Memory
BY DEF Init, Memory, OneKey, Remembered

(* Whatever arrives, expires, is evicted or swept, and whenever the        *)
(* process restarts: no id gets a second key, no channel changes its user, *)
(* and a message is handed to the handlers once, or once more by a request *)
(* between whose timestamp check and whose look at the nonces its window   *)
(* ends.                                                                   *)
THEOREM SessionsImplementSecureChannel == Spec => ImplementsSecureChannel
<1> USE DEF ImplementsSecureChannel, Channel!Spec
<1> QED
  BY InitTyped, TypeInductive, InitRemembers, MemoryInductive, InitImplements,
    NextImplements, PTL DEF Spec
-----------------------------------------------------------------------------
(* The factors of a sensitive request. *)
LEMMA FactorConstants ==
  /\ OtpTtl \in Nat /\ TokenTtl \in Nat /\ MaxLiveTokens \in Nat /\ MaxTokens \in Nat
  /\ Minute \in Nat \ {0} /\ Day \in Nat \ {0} /\ Cooldown \in Nat \ {0}
  /\ MaxAttempts \in Nat \ {0}
  /\ PerMinuteMax \in Nat \ {0} /\ PerDayMax \in Nat \ {0}
  /\ Cooldown <= OtpTtl /\ NeedsOtp \subseteq Requests
BY StepUpAssumption

LEMMA AuthenticatedIs ==
  ASSUME NEW s \in SessionIds, authenticated(s)
  PROVE  /\ GetSessionKey(s) /\ s \in DOMAIN sessions /\ UNCHANGED clock
         /\ keysGiven' = keysGiven /\ DOMAIN sessions' = DOMAIN sessions
<1>1. hasSession(s)
  BY DEF authenticated, getBoundUser
<1>2. GetSessionKey(s) /\ s \in DOMAIN sessions
  BY <1>1 DEF authenticated, GetSessionKey, hasSession
<1>3. DOMAIN sessions' = DOMAIN sessions
  BY <1>2 DEF authenticated, with
<1> QED
  BY <1>2, <1>3 DEF authenticated

(* What a step may do to codes, tokens and counters. *)
Authenticates == \E s \in SessionIds : authenticated(s)

TokensStay == UNCHANGED <<minted, consumed, clears>>

CodesStay == UNCHANGED <<slots, wrong>>

CountersStay == UNCHANGED <<velocity, allowed>>

(* A session step, seen from the factors. *)
LEMMA StepUpIsSessions ==
  ASSUME [StepUpNext]_stepUpVars
  PROVE  [Next]_vars
<1>1. CASE FactorStep
  <2>1. \/ \E s \in SessionIds : authenticated(s)
        \/ UNCHANGED vars
        \/ \E caller \in SessionIds, s \in SessionIds, r \in Requests :
             MintActionToken(caller, s, r)
    BY <1>1 DEF FactorStep, RequestOtp, VerifyOtpRight, VerifyOtpWrong, DropExpiredCode,
      Gate, GateRefusesActionToken
  <2>2. ASSUME NEW caller \in SessionIds, NEW s, NEW r, MintActionToken(caller, s, r)
        PROVE  GetSessionKey(caller)
    BY <2>2 DEF MintActionToken, GetSessionKey, hasSession
  <2> QED
    BY <2>1, <2>2, AuthenticatedIs DEF Next
<1>2. CASE SessionStep /\ UNCHANGED factorVars
  BY <1>2 DEF SessionStep, Next
<1>3. CASE RestartFactors
  BY <1>3 DEF RestartFactors, Next
<1>4. CASE UNCHANGED stepUpVars
  BY <1>4 DEF stepUpVars
<1> QED
  BY <1>1, <1>2, <1>3, <1>4 DEF StepUpNext

THEOREM FactorsKeepSessions == StepUpSpec => Spec
<1>1. StepUpInit => Init
  BY DEF StepUpInit
<1> QED
  BY <1>1, StepUpIsSessions, PTL DEF StepUpSpec, Spec

(* Requests that show factors keep the promise of the sessions below them, *)
(* the second delivery at the end of a window included.                    *)
THEOREM FactorsKeepSecureChannel == StepUpSpec => ImplementsSecureChannel
BY FactorsKeepSessions, SessionsImplementSecureChannel, PTL
-----------------------------------------------------------------------------
(* The steps, by what they do to codes, tokens and counters *)

LEMMA CodeSteps ==
  ASSUME [StepUpNext]_stepUpVars
  PROVE  \/ CodesStay
         \/ \E s \in SessionIds, r \in Requests :
              \/ RequestOtp(s, r) \/ VerifyOtpRight(s, r) \/ VerifyOtpWrong(s, r)
              \/ DropExpiredCode(s, r)
         \/ RestartFactors
BY DEF StepUpNext, FactorStep, MintActionToken, Gate, GateRefusesActionToken, factorVars,
  stepUpVars, CodesStay

(* A token is minted for a session, or spent by a request that may. *)
Spends(K, s, r, token) ==
  /\ K \in SUBSET Kinds
  /\ \A k \in K : acceptsToken(k, token[k], s, r)
  /\ spend(K, token)

LEMMA TokenSteps ==
  ASSUME [StepUpNext]_stepUpVars
  PROVE  \/ TokensStay
         \/ \E k \in Kinds, s \in SessionIds, r \in Requests : mint(k, s, r)
         \/ \E K \in SUBSET Kinds, s \in SessionIds, r \in Requests, token \in Tokens :
              Spends(K, s, r, token)
         \/ RestartFactors
<1>1. ASSUME NEW s \in SessionIds, NEW r \in Requests, NEW token \in Tokens,
             Gate(s, r, token)
      PROVE  \E K \in SUBSET Kinds : Spends(K, s, r, token)
  <2>1. Spends(factorsOf(r), s, r, token)
    BY <1>1 DEF Gate, Spends, factorsOf, Kinds
  <2> QED
    BY <2>1 DEF Spends
<1>2. ASSUME NEW s \in SessionIds, NEW r \in Requests, NEW token \in Tokens,
             GateRefusesActionToken(s, r, token)
      PROVE  \E K \in SUBSET Kinds : Spends(K, s, r, token)
  <2>1. Spends({"otp"}, s, r, token)
    BY <1>2 DEF GateRefusesActionToken, Spends, Kinds
  <2> QED
    BY <2>1 DEF Spends
<1>3. CASE FactorStep
  <2>1. "otp" \in Kinds /\ "action" \in Kinds
    BY DEF Kinds
  <2> QED
    BY <1>1, <1>2, <1>3, <2>1 DEF FactorStep, RequestOtp, VerifyOtpRight, VerifyOtpWrong,
      DropExpiredCode, MintActionToken, TokensStay
<1> QED
  BY <1>3 DEF StepUpNext, factorVars, stepUpVars, TokensStay

LEMMA CounterSteps ==
  ASSUME [StepUpNext]_stepUpVars
  PROVE  \/ CountersStay
         \/ \E s \in SessionIds, a \in Actions : authenticated(s) /\ recordAttempt(s, a)
         \/ RestartFactors
<1>1. ASSUME NEW s \in SessionIds, NEW r \in Requests, NEW token \in Tokens,
             Gate(s, r, token)
      PROVE  \E a \in Actions : authenticated(s) /\ recordAttempt(s, a)
  BY <1>1 DEF Gate, Actions
<1>2. CASE FactorStep
  BY <1>1, <1>2 DEF FactorStep, RequestOtp, VerifyOtpRight, VerifyOtpWrong,
    DropExpiredCode, MintActionToken, GateRefusesActionToken, CountersStay
<1> QED
  BY <1>2 DEF StepUpNext, factorVars, stepUpVars, CountersStay
-----------------------------------------------------------------------------
(* Tokens *)

TokensTyped ==
  /\ minted \in [Kinds -> Seq(Token)]
  /\ consumed \in [Kinds -> SUBSET Nat]
  /\ \A k \in Kinds : consumed[k] \subseteq 1..Len(minted[k])
  /\ clears \in [Kinds -> Nat]

(* A token that may still be accepted was accepted before each clearing at *)
(* the most; one that was accepted since is among the consumed.            *)
SpentOnce ==
  \A k \in Kinds : \A i \in 1..Len(minted[k]) :
    minted[k][i].uses <= clears[k] + IF i \in consumed[k] THEN 1 ELSE 0

LEMMA ClockIs ==
  ASSUME Typed, Typed', [StepUpNext]_stepUpVars
  PROVE  clock \in Nat /\ clock' \in Nat /\ clock <= clock'
<1>1. [Next]_vars
  BY StepUpIsSessions
<1>2. clock \in Nat /\ clock' \in Nat
  BY Constants DEF Typed
<1>3. ASSUME NEW s \in SessionIds, NEW m \in Messages, ReceiveMessage(s, m)
      PROVE  clock <= clock'
  <2>1. PICK now, later : clock <= now /\ now <= later /\ clock' = later /\ now \in Int
    <3>1. \A now \in clock..MaxClock : now \in Int
      BY <1>2, Constants
    <3> QED
      BY <1>3, <3>1, ReceiveReads
  <2> QED
    BY <1>2, <2>1
<1>4. \/ clock' \in {clock, clock + 1}
      \/ \E s \in SessionIds, m \in Messages : ReceiveMessage(s, m)
  BY <1>1 DEF Next, vars, GetSession, Handshake, GetSessionKey, BindUser,
    Logout, WipeOthers, SweepHandshakes, SweepSessions, Tick, Restart
<1> QED
  BY <1>2, <1>3, <1>4

LEMMA MintKeeps ==
  ASSUME Typed, TokensTyped, SpentOnce,
         NEW k \in Kinds, NEW s \in SessionIds, NEW r \in Requests, mint(k, s, r)
  PROVE  TokensTyped' /\ SpentOnce'
<1> PICK token :
      token = [session |-> s, request |-> r, exp |-> clock + TokenTtl, uses |-> 0]
  OBVIOUS
<1>1. token \in Token /\ token.uses = 0
  BY Constants, FactorConstants DEF Typed, Token
<1>2. minted' = [minted EXCEPT ![k] = Append(minted[k], token)]
  BY DEF mint
<1>3. \/ /\ consumed' = [consumed EXCEPT ![k] = {}]
         /\ clears' = [clears EXCEPT ![k] = @ + 1]
      \/ UNCHANGED <<consumed, clears>>
  BY DEF mint
<1>4. /\ minted[k] \in Seq(Token) /\ Len(minted[k]) \in Nat
      /\ Append(minted[k], token) \in Seq(Token)
      /\ Len(Append(minted[k], token)) = Len(minted[k]) + 1
      /\ \A i \in 1..Len(minted[k]) : Append(minted[k], token)[i] = minted[k][i]
      /\ Append(minted[k], token)[Len(minted[k]) + 1] = token
  BY <1>1 DEF TokensTyped
<1>5. minted' \in [Kinds -> Seq(Token)]
  BY <1>2, <1>4 DEF TokensTyped
<1>6. /\ consumed' \in [Kinds -> SUBSET Nat] /\ clears' \in [Kinds -> Nat]
      /\ \A j \in Kinds :
           /\ consumed'[j] \subseteq consumed[j]
           /\ \/ consumed'[j] = {} /\ clears'[j] = clears[j] + 1
              \/ consumed'[j] = consumed[j] /\ clears'[j] = clears[j]
  <2>1. consumed \in [Kinds -> SUBSET Nat] /\ clears \in [Kinds -> Nat]
    BY DEF TokensTyped
  <2>2. CASE UNCHANGED <<consumed, clears>>
    BY <2>1, <2>2
  <2>3. CASE consumed' = [consumed EXCEPT ![k] = {}] /\ clears' = [clears EXCEPT ![k] = @ + 1]
    <3>1. consumed' \in [Kinds -> SUBSET Nat]
      BY <2>1, <2>3
    <3>2. clears' \in [Kinds -> Nat] /\ clears'[k] = clears[k] + 1
      BY <2>1, <2>3
    <3>3. consumed'[k] = {} /\ {} \subseteq consumed[k]
      BY <2>1, <2>3
    <3>4. \A j \in Kinds : j # k => consumed'[j] = consumed[j] /\ clears'[j] = clears[j]
      BY <2>1, <2>3
    <3> QED
      BY <3>1, <3>2, <3>3, <3>4
  <2> QED
    BY <1>3, <2>2, <2>3
<1>7. ASSUME NEW j \in Kinds
      PROVE  /\ consumed'[j] \subseteq 1..Len(minted'[j])
             /\ \A i \in 1..Len(minted'[j]) :
                  minted'[j][i].uses <= clears'[j] + IF i \in consumed'[j] THEN 1 ELSE 0
  <2>1. /\ consumed[j] \subseteq 1..Len(minted[j])
        /\ clears[j] \in Nat /\ minted[j] \in Seq(Token) /\ Len(minted[j]) \in Nat
        /\ \A i \in 1..Len(minted[j]) : minted[j][i].uses \in Nat
    <3>1. /\ consumed[j] \subseteq 1..Len(minted[j])
          /\ clears[j] \in Nat /\ minted[j] \in Seq(Token)
      BY DEF TokensTyped
    <3>2. Len(minted[j]) \in Nat /\ \A i \in 1..Len(minted[j]) : minted[j][i] \in Token
      BY <3>1
    <3> QED
      BY <3>1, <3>2 DEF Token
  <2>2. ASSUME NEW i \in 1..Len(minted[j])
        PROVE  minted[j][i].uses <= clears'[j] + IF i \in consumed'[j] THEN 1 ELSE 0
    <3>1. minted[j][i].uses <= clears[j] + IF i \in consumed[j] THEN 1 ELSE 0
      BY DEF SpentOnce
    <3>2. CASE consumed'[j] = {} /\ clears'[j] = clears[j] + 1
      BY <2>1, <3>1, <3>2
    <3>3. CASE consumed'[j] = consumed[j] /\ clears'[j] = clears[j]
      BY <3>1, <3>3
    <3> QED
      BY <1>6, <3>2, <3>3
  <2>3. CASE j # k
    <3>1. minted'[j] = minted[j]
      BY <1>2, <2>3 DEF TokensTyped
    <3> QED
      BY <1>6, <2>1, <2>2, <3>1
  <2>4. CASE j = k
    <3>1. minted'[j] = Append(minted[j], token)
      BY <1>2, <2>4 DEF TokensTyped
    <3>2. Len(minted'[j]) = Len(minted[j]) + 1
      BY <1>4, <2>4, <3>1
    <3>3. consumed'[j] \subseteq 1..Len(minted'[j])
      BY <1>6, <2>1, <3>2
    <3>4. ASSUME NEW i \in 1..Len(minted'[j])
          PROVE  minted'[j][i].uses <= clears'[j] + IF i \in consumed'[j] THEN 1 ELSE 0
      <4>1. CASE i \in 1..Len(minted[j])
        BY <1>4, <2>2, <2>4, <3>1, <4>1
      <4>2. CASE i = Len(minted[j]) + 1
        <5>1. minted'[j][i].uses = 0
          BY <1>1, <1>4, <2>4, <3>1, <4>2
        <5>2. clears'[j] \in Nat
          BY <1>6
        <5> QED
          BY <5>1, <5>2
      <4> QED
        BY <2>1, <3>2, <4>1, <4>2
    <3> QED
      BY <3>3, <3>4
  <2> QED
    BY <2>3, <2>4
<1> QED
  BY <1>5, <1>6, <1>7 DEF TokensTyped, SpentOnce

LEMMA SpendKeeps ==
  ASSUME TokensTyped, SpentOnce, NEW K \in SUBSET Kinds,
         NEW s \in SessionIds, NEW r \in Requests, NEW token \in Tokens,
         Spends(K, s, r, token)
  PROVE  TokensTyped' /\ SpentOnce'
<1>1. /\ consumed' = [k \in Kinds |->
           IF k \in K THEN consumed[k] \cup {token[k]} ELSE consumed[k]]
      /\ minted' = [k \in Kinds |->
           IF k \in K THEN [minted[k] EXCEPT ![token[k]].uses = @ + 1] ELSE minted[k]]
      /\ UNCHANGED clears
  BY DEF Spends, spend
<1>2. ASSUME NEW j \in Kinds
      PROVE  /\ minted'[j] \in Seq(Token) /\ consumed'[j] \in SUBSET Nat
             /\ consumed'[j] \subseteq 1..Len(minted'[j])
             /\ \A i \in 1..Len(minted'[j]) :
                  minted'[j][i].uses <= clears[j] + IF i \in consumed'[j] THEN 1 ELSE 0
  <2>1. /\ consumed[j] \subseteq 1..Len(minted[j]) /\ consumed[j] \in SUBSET Nat
        /\ clears[j] \in Nat /\ minted[j] \in Seq(Token) /\ Len(minted[j]) \in Nat
        /\ \A i \in 1..Len(minted[j]) :
             minted[j][i].uses <= clears[j] + IF i \in consumed[j] THEN 1 ELSE 0
    BY DEF TokensTyped, SpentOnce
  <2>2. CASE j \notin K
    BY <1>1, <2>1, <2>2
  <2>3. CASE j \in K
    <3> PICK n : n = token[j]
      OBVIOUS
    <3>1. n \in 1..Len(minted[j]) /\ n \notin consumed[j] /\ n \in Nat
      BY <2>1, <2>3 DEF Spends, acceptsToken
    <3> PICK spent : spent = [minted[j][n] EXCEPT !.uses = @ + 1]
      OBVIOUS
    <3>2. minted[j][n] \in Token
      BY <2>1, <3>1
    <3>3. spent \in Token /\ spent.uses = minted[j][n].uses + 1
      BY <3>2 DEF Token
    <3>4. /\ minted'[j] = [minted[j] EXCEPT ![n] = spent]
          /\ consumed'[j] = consumed[j] \cup {n}
      BY <1>1, <2>3
    <3>5. /\ minted'[j] \in Seq(Token) /\ Len(minted'[j]) = Len(minted[j])
          /\ minted'[j][n] = spent
          /\ \A i \in 1..Len(minted[j]) : i # n => minted'[j][i] = minted[j][i]
      BY <2>1, <3>1, <3>3, <3>4
    <3>6. ASSUME NEW i \in 1..Len(minted[j])
          PROVE  minted'[j][i].uses <= clears[j] + IF i \in consumed'[j] THEN 1 ELSE 0
      <4>1. CASE i = n
        <5>1. minted[j][n].uses <= clears[j] /\ minted[j][n].uses \in Nat
          BY SMTT(30), <2>1, <3>1, <3>2 DEF Token
        <5>2. minted'[j][i].uses <= clears[j] + 1 /\ i \in consumed'[j]
          BY <2>1, <3>3, <3>4, <3>5, <4>1, <5>1
        <5> QED
          BY <5>2
      <4>2. CASE i # n
        BY <2>1, <3>4, <3>5, <4>2
      <4> QED
        BY <4>1, <4>2
    <3> QED
      BY <2>1, <3>1, <3>4, <3>5, <3>6
  <2> QED
    BY <2>2, <2>3
<1>3. minted' \in [Kinds -> Seq(Token)] /\ consumed' \in [Kinds -> SUBSET Nat]
  <2>1. minted' = [j \in Kinds |-> minted'[j]] /\ consumed' = [j \in Kinds |-> consumed'[j]]
    BY <1>1
  <2> QED
    BY <1>2, <2>1
<1> QED
  BY <1>1, <1>2, <1>3 DEF TokensTyped, SpentOnce

LEMMA TokensForgotten ==
  ASSUME TokensTyped, RestartFactors
  PROVE  TokensTyped' /\ SpentOnce'
<1>1. /\ consumed' = [k \in Kinds |-> {}] /\ minted' = [k \in Kinds |-> << >>]
      /\ UNCHANGED clears
  BY DEF RestartFactors
<1>2. << >> \in Seq(Token) /\ Len(<< >>) = 0 /\ {} \in SUBSET Nat
  OBVIOUS
<1>3. \A k \in Kinds : Len(minted'[k]) = 0 /\ consumed'[k] = {}
  BY <1>1, <1>2
<1>4. minted' \in [Kinds -> Seq(Token)] /\ consumed' \in [Kinds -> SUBSET Nat]
  BY <1>1, <1>2
<1>5. 1..0 = {}
  OBVIOUS
<1> QED
  BY <1>1, <1>3, <1>4, <1>5 DEF TokensTyped, SpentOnce

LEMMA TokensInductive ==
  ASSUME Typed, TokensTyped, SpentOnce, [StepUpNext]_stepUpVars
  PROVE  TokensTyped' /\ SpentOnce'
<1>1. CASE TokensStay
  BY <1>1 DEF TokensStay, TokensTyped, SpentOnce
<1> QED
  BY <1>1, TokenSteps, MintKeeps, SpendKeeps, TokensForgotten

LEMMA InitTokens == StepUpInit => TokensTyped /\ SpentOnce
<1> SUFFICES ASSUME StepUpInit
             PROVE  TokensTyped /\ SpentOnce
  OBVIOUS
<1>1. /\ minted = [k \in Kinds |-> << >>] /\ consumed = [k \in Kinds |-> {}]
      /\ clears = [k \in Kinds |-> 0]
  BY DEF StepUpInit
<1>2. << >> \in Seq(Token) /\ Len(<< >>) = 0 /\ {} \in SUBSET Nat /\ 1..0 = {}
  OBVIOUS
<1>3. \A k \in Kinds : Len(minted[k]) = 0 /\ consumed[k] = {}
  BY <1>1, <1>2
<1> QED
  BY <1>1, <1>2, <1>3 DEF TokensTyped, SpentOnce

LEMMA StepUpTyped == StepUpSpec => []Typed
BY FactorsKeepSessions, InitTyped, TypeInductive, PTL DEF Spec

(* A one-time code's token and a passkey assertion's are good for one      *)
(* request each, in whatever order requests, restarts and refusals come,   *)
(* but for one more each time the consumed ids were cleared.               *)
THEOREM TokensAcceptedOnceHolds == StepUpSpec => []TokensAcceptedOnce
<1>1. TokensTyped /\ SpentOnce => TokensAcceptedOnce
  <2> SUFFICES ASSUME TokensTyped, SpentOnce, NEW k \in Kinds, NEW i \in 1..Len(minted[k])
               PROVE  minted[k][i].uses <= 1 + clears[k]
    BY DEF TokensAcceptedOnce
  <2>1. minted[k] \in Seq(Token) /\ clears[k] \in Nat
    BY DEF TokensTyped
  <2>2. minted[k][i] \in Token
    BY <2>1
  <2>3. minted[k][i].uses \in Nat
    BY <2>2 DEF Token
  <2>4. minted[k][i].uses <= clears[k] + IF i \in consumed[k] THEN 1 ELSE 0
    BY DEF SpentOnce
  <2> QED
    BY <2>1, <2>3, <2>4
<1>2. Typed /\ TokensTyped /\ SpentOnce /\ [StepUpNext]_stepUpVars
        => TokensTyped' /\ SpentOnce'
  BY TokensInductive
<1> QED
  BY <1>1, <1>2, InitTokens, StepUpTyped, PTL DEF StepUpSpec
-----------------------------------------------------------------------------
(* The life of a session, and time *)

Ended(s) == keysGiven[s] = 1 /\ s \notin DOMAIN sessions

LEMMA EndedStays ==
  ASSUME Typed, Memory, [StepUpNext]_stepUpVars, NEW s \in SessionIds
  PROVE  /\ Ended(s) => Ended(s)'
         /\ keysGiven'[s] = 0 => keysGiven[s] = 0
<1>1. CASE Next
  <2>1. CASE Closing
    BY <2>1 DEF Closing, Forgetting, Ended
  <2>2. ASSUME NEW t \in SessionIds, NEW room, Opens(t, room)
        PROVE  /\ Ended(s) => Ended(s)'
               /\ keysGiven'[s] = 0 => keysGiven[s] = 0
    <3> PICK entries : entries = DOMAIN sessions'
      OBVIOUS
    <3>1. /\ keysGiven[t] = 0 /\ keysGiven' = [keysGiven EXCEPT ![t] = 1]
          /\ entries = (DOMAIN sessions \ room) \cup {t}
      BY <2>2, OpensIs
    <3>2. keysGiven \in [SessionIds -> Nat]
      BY DEF Typed
    <3> QED
      BY <3>1, <3>2 DEF Ended
  <2>3. ASSUME NEW t \in SessionIds, NEW m \in Messages, ReceiveMessage(t, m)
        PROVE  /\ Ended(s) => Ended(s)'
               /\ keysGiven'[s] = 0 => keysGiven[s] = 0
    <3>1. UNCHANGED keysGiven /\ DOMAIN sessions' = DOMAIN sessions
      BY <2>3, ReceiveIs DEF ReceiveMessage
    <3> QED
      BY <3>1 DEF Ended
  <2>4. ASSUME NEW t \in SessionIds, NEW u \in Users, BindUser(t, u)
        PROVE  /\ Ended(s) => Ended(s)'
               /\ keysGiven'[s] = 0 => keysGiven[s] = 0
    <3>1. Forgetting
      BY <2>4, BindIs
    <3> QED
      BY <3>1 DEF Forgetting, Ended
  <2> QED
    BY <1>1, <2>1, <2>2, <2>3, <2>4, Steps
<1>2. CASE UNCHANGED vars
  BY <1>2 DEF vars, Ended
<1> QED
  BY <1>1, <1>2, StepUpIsSessions

LEMMA Periods ==
  ASSUME NEW d \in Nat \ {0}
  PROVE  /\ \A a \in Nat : a \div d \in Nat
         /\ \A a, b \in Nat : a <= b => a \div d <= b \div d
         /\ \A a, b \in Nat : a + d <= b => (a \div d) + 1 <= b \div d
<1>1. \A a \in Nat : a \div d \in Nat
  OBVIOUS
<1>2. ASSUME NEW a \in Nat, NEW b \in Nat, a <= b
      PROVE  a \div d <= b \div d
  BY <1>2
<1>3. ASSUME NEW a \in Nat, NEW b \in Nat, a + d <= b
      PROVE  (a \div d) + 1 <= b \div d
  <2>1. (a + d) \div d = (a \div d) + 1
    OBVIOUS
  <2>2. a + d \in Nat
    OBVIOUS
  <2> QED
    BY <1>2, <1>3, <2>1, <2>2
<1> QED
  BY <1>1, <1>2, <1>3

LEMMA Products ==
  /\ \A x, y \in Nat : x * y \in Nat
  /\ \A x, y, z \in Nat : y <= z => x * y <= x * z
  /\ \A x, y, z \in Nat : y + 1 <= z => x * y + x <= x * z
  /\ \A x, y \in Nat : x * (1 + y) = x + x * y
<1>1. \A x, y \in Nat : x * y \in Nat
  OBVIOUS
<1>2. \A x, y, z \in Nat : y <= z => x * y <= x * z
  OBVIOUS
<1>3. \A x, y \in Nat : x * (1 + y) = x + x * y
  OBVIOUS
<1>4. ASSUME NEW x \in Nat, NEW y \in Nat, NEW z \in Nat, y + 1 <= z
      PROVE  x * y + x <= x * z
  <2>1. y + 1 \in Nat /\ x * (y + 1) = x * y + x
    OBVIOUS
  <2> QED
    BY <1>2, <1>4, <2>1
<1> QED
  BY <1>1, <1>2, <1>3, <1>4
-----------------------------------------------------------------------------
(* One-time codes *)

Code == [createdAt : Nat, expiresAt : Nat, attempts : 0..MaxAttempts]

CodesTyped ==
  /\ DOMAIN slots \subseteq SessionIds \X NeedsOtp
  /\ slots \in [DOMAIN slots -> Code]
  /\ \A k \in DOMAIN slots :
       /\ slots[k].createdAt <= clock
       /\ slots[k].expiresAt = slots[k].createdAt + OtpTtl
  /\ wrong \in [SessionIds -> [Requests -> Nat]]

(* The misses before the live code was made had a code in each of the      *)
(* cooldowns that ended since.  The misses of a session whose codes were   *)
(* lost with the process stand, since the session is gone as well.         *)
GuessesCounted(s, r) ==
  /\ <<s, r>> \in DOMAIN slots =>
       wrong[s][r] <= slots[<<s, r>>].attempts
                        + MaxAttempts * (slots[<<s, r>>].createdAt \div Cooldown)
  /\ <<s, r>> \notin DOMAIN slots =>
       \/ wrong[s][r] <= MaxAttempts * (clock \div Cooldown)
       \/ Ended(s) /\ wrong[s][r] <= MaxAttempts * (1 + clock \div Cooldown)
  /\ keysGiven[s] = 0 => wrong[s][r] = 0

CodesCounted ==
  \A s \in SessionIds, r \in Requests : GuessesCounted(s, r)

LEMMA CodeIs ==
  ASSUME CodesTyped, NEW k \in DOMAIN slots
  PROVE  /\ slots[k] \in Code
         /\ slots[k].createdAt \in Nat /\ slots[k].expiresAt \in Nat
         /\ slots[k].attempts \in 0..MaxAttempts
         /\ slots[k].createdAt <= clock
         /\ slots[k].expiresAt = slots[k].createdAt + OtpTtl
BY DEF CodesTyped, Code

(* When a code is over its misses are of a cooldown that is over. *)
LEMMA CooldownOver ==
  ASSUME Typed, CodesTyped, NEW s \in SessionIds, NEW r \in Requests,
         GuessesCounted(s, r), <<s, r>> \in DOMAIN slots,
         slots[<<s, r>>].createdAt + Cooldown <= clock
  PROVE  wrong[s][r] <= MaxAttempts * (clock \div Cooldown)
<1> PICK code \in Code : code = slots[<<s, r>>]
  BY CodeIs
<1>1. /\ code.createdAt \in Nat /\ code.attempts \in 0..MaxAttempts
      /\ clock \in Nat /\ wrong[s][r] \in Nat
  BY Constants DEF Code, Typed, CodesTyped
<1> PICK before \in Nat : before = code.createdAt \div Cooldown
  BY <1>1, FactorConstants, Periods
<1> PICK now \in Nat : now = clock \div Cooldown
  BY <1>1, FactorConstants, Periods
<1>2. before + 1 <= now
  BY <1>1, FactorConstants, Periods
<1>3. /\ MaxAttempts * before \in Nat /\ MaxAttempts * now \in Nat
      /\ MaxAttempts * before + MaxAttempts <= MaxAttempts * now
  BY <1>2, FactorConstants, Products
<1>4. wrong[s][r] <= code.attempts + MaxAttempts * before
  BY DEF GuessesCounted
<1> QED
  BY <1>1, <1>3, <1>4, FactorConstants

LEMMA CountedIsBounded ==
  ASSUME Typed, CodesTyped, NEW s \in SessionIds, NEW r \in Requests,
         GuessesCounted(s, r)
  PROVE  wrong[s][r] <= MaxAttempts * (1 + clock \div Cooldown)
<1>1. clock \in Nat /\ wrong[s][r] \in Nat /\ MaxAttempts \in Nat
  BY Constants, FactorConstants DEF Typed, CodesTyped
<1> PICK now \in Nat : now = clock \div Cooldown
  BY <1>1, FactorConstants, Periods
<1> PICK misses \in Nat : misses = MaxAttempts * now
  BY <1>1, Products
<1>2. MaxAttempts * (1 + now) = MaxAttempts + misses
  BY <1>1, Products
<1>3. CASE <<s, r>> \in DOMAIN slots
  <2> PICK code \in Code : code = slots[<<s, r>>]
    BY <1>3, CodeIs
  <2>1. /\ code.createdAt \in Nat /\ code.attempts \in 0..MaxAttempts
        /\ code.createdAt <= clock
    BY <1>3, CodeIs
  <2> PICK before \in Nat : before = code.createdAt \div Cooldown
    BY <2>1, FactorConstants, Periods
  <2>2. before <= now
    BY <1>1, <2>1, FactorConstants, Periods
  <2>3. MaxAttempts * before \in Nat /\ MaxAttempts * before <= misses
    BY <1>1, <2>2, Products
  <2>4. wrong[s][r] <= code.attempts + MaxAttempts * before
    BY <1>3 DEF GuessesCounted
  <2> QED
    BY <1>1, <1>2, <2>1, <2>3, <2>4
<1>4. CASE <<s, r>> \notin DOMAIN slots
  BY <1>1, <1>2, <1>4 DEF GuessesCounted
<1> QED
  BY <1>3, <1>4

LEMMA CodesStayTyped ==
  ASSUME Typed, Typed', CodesTyped, [StepUpNext]_stepUpVars
  PROVE  CodesTyped'
<1>1. clock \in Nat /\ clock' \in Nat /\ clock <= clock'
  BY ClockIs
<1>2. CASE CodesStay
  BY <1>1, <1>2, CodeIs DEF CodesStay, CodesTyped
<1>3. ASSUME NEW s \in SessionIds, NEW r \in Requests, RequestOtp(s, r)
      PROVE  CodesTyped'
  <2>1. CASE UNCHANGED slots
    BY <1>2, <1>3, <2>1 DEF RequestOtp, CodesStay
  <2>2. CASE ~ UNCHANGED slots
    <3> PICK code : code = [ createdAt |-> clock, expiresAt |-> clock + OtpTtl,
                             attempts |-> 0 ]
      OBVIOUS
    <3>1. /\ code \in Code
          /\ code.createdAt <= clock /\ code.expiresAt = code.createdAt + OtpTtl
      BY <1>1, FactorConstants DEF Code
    <3>2. /\ slots' = with(slots, <<s, r>>, code) /\ UNCHANGED wrong
          /\ r \in NeedsOtp /\ UNCHANGED clock
      BY <1>3, <2>2, AuthenticatedIs DEF RequestOtp
    <3> PICK k : k = <<s, r>>
      OBVIOUS
    <3>3. /\ DOMAIN slots' = DOMAIN slots \cup {k} /\ slots'[k] = code
          /\ slots' \in [DOMAIN slots' -> Code]
          /\ \A j \in DOMAIN slots \ {k} : slots'[j] = slots[j]
      BY <3>1, <3>2 DEF with, CodesTyped
    <3>4. k \in SessionIds \X NeedsOtp
      BY <3>2
    <3> QED
      BY <3>1, <3>2, <3>3, <3>4 DEF CodesTyped
  <2> QED
    BY <2>1, <2>2
<1>4. ASSUME NEW k, slots' = without(slots, {k}), UNCHANGED clock,
             wrong' \in [SessionIds -> [Requests -> Nat]]
      PROVE  CodesTyped'
  <2>1. /\ DOMAIN slots' = DOMAIN slots \ {k} /\ slots' \in [DOMAIN slots' -> Code]
        /\ \A j \in DOMAIN slots' : slots'[j] = slots[j]
    BY <1>4 DEF without, CodesTyped
  <2> QED
    BY <1>4, <2>1 DEF CodesTyped
<1>5. ASSUME NEW s \in SessionIds, NEW r \in Requests, VerifyOtpRight(s, r)
      PROVE  CodesTyped'
  <2>1. /\ slots' = without(slots, {<<s, r>>}) /\ UNCHANGED clock
        /\ wrong' = [wrong EXCEPT ![s][r] = 0]
    BY <1>5, AuthenticatedIs DEF VerifyOtpRight
  <2>2. wrong' \in [SessionIds -> [Requests -> Nat]]
    BY <2>1 DEF CodesTyped
  <2> QED
    BY <1>4, <2>1, <2>2
<1>6. ASSUME NEW s \in SessionIds, NEW r \in Requests, VerifyOtpWrong(s, r)
      PROVE  CodesTyped'
  <2> PICK k : k = <<s, r>>
    OBVIOUS
  <2>1. /\ k \in DOMAIN slots /\ UNCHANGED clock
        /\ slots[k].attempts < MaxAttempts
        /\ slots' = [slots EXCEPT ![k].attempts = @ + 1]
        /\ wrong' = [wrong EXCEPT ![s][r] = @ + 1]
    BY <1>6, AuthenticatedIs, CodeIs, FactorConstants DEF VerifyOtpWrong, locked
  <2> PICK code : code = [slots[k] EXCEPT !.attempts = @ + 1]
    OBVIOUS
  <2>2. /\ code \in Code /\ code.createdAt = slots[k].createdAt
        /\ code.expiresAt = slots[k].expiresAt
    BY <2>1, CodeIs, FactorConstants DEF Code
  <2>3. /\ DOMAIN slots' = DOMAIN slots /\ slots' \in [DOMAIN slots' -> Code]
        /\ slots'[k] = code
        /\ \A j \in DOMAIN slots \ {k} : slots'[j] = slots[j]
    BY <2>1, <2>2 DEF CodesTyped
  <2>4. wrong' \in [SessionIds -> [Requests -> Nat]]
    BY <2>1 DEF CodesTyped
  <2>5. ASSUME NEW j \in DOMAIN slots'
        PROVE  /\ slots'[j].createdAt <= clock'
               /\ slots'[j].expiresAt = slots'[j].createdAt + OtpTtl
    <3>1. j \in DOMAIN slots
      BY <2>3
    <3>2. /\ slots[j].createdAt <= clock
          /\ slots[j].expiresAt = slots[j].createdAt + OtpTtl
      BY <3>1, CodeIs
    <3>3. /\ slots'[j].createdAt = slots[j].createdAt
          /\ slots'[j].expiresAt = slots[j].expiresAt
      BY <2>2, <2>3, <3>1
    <3> QED
      BY <2>1, <3>2, <3>3
  <2> QED
    BY <2>3, <2>4, <2>5 DEF CodesTyped
<1>7. ASSUME NEW s \in SessionIds, NEW r \in Requests, DropExpiredCode(s, r)
      PROVE  CodesTyped'
  <2>1. slots' = without(slots, {<<s, r>>}) /\ UNCHANGED <<clock, wrong>>
    BY <1>7 DEF DropExpiredCode, vars
  <2>2. wrong' \in [SessionIds -> [Requests -> Nat]]
    BY <2>1 DEF CodesTyped
  <2> QED
    BY <1>4, <2>1, <2>2
<1>8. CASE RestartFactors
  <2>1. slots' = << >> /\ UNCHANGED wrong /\ DOMAIN slots' = {}
    BY <1>8 DEF RestartFactors
  <2> QED
    BY <2>1 DEF CodesTyped
<1> QED
  BY <1>2, <1>3, <1>5, <1>6, <1>7, <1>8, CodeSteps

(* A step that touches another code, or only time and sessions. *)
LEMMA OtherCodes ==
  ASSUME Typed, Typed', Memory, CodesTyped, [StepUpNext]_stepUpVars,
         NEW s \in SessionIds, NEW r \in Requests, GuessesCounted(s, r),
         <<s, r>> \in DOMAIN slots' <=> <<s, r>> \in DOMAIN slots,
         <<s, r>> \in DOMAIN slots => slots'[<<s, r>>] = slots[<<s, r>>],
         wrong'[s][r] = wrong[s][r]
  PROVE  GuessesCounted(s, r)'
<1>1. clock \in Nat /\ clock' \in Nat /\ clock <= clock' /\ wrong[s][r] \in Nat
  BY ClockIs DEF CodesTyped
<1> PICK now \in Nat : now = clock \div Cooldown
  BY <1>1, FactorConstants, Periods
<1> PICK later \in Nat : later = clock' \div Cooldown
  BY <1>1, FactorConstants, Periods
<1>2. now <= later
  BY <1>1, FactorConstants, Periods
<1>3. /\ MaxAttempts * now \in Nat /\ MaxAttempts * later \in Nat
      /\ MaxAttempts * now <= MaxAttempts * later
      /\ MaxAttempts * (1 + now) \in Nat /\ MaxAttempts * (1 + later) \in Nat
      /\ MaxAttempts * (1 + now) <= MaxAttempts * (1 + later)
  BY <1>2, FactorConstants, Products
<1>4. (Ended(s) => Ended(s)') /\ (keysGiven'[s] = 0 => keysGiven[s] = 0)
  BY EndedStays
<1>5. CASE <<s, r>> \in DOMAIN slots
  BY <1>4, <1>5 DEF GuessesCounted
<1>6. CASE <<s, r>> \notin DOMAIN slots
  BY <1>1, <1>3, <1>4, <1>6 DEF GuessesCounted
<1> QED
  BY <1>5, <1>6

LEMMA GuessesInductive ==
  ASSUME Typed, Typed', Memory, CodesTyped, [StepUpNext]_stepUpVars,
         NEW s \in SessionIds, NEW r \in Requests, GuessesCounted(s, r)
  PROVE  GuessesCounted(s, r)'
<1> PICK k : k = <<s, r>>
  OBVIOUS
<1>1. clock \in Nat /\ wrong \in [SessionIds -> [Requests -> Nat]]
  BY ClockIs DEF CodesTyped
<1>2. CASE CodesStay
  BY <1>2, OtherCodes DEF CodesStay
<1>3. ASSUME NEW t \in SessionIds, NEW q \in Requests, authenticated(t)
      PROVE  ~ Ended(t) /\ keysGiven[t] # 0 /\ UNCHANGED <<clock, keysGiven>>
  BY <1>3, AuthenticatedIs DEF Ended, Memory, OneKey
<1>4. ASSUME NEW t \in SessionIds, NEW q \in Requests, RequestOtp(t, q)
      PROVE  GuessesCounted(s, r)'
  <2>1. CASE UNCHANGED slots
    BY <1>4, <2>1, OtherCodes DEF RequestOtp
  <2>2. CASE ~ UNCHANGED slots
    <3> PICK code : code = [ createdAt |-> clock, expiresAt |-> clock + OtpTtl,
                             attempts |-> 0 ]
      OBVIOUS
    <3>1. /\ slots' = with(slots, <<t, q>>, code) /\ UNCHANGED wrong
          /\ ~ coolingDown(t, q) /\ authenticated(t)
      BY <1>4, <2>2 DEF RequestOtp
    <3>2. CASE k # <<t, q>>
      BY <3>1, <3>2, OtherCodes DEF with
    <3>3. CASE k = <<t, q>>
      <4>1. t = s /\ q = r /\ ~ Ended(s) /\ keysGiven[s] # 0 /\ UNCHANGED <<clock, keysGiven>>
        BY <1>3, <3>1, <3>3
      <4>2. k \in DOMAIN slots' /\ slots'[k] = code
        BY <3>1, <3>3 DEF with
      <4>3. wrong[s][r] <= MaxAttempts * (clock \div Cooldown)
        <5>1. CASE k \in DOMAIN slots
          <6>1. /\ slots[k].createdAt \in Nat /\ Cooldown \in Nat /\ OtpTtl \in Nat
                /\ slots[k].expiresAt = slots[k].createdAt + OtpTtl
                /\ Cooldown <= OtpTtl
            BY <5>1, CodeIs, FactorConstants
          <6>2. slots[k].createdAt + Cooldown <= clock
            BY <1>1, <3>1, <4>1, <5>1, <6>1 DEF coolingDown
          <6> QED
            BY <5>1, <6>2, CooldownOver
        <5>2. CASE k \notin DOMAIN slots
          BY <4>1, <5>2 DEF GuessesCounted
        <5> QED
          BY <5>1, <5>2
      <4>4. wrong[s][r] <= 0 + MaxAttempts * (clock \div Cooldown)
        <5>1. MaxAttempts * (clock \div Cooldown) \in Nat
          BY <1>1, FactorConstants, Periods, Products
        <5> QED
          BY <4>3, <5>1
      <4>5. code.attempts = 0 /\ code.createdAt = clock
        OBVIOUS
      <4> QED
        BY <3>1, <4>1, <4>2, <4>4, <4>5 DEF GuessesCounted
    <3> QED
      BY <3>2, <3>3
  <2> QED
    BY <2>1, <2>2
<1>5. ASSUME NEW t \in SessionIds, NEW q \in Requests, VerifyOtpRight(t, q)
      PROVE  GuessesCounted(s, r)'
  <2>1. /\ slots' = without(slots, {<<t, q>>}) /\ wrong' = [wrong EXCEPT ![t][q] = 0]
        /\ UNCHANGED clock
    BY <1>3, <1>5 DEF VerifyOtpRight
  <2>2. CASE k # <<t, q>>
    <3>1. wrong'[s][r] = wrong[s][r]
      BY <1>1, <2>1, <2>2
    <3> QED
      BY <2>1, <2>2, <3>1, OtherCodes DEF without
  <2>3. CASE k = <<t, q>>
    <3>1. k \notin DOMAIN slots' /\ wrong'[s][r] = 0
      BY <1>1, <2>1, <2>3 DEF without
    <3>2. MaxAttempts * (clock \div Cooldown) \in Nat
      BY <1>1, FactorConstants, Periods, Products
    <3>3. 0 <= MaxAttempts * (clock \div Cooldown)
      BY <3>2
    <3> QED
      BY <2>1, <3>1, <3>3 DEF GuessesCounted
  <2> QED
    BY <2>2, <2>3
<1>6. ASSUME NEW t \in SessionIds, NEW q \in Requests, VerifyOtpWrong(t, q)
      PROVE  GuessesCounted(s, r)'
  <2> PICK j : j = <<t, q>>
    OBVIOUS
  <2>1. /\ j \in DOMAIN slots /\ slots' = [slots EXCEPT ![j].attempts = @ + 1]
        /\ wrong' = [wrong EXCEPT ![t][q] = @ + 1] /\ authenticated(t)
        /\ slots \in [DOMAIN slots -> Code]
    BY <1>6 DEF VerifyOtpWrong, CodesTyped
  <2>2. CASE k # j
    <3>1. wrong'[s][r] = wrong[s][r]
      BY <1>1, <2>1, <2>2
    <3>2. k \in DOMAIN slots => slots'[k] = slots[k]
      BY <2>1, <2>2
    <3>3. DOMAIN slots' = DOMAIN slots
      BY <2>1
    <3> QED
      BY <3>1, <3>2, <3>3, OtherCodes
  <2>3. CASE k = j
    <3>1. s = t /\ r = q /\ keysGiven'[s] # 0 /\ k \in DOMAIN slots'
      BY <1>3, <2>1, <2>3
    <3>2. wrong'[s][r] = wrong[s][r] + 1
      BY <1>1, <2>1, <3>1
    <3>3. /\ slots'[k].attempts = slots[k].attempts + 1
          /\ slots'[k].createdAt = slots[k].createdAt
      BY <2>1, <2>3, CodeIs DEF Code
    <3>4. slots[k].attempts \in Nat /\ slots[k].createdAt \in Nat /\ wrong[s][r] \in Nat
      <4>1. slots[k].attempts \in 0..MaxAttempts /\ slots[k].createdAt \in Nat
        BY <2>1, <2>3, CodeIs
      <4> QED
        BY <1>1, <4>1, FactorConstants
    <3> PICK before \in Nat : before = MaxAttempts * (slots[k].createdAt \div Cooldown)
      BY <3>4, FactorConstants, Periods, Products
    <3>5. wrong[s][r] <= slots[k].attempts + before
      BY <2>1, <2>3 DEF GuessesCounted
    <3>6. wrong'[s][r] <= slots'[k].attempts + before
      BY <3>2, <3>3, <3>4, <3>5
    <3> QED
      BY <3>1, <3>3, <3>6 DEF GuessesCounted
  <2> QED
    BY <2>2, <2>3
<1>7. ASSUME NEW t \in SessionIds, NEW q \in Requests, DropExpiredCode(t, q)
      PROVE  GuessesCounted(s, r)'
  <2>1. /\ <<t, q>> \in DOMAIN slots /\ slots' = without(slots, {<<t, q>>})
        /\ UNCHANGED <<clock, keysGiven, wrong>>
        /\ clock > slots[<<t, q>>].expiresAt
    BY <1>7 DEF DropExpiredCode, vars, codeExpired
  <2>2. CASE k # <<t, q>>
    BY <2>1, <2>2, OtherCodes DEF without
  <2>3. CASE k = <<t, q>>
    <3>1. k \notin DOMAIN slots' /\ k \in DOMAIN slots
      BY <2>1, <2>3 DEF without
    <3>2. /\ slots[k].createdAt \in Nat /\ Cooldown \in Nat /\ OtpTtl \in Nat
          /\ slots[k].expiresAt = slots[k].createdAt + OtpTtl
          /\ Cooldown <= OtpTtl
      BY <3>1, CodeIs, FactorConstants
    <3>3. slots[k].createdAt + Cooldown <= clock
      BY <1>1, <2>1, <2>3, <3>2
    <3>4. wrong[s][r] <= MaxAttempts * (clock \div Cooldown)
      BY <3>1, <3>3, CooldownOver
    <3> QED
      BY <2>1, <3>1, <3>4 DEF GuessesCounted
  <2> QED
    BY <2>2, <2>3
<1>8. CASE RestartFactors
  <2>1. /\ slots' = << >> /\ sessions' = << >> /\ UNCHANGED <<clock, keysGiven, wrong>>
    BY <1>8 DEF RestartFactors, Restart
  <2>2. k \notin DOMAIN slots' /\ s \notin DOMAIN sessions'
    BY <2>1
  <2>3. CASE keysGiven[s] = 0
    <3>1. wrong[s][r] = 0
      BY <2>3 DEF GuessesCounted
    <3>2. MaxAttempts * (clock \div Cooldown) \in Nat
      BY <1>1, FactorConstants, Periods, Products
    <3>3. wrong[s][r] <= MaxAttempts * (clock \div Cooldown)
      BY <3>1, <3>2
    <3> QED
      BY <2>1, <2>2, <2>3, <3>1, <3>3 DEF GuessesCounted
  <2>4. CASE keysGiven[s] = 1
    <3>1. wrong[s][r] <= MaxAttempts * (1 + clock \div Cooldown)
      BY CountedIsBounded
    <3>2. Ended(s)'
      BY <2>1, <2>2, <2>4 DEF Ended
    <3> QED
      BY <2>1, <2>2, <2>4, <3>1, <3>2 DEF GuessesCounted
  <2> QED
    BY <2>3, <2>4 DEF Memory, OneKey
<1> QED
  BY <1>2, <1>4, <1>5, <1>6, <1>7, <1>8, CodeSteps

LEMMA InitCodes == StepUpInit => CodesTyped /\ CodesCounted
<1> SUFFICES ASSUME StepUpInit
             PROVE  CodesTyped /\ CodesCounted
  OBVIOUS
<1>1. /\ slots = << >> /\ wrong = [s \in SessionIds |-> [r \in Requests |-> 0]]
      /\ DOMAIN slots = {} /\ clock = 0
  BY DEF StepUpInit, Init
<1>2. CodesTyped
  BY <1>1 DEF CodesTyped
<1>3. ASSUME NEW s \in SessionIds, NEW r \in Requests
      PROVE  GuessesCounted(s, r)
  <2>1. <<s, r>> \notin DOMAIN slots /\ wrong[s][r] = 0
    BY <1>1
  <2>2. MaxAttempts * (clock \div Cooldown) \in Nat
    BY <1>1, FactorConstants, Periods, Products
  <2>3. wrong[s][r] <= MaxAttempts * (clock \div Cooldown)
    BY <2>1, <2>2
  <2> QED
    BY <2>1, <2>3 DEF GuessesCounted
<1> QED
  BY <1>2, <1>3 DEF CodesCounted

LEMMA StepUpRemembers == StepUpSpec => []Memory
BY FactorsKeepSessions, InitTyped, TypeInductive, InitRemembers, MemoryInductive, PTL
   DEF Spec

(* Whatever a session asks for, guesses right or wrong, and whenever the   *)
(* process restarts: the wrong codes taken since the last right one are    *)
(* MAX_ATTEMPTS for each cooldown that has passed, and once more.          *)
THEOREM GuessesBoundedHolds == StepUpSpec => []GuessesBounded
<1>1. Typed /\ CodesTyped /\ CodesCounted => GuessesBounded
  BY CountedIsBounded DEF CodesCounted, GuessesBounded
<1>2. Typed /\ Typed' /\ Memory /\ CodesTyped /\ CodesCounted /\ [StepUpNext]_stepUpVars
        => CodesTyped' /\ CodesCounted'
  BY CodesStayTyped, GuessesInductive DEF CodesCounted
<1> QED
  BY <1>1, <1>2, InitCodes, StepUpTyped, StepUpRemembers, PTL DEF StepUpSpec
-----------------------------------------------------------------------------
(* Fixed windows: what a counter says of the times of the actions it let   *)
(* through *)

from(q, t) == { n \in DOMAIN q : q[n] >= t }

allBy(q, now) == \A n \in DOMAIN q : q[n] <= now

(* The window that was open when a stretch of time began. *)
begun(t) == IF t = 0 THEN 0 ELSE 1

(* Since a time before the counter's window: its count, and max for each   *)
(* window that was opened from that time on or was open then.              *)
tally(since, count, t, length, max) ==
  count + IF t <= since THEN max * ((since - t) \div length + begun(t)) ELSE 0

Tallied(q, since, count, now, length, max) ==
  /\ since <= now /\ count <= max
  /\ \A t \in Nat : Cardinality(from(q, t)) <= tally(since, count, t, length, max)

WithinWindows(q, now, length, max) ==
  \A t \in 0..now :
    Cardinality(from(q, t)) <= max * (1 + (now - t) \div length + begun(t))

LEMMA FromIs ==
  ASSUME NEW q \in Seq(Nat), NEW t \in Nat
  PROVE  /\ from(q, t) \subseteq 1..Len(q)
         /\ IsFiniteSet(from(q, t)) /\ Cardinality(from(q, t)) \in Nat
         /\ \A now \in Nat : allBy(q, now) /\ t > now => Cardinality(from(q, t)) = 0
<1>1. Len(q) \in Nat /\ DOMAIN q = 1..Len(q) /\ \A n \in 1..Len(q) : q[n] \in Nat
  OBVIOUS
<1>2. IsFiniteSet(1..Len(q))
  BY <1>1, FS_Interval
<1>3. from(q, t) \subseteq 1..Len(q)
  BY <1>1 DEF from
<1>4. IsFiniteSet(from(q, t)) /\ Cardinality(from(q, t)) \in Nat
  BY <1>2, <1>3, FS_Subset, FS_CardinalityType
<1>5. ASSUME NEW now \in Nat, allBy(q, now), t > now
      PROVE  Cardinality(from(q, t)) = 0
  <2>1. from(q, t) = {}
    BY <1>1, <1>5 DEF from, allBy
  <2> QED
    BY <2>1, FS_EmptySet
<1> QED
  BY <1>3, <1>4, <1>5

LEMMA BegunIs ==
  ASSUME NEW t \in Nat
  PROVE  begun(t) \in 0..1 /\ (t > 0 => begun(t) = 1)
BY DEF begun

(* A window is over: the next one begins with nothing counted. *)
LEMMA WindowReopens ==
  ASSUME NEW q \in Seq(Nat), NEW since \in Nat, NEW count \in Nat, NEW now \in Nat,
         NEW length \in Nat \ {0}, NEW max \in Nat, allBy(q, now),
         since + length <= now, Tallied(q, since, count, now, length, max)
  PROVE  Tallied(q, now, 0, now, length, max)
<1>1. count <= max
  BY DEF Tallied
<1>3. ASSUME NEW t \in Nat
      PROVE  Cardinality(from(q, t)) <= tally(now, 0, t, length, max)
  <2> PICK n \in Nat : n = Cardinality(from(q, t))
    BY FromIs
  <2> PICK e \in 0..1 : e = begun(t) /\ (t > 0 => e = 1)
    BY BegunIs
  <2>1. n <= tally(since, count, t, length, max)
    BY DEF Tallied
  <2>2. CASE t > now
    <3>1. n = 0
      BY <2>2, FromIs
    <3>2. ~ t <= now
      BY <2>2
    <3>3. tally(now, 0, t, length, max) = 0 + 0
      BY <3>2 DEF tally
    <3> QED
      BY <3>1, <3>3
  <2>3. CASE t <= now
    <3>1. now - t \in Nat
      BY <2>3
    <3> PICK later \in Nat : later = (now - t) \div length
      BY <3>1, Periods
    <3>2. /\ tally(now, 0, t, length, max) = 0 + max * (later + e)
          /\ max * (later + e) \in Nat
      <4>1. tally(now, 0, t, length, max) = 0 + max * (later + e)
        BY <2>3 DEF tally
      <4>2. later + e \in Nat
        OBVIOUS
      <4> QED
        BY <4>1, <4>2, Products
    <3>3. CASE t <= since
      <4>1. since - t \in Nat /\ (since - t) + length <= now - t
        BY <2>3, <3>3
      <4> PICK before \in Nat : before = (since - t) \div length
        BY <4>1, Periods
      <4>2. before + 1 <= later
        BY <3>1, <4>1, Periods
      <4>3. (before + e) + 1 <= later + e /\ before + e \in Nat /\ later + e \in Nat
        BY SMTT(30), <4>2
      <4>4. /\ max * (before + e) \in Nat
            /\ max * (before + e) + max <= max * (later + e)
        BY <4>3, Products
      <4>5. n <= count + max * (before + e)
        BY <2>1, <3>3 DEF tally
      <4> QED
        BY SMTT(30), <1>1, <3>2, <4>4, <4>5
    <3>4. CASE ~ t <= since
      <4>1. n <= count + 0
        BY <2>1, <3>4 DEF tally
      <4>2. e = 1
        BY <3>4
      <4>3. 0 + 1 <= later + e /\ later + e \in Nat
        BY <4>2
      <4>4. max * 0 + max <= max * (later + e) /\ max * 0 = 0
        BY <4>3, Products
      <4> QED
        BY <1>1, <3>2, <4>1, <4>4
    <3> QED
      BY <3>3, <3>4
  <2> QED
    BY <2>2, <2>3
<1> QED
  BY <1>3 DEF Tallied

(* An action that is let through is counted. *)
LEMMA ActionIsCounted ==
  ASSUME NEW q \in Seq(Nat), NEW since \in Nat, NEW count \in Nat, NEW now \in Nat,
         NEW length \in Nat \ {0}, NEW max \in Nat, allBy(q, now),
         count < max, Tallied(q, since, count, now, length, max)
  PROVE  /\ Append(q, now) \in Seq(Nat) /\ allBy(Append(q, now), now)
         /\ Tallied(Append(q, now), since, count + 1, now, length, max)
<1>1. Append(q, now) \in Seq(Nat)
  OBVIOUS
<1> PICK r \in Seq(Nat) : r = Append(q, now)
  BY <1>1
<1>2. since <= now
  BY DEF Tallied
<1>3. /\ Len(q) \in Nat /\ DOMAIN q = 1..Len(q) /\ DOMAIN r = 1..(Len(q) + 1)
      /\ \A n \in 1..Len(q) : r[n] = q[n] /\ q[n] \in Nat
      /\ r[Len(q) + 1] = now
  OBVIOUS
<1>4. allBy(r, now)
  BY <1>3 DEF allBy
<1>5. ASSUME NEW t \in Nat
      PROVE  Cardinality(from(r, t)) <= tally(since, count + 1, t, length, max)
  <2>1. /\ from(q, t) \subseteq 1..Len(q) /\ IsFiniteSet(from(q, t))
        /\ Cardinality(from(q, t)) \in Nat /\ Cardinality(from(r, t)) \in Nat
    BY FromIs
  <2>2. Cardinality(from(q, t)) <= tally(since, count, t, length, max)
    BY DEF Tallied
  <2> PICK e \in 0..1 : e = begun(t)
    BY BegunIs
  <2> PICK rest \in Nat :
        rest = IF t <= since THEN max * ((since - t) \div length + e) ELSE 0
    <3>1. CASE t <= since
      <4>1. since - t \in Nat
        BY <3>1
      <4> PICK windows \in Nat : windows = (since - t) \div length
        BY <4>1, Periods
      <4>2. windows + e \in Nat
        OBVIOUS
      <4>3. max * (windows + e) \in Nat
        BY <4>2, Products
      <4> QED
        BY <3>1, <4>3
    <3>2. CASE ~ t <= since
      BY <3>2
    <3> QED
      BY <3>1, <3>2
  <2>3. /\ tally(since, count, t, length, max) = count + rest
        /\ tally(since, count + 1, t, length, max) = (count + 1) + rest
    BY DEF tally
  <2>4. CASE t <= now
    <3>1. from(r, t) = from(q, t) \cup {Len(q) + 1} /\ Len(q) + 1 \notin from(q, t)
      <4> PICK size \in Nat : size = Len(q)
        BY <1>3
      <4>1. from(q, t) = { n \in 1..size : q[n] >= t }
        BY <1>3 DEF from
      <4>2. from(r, t) = { n \in 1..(size + 1) : r[n] >= t }
        BY <1>3 DEF from
      <4>3. \A n \in 1..(size + 1) :
              n \in from(r, t) <=> n \in from(q, t) \/ n = size + 1
        <5>1. r[size + 1] >= t /\ \A n \in 1..size : r[n] = q[n]
          BY <1>3, <2>4
        <5> SUFFICES ASSUME NEW n \in 1..(size + 1)
                     PROVE  n \in from(r, t) <=> n \in from(q, t) \/ n = size + 1
          OBVIOUS
        <5>2. CASE n = size + 1
          BY <4>2, <5>1, <5>2
        <5>3. CASE n # size + 1
          <6>1. n \in 1..size /\ r[n] = q[n]
            BY <5>1, <5>3
          <6>2. n \in from(r, t) <=> r[n] >= t
            BY <4>2
          <6>3. n \in from(q, t) <=> q[n] >= t
            BY <4>1, <6>1
          <6> QED
            BY <5>3, <6>1, <6>2, <6>3
        <5> QED
          BY <5>2, <5>3
      <4>4. from(r, t) = from(q, t) \cup {size + 1} /\ size + 1 \notin from(q, t)
        BY <4>1, <4>2, <4>3
      <4> QED
        BY <4>4
    <3>2. Cardinality(from(r, t)) = Cardinality(from(q, t)) + 1
      BY <2>1, <3>1, FS_AddElement
    <3> PICK n \in Nat : n = Cardinality(from(q, t))
      BY <2>1
    <3>3. n <= count + rest
      BY <2>2, <2>3
    <3> PICK m \in Nat : m = Cardinality(from(r, t))
      BY <2>1
    <3>4. m = n + 1
      BY <3>2
    <3>5. m <= (count + 1) + rest
      BY SMTT(30), <3>3, <3>4
    <3> QED
      BY <2>3, <3>5
  <2>5. CASE t > now
    <3>1. Cardinality(from(r, t)) = 0
      BY <1>4, <2>5, FromIs
    <3> QED
      BY <1>2, <2>3, <3>1
  <2> QED
    BY <2>4, <2>5
<1>6. count + 1 <= max
  OBVIOUS
<1> QED
  BY <1>2, <1>4, <1>5, <1>6 DEF Tallied

(* The first window. *)
LEMMA NothingCounted ==
  ASSUME NEW now \in Nat, NEW length \in Nat \ {0}, NEW max \in Nat
  PROVE  Tallied(<< >>, now, 0, now, length, max) /\ allBy(<< >>, now)
<1>1. << >> \in Seq(Nat)
  OBVIOUS
<1> PICK q \in Seq(Nat) : q = << >>
  BY <1>1
<1>2. from(q, 0) = {} /\ \A t : from(q, t) = {}
  BY DEF from
<1>3. ASSUME NEW t \in Nat
      PROVE  Cardinality(from(q, t)) <= tally(now, 0, t, length, max)
  <2>1. Cardinality(from(q, t)) = 0
    BY <1>2, FS_EmptySet
  <2>2. CASE t <= now
    <3>1. now - t \in Nat /\ begun(t) \in Nat
      BY <2>2, BegunIs
    <3>2. (now - t) \div length \in Nat
      BY <3>1, Periods
    <3> PICK windows \in Nat : windows = (now - t) \div length + begun(t)
      BY <3>1, <3>2
    <3>3. max * windows \in Nat
      BY Products
    <3>4. tally(now, 0, t, length, max) = 0 + max * windows
      BY <2>2 DEF tally
    <3> QED
      BY <2>1, <3>3, <3>4
  <2>3. CASE ~ t <= now
    <3>1. tally(now, 0, t, length, max) = 0 + 0
      BY <2>3 DEF tally
    <3> QED
      BY <2>1, <3>1
  <2> QED
    BY <2>2, <2>3
<1>4. allBy(q, now)
  BY DEF allBy
<1> QED
  BY <1>3, <1>4 DEF Tallied

LEMMA TalliedIsWithin ==
  ASSUME NEW q \in Seq(Nat), NEW since \in Nat, NEW count \in Nat, NEW now \in Nat,
         NEW length \in Nat \ {0}, NEW max \in Nat, Tallied(q, since, count, now, length, max)
  PROVE  WithinWindows(q, now, length, max)
<1>1. since <= now /\ count <= max
  BY DEF Tallied
<1> SUFFICES ASSUME NEW t \in 0..now
             PROVE  Cardinality(from(q, t)) <= max * (1 + (now - t) \div length + begun(t))
  BY DEF WithinWindows
<1>2. t \in Nat /\ t <= now /\ now - t \in Nat
  OBVIOUS
<1> PICK e \in 0..1 : e = begun(t)
  BY <1>2, BegunIs
<1> PICK later \in Nat : later = (now - t) \div length
  BY <1>2, Periods
<1> PICK n \in Nat : n = Cardinality(from(q, t))
  BY <1>2, FromIs
<1>3. n <= tally(since, count, t, length, max)
  BY <1>2 DEF Tallied
<1>4. /\ later + e \in Nat /\ max * (later + e) \in Nat
      /\ max * (1 + later + e) = max + max * (later + e)
  <2>1. later + e \in Nat /\ 1 + later + e = 1 + (later + e)
    OBVIOUS
  <2> QED
    BY SMTT(30), <2>1, Products
<1>5. CASE t <= since
  <2>1. since - t \in Nat /\ since - t <= now - t
    BY <1>1, <1>2, <1>5
  <2> PICK before \in Nat : before = (since - t) \div length
    BY <2>1, Periods
  <2>2. before <= later
    BY <1>2, <2>1, Periods
  <2>3. before + e \in Nat /\ before + e <= later + e
    BY <2>2
  <2> PICK most \in Nat : most = max * (later + e)
    BY <1>4
  <2> PICK earlier \in Nat : earlier = max * (before + e)
    BY <2>3, Products
  <2>4. earlier <= most
    BY <1>4, <2>3, Products
  <2>5. n <= count + earlier
    BY <1>3, <1>5 DEF tally
  <2>6. n <= max + most
    BY SMTT(30), <1>1, <2>4, <2>5
  <2> QED
    BY <1>4, <2>6
<1>6. CASE ~ t <= since
  <2> PICK most \in Nat : most = max * (later + e)
    BY <1>4
  <2>1. n <= count + 0
    BY <1>3, <1>6 DEF tally
  <2>2. n <= max + most
    BY <1>1, <2>1
  <2> QED
    BY <1>4, <2>2
<1> QED
  BY <1>5, <1>6

LEMMA WithinLater ==
  ASSUME NEW q \in Seq(Nat), NEW now \in Nat, NEW then \in Nat, now <= then,
         NEW length \in Nat \ {0}, NEW max \in Nat,
         allBy(q, now), WithinWindows(q, now, length, max)
  PROVE  WithinWindows(q, then, length, max)
<1> SUFFICES ASSUME NEW t \in 0..then
             PROVE  Cardinality(from(q, t)) <= max * (1 + (then - t) \div length + begun(t))
  BY DEF WithinWindows
<1>1. t \in Nat /\ then - t \in Nat
  OBVIOUS
<1> PICK e \in 0..1 : e = begun(t)
  BY <1>1, BegunIs
<1> PICK later \in Nat : later = (then - t) \div length
  BY <1>1, Periods
<1> PICK n \in Nat : n = Cardinality(from(q, t))
  BY <1>1, FromIs
<1>2. 1 + later + e \in Nat /\ max * (1 + later + e) \in Nat
  <2>1. 1 + later + e \in Nat
    OBVIOUS
  <2> QED
    BY <2>1, Products
<1>3. CASE t <= now
  <2>1. now - t \in Nat /\ now - t <= then - t /\ t \in 0..now
    BY <1>1, <1>3
  <2> PICK before \in Nat : before = (now - t) \div length
    BY <2>1, Periods
  <2>2. before <= later
    BY <1>1, <2>1, Periods
  <2>3. 1 + before + e \in Nat /\ 1 + before + e <= 1 + later + e
    BY <2>2
  <2>4. /\ max * (1 + before + e) \in Nat
        /\ max * (1 + before + e) <= max * (1 + later + e)
    BY <1>2, <2>3, Products
  <2>5. n <= max * (1 + before + e)
    BY <2>1 DEF WithinWindows
  <2> PICK x \in Nat, y \in Nat : x = max * (1 + before + e) /\ y = max * (1 + later + e)
    BY <1>2, <2>4
  <2>6. n <= y
    BY <2>4, <2>5
  <2> QED
    BY <2>6
<1>4. CASE t > now
  <2>1. n = 0
    BY <1>1, <1>4, FromIs
  <2> QED
    BY <1>2, <2>1
<1> QED
  BY <1>1, <1>3, <1>4
-----------------------------------------------------------------------------
(* The counters of the sessions *)

Counter == [since : Nat, count : Nat]

CountersTyped ==
  /\ DOMAIN velocity \subseteq SessionIds \X Actions
  /\ velocity \in [DOMAIN velocity -> [minute : Counter, day : Counter]]
  /\ allowed \in [SessionIds -> [Actions -> Seq(0..MaxClock)]]

(* The actions of a session whose counters were lost with the process      *)
(* stand, since the session is gone as well.                               *)
VelocityCounted(s, a) ==
  /\ allBy(allowed[s][a], clock)
  /\ <<s, a>> \in DOMAIN velocity =>
       /\ Tallied(allowed[s][a], velocity[<<s, a>>].minute.since,
                  velocity[<<s, a>>].minute.count, clock, Minute, PerMinuteMax)
       /\ Tallied(allowed[s][a], velocity[<<s, a>>].day.since,
                  velocity[<<s, a>>].day.count, clock, Day, PerDayMax)
  /\ <<s, a>> \notin DOMAIN velocity =>
       \/ allowed[s][a] = << >>
       \/ /\ Ended(s)
          /\ WithinWindows(allowed[s][a], clock, Minute, PerMinuteMax)
          /\ WithinWindows(allowed[s][a], clock, Day, PerDayMax)
  /\ keysGiven[s] = 0 => allowed[s][a] = << >>

CountersCounted ==
  \A s \in SessionIds, a \in Actions : VelocityCounted(s, a)

LEMMA AllowedAre ==
  ASSUME CountersTyped, NEW s \in SessionIds, NEW a \in Actions
  PROVE  allowed[s][a] \in Seq(0..MaxClock) /\ allowed[s][a] \in Seq(Nat)
<1>1. allowed[s][a] \in Seq(0..MaxClock)
  BY DEF CountersTyped
<1>2. 0..MaxClock \subseteq Nat
  OBVIOUS
<1>3. Seq(0..MaxClock) \subseteq Seq(Nat)
  BY <1>2, SeqMonotonic
<1> QED
  BY <1>1, <1>3

LEMMA TalliedLater ==
  ASSUME NEW q \in Seq(Nat), NEW since \in Nat, NEW count \in Nat,
         NEW now \in Nat, NEW then \in Nat, now <= then,
         NEW length \in Nat \ {0}, NEW max \in Nat,
         Tallied(q, since, count, now, length, max)
  PROVE  Tallied(q, since, count, then, length, max)
BY DEF Tallied

(* The counters of a session and action that a step leaves alone. *)
LEMMA CountersUntouched ==
  ASSUME Typed, Typed', Memory, CountersTyped, [StepUpNext]_stepUpVars,
         NEW s \in SessionIds, NEW a \in Actions, VelocityCounted(s, a),
         allowed'[s][a] = allowed[s][a],
         <<s, a>> \in DOMAIN velocity' <=> <<s, a>> \in DOMAIN velocity,
         <<s, a>> \in DOMAIN velocity => velocity'[<<s, a>>] = velocity[<<s, a>>]
  PROVE  VelocityCounted(s, a)'
<1> PICK q \in Seq(Nat) : q = allowed[s][a]
  BY AllowedAre
<1> PICK now \in Nat : now = clock
  BY ClockIs
<1> PICK then \in Nat : then = clock' /\ now <= then
  BY ClockIs
<1> PICK k : k = <<s, a>>
  OBVIOUS
<1>1. allBy(q, now) /\ (keysGiven[s] = 0 => q = << >>)
  BY DEF VelocityCounted
<1>2. allBy(q, then)
  BY <1>1 DEF allBy
<1>3. keysGiven'[s] = 0 => q = << >>
  BY <1>1, EndedStays
<1>4. CASE k \in DOMAIN velocity
  <2>1. velocity[k].minute \in Counter /\ velocity[k].day \in Counter
    BY <1>4 DEF CountersTyped
  <2> PICK m \in Nat : m = velocity[k].minute.since
    BY <2>1 DEF Counter
  <2> PICK n \in Nat : n = velocity[k].minute.count
    BY <2>1 DEF Counter
  <2> PICK d \in Nat : d = velocity[k].day.since
    BY <2>1 DEF Counter
  <2> PICK e \in Nat : e = velocity[k].day.count
    BY <2>1 DEF Counter
  <2>2. Tallied(q, m, n, now, Minute, PerMinuteMax) /\ Tallied(q, d, e, now, Day, PerDayMax)
    BY <1>4 DEF VelocityCounted
  <2>3. Tallied(q, m, n, then, Minute, PerMinuteMax) /\ Tallied(q, d, e, then, Day, PerDayMax)
    BY <2>2, TalliedLater, FactorConstants
  <2> QED
    BY <1>2, <1>3, <1>4, <2>3 DEF VelocityCounted
<1>5. CASE k \notin DOMAIN velocity
  <2>1. CASE q = << >>
    BY <1>2, <1>5, <2>1 DEF VelocityCounted
  <2>2. CASE q # << >>
    <3>1. /\ Ended(s) /\ WithinWindows(q, now, Minute, PerMinuteMax)
          /\ WithinWindows(q, now, Day, PerDayMax)
      BY <1>5, <2>2 DEF VelocityCounted
    <3>2. /\ WithinWindows(q, then, Minute, PerMinuteMax)
          /\ WithinWindows(q, then, Day, PerDayMax)
      BY <1>1, <3>1, WithinLater, FactorConstants
    <3>3. Ended(s)'
      BY <3>1, EndedStays
    <3> QED
      BY <1>2, <1>3, <1>5, <3>2, <3>3 DEF VelocityCounted
  <2> QED
    BY <2>1, <2>2
<1> QED
  BY <1>4, <1>5

(* The window an attempt is judged by. *)
LEMMA WindowIs ==
  ASSUME NEW q \in Seq(Nat), NEW since \in Nat, NEW count \in Nat, NEW now \in Nat,
         NEW length \in Nat \ {0}, NEW max \in Nat, allBy(q, now),
         Tallied(q, since, count, now, length, max)
  PROVE  \E m, n \in Nat :
           /\ Tallied(q, m, n, now, length, max)
           /\ now - since >= length => counter(m, n) = counter(now, 0)
           /\ ~ (now - since >= length) => counter(m, n) = counter(since, count)
<1>1. CASE now - since >= length
  <2>1. since + length <= now
    BY <1>1
  <2>2. Tallied(q, now, 0, now, length, max)
    BY <2>1, WindowReopens
  <2> QED
    BY <1>1, <2>2
<1>2. CASE ~ (now - since >= length)
  BY <1>2
<1> QED
  BY <1>1, <1>2

LEMMA WindowsAre ==
  ASSUME Typed, CountersTyped, NEW s \in SessionIds, NEW a \in Actions,
         VelocityCounted(s, a), ~ Ended(s)
  PROVE  \E m, n, d, e \in Nat :
           /\ windowsOf(s, a) = [minute |-> counter(m, n), day |-> counter(d, e)]
           /\ Tallied(allowed[s][a], m, n, clock, Minute, PerMinuteMax)
           /\ Tallied(allowed[s][a], d, e, clock, Day, PerDayMax)
<1> PICK q \in Seq(Nat) : q = allowed[s][a]
  BY AllowedAre
<1> PICK now \in Nat : now = clock
  BY Constants DEF Typed
<1> PICK k : k = <<s, a>>
  OBVIOUS
<1> PICK v : v = IF k \in DOMAIN velocity THEN velocity[k]
                 ELSE [minute |-> counter(now, 0), day |-> counter(now, 0)]
  OBVIOUS
<1>1. allBy(q, now)
  BY DEF VelocityCounted
<1>2. \E m, n, d, e \in Nat :
        /\ v = [minute |-> counter(m, n), day |-> counter(d, e)]
        /\ Tallied(q, m, n, now, Minute, PerMinuteMax)
        /\ Tallied(q, d, e, now, Day, PerDayMax)
  <2>1. CASE k \in DOMAIN velocity
    <3>1. v \in [minute : Counter, day : Counter] /\ v = velocity[k]
      BY <2>1 DEF CountersTyped
    <3>2. v.minute \in Counter /\ v.day \in Counter
      BY <3>1
    <3> PICK m \in Nat : m = v.minute.since
      BY <3>2 DEF Counter
    <3> PICK n \in Nat : n = v.minute.count
      BY <3>2 DEF Counter
    <3> PICK d \in Nat : d = v.day.since
      BY <3>2 DEF Counter
    <3> PICK e \in Nat : e = v.day.count
      BY <3>2 DEF Counter
    <3>3. v.minute = counter(m, n) /\ v.day = counter(d, e)
      BY <3>2 DEF Counter, counter
    <3>4. v = [minute |-> counter(m, n), day |-> counter(d, e)]
      BY <3>1, <3>3
    <3>5. Tallied(q, m, n, now, Minute, PerMinuteMax) /\ Tallied(q, d, e, now, Day, PerDayMax)
      BY <2>1, <3>1 DEF VelocityCounted
    <3> QED
      BY <3>4, <3>5
  <2>2. CASE k \notin DOMAIN velocity
    <3>1. q = << >>
      BY <2>2 DEF VelocityCounted
    <3>2. /\ Tallied(q, now, 0, now, Minute, PerMinuteMax)
          /\ Tallied(q, now, 0, now, Day, PerDayMax)
      BY <3>1, NothingCounted, FactorConstants
    <3> QED
      BY <2>2, <3>2
  <2> QED
    BY <2>1, <2>2
<1> PICK m \in Nat, n \in Nat, d \in Nat, e \in Nat :
      /\ v = [minute |-> counter(m, n), day |-> counter(d, e)]
      /\ Tallied(q, m, n, now, Minute, PerMinuteMax)
      /\ Tallied(q, d, e, now, Day, PerDayMax)
  BY <1>2
<1>3. /\ v.minute = counter(m, n) /\ v.day = counter(d, e)
      /\ v.minute.since = m /\ v.day.since = d
  BY DEF counter
<1>6. PerMinuteMax \in Nat /\ PerDayMax \in Nat
  BY FactorConstants
<1> PICK m1 \in Nat, n1 \in Nat :
      /\ Tallied(q, m1, n1, now, Minute, PerMinuteMax)
      /\ now - m >= Minute => counter(m1, n1) = counter(now, 0)
      /\ ~ (now - m >= Minute) => counter(m1, n1) = counter(m, n)
  BY <1>1, <1>6, WindowIs, FactorConstants
<1> PICK d1 \in Nat, e1 \in Nat :
      /\ Tallied(q, d1, e1, now, Day, PerDayMax)
      /\ now - d >= Day => counter(d1, e1) = counter(now, 0)
      /\ ~ (now - d >= Day) => counter(d1, e1) = counter(d, e)
  BY <1>1, <1>6, WindowIs, FactorConstants
<1>4. windowsOf(s, a) = [ minute |-> IF now - v.minute.since >= Minute
                                     THEN counter(now, 0) ELSE v.minute,
                          day    |-> IF now - v.day.since >= Day
                                     THEN counter(now, 0) ELSE v.day ]
  BY DEF windowsOf
<1>5. windowsOf(s, a) = [minute |-> counter(m1, n1), day |-> counter(d1, e1)]
  BY <1>3, <1>4
<1> QED
  BY <1>5

(* What recordAttempt leaves behind. *)
Counted(s, a, q, m, n, d, e) ==
  /\ velocity' = with(velocity, <<s, a>>,
                      [minute |-> counter(m, n), day |-> counter(d, e)])
  /\ allowed' = [allowed EXCEPT ![s][a] = q]
  /\ allBy(q, clock)
  /\ Tallied(q, m, n, clock, Minute, PerMinuteMax)
  /\ Tallied(q, d, e, clock, Day, PerDayMax)

LEMMA AttemptIsCounted ==
  ASSUME Typed, CountersTyped, NEW s \in SessionIds, NEW a \in Actions,
         VelocityCounted(s, a), ~ Ended(s), recordAttempt(s, a)
  PROVE  \E q \in Seq(0..MaxClock), m, n, d, e \in Nat : Counted(s, a, q, m, n, d, e)
<1> PICK q \in Seq(0..MaxClock) : q = allowed[s][a]
  BY AllowedAre
<1>1. q \in Seq(Nat)
  BY AllowedAre
<1> PICK now \in 0..MaxClock : now = clock
  BY DEF Typed
<1>2. now \in Nat /\ allBy(q, now)
  BY Constants DEF VelocityCounted
<1> PICK m \in Nat, n \in Nat, d \in Nat, e \in Nat :
      /\ windowsOf(s, a) = [minute |-> counter(m, n), day |-> counter(d, e)]
      /\ Tallied(q, m, n, now, Minute, PerMinuteMax)
      /\ Tallied(q, d, e, now, Day, PerDayMax)
  BY WindowsAre
<1> PICK v : v = windowsOf(s, a)
  OBVIOUS
<1>3. /\ v.minute.since = m /\ v.minute.count = n
      /\ v.day.since = d /\ v.day.count = e
  BY DEF counter
<1>4. underCap(v) <=> n < PerMinuteMax /\ e < PerDayMax
  BY <1>3 DEF underCap
<1>5. CASE underCap(v)
  <2>1. /\ velocity' = with(velocity, <<s, a>>,
                 [minute |-> counter(m, n + 1), day |-> counter(d, e + 1)])
        /\ allowed' = [allowed EXCEPT ![s][a] = Append(allowed[s][a], now)]
    BY <1>3, <1>5 DEF recordAttempt
  <2>2. n < PerMinuteMax /\ e < PerDayMax
    BY <1>4, <1>5
  <2>3. /\ allBy(Append(q, now), now)
        /\ Tallied(Append(q, now), m, n + 1, now, Minute, PerMinuteMax)
        /\ Tallied(Append(q, now), d, e + 1, now, Day, PerDayMax)
    BY <1>1, <1>2, <2>2, ActionIsCounted, FactorConstants
  <2>4. Append(q, now) \in Seq(0..MaxClock) /\ n + 1 \in Nat /\ e + 1 \in Nat
    OBVIOUS
  <2>5. Counted(s, a, Append(q, now), m, n + 1, d, e + 1)
    BY <2>1, <2>3 DEF Counted
  <2> QED
    BY <2>4, <2>5
<1>6. CASE ~ underCap(v)
  <2>1. velocity' = with(velocity, <<s, a>>, v) /\ UNCHANGED allowed
    BY <1>6 DEF recordAttempt
  <2>2. allowed' = [allowed EXCEPT ![s][a] = q]
    BY <2>1 DEF CountersTyped
  <2>3. Counted(s, a, q, m, n, d, e)
    BY <1>2, <2>1, <2>2 DEF Counted
  <2> QED
    BY <2>3
<1> QED
  BY <1>5, <1>6

LEMMA RecordKeeps ==
  ASSUME Typed, Typed', Memory, CountersTyped, CountersCounted, [StepUpNext]_stepUpVars,
         NEW s \in SessionIds, NEW a \in Actions, authenticated(s), recordAttempt(s, a)
  PROVE  CountersTyped' /\ CountersCounted'
<1>1. /\ s \in DOMAIN sessions /\ clock' = clock /\ keysGiven' = keysGiven
      /\ keysGiven[s] = 1
  BY AuthenticatedIs DEF Memory, OneKey
<1>2. ~ Ended(s) /\ VelocityCounted(s, a)
  BY <1>1 DEF Ended, CountersCounted
<1> PICK q \in Seq(0..MaxClock), m \in Nat, n \in Nat, d \in Nat, e \in Nat :
      Counted(s, a, q, m, n, d, e)
  BY <1>2, AttemptIsCounted
<1> PICK now : now = clock
  OBVIOUS
<1> PICK k : k = <<s, a>>
  OBVIOUS
<1> PICK v : v = [minute |-> counter(m, n), day |-> counter(d, e)]
  OBVIOUS
<1>3. /\ v \in [minute : Counter, day : Counter]
      /\ v.minute.since = m /\ v.minute.count = n
      /\ v.day.since = d /\ v.day.count = e
  BY DEF counter, Counter
<1>4. /\ velocity' = with(velocity, k, v)
      /\ allowed' = [allowed EXCEPT ![s][a] = q]
      /\ allBy(q, now)
      /\ Tallied(q, m, n, now, Minute, PerMinuteMax)
      /\ Tallied(q, d, e, now, Day, PerDayMax)
  BY DEF Counted
<1>5. /\ DOMAIN velocity' = DOMAIN velocity \cup {k}
      /\ velocity' \in [DOMAIN velocity' -> [minute : Counter, day : Counter]]
      /\ velocity'[k] = v
      /\ \A j \in DOMAIN velocity \ {k} : velocity'[j] = velocity[j]
  BY <1>3, <1>4 DEF with, CountersTyped
<1>6. k \in SessionIds \X Actions
  OBVIOUS
<1>7. allowed' \in [SessionIds -> [Actions -> Seq(0..MaxClock)]]
  BY <1>4 DEF CountersTyped
<1>8. CountersTyped'
  BY <1>5, <1>6, <1>7 DEF CountersTyped
<1>9. VelocityCounted(s, a)'
  <2>1. allowed'[s][a] = q
    BY <1>4 DEF CountersTyped
  <2>2. k \in DOMAIN velocity' /\ velocity'[k] = v
    BY <1>5
  <2>3. clock' = now /\ keysGiven'[s] = 1
    BY <1>1
  <2> QED
    BY <1>3, <1>4, <2>1, <2>2, <2>3 DEF VelocityCounted
<1>10. ASSUME NEW t \in SessionIds, NEW b \in Actions, <<t, b>> # k
       PROVE  VelocityCounted(t, b)'
  <2>1. allowed'[t][b] = allowed[t][b]
    <3>1. CASE t # s
      BY <1>4, <3>1 DEF CountersTyped
    <3>2. CASE t = s
      BY <1>4, <1>10, <3>2 DEF CountersTyped
    <3> QED
      BY <3>1, <3>2
  <2> PICK j : j = <<t, b>>
    OBVIOUS
  <2>2. /\ j \in DOMAIN velocity' <=> j \in DOMAIN velocity
        /\ j \in DOMAIN velocity => velocity'[j] = velocity[j]
    BY <1>5, <1>10
  <2>3. VelocityCounted(t, b)
    BY DEF CountersCounted
  <2> QED
    BY <2>1, <2>2, <2>3, CountersUntouched
<1> QED
  BY <1>8, <1>9, <1>10 DEF CountersCounted

(* The counters go with the process, and with it the session of each.      *)
LEMMA CountersForgotten ==
  ASSUME Typed, Typed', Memory, CountersTyped, CountersCounted, [StepUpNext]_stepUpVars,
         RestartFactors
  PROVE  CountersTyped' /\ CountersCounted'
<1>1. /\ velocity' = << >> /\ DOMAIN velocity' = {} /\ allowed' = allowed
      /\ clock' = clock /\ keysGiven' = keysGiven /\ DOMAIN sessions' = {}
  BY DEF RestartFactors, Restart
<1>2. CountersTyped'
  BY <1>1 DEF CountersTyped
<1>3. ASSUME NEW s \in SessionIds, NEW a \in Actions
      PROVE  VelocityCounted(s, a)'
  <2> PICK q \in Seq(Nat) : q = allowed[s][a]
    BY AllowedAre
  <2> PICK now \in Nat : now = clock
    BY ClockIs
  <2> PICK k : k = <<s, a>>
    OBVIOUS
  <2>1. /\ k \notin DOMAIN velocity' /\ allowed'[s][a] = q /\ clock' = now
        /\ keysGiven'[s] = keysGiven[s]
    BY <1>1
  <2>2. VelocityCounted(s, a) /\ keysGiven[s] \in {0, 1}
    BY DEF CountersCounted, Memory, OneKey
  <2>3. allBy(q, now) /\ (keysGiven[s] = 0 => q = << >>)
    BY <2>2 DEF VelocityCounted
  <2>4. CASE q = << >>
    BY <2>1, <2>3, <2>4 DEF VelocityCounted
  <2>5. CASE q # << >>
    <3>1. Ended(s)'
      BY <1>1, <2>2, <2>3, <2>5 DEF Ended
    <3>2. WithinWindows(q, now, Minute, PerMinuteMax) /\ WithinWindows(q, now, Day, PerDayMax)
      <4>1. CASE k \notin DOMAIN velocity
        BY <2>2, <2>5, <4>1 DEF VelocityCounted
      <4>2. CASE k \in DOMAIN velocity
        <5>1. velocity[k].minute \in Counter /\ velocity[k].day \in Counter
          BY <4>2 DEF CountersTyped
        <5> PICK m \in Nat : m = velocity[k].minute.since
          BY <5>1 DEF Counter
        <5> PICK n \in Nat : n = velocity[k].minute.count
          BY <5>1 DEF Counter
        <5> PICK d \in Nat : d = velocity[k].day.since
          BY <5>1 DEF Counter
        <5> PICK e \in Nat : e = velocity[k].day.count
          BY <5>1 DEF Counter
        <5>2. /\ Tallied(q, m, n, now, Minute, PerMinuteMax)
              /\ Tallied(q, d, e, now, Day, PerDayMax)
          BY <2>2, <4>2 DEF VelocityCounted
        <5>3. PerMinuteMax \in Nat /\ PerDayMax \in Nat
          BY FactorConstants
        <5> QED
          BY <5>2, <5>3, TalliedIsWithin, FactorConstants
      <4> QED
        BY <4>1, <4>2
    <3> QED
      BY <2>1, <2>3, <3>1, <3>2 DEF VelocityCounted
  <2> QED
    BY <2>4, <2>5
<1> QED
  BY <1>2, <1>3 DEF CountersCounted

LEMMA CountersInductive ==
  ASSUME Typed, Typed', Memory, CountersTyped, CountersCounted, [StepUpNext]_stepUpVars
  PROVE  CountersTyped' /\ CountersCounted'
<1>1. CASE CountersStay
  <2>1. UNCHANGED <<velocity, allowed>>
    BY <1>1 DEF CountersStay
  <2>2. CountersTyped'
    BY <2>1 DEF CountersTyped
  <2>3. ASSUME NEW s \in SessionIds, NEW a \in Actions
        PROVE  VelocityCounted(s, a)'
    BY <2>1, CountersUntouched DEF CountersCounted
  <2> QED
    BY <2>2, <2>3 DEF CountersCounted
<1> QED
  BY <1>1, CounterSteps, RecordKeeps, CountersForgotten

LEMMA InitCounters == StepUpInit => CountersTyped /\ CountersCounted
<1> SUFFICES ASSUME StepUpInit
             PROVE  CountersTyped /\ CountersCounted
  OBVIOUS
<1>1. /\ velocity = << >> /\ DOMAIN velocity = {}
      /\ allowed = [s \in SessionIds |-> [a \in Actions |-> << >>]]
      /\ clock = 0
  BY DEF StepUpInit, Init
<1>2. << >> \in Seq(0..MaxClock)
  OBVIOUS
<1>3. CountersTyped
  BY <1>1, <1>2 DEF CountersTyped
<1>4. ASSUME NEW s \in SessionIds, NEW a \in Actions
      PROVE  VelocityCounted(s, a)
  <2> PICK q : q = << >>
    OBVIOUS
  <2>1. allowed[s][a] = q /\ <<s, a>> \notin DOMAIN velocity
    BY <1>1
  <2>2. allBy(q, clock)
    BY DEF allBy
  <2> QED
    BY <2>1, <2>2 DEF VelocityCounted
<1> QED
  BY <1>3, <1>4 DEF CountersCounted

LEMMA CountedIsWithin ==
  ASSUME Typed, CountersTyped, NEW s \in SessionIds, NEW a \in Actions,
         VelocityCounted(s, a)
  PROVE  /\ WithinWindows(allowed[s][a], clock, Minute, PerMinuteMax)
         /\ WithinWindows(allowed[s][a], clock, Day, PerDayMax)
<1> PICK q \in Seq(Nat) : q = allowed[s][a]
  BY AllowedAre
<1> PICK now \in Nat : now = clock
  BY Constants DEF Typed
<1> PICK k : k = <<s, a>>
  OBVIOUS
<1>1. PerMinuteMax \in Nat /\ PerDayMax \in Nat
  BY FactorConstants
<1>2. CASE k \in DOMAIN velocity
  <2>1. velocity[k].minute \in Counter /\ velocity[k].day \in Counter
    BY <1>2 DEF CountersTyped
  <2> PICK m \in Nat : m = velocity[k].minute.since
    BY <2>1 DEF Counter
  <2> PICK n \in Nat : n = velocity[k].minute.count
    BY <2>1 DEF Counter
  <2> PICK d \in Nat : d = velocity[k].day.since
    BY <2>1 DEF Counter
  <2> PICK e \in Nat : e = velocity[k].day.count
    BY <2>1 DEF Counter
  <2>2. Tallied(q, m, n, now, Minute, PerMinuteMax) /\ Tallied(q, d, e, now, Day, PerDayMax)
    BY <1>2 DEF VelocityCounted
  <2> QED
    BY <1>1, <2>2, TalliedIsWithin, FactorConstants
<1>3. CASE k \notin DOMAIN velocity
  <2>1. CASE q = << >>
    <3>1. /\ Tallied(q, now, 0, now, Minute, PerMinuteMax)
          /\ Tallied(q, now, 0, now, Day, PerDayMax)
      BY <1>1, <2>1, NothingCounted, FactorConstants
    <3> QED
      BY <1>1, <3>1, TalliedIsWithin, FactorConstants
  <2>2. CASE q # << >>
    BY <1>3, <2>2 DEF VelocityCounted
  <2> QED
    BY <2>1, <2>2
<1> QED
  BY <1>2, <1>3

LEMMA StepUpCounts == StepUpSpec => [](Typed /\ CountersTyped /\ CountersCounted)
<1>1. Typed /\ Typed' /\ Memory /\ CountersTyped /\ CountersCounted /\ [StepUpNext]_stepUpVars
        => CountersTyped' /\ CountersCounted'
  BY CountersInductive
<1> QED
  BY <1>1, InitCounters, StepUpTyped, StepUpRemembers, PTL DEF StepUpSpec

(* A minute's limit and a day's limit, refusing for each other and each    *)
(* starting anew at the attempt that finds it over, bound the actions of   *)
(* a session in every stretch of time up to now; a restart of the process  *)
(* does not give a session more, since it does not outlive it.             *)
THEOREM VelocityBoundHolds == StepUpSpec => []VelocityBound
<1>1. Typed /\ CountersTyped /\ CountersCounted => VelocityBound
  <2> SUFFICES ASSUME Typed, CountersTyped, CountersCounted,
                      NEW s \in SessionIds, NEW a \in Actions,
                      NEW t \in 0..MaxClock, t <= clock
               PROVE  /\ Cardinality({ n \in DOMAIN allowed[s][a] : allowed[s][a][n] >= t })
                           <= PerMinuteMax * (1 + (clock - t) \div Minute
                                                + IF t = 0 THEN 0 ELSE 1)
                      /\ Cardinality({ n \in DOMAIN allowed[s][a] : allowed[s][a][n] >= t })
                           <= PerDayMax * (1 + (clock - t) \div Day
                                             + IF t = 0 THEN 0 ELSE 1)
    BY DEF VelocityBound
  <2>1. t \in 0..clock
    BY Constants DEF Typed
  <2>2. /\ WithinWindows(allowed[s][a], clock, Minute, PerMinuteMax)
        /\ WithinWindows(allowed[s][a], clock, Day, PerDayMax)
    BY CountedIsWithin DEF CountersCounted
  <2>3. /\ Cardinality(from(allowed[s][a], t))
             <= PerMinuteMax * (1 + (clock - t) \div Minute + begun(t))
        /\ Cardinality(from(allowed[s][a], t))
             <= PerDayMax * (1 + (clock - t) \div Day + begun(t))
    BY <2>1, <2>2 DEF WithinWindows
  <2> QED
    BY <2>3 DEF from, begun
<1> QED
  BY <1>1, StepUpCounts, PTL
-----------------------------------------------------------------------------
(* What the stores of the factors hold: codes of requests that need one,   *)
(* with no more misses than MAX_ATTEMPTS, consumed ids of minted tokens    *)
(* only, and counters and times of the actions there are.                  *)
THEOREM StepUpTypeCorrect == StepUpSpec => []StepUpTypeOK
<1>1. Typed => TypeOK
  BY DEF Typed, PendingTyped, EntriesTyped, TypeOK
<1>2. TypeOK /\ CodesTyped /\ TokensTyped /\ CountersTyped => StepUpTypeOK
  BY CodeIs DEF CodesTyped, TokensTyped, CountersTyped, StepUpTypeOK
<1>3. Typed /\ Typed' /\ Memory /\ CodesTyped /\ CodesCounted /\ [StepUpNext]_stepUpVars
        => CodesTyped' /\ CodesCounted'
  BY CodesStayTyped, GuessesInductive DEF CodesCounted
<1>4. Typed /\ TokensTyped /\ SpentOnce /\ [StepUpNext]_stepUpVars
        => TokensTyped' /\ SpentOnce'
  BY TokensInductive
<1> QED
  BY <1>1, <1>2, <1>3, <1>4, InitCodes, InitTokens, StepUpTyped, StepUpRemembers,
     StepUpCounts, PTL DEF StepUpSpec
=============================================================================
