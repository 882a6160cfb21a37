---------------------------- MODULE SecureChannel ----------------------------
(***************************************************************************)
(* What the encrypted sessions promise: a session id is given one key in   *)
(* its life and is never reopened; a message of a client reaches the       *)
(* handlers only while the channel is open and the message is timely, and  *)
(* once, or once more by a request during which it ceases to be timely; a  *)
(* channel speaks for one user at most.  Why a channel closes (expiry,     *)
(* eviction, logout, a restart) is not said here.                          *)
(***************************************************************************)
EXTENDS Integers

CONSTANTS
  SessionIds,
  Users,
  NoUser,
  Messages   \* what a client seals in an envelope

VARIABLES
  channel,     \* "new", "open" or "closed", by session id
  keysGiven,   \* how many keys a session id was given
  user,        \* the user a channel speaks for, NoUser before login
  timely,      \* messages whose timestamp is not too old yet
  delivered    \* how often a message of a session reached a handler

channelVars == <<channel, keysGiven, user, timely, delivered>>

Init ==
  /\ channel = [s \in SessionIds |-> "new"]
  /\ keysGiven = [s \in SessionIds |-> 0]
  /\ user = [s \in SessionIds |-> NoUser]
  /\ timely \subseteq Messages
  /\ delivered = [s \in SessionIds |-> [m \in Messages |-> 0]]

Open == { s \in SessionIds : channel[s] = "open" }

close(S) ==
  [s \in SessionIds |-> IF s \in S THEN "closed" ELSE channel[s]]

silence(S) ==
  [s \in SessionIds |-> IF s \in S THEN NoUser ELSE user[s]]

(* Time passes: messages grow old, and channels close, for any reason. *)
Close(S) ==
  /\ channel' = close(S)
  /\ user' = silence(S)
  /\ timely' \subseteq timely
  /\ UNCHANGED <<keysGiven, delivered>>

(* Opening one channel may close others, for room. *)
Establish(s, S) ==
  /\ channel[s] = "new"
  /\ keysGiven[s] = 0
  /\ channel' = [close(S) EXCEPT ![s] = "open"]
  /\ keysGiven' = [keysGiven EXCEPT ![s] = 1]
  /\ user' = silence(S)
  /\ UNCHANGED <<timely, delivered>>

(* Time passes during the request, too: channels may close, its own        *)
(* included.  What was handed over before and is handed over now is not    *)
(* timely any more, and cannot come a third time.                          *)
Deliver(s, m, S) ==
  /\ channel[s] = "open"
  /\ m \in timely
  /\ timely' \subseteq timely
  /\ delivered[s][m] = 0 \/ m \notin timely'
  /\ delivered' = [delivered EXCEPT ![s][m] = @ + 1]
  /\ channel' = close(S)
  /\ user' = silence(S)
  /\ UNCHANGED keysGiven

Bind(s, u) ==
  /\ channel[s] = "open"
  /\ user[s] = NoUser
  /\ user' = [user EXCEPT ![s] = u]
  /\ UNCHANGED <<channel, keysGiven, timely, delivered>>

Next ==
  \/ \E S \in SUBSET Open : Close(S)
  \/ \E s \in SessionIds, S \in SUBSET Open : Establish(s, S)
  \/ \E s \in SessionIds :
       \/ \E m \in Messages, S \in SUBSET Open : Deliver(s, m, S)
       \/ \E u \in Users : Bind(s, u)

Spec == Init /\ [][Next]_channelVars
=============================================================================
