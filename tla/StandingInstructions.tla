------------------------ MODULE StandingInstructions ------------------------
(***************************************************************************)
(* Standing instructions: what their owner does with them, and the loop    *)
(* that runs the due ones every SI_TICK_MS (runDueInstructions).           *)
(*                                                                         *)
(* A run is one planned payment of an instruction.  For each run the loop  *)
(* makes three writes that no transaction joins: the transfer, the row of  *)
(* the instruction, and the notification that a bus handler inserts.  The  *)
(* process can stop between them, and each can throw.  Requests do not run *)
(* inside the loop.  Payments is seen through two things: whether          *)
(* executeTransfer would accept the transfer now (canPay), and the         *)
(* idempotency keys si:<id>:<nextRunAt> it has on its rows (paid).         *)
(***************************************************************************)
EXTENDS Integers, Sequences, SequencesExt

CONSTANTS
  Instructions,     \* ids of standing instructions
  Period,           \* frequency of each: time between two planned runs
  EndAt,            \* endAt of each; beyond MaxTime for none
  MaxSiFailures,    \* MAX_SI_FAILURES
  MaxFailureCount,  \* bound: failureCount an instruction is resumed with
  MaxTime,          \* bound: time the clock runs
  MaxFaults,        \* bound: writes that throw after the transfer
  MaxCrashes        \* bound: process stops inside the loop

ASSUME StandingInstructionsAssumption ==
  /\ Period \in [Instructions -> Nat \ {0}]
  /\ EndAt \in [Instructions -> Nat]
  /\ MaxSiFailures \in Nat \ {0}
  /\ MaxFailureCount \in Nat
  /\ MaxTime \in Nat
  /\ MaxFaults \in Nat
  /\ MaxCrashes \in Nat

VARIABLES
  si,       \* the standing_instructions table
  paid,     \* runs with a posted transfer, by instruction, in posting order
  canPay,   \* whether executeTransfer accepts the transfer of each
  due,      \* instructions the loop has yet to visit
  phase,    \* write the loop is at
  current,  \* instruction the loop is at
  read,     \* its row, as listDue read it
  now, faults, crashes

vars == <<si, paid, canPay, due, phase, current, read, now, faults, crashes>>

(* "none": not created yet; "deleted": the row went with its beneficiary.  *)
Row ==
  [ status       : {"none", "active", "paused", "cancelled", "deleted"},
    createdAt    : Nat,
    nextRunAt    : Nat,
    failureCount : Nat ]

NoRow == [status |-> "none", createdAt |-> 0, nextRunAt |-> 0, failureCount |-> 0]

Init ==
  /\ si = [i \in Instructions |-> NoRow]
  /\ paid = [i \in Instructions |-> << >>]
  /\ canPay \in [Instructions -> BOOLEAN]
  /\ due = {}
  /\ phase = "next"
  /\ current \in Instructions
  /\ read = NoRow
  /\ now = 0
  /\ faults = 0
  /\ crashes = 0

loop == <<due, phase, current, read, faults, crashes>>

idle == due = {} /\ phase = "next"
-----------------------------------------------------------------------------
(* Requests of the owner. *)

(* The route has no start date: the first run is one period away. *)
Create(i) ==
  /\ idle
  /\ si[i].status = "none"
  /\ si' = [si EXCEPT ![i] =
              [status |-> "active", createdAt |-> now,
               nextRunAt |-> now + Period[i], failureCount |-> 0]]
  /\ UNCHANGED <<paid, canPay, now, loop>>

Pause(i) ==
  /\ idle
  /\ si[i].status = "active"
  /\ si' = [si EXCEPT ![i].status = "paused"]
  /\ UNCHANGED <<paid, canPay, now, loop>>

(* The failure count stays: the next failure pauses again. *)
Resume(i) ==
  /\ idle
  /\ si[i].status = "paused"
  /\ si[i].failureCount <= MaxFailureCount
  /\ si' = [si EXCEPT ![i].status = "active"]
  /\ UNCHANGED <<paid, canPay, now, loop>>

Cancel(i) ==
  /\ idle
  /\ si[i].status \in {"active", "paused"}
  /\ si' = [si EXCEPT ![i].status = "cancelled"]
  /\ UNCHANGED <<paid, canPay, now, loop>>

(* Removing a beneficiary deletes its instructions (ON DELETE CASCADE). *)
RemoveBeneficiary(i) ==
  /\ idle
  /\ si[i].status \in {"active", "paused", "cancelled"}
  /\ si' = [si EXCEPT ![i].status = "deleted"]
  /\ UNCHANGED <<paid, canPay, now, loop>>

(* Funds come and go, accounts are frozen, closed and unfrozen. *)
AccountsChange(i) ==
  /\ idle
  /\ canPay' = [canPay EXCEPT ![i] = ~@]
  /\ UNCHANGED <<si, paid, now, loop>>
-----------------------------------------------------------------------------
(* The loop. *)

isDue(i) == si[i].status = "active" /\ si[i].nextRunAt <= now

(* Faulty variant: a run is looked for on its time only. *)
TickOnTime ==
  /\ idle
  /\ due' = { i \in Instructions : isDue(i) /\ si[i].nextRunAt = now }
  /\ UNCHANGED <<si, paid, canPay, phase, current, read, now, faults, crashes>>

Tick ==
  /\ idle
  /\ due' = { i \in Instructions : isDue(i) }
  /\ UNCHANGED <<si, paid, canPay, phase, current, read, now, faults, crashes>>

(* ORDER BY nextRunAt *)
isNext(i) ==
  /\ i \in due
  /\ phase = "next"
  /\ \A j \in due : si[i].nextRunAt <= si[j].nextRunAt

hasEnded(i) == EndAt[i] <= now

CancelEnded(i) ==
  /\ isNext(i)
  /\ hasEnded(i)
  /\ si' = [si EXCEPT ![i].status = "cancelled"]
  /\ due' = due \ {i}
  /\ UNCHANGED <<paid, canPay, phase, current, read, now, faults, crashes>>

(* Faulty variant: the key has the time of the tick, not of the run. *)
keyOfTickUsed(i) == FALSE

(* si:<id>:<nextRunAt> is on a transfer *)
keyUsed(i) == Contains(paid[i], si[i].nextRunAt)

(* executeTransfer returns the transfer posted before without looking at   *)
(* the accounts, or posts it; the money it moves can decide the others.    *)
transfer(i) ==
  IF keyUsed(i)
  THEN UNCHANGED <<paid, canPay>>
  ELSE /\ canPay[i]
       /\ paid' = [paid EXCEPT ![i] = Append(@, si[i].nextRunAt)]
       /\ canPay' \in [Instructions -> BOOLEAN]

PayRun(i) ==
  /\ isNext(i)
  /\ ~hasEnded(i)
  /\ transfer(i)
  /\ current' = i
  /\ read' = si[i]
  /\ phase' = "paid"
  /\ due' = due \ {i}
  /\ UNCHANGED <<si, now, faults, crashes>>

(* What the catch branch writes: the row as it was read. *)
failed(i, row) ==
  LET failures == row.failureCount + 1
  IN  [row EXCEPT
         !.failureCount = failures,
         !.status = IF failures >= MaxSiFailures THEN "paused" ELSE row.status]

RunRefused(i) ==
  /\ isNext(i)
  /\ ~hasEnded(i)
  /\ ~keyUsed(i)
  /\ ~canPay[i]
  /\ si' = [si EXCEPT ![i] = failed(i, @)]
  /\ due' = due \ {i}
  /\ UNCHANGED <<paid, canPay, phase, current, read, now, faults, crashes>>

(* Faulty variant: the next run is a period from today. *)
AdvanceFromNow ==
  /\ phase = "paid"
  /\ si' = [si EXCEPT ![current] =
              [read EXCEPT !.nextRunAt = now + Period[current],
                           !.status = "active", !.failureCount = 0]]
  /\ phase' = "advanced"
  /\ UNCHANGED <<paid, canPay, due, current, read, now, faults, crashes>>

(* siRepo.update after the transfer *)
Advance ==
  /\ phase = "paid"
  /\ si' = [si EXCEPT ![current] =
              [read EXCEPT !.nextRunAt = @ + Period[current],
                           !.status = "active", !.failureCount = 0]]
  /\ phase' = "advanced"
  /\ UNCHANGED <<paid, canPay, due, current, read, now, faults, crashes>>

(* bus.publish(StandingInstructionRan) *)
Announce ==
  /\ phase = "advanced"
  /\ phase' = "next"
  /\ UNCHANGED <<si, paid, canPay, due, current, read, now, faults, crashes>>

(* A write after the transfer throws: the update of the row, or the insert *)
(* of a notification by a bus handler, before the update or after it.  The *)
(* catch branch takes it for a failed run and writes the old row.          *)
WriteThrows ==
  /\ phase \in {"paid", "advanced"}
  /\ faults < MaxFaults
  /\ faults' = faults + 1
  /\ si' = [si EXCEPT ![current] = failed(current, read)]
  /\ phase' = "next"
  /\ UNCHANGED <<paid, canPay, due, current, read, now, crashes>>

(* The process stops inside the loop, or the catch branch throws too. *)
Crash ==
  /\ ~idle
  /\ crashes < MaxCrashes
  /\ crashes' = crashes + 1
  /\ due' = {}
  /\ phase' = "next"
  /\ UNCHANGED <<si, paid, canPay, current, read, now, faults>>

TimePasses ==
  /\ idle
  /\ now < MaxTime
  /\ now' = now + 1
  /\ UNCHANGED <<si, paid, canPay, loop>>
-----------------------------------------------------------------------------
Owner ==
  \E i \in Instructions :
    \/ Create(i)
    \/ Pause(i)
    \/ Resume(i)
    \/ Cancel(i)
    \/ RemoveBeneficiary(i)

LoopStep ==
  \/ \E i \in Instructions : CancelEnded(i) \/ PayRun(i) \/ RunRefused(i)
  \/ Advance
  \/ Announce

Environment ==
  \/ \E i \in Instructions : AccountsChange(i)
  \/ TimePasses
  \/ WriteThrows
  \/ Crash

Next == Owner \/ Tick \/ LoopStep \/ Environment

(* main.ts starts the loop from setInterval, and a started loop runs to    *)
(* its end unless the process stops.                                       *)
Fairness == WF_vars(Tick) /\ WF_vars(LoopStep)

Spec == Init /\ [][Next]_vars /\ Fairness
-----------------------------------------------------------------------------
(* Properties *)

TypeOK ==
  /\ si \in [Instructions -> Row]
  /\ paid \in [Instructions -> Seq(Nat)]
  /\ canPay \in [Instructions -> BOOLEAN]
  /\ due \subseteq Instructions
  /\ phase \in {"next", "paid", "advanced"}
  /\ current \in Instructions
  /\ read \in Row
  /\ now \in 0..MaxTime
  /\ faults \in 0..MaxFaults
  /\ crashes \in 0..MaxCrashes

(* The module implements the schedule: whatever fails, throws or stops     *)
(* between the three writes of a run, its transfer is made once, after the *)
(* one before it and not before its time.                                  *)
Schedule == INSTANCE PaymentSchedule WITH paid <- paid, now <- now

ImplementsSchedule == Schedule!Spec

(* No run is lost or passed over: the runs paid so far are those from the  *)
(* creation of the instruction up to nextRunAt, and nextRunAt itself only  *)
(* while its row has yet to be advanced.  Retried, caught up after a stop  *)
(* of several periods or rewritten by the catch branch, the row and the    *)
(* transfers never drift apart by more than that one run.                  *)
RowMatchesTransfers ==
  \A i \in Instructions :
    si[i].status # "none" =>
      LET runs == Len(paid[i])
          lastPaid == si[i].createdAt + runs * Period[i]
      IN  /\ runs > 0 => paid[i][runs] = lastPaid
          /\ si[i].nextRunAt \in {lastPaid, lastPaid + Period[i]}
          /\ runs = 0 => si[i].nextRunAt = si[i].createdAt + Period[i]

(* Money leaves for an instruction only while it is active and before its  *)
(* end date: a paused, cancelled, ended or removed one pays nothing, not   *)
(* even the run that was due.                                              *)
PaysOnlyWhenActive ==
  [][ \A i \in Instructions :
        paid'[i] # paid[i] => si[i].status = "active" /\ now < EndAt[i] ]_vars

(* A cancelled instruction never comes back: the loop writes whole rows it *)
(* read earlier, and none of those writes revives one.                     *)
CancelledIsFinal ==
  [][ \A i \in Instructions :
        si[i].status \in {"cancelled", "deleted"}
        => si'[i].status \in {"cancelled", "deleted"} ]_vars

(* A due instruction whose transfer would be accepted does not stay due:   *)
(* the loop catches up with every missed run, whatever the others in its   *)
(* batch do.                                                               *)
CatchesUp ==
  \A i \in Instructions : ~ <>[](isDue(i) /\ canPay[i])
-----------------------------------------------------------------------------
(* A statement of the documentation that the code does not keep. *)

(* README and runDueInstructions: a failed run leaves the status as it is, *)
(* "no auto-pause".  No request runs inside the loop, so what pauses an    *)
(* instruction of the batch is the loop.                                   *)
NoAutoPause ==
  [][ \A i \in due : si[i].status = "active" => si'[i].status # "paused" ]_vars
=============================================================================
