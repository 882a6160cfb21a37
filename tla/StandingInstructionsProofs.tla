--------------------- MODULE StandingInstructionsProofs ---------------------
(***************************************************************************)
(* What TLAPS proves of StandingInstructions for every set of              *)
(* instructions, every period, end date and failure limit, and any number  *)
(* of throwing writes and process stops.                                   *)
(***************************************************************************)
EXTENDS StandingInstructions, TLAPS

(* The last planned run that is paid, or the creation before the first. *)
lastPaid(i) == si[i].createdAt + Len(paid[i]) * Period[i]

(* RowMatchesTransfers, with what it leaves out: an instruction that does  *)
(* not exist has paid nothing, and no paid run is later than the last.     *)
(* Without the latter a run whose key is used need not be the last paid.   *)
RowsFollow ==
  \A i \in Instructions :
    /\ si[i].status = "none" => paid[i] = << >>
    /\ paid[i] # << >> => paid[i][Len(paid[i])] = lastPaid(i)
    /\ \A k \in 1..Len(paid[i]) : paid[i][k] <= lastPaid(i)
    /\ si[i].status # "none" =>
         /\ si[i].nextRunAt \in {lastPaid(i), lastPaid(i) + Period[i]}
         /\ paid[i] = << >> => si[i].nextRunAt = lastPaid(i) + Period[i]

(* What the loop relies on between its steps: no request runs inside it,   *)
(* so the instructions it has yet to visit are still due, and the one it   *)
(* is at is still active; the row it read is on the run just paid.         *)
LoopReads ==
  /\ \A i \in due : isDue(i)
  /\ phase # "next" =>
       /\ current \notin due
       /\ si[current].status = "active"
       /\ paid[current] # << >>
       /\ read.status = "active"
       /\ read.createdAt = si[current].createdAt
       /\ read.nextRunAt = lastPaid(current)

(* The inductive invariant. *)
IInv == TypeOK /\ RowsFollow /\ LoopReads
-----------------------------------------------------------------------------
(* Arithmetic of the schedule. *)
LEMMA NextRun ==
  ASSUME NEW n \in Nat, NEW p \in Nat
  PROVE  n * p \in Nat /\ (n + 1) * p = n * p + p
OBVIOUS

LEMMA LastPaidIsTime ==
  ASSUME TypeOK, NEW i \in Instructions
  PROVE  lastPaid(i) \in Nat /\ Period[i] \in Nat \ {0}
<1>1. Period[i] \in Nat \ {0}
  BY StandingInstructionsAssumption
<1>2. Len(paid[i]) \in Nat /\ si[i].createdAt \in Nat
  BY DEF TypeOK, Row
<1>3. Len(paid[i]) * Period[i] \in Nat
  BY <1>1, <1>2, NextRun
<1> QED
  BY <1>1, <1>2, <1>3 DEF lastPaid

(* A row of the table keeps its type when the loop or its owner writes it. *)
LEMMA FailedIsRow ==
  ASSUME NEW i, NEW row \in Row
  PROVE  /\ failed(i, row) \in Row
         /\ failed(i, row).status \in {row.status, "paused"}
         /\ failed(i, row).createdAt = row.createdAt
         /\ failed(i, row).nextRunAt = row.nextRunAt
<1> DEFINE failures == row.failureCount + 1
           status == IF failures >= MaxSiFailures THEN "paused" ELSE row.status
<1>1. /\ failures \in Nat
      /\ status \in {row.status, "paused"}
      /\ status \in {"none", "active", "paused", "cancelled", "deleted"}
  BY DEF Row
<1>2. failed(i, row) = [row EXCEPT !.failureCount = failures, !.status = status]
  BY DEF failed
<1> HIDE DEF failures, status
<1> QED
  BY <1>1, <1>2 DEF Row

(* Writing one row that stays on the schedule, with no transfer. *)
LEMMA WriteFollows ==
  ASSUME IInv, NEW i \in Instructions, NEW row \in Row,
         si' = [si EXCEPT ![i] = row], UNCHANGED paid,
         row.createdAt = si[i].createdAt \/ paid[i] = << >>,
         row.status # "none",
         \/ row.nextRunAt = row.createdAt + Len(paid[i]) * Period[i] + Period[i]
         \/ paid[i] # << >> /\ row.nextRunAt = lastPaid(i)
  PROVE  si' \in [Instructions -> Row] /\ RowsFollow'
<1>1. /\ si \in [Instructions -> Row] /\ paid \in [Instructions -> Seq(Nat)]
      /\ si' \in [Instructions -> Row] /\ si'[i] = row
      /\ \A j \in Instructions \ {i} : si'[j] = si[j]
  BY DEF IInv, TypeOK
<1>2. paid[i] # << >> => row.createdAt = si[i].createdAt
  OBVIOUS
<1>3. paid[i] # << >> => lastPaid(i)' = lastPaid(i)
  BY <1>1, <1>2 DEF lastPaid
<1>4. \/ row.nextRunAt = lastPaid(i)' + Period[i]
      \/ paid[i] # << >> /\ row.nextRunAt = lastPaid(i)'
  BY <1>1, <1>3 DEF lastPaid
<1>5. \A j \in Instructions \ {i} : lastPaid(j)' = lastPaid(j)
  BY <1>1 DEF lastPaid
<1>6. paid[i] = << >> => Len(paid[i]) = 0
  BY <1>1
<1> QED
  BY <1>1, <1>3, <1>4, <1>5, <1>6 DEF IInv, RowsFollow
-----------------------------------------------------------------------------
LEMMA InitIInv == Init => IInv
<1> SUFFICES ASSUME Init PROVE IInv
  OBVIOUS
<1>1. TypeOK
  BY StandingInstructionsAssumption DEF Init, TypeOK, Row, NoRow
<1>2. RowsFollow
  BY DEF Init, RowsFollow, NoRow
<1>3. LoopReads
  BY DEF Init, LoopReads
<1> QED
  BY <1>1, <1>2, <1>3 DEF IInv
-----------------------------------------------------------------------------
(* A status written over the row of an instruction that exists. *)
LEMMA StatusFollows ==
  ASSUME IInv, NEW i \in Instructions,
         NEW status \in {"active", "paused", "cancelled", "deleted"},
         si[i].status # "none",
         si' = [si EXCEPT ![i].status = status], UNCHANGED paid
  PROVE  si' \in [Instructions -> Row] /\ RowsFollow'
<1> DEFINE row == [si[i] EXCEPT !.status = status]
<1>1. /\ si[i] \in Row
      /\ si[i].nextRunAt \in {lastPaid(i), lastPaid(i) + Period[i]}
      /\ paid[i] = << >> => si[i].nextRunAt = lastPaid(i) + Period[i]
  BY DEF IInv, TypeOK, RowsFollow
<1>2. /\ row \in Row /\ row.status = status
      /\ row.createdAt = si[i].createdAt /\ row.nextRunAt = si[i].nextRunAt
  BY <1>1 DEF Row
<1>3. si' = [si EXCEPT ![i] = row]
  OBVIOUS
<1> HIDE DEF row
<1>4. \/ row.nextRunAt = row.createdAt + Len(paid[i]) * Period[i] + Period[i]
      \/ paid[i] # << >> /\ row.nextRunAt = lastPaid(i)
  BY <1>1, <1>2 DEF lastPaid
<1>5. row.status # "none"
  BY <1>2
<1> QED
  BY <1>2, <1>3, <1>4, <1>5, WriteFollows

(* Between loops the variables of the loop say nothing of any row. *)
LEMMA IdleReads == ASSUME due' = {}, phase' = "next" PROVE LoopReads'
BY DEF LoopReads

(* Inside a loop that is between two instructions, writing the row of one  *)
(* that has been visited leaves the others due.                            *)
LEMMA VisitedReads ==
  ASSUME IInv, NEW i \in Instructions, phase' = "next",
         due' \subseteq due \ {i}, now' = now,
         \A j \in Instructions \ {i} : si'[j] = si[j]
  PROVE  LoopReads'
BY DEF LoopReads, IInv, TypeOK, isDue

LEMMA OwnerKeepsInv == IInv /\ Owner => IInv'
<1> SUFFICES ASSUME IInv, NEW i \in Instructions,
                    \/ Create(i)
                    \/ Pause(i)
                    \/ Resume(i)
                    \/ Cancel(i)
                    \/ RemoveBeneficiary(i)
             PROVE  IInv'
  BY DEF Owner
<1>1. /\ due = {} /\ phase = "next"
      /\ UNCHANGED <<paid, canPay, now, due, phase, current, read, faults, crashes>>
  BY DEF Create, Pause, Resume, Cancel, RemoveBeneficiary, idle, loop
<1>2. LoopReads'
  BY <1>1, IdleReads
<1>3. si' \in [Instructions -> Row] /\ RowsFollow'
  <2>1. CASE Create(i)
    <3> DEFINE row == [status |-> "active", createdAt |-> now,
                       nextRunAt |-> now + Period[i], failureCount |-> 0]
    <3>1. Period[i] \in Nat /\ now \in Nat /\ row \in Row
      BY SMTT(30), StandingInstructionsAssumption DEF IInv, TypeOK, Row
    <3>2. si' = [si EXCEPT ![i] = row]
      BY <2>1 DEF Create
    <3>3. paid[i] = << >>
      BY <2>1 DEF Create, IInv, RowsFollow
    <3>4. row.nextRunAt = row.createdAt + Len(paid[i]) * Period[i] + Period[i]
      BY <3>1, <3>3
    <3> HIDE DEF row
    <3>5. row.status # "none"
      BY DEF row
    <3> QED
      BY <1>1, <3>1, <3>2, <3>3, <3>4, <3>5, WriteFollows
  <2>2. CASE Pause(i)
    BY <2>2, StatusFollows DEF Pause
  <2>3. CASE Resume(i)
    BY <2>3, StatusFollows DEF Resume
  <2>4. CASE Cancel(i)
    BY <2>4, StatusFollows DEF Cancel
  <2>5. CASE RemoveBeneficiary(i)
    BY <2>5, StatusFollows DEF RemoveBeneficiary
  <2> QED
    BY <2>1, <2>2, <2>3, <2>4, <2>5
<1> QED
  BY <1>1, <1>2, <1>3 DEF IInv, TypeOK

LEMMA TickKeepsInv == IInv /\ Tick => IInv'
<1> SUFFICES ASSUME IInv, Tick PROVE IInv'
  OBVIOUS
<1>1. /\ UNCHANGED <<si, paid, canPay, phase, current, read, now, faults, crashes>>
      /\ due' = { i \in Instructions : isDue(i) }
      /\ phase = "next"
  BY DEF Tick, idle
<1>2. RowsFollow'
  BY <1>1 DEF IInv, RowsFollow, lastPaid
<1>3. LoopReads'
  BY <1>1 DEF LoopReads, isDue
<1> QED
  BY <1>1, <1>2, <1>3 DEF IInv, TypeOK

LEMMA CancelEndedKeepsInv ==
  ASSUME IInv, NEW i \in Instructions, CancelEnded(i) PROVE IInv'
<1>1. /\ i \in due /\ phase = "next" /\ si[i].status = "active"
      /\ si' = [si EXCEPT ![i].status = "cancelled"]
      /\ due' = due \ {i}
      /\ UNCHANGED <<paid, canPay, phase, current, read, now, faults, crashes>>
  BY DEF CancelEnded, isNext, IInv, LoopReads, isDue
<1>2. si' \in [Instructions -> Row] /\ RowsFollow'
  BY <1>1, StatusFollows
<1>3. LoopReads'
  BY <1>1, VisitedReads DEF IInv, TypeOK
<1> QED
  BY <1>1, <1>2, <1>3 DEF IInv, TypeOK

LEMMA RunRefusedKeepsInv ==
  ASSUME IInv, NEW i \in Instructions, RunRefused(i) PROVE IInv'
<1>1. /\ i \in due /\ phase = "next" /\ si[i].status = "active" /\ si[i] \in Row
      /\ si' = [si EXCEPT ![i] = failed(i, si[i])]
      /\ due' = due \ {i}
      /\ UNCHANGED <<paid, canPay, phase, current, read, now, faults, crashes>>
  BY DEF RunRefused, isNext, IInv, TypeOK, LoopReads, isDue
<1>2. /\ failed(i, si[i]) \in Row
      /\ failed(i, si[i]).status # "none"
      /\ failed(i, si[i]).createdAt = si[i].createdAt
      /\ failed(i, si[i]).nextRunAt = si[i].nextRunAt
  BY <1>1, FailedIsRow
<1>3. \/ si[i].nextRunAt = si[i].createdAt + Len(paid[i]) * Period[i] + Period[i]
      \/ paid[i] # << >> /\ si[i].nextRunAt = lastPaid(i)
  BY <1>1 DEF IInv, RowsFollow, lastPaid
<1>4. si' \in [Instructions -> Row] /\ RowsFollow'
  BY <1>1, <1>2, <1>3, WriteFollows
<1>5. LoopReads'
  BY <1>1, VisitedReads DEF IInv, TypeOK
<1> QED
  BY <1>1, <1>4, <1>5 DEF IInv, TypeOK
-----------------------------------------------------------------------------
(* A run is paid. *)

(* The key of the run tells which run it is: the last paid one if the key  *)
(* is on a transfer, the one after it if not.                              *)
LEMMA KeyTellsRun ==
  ASSUME IInv, NEW i \in Instructions, si[i].status # "none"
  PROVE  IF keyUsed(i)
         THEN paid[i] # << >> /\ si[i].nextRunAt = lastPaid(i)
         ELSE si[i].nextRunAt = lastPaid(i) + Period[i]
<1>1. /\ lastPaid(i) \in Nat /\ Period[i] \in Nat \ {0}
      /\ paid[i] \in Seq(Nat)
      /\ si[i].nextRunAt \in {lastPaid(i), lastPaid(i) + Period[i]}
      /\ paid[i] = << >> => si[i].nextRunAt = lastPaid(i) + Period[i]
      /\ paid[i] # << >> => paid[i][Len(paid[i])] = lastPaid(i)
      /\ \A k \in 1..Len(paid[i]) : paid[i][k] <= lastPaid(i)
  BY LastPaidIsTime DEF IInv, TypeOK, RowsFollow
<1>2. CASE keyUsed(i)
  <2>1. PICK k \in 1..Len(paid[i]) : paid[i][k] = si[i].nextRunAt
    BY <1>2 DEF keyUsed, Contains
  <2>2. si[i].nextRunAt <= lastPaid(i)
    BY <1>1, <2>1
  <2> QED
    BY <1>1, <1>2, <2>2
<1>3. CASE ~keyUsed(i)
  <2>1. paid[i] # << >> => Len(paid[i]) \in 1..Len(paid[i])
    BY <1>1
  <2>2. paid[i] # << >> => si[i].nextRunAt # lastPaid(i)
    BY <1>1, <1>3, <2>1 DEF keyUsed, Contains
  <2> QED
    BY <1>1, <1>3, <2>2
<1> QED
  BY <1>2, <1>3

(* What a paid run leaves: the run is the last paid one, of an active      *)
(* instruction whose row has not moved.                                    *)
LEMMA PayRunPays ==
  ASSUME IInv, NEW i \in Instructions, PayRun(i)
  PROVE  /\ si[i].status = "active" /\ si[i].nextRunAt <= now /\ ~hasEnded(i)
         /\ paid' \in [Instructions -> Seq(Nat)]
         /\ paid'[i] # << >> /\ si[i].nextRunAt = lastPaid(i)'
         /\ \A j \in Instructions \ {i} : paid'[j] = paid[j]
         /\ \/ UNCHANGED paid
            \/ /\ paid' = [paid EXCEPT ![i] = Append(@, si[i].nextRunAt)]
               /\ ~keyUsed(i)
<1>1. /\ i \in due /\ si[i] \in Row /\ paid \in [Instructions -> Seq(Nat)]
      /\ UNCHANGED si /\ ~hasEnded(i)
  BY DEF PayRun, isNext, IInv, TypeOK
<1>2. si[i].status = "active" /\ si[i].nextRunAt <= now
  BY <1>1 DEF IInv, LoopReads, isDue
<1>3. CASE keyUsed(i)
  <2>1. UNCHANGED paid
    BY <1>3 DEF PayRun, transfer
  <2>2. lastPaid(i)' = lastPaid(i)
    BY <1>1, <2>1 DEF lastPaid
  <2> QED
    BY <1>1, <1>2, <1>3, <2>1, <2>2, KeyTellsRun
<1>4. CASE ~keyUsed(i)
  <2>1. paid' = [paid EXCEPT ![i] = Append(@, si[i].nextRunAt)]
    BY <1>4 DEF PayRun, transfer
  <2>2. /\ paid' \in [Instructions -> Seq(Nat)]
        /\ paid'[i] = Append(paid[i], si[i].nextRunAt)
        /\ \A j \in Instructions \ {i} : paid'[j] = paid[j]
        /\ Len(paid'[i]) = Len(paid[i]) + 1
        /\ Len(paid[i]) \in Nat
    BY <1>1, <2>1 DEF Row
  <2>3. si[i].nextRunAt = lastPaid(i) + Period[i]
    BY <1>2, <1>4, KeyTellsRun
  <2>4. /\ Period[i] \in Nat
        /\ Len(paid[i]) * Period[i] \in Nat
        /\ (Len(paid[i]) + 1) * Period[i] = Len(paid[i]) * Period[i] + Period[i]
    BY <2>2, NextRun, StandingInstructionsAssumption
  <2>5. lastPaid(i)' = lastPaid(i) + Period[i]
    <3>1. lastPaid(i)' = si[i].createdAt + (Len(paid[i]) + 1) * Period[i]
      BY <1>1, <2>2 DEF lastPaid
    <3>2. si[i].createdAt \in Nat
      BY <1>1 DEF Row
    <3> QED
      BY <2>4, <3>1, <3>2 DEF lastPaid
  <2>6. paid'[i] # << >>
    BY <2>2
  <2> QED
    BY <1>1, <1>2, <1>4, <2>1, <2>2, <2>3, <2>5, <2>6
<1> QED
  BY <1>3, <1>4

LEMMA PayRunKeepsInv ==
  ASSUME IInv, NEW i \in Instructions, PayRun(i) PROVE IInv'
<1>1. /\ i \in due /\ UNCHANGED <<si, now, faults, crashes>>
      /\ current' = i /\ read' = si[i] /\ phase' = "paid" /\ due' = due \ {i}
      /\ canPay' \in [Instructions -> BOOLEAN]
  BY DEF PayRun, transfer, isNext, IInv, TypeOK
<1>2. /\ si[i].status = "active"
      /\ paid' \in [Instructions -> Seq(Nat)]
      /\ paid'[i] # << >> /\ si[i].nextRunAt = lastPaid(i)'
      /\ \A j \in Instructions \ {i} : paid'[j] = paid[j]
  BY PayRunPays
<1>3. TypeOK'
  BY <1>1, <1>2 DEF IInv, TypeOK
<1>4. LoopReads'
  <2>1. \A j \in due' : isDue(j)'
    BY <1>1 DEF IInv, LoopReads, isDue
  <2> QED
    BY <1>1, <1>2, <2>1 DEF LoopReads
<1>5. RowsFollow'
  <2>1. /\ paid'[i][Len(paid'[i])] = lastPaid(i)'
        /\ \A k \in 1..Len(paid'[i]) : paid'[i][k] <= lastPaid(i)'
    <3>1. CASE UNCHANGED paid
      <4>1. lastPaid(i)' = lastPaid(i)
        BY <1>1, <3>1 DEF lastPaid
      <4> QED
        BY <1>2, <3>1, <4>1 DEF IInv, RowsFollow
    <3>2. CASE paid' = [paid EXCEPT ![i] = Append(@, si[i].nextRunAt)] /\ ~keyUsed(i)
      <4>1. /\ paid[i] \in Seq(Nat) /\ si[i].nextRunAt \in Nat
            /\ paid'[i] = Append(paid[i], si[i].nextRunAt)
        BY <3>2 DEF IInv, TypeOK, Row
      <4>2. si[i].nextRunAt = lastPaid(i) + Period[i]
        BY <1>2, <3>2, KeyTellsRun
      <4>3. \A k \in 1..Len(paid[i]) : paid[i][k] <= lastPaid(i)
        BY DEF IInv, RowsFollow
      <4>4. lastPaid(i) \in Nat /\ Period[i] \in Nat
        BY LastPaidIsTime DEF IInv
      <4>5. \A k \in 1..Len(paid[i]) : paid[i][k] <= si[i].nextRunAt
        BY <4>1, <4>2, <4>3, <4>4
      <4> QED
        BY <1>2, <4>1, <4>5
    <3> QED
      BY <3>1, <3>2, PayRunPays
  <2>2. \A j \in Instructions \ {i} : lastPaid(j)' = lastPaid(j)
    BY <1>1, <1>2 DEF lastPaid
  <2> QED
    BY <1>1, <1>2, <2>1, <2>2 DEF IInv, RowsFollow
<1> QED
  BY <1>3, <1>4, <1>5 DEF IInv
-----------------------------------------------------------------------------
(* The writes after the transfer. *)

LEMMA AdvanceKeepsInv == IInv /\ Advance => IInv'
<1> SUFFICES ASSUME IInv, Advance PROVE IInv'
  OBVIOUS
<1> DEFINE row == [read EXCEPT !.nextRunAt = @ + Period[current],
                               !.status = "active", !.failureCount = 0]
<1>1. /\ phase = "paid" /\ si' = [si EXCEPT ![current] = row] /\ phase' = "advanced"
      /\ UNCHANGED <<paid, canPay, due, current, read, now, faults, crashes>>
  BY DEF Advance
<1>2. /\ current \in Instructions /\ read \in Row /\ Period[current] \in Nat
      /\ current \notin due /\ paid[current] # << >>
      /\ read.status = "active"
      /\ read.createdAt = si[current].createdAt
      /\ read.nextRunAt = lastPaid(current)
  BY <1>1, StandingInstructionsAssumption DEF IInv, TypeOK, LoopReads
<1>3. /\ row \in Row /\ row.status = "active"
      /\ row.createdAt = read.createdAt
      /\ row.nextRunAt = read.nextRunAt + Period[current]
  <2> DEFINE next == read.nextRunAt + Period[current]
  <2>1. next \in Nat
    BY <1>2 DEF Row
  <2>2. row = [read EXCEPT !.nextRunAt = next, !.status = "active", !.failureCount = 0]
    OBVIOUS
  <2> HIDE DEF next, row
  <2>3. row \in Row /\ row.status = "active"
    BY <1>2, <2>1, <2>2 DEF Row
  <2>4. row.createdAt = read.createdAt /\ row.nextRunAt = next
    BY <1>2, <2>2 DEF Row
  <2> QED
    BY <2>3, <2>4 DEF next
<1> HIDE DEF row
<1>4. row.nextRunAt = row.createdAt + Len(paid[current]) * Period[current] + Period[current]
  BY <1>2, <1>3 DEF lastPaid
<1>5. row.status # "none"
  BY <1>3
<1>6. si' \in [Instructions -> Row] /\ RowsFollow'
  BY <1>1, <1>2, <1>3, <1>4, <1>5, WriteFollows
<1>7. LoopReads'
  <2>1. /\ si'[current] = row
        /\ \A j \in Instructions \ {current} : si'[j] = si[j]
    BY <1>1, <1>2 DEF IInv, TypeOK
  <2>2. lastPaid(current)' = lastPaid(current)
    BY <1>1, <1>2, <1>3, <2>1 DEF lastPaid
  <2>3. \A j \in due' : isDue(j)'
    BY <1>1, <1>2, <2>1 DEF IInv, TypeOK, LoopReads, isDue
  <2> QED
    BY <1>1, <1>2, <1>3, <2>1, <2>2, <2>3 DEF LoopReads
<1> QED
  BY <1>1, <1>6, <1>7 DEF IInv, TypeOK

LEMMA WriteThrowsKeepsInv == IInv /\ WriteThrows => IInv'
<1> SUFFICES ASSUME IInv, WriteThrows PROVE IInv'
  OBVIOUS
<1>1. /\ phase # "next" /\ phase' = "next" /\ faults < MaxFaults /\ faults' = faults + 1
      /\ si' = [si EXCEPT ![current] = failed(current, read)]
      /\ UNCHANGED <<paid, canPay, due, current, read, now, crashes>>
  BY DEF WriteThrows
<1>2. /\ current \in Instructions /\ read \in Row
      /\ current \notin due /\ paid[current] # << >>
      /\ read.status = "active"
      /\ read.createdAt = si[current].createdAt
      /\ read.nextRunAt = lastPaid(current)
  BY <1>1 DEF IInv, TypeOK, LoopReads
<1>3. /\ failed(current, read) \in Row
      /\ failed(current, read).status # "none"
      /\ failed(current, read).createdAt = si[current].createdAt
      /\ failed(current, read).nextRunAt = lastPaid(current)
  BY <1>2, FailedIsRow
<1>4. si' \in [Instructions -> Row] /\ RowsFollow'
  BY <1>1, <1>2, <1>3, WriteFollows
<1>5. LoopReads'
  BY <1>1, <1>2, VisitedReads DEF IInv, TypeOK
<1>6. faults' \in 0..MaxFaults
  BY <1>1, StandingInstructionsAssumption DEF IInv, TypeOK
<1> QED
  BY <1>1, <1>4, <1>5, <1>6 DEF IInv, TypeOK

LEMMA EnvironmentKeepsInv == IInv /\ Environment => IInv'
<1> SUFFICES ASSUME IInv, Environment PROVE IInv'
  OBVIOUS
<1>1. CASE WriteThrows
  BY <1>1, WriteThrowsKeepsInv
<1>2. CASE (\E i \in Instructions : AccountsChange(i)) \/ TimePasses \/ Crash
  <2>1. /\ UNCHANGED <<si, paid, current, read, faults>>
        /\ due' = {} /\ phase' = "next"
        /\ canPay' \in [Instructions -> BOOLEAN]
        /\ now' \in 0..MaxTime /\ crashes' \in 0..MaxCrashes
    <3>1. CASE \E i \in Instructions : AccountsChange(i)
      BY <3>1 DEF AccountsChange, idle, loop, IInv, TypeOK
    <3>2. CASE TimePasses
      BY <3>2, StandingInstructionsAssumption DEF TimePasses, idle, loop, IInv, TypeOK
    <3>3. CASE Crash
      BY <3>3, StandingInstructionsAssumption DEF Crash, IInv, TypeOK
    <3> QED
      BY <1>2, <3>1, <3>2, <3>3
  <2>2. RowsFollow'
    BY <2>1 DEF IInv, RowsFollow, lastPaid
  <2>3. LoopReads'
    BY <2>1, IdleReads
  <2> QED
    BY <2>1, <2>2, <2>3 DEF IInv, TypeOK
<1> QED
  BY <1>1, <1>2 DEF Environment

LEMMA AnnounceKeepsInv == IInv /\ Announce => IInv'
<1> SUFFICES ASSUME IInv, Announce PROVE IInv'
  OBVIOUS
<1>1. /\ phase' = "next"
      /\ UNCHANGED <<si, paid, canPay, due, current, read, now, faults, crashes>>
  BY DEF Announce
<1>2. RowsFollow'
  BY <1>1 DEF IInv, RowsFollow, lastPaid
<1>3. LoopReads'
  BY <1>1 DEF IInv, LoopReads, isDue
<1> QED
  BY <1>1, <1>2, <1>3 DEF IInv, TypeOK

LEMMA StutterKeepsInv == IInv /\ UNCHANGED vars => IInv'
BY DEF vars, IInv, TypeOK, RowsFollow, LoopReads, lastPaid, isDue

LEMMA NextKeepsInv == IInv /\ [Next]_vars => IInv'
<1> SUFFICES ASSUME IInv, [Next]_vars PROVE IInv'
  OBVIOUS
<1>1. CASE Owner
  BY <1>1, OwnerKeepsInv
<1>2. CASE Tick
  BY <1>2, TickKeepsInv
<1>3. CASE LoopStep
  BY <1>3, CancelEndedKeepsInv, PayRunKeepsInv, RunRefusedKeepsInv,
     AdvanceKeepsInv, AnnounceKeepsInv DEF LoopStep
<1>4. CASE Environment
  BY <1>4, EnvironmentKeepsInv
<1>5. CASE UNCHANGED vars
  BY <1>5, StutterKeepsInv
<1> QED
  BY <1>1, <1>2, <1>3, <1>4, <1>5 DEF Next

(* The strengthened invariant of the instructions and their loop. *)
THEOREM Invariance == Spec => []IInv
BY InitIInv, NextKeepsInv, PTL DEF Spec
-----------------------------------------------------------------------------
(* Every variable has its type, whatever throws or stops. *)
THEOREM TypeCorrect == Spec => []TypeOK
BY Invariance, PTL DEF IInv

(* No run is lost or passed over: the row of an instruction and its        *)
(* transfers differ by at most the run whose row is still to be advanced.  *)
THEOREM RowsMatch == Spec => []RowMatchesTransfers
<1>1. IInv => RowMatchesTransfers
  <2> SUFFICES ASSUME IInv, NEW i \in Instructions, si[i].status # "none"
               PROVE  /\ Len(paid[i]) > 0 => paid[i][Len(paid[i])] = lastPaid(i)
                      /\ si[i].nextRunAt \in {lastPaid(i), lastPaid(i) + Period[i]}
                      /\ Len(paid[i]) = 0 => si[i].nextRunAt = si[i].createdAt + Period[i]
    BY DEF RowMatchesTransfers, lastPaid
  <2>1. /\ paid[i] \in Seq(Nat) /\ si[i].createdAt \in Nat
        /\ Period[i] \in Nat
    BY StandingInstructionsAssumption DEF IInv, TypeOK, Row
  <2>2. Len(paid[i]) = 0 => paid[i] = << >> /\ lastPaid(i) = si[i].createdAt
    BY <2>1 DEF lastPaid
  <2>3. Len(paid[i]) > 0 => paid[i] # << >>
    BY <2>1
  <2> QED
    BY <2>1, <2>2, <2>3 DEF IInv, RowsFollow
<1> QED
  BY <1>1, Invariance, PTL

(* A step that pays is PayRun of an active instruction before its end. *)
LEMMA OnlyPayRunPays ==
  ASSUME IInv, [Next]_vars, NEW i \in Instructions, paid'[i] # paid[i]
  PROVE  PayRun(i)
<1>1. paid' # paid
  OBVIOUS
<1>2. PICK j \in Instructions : PayRun(j)
  BY <1>1 DEF Next, Owner, Create, Pause, Resume, Cancel, RemoveBeneficiary, Tick, LoopStep,
     CancelEnded, RunRefused, Advance, Announce, Environment, AccountsChange, TimePasses,
     WriteThrows, Crash, vars
<1>3. \A k \in Instructions \ {j} : paid'[k] = paid[k]
  BY <1>2, PayRunPays
<1> QED
  BY <1>2, <1>3

(* A paused, cancelled, ended or removed instruction pays nothing. *)
THEOREM ActivePays == Spec => PaysOnlyWhenActive
<1>1. IInv /\ [Next]_vars =>
        [ \A i \in Instructions :
            paid'[i] # paid[i] => si[i].status = "active" /\ now < EndAt[i] ]_vars
  <2> SUFFICES ASSUME IInv, [Next]_vars, NEW i \in Instructions, paid'[i] # paid[i]
               PROVE  si[i].status = "active" /\ now < EndAt[i]
    OBVIOUS
  <2>1. PayRun(i)
    BY OnlyPayRunPays
  <2>2. si[i].status = "active" /\ ~(EndAt[i] <= now)
    BY <2>1, PayRunPays DEF hasEnded
  <2>3. now \in Nat /\ EndAt[i] \in Nat
    BY StandingInstructionsAssumption DEF IInv, TypeOK
  <2> QED
    BY <2>2, <2>3
<1> QED
  BY <1>1, Invariance, PTL DEF Spec, PaysOnlyWhenActive

(* No row the loop writes over an instruction revives a cancelled one. *)
THEOREM CancelIsFinal == Spec => CancelledIsFinal
<1> DEFINE gone == {"cancelled", "deleted"}
<1>1. IInv /\ [Next]_vars =>
        [ \A i \in Instructions : si[i].status \in gone => si'[i].status \in gone ]_vars
  <2> SUFFICES ASSUME IInv, [Next]_vars, NEW i \in Instructions, si[i].status \in gone
               PROVE  si'[i].status \in gone
    OBVIOUS
  <2>1. si \in [Instructions -> Row]
    BY DEF IInv, TypeOK
  <2>2. CASE Owner
    BY <2>1, <2>2 DEF Owner, Create, Pause, Resume, Cancel, RemoveBeneficiary, Row
  <2>3. CASE \E j \in Instructions : CancelEnded(j) \/ RunRefused(j)
    <3>1. PICK j \in Instructions : CancelEnded(j) \/ RunRefused(j)
      BY <2>3
    <3>2. j # i
      BY <3>1 DEF CancelEnded, RunRefused, isNext, IInv, LoopReads, isDue
    <3> QED
      BY <2>1, <3>1, <3>2 DEF CancelEnded, RunRefused
  <2>4. CASE Advance \/ WriteThrows
    <3>1. current # i
      BY <2>4 DEF Advance, WriteThrows, IInv, LoopReads
    <3> QED
      BY <2>1, <2>4, <3>1 DEF Advance, WriteThrows
  <2>5. CASE UNCHANGED si
    BY <2>5
  <2> QED
    BY <2>2, <2>3, <2>4, <2>5 DEF Next, LoopStep, Environment, Tick, PayRun, Announce,
       AccountsChange, TimePasses, Crash, vars
<1> QED
  BY <1>1, Invariance, PTL DEF Spec, CancelledIsFinal
-----------------------------------------------------------------------------
(* The loop implements the schedule: initial states are initial, a paid    *)
(* run is the schedule's Pay, a tick of the clock its TimePasses, and      *)
(* every other step, crash and exception a stutter.                        *)

LEMMA PayRunIsPay ==
  ASSUME IInv, NEW i \in Instructions, PayRun(i)
  PROVE  Schedule!Next \/ UNCHANGED <<paid, now>>
<1>1. /\ si[i].nextRunAt <= now /\ si[i].status = "active"
      /\ \/ UNCHANGED paid
         \/ /\ paid' = [paid EXCEPT ![i] = Append(@, si[i].nextRunAt)]
            /\ ~keyUsed(i)
  BY PayRunPays
<1>2. UNCHANGED now
  BY DEF PayRun
<1>3. CASE ~keyUsed(i) /\ paid' = [paid EXCEPT ![i] = Append(@, si[i].nextRunAt)]
  <2>1. si[i].nextRunAt = lastPaid(i) + Period[i]
    BY <1>1, <1>3, KeyTellsRun
  <2>2. Schedule!isNextRun(i, si[i].nextRunAt)
    BY <2>1 DEF IInv, RowsFollow, Schedule!isNextRun
  <2>3. si[i].nextRunAt \in 0..now
    BY <1>1 DEF IInv, TypeOK, Row
  <2>4. Schedule!Pay(i, si[i].nextRunAt)
    BY <1>1, <1>2, <1>3, <2>2 DEF Schedule!Pay
  <2> QED
    BY <2>3, <2>4 DEF Schedule!Next
<1> QED
  BY <1>1, <1>2, <1>3

LEMMA NextImplementsSchedule == IInv /\ [Next]_vars => [Schedule!Next]_<<paid, now>>
<1> SUFFICES ASSUME IInv, [Next]_vars PROVE Schedule!Next \/ UNCHANGED <<paid, now>>
  OBVIOUS
<1>1. CASE \E i \in Instructions : PayRun(i)
  BY <1>1, PayRunIsPay
<1>2. CASE TimePasses
  BY <1>2 DEF TimePasses, Schedule!Next, Schedule!TimePasses
<1>3. CASE UNCHANGED <<paid, now>>
  BY <1>3
<1> QED
  BY <1>1, <1>2, <1>3 DEF Next, Owner, Create, Pause, Resume, Cancel, RemoveBeneficiary, Tick,
     LoopStep, CancelEnded, RunRefused, Advance, Announce, Environment, AccountsChange,
     WriteThrows, Crash, vars

(* Retries, exceptions and restarts included, each run is paid once, in    *)
(* order and not before its time (runDueInstructions).                     *)
THEOREM Implements == Spec => ImplementsSchedule
<1>1. Init => Schedule!Init
  BY DEF Init, Schedule!Init
<1> QED
  BY <1>1, Invariance, NextImplementsSchedule, PTL DEF Spec, ImplementsSchedule, Schedule!Spec
=============================================================================
