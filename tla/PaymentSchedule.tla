--------------------------- MODULE PaymentSchedule ---------------------------
(***************************************************************************)
(* What a standing instruction promises its owner: the planned runs of an  *)
(* instruction are paid in their order, each once, none left out between   *)
(* two, and none before its time.  How the bank decides to pay, retries,   *)
(* pauses or restarts is not said here.                                    *)
(***************************************************************************)
EXTENDS Integers, Sequences

CONSTANTS
  Instructions,   \* ids of standing instructions
  Period          \* time between two planned runs, by instruction

VARIABLES
  paid,   \* the planned runs of each instruction that were paid, in order
  now     \* the clock

Init ==
  /\ paid = [i \in Instructions |-> << >>]
  /\ now = 0

isNextRun(i, run) ==
  paid[i] = << >> \/ run = paid[i][Len(paid[i])] + Period[i]

Pay(i, run) ==
  /\ run <= now
  /\ isNextRun(i, run)
  /\ paid' = [paid EXCEPT ![i] = Append(@, run)]
  /\ UNCHANGED now

TimePasses ==
  /\ now' = now + 1
  /\ UNCHANGED paid

Next ==
  \/ \E i \in Instructions, run \in 0..now : Pay(i, run)
  \/ TimePasses

Spec == Init /\ [][Next]_<<paid, now>>
=============================================================================
