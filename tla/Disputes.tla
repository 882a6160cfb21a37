------------------------------ MODULE Disputes ------------------------------
(***************************************************************************)
(* Disputes over transfers, on top of Payments: filed by a party to the    *)
(* transfer, decided by an administrator.  An approval is two commits, one *)
(* that reverses the transfer and one that records the decision, and the   *)
(* process can stop between them.  Neither a rejection nor a filing is     *)
(* more than one write.                                                    *)
(***************************************************************************)
EXTENDS Payments

CONSTANT MaxDisputes   \* bound: rows of the disputes table

ASSUME DisputesAssumption == MaxDisputes \in Nat

VARIABLES
  disputes,  \* the disputes table, in insertion order
  deciding   \* the approval whose reversal is committed and not recorded

disputeVars == <<disputes, deciding>>

Users == { AccountOwner[a] : a \in AccountIds }

Dispute ==
  [ user     : Users,
    transfer : Nat,
    status   : {"submitted", "approved", "rejected"},
    reversal : Nat ]          \* reversalTransferId, 0 for none

NotDeciding == [dispute |-> 0, reversal |-> 0]

DisputesInit == Init /\ disputes = << >> /\ deciding = NotDeciding

DisputeIds == 1..Len(disputes)

ready == idle /\ deciding = NotDeciding
-----------------------------------------------------------------------------
isParty(user, t) ==
  \/ transfers[t].from # NoAccount /\ AccountOwner[transfers[t].from] = user
  \/ AccountOwner[transfers[t].to] = user

(* Any transfer can be disputed, any number of times: pending ones, ones   *)
(* in dispute already and reversals.                                       *)
FileDispute(user, t) ==
  /\ ready
  /\ Len(disputes) < MaxDisputes
  /\ hasBankingAccess(user)
  /\ isParty(user, t)
  /\ disputes' = Append(disputes,
       [user |-> user, transfer |-> t, status |-> "submitted", reversal |-> 0])
  /\ UNCHANGED <<vars, deciding>>

(* Faulty variant: a decided dispute can be decided again. *)
canDecideAgain(d) == d \in DisputeIds

(* No code sets the status under_review. *)
canDecide(d) == disputes[d].status = "submitted"

RejectDispute(d) ==
  /\ ready
  /\ canDecide(d)
  /\ disputes' = [disputes EXCEPT ![d].status = "rejected"]
  /\ UNCHANGED <<vars, deciding>>

(* Faulty variant: the money goes the way it went. *)
RepeatTransfer(d) ==
  LET t == disputes[d].transfer
  IN  /\ ready
      /\ canDecide(d)
      /\ transfers[t].from # NoAccount
      /\ postTransfer(transfers[t].from, transfers[t].to, transfers[t].amount,
                      NoKey, "reversal", "internal", transfers[t].category)
      /\ deciding' = [dispute |-> d, reversal |-> Len(transfers) + 1]
      /\ UNCHANGED <<disputes, batch, stamping, day, crashes>>

(* decideDispute, the transaction: the transfer is made the other way      *)
(* round, whatever its status and whatever was reversed before.            *)
ReverseTransfer(d) ==
  LET t == disputes[d].transfer
  IN  /\ ready
      /\ canDecide(d)
      /\ transfers[t].from # NoAccount
      /\ postTransfer(transfers[t].to, transfers[t].from, transfers[t].amount,
                      NoKey, "reversal", "internal", transfers[t].category)
      /\ deciding' = [dispute |-> d, reversal |-> Len(transfers) + 1]
      /\ UNCHANGED <<disputes, batch, stamping, day, crashes>>

(* Faulty variant: the decision is recorded without the reversal. *)
RecordWithoutReversal ==
  /\ deciding # NotDeciding
  /\ disputes' = [disputes EXCEPT ![deciding.dispute].status = "approved"]
  /\ deciding' = NotDeciding
  /\ UNCHANGED vars

(* decideDispute, the update after the transaction. *)
RecordApproval ==
  /\ deciding # NotDeciding
  /\ disputes' = [disputes EXCEPT ![deciding.dispute].status = "approved",
                                  ![deciding.dispute].reversal = deciding.reversal]
  /\ deciding' = NotDeciding
  /\ UNCHANGED vars

(* The process stops between the two: the reversal stays, the dispute is   *)
(* still open.                                                             *)
CrashDeciding ==
  /\ deciding # NotDeciding
  /\ crashes < MaxCrashes
  /\ crashes' = crashes + 1
  /\ deciding' = NotDeciding
  /\ UNCHANGED <<accounts, transfers, ledger, batch, stamping, day, disputes>>

PaymentsStep == deciding = NotDeciding /\ Next /\ UNCHANGED disputeVars

DisputesStep ==
  \/ \E user \in Users, t \in TransferIds : FileDispute(user, t)
  \/ \E d \in DisputeIds : RejectDispute(d) \/ ReverseTransfer(d)
  \/ RecordApproval
  \/ CrashDeciding

DisputesNext == PaymentsStep \/ DisputesStep

DisputesSpec == DisputesInit /\ [][DisputesNext]_<<vars, disputeVars>>
-----------------------------------------------------------------------------
(* Properties *)

DisputesTypeOK ==
  /\ TypeOK
  /\ disputes \in Seq(Dispute)
  /\ deciding \in [dispute : Nat, reversal : Nat]

Reversals == { t \in TransferIds : transfers[t].kind = "reversal" }

(* An approved dispute names the transfer that undoes it: a posted         *)
(* reversal of the same amount the other way, which undoes no other        *)
(* dispute.                                                                *)
ApprovalIsReversed ==
  \A d \in DisputeIds :
    LET t == disputes[d].transfer
        r == disputes[d].reversal
    IN  IF disputes[d].status = "approved"
        THEN /\ r \in Reversals
             /\ transfers[r].status = "posted"
             /\ transfers[r].from = transfers[t].to
             /\ transfers[r].to = transfers[t].from
             /\ transfers[r].amount = transfers[t].amount
             /\ \A e \in DisputeIds \ {d} : disputes[e].reversal # r
        ELSE r = 0

(* Money is returned once per approval: a reversal that no dispute names   *)
(* is the one being recorded, or the process stopped right after it        *)
(* (disputes.ts updates the dispute outside the transaction).              *)
ReversalsAttributed ==
  Cardinality({ r \in Reversals \ {deciding.reversal} :
                  \A d \in DisputeIds : disputes[d].reversal # r })
    <= crashes

(* A decision stands: a dispute is decided once, by one administrator's    *)
(* call, and no later call, crash or restart rewrites it.                  *)
DecisionIsFinal ==
  [][ \A d \in DisputeIds :
        disputes[d].status # "submitted" => disputes'[d] = disputes[d] ]_disputes
=============================================================================
