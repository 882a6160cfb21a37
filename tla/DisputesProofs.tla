--------------------------- MODULE DisputesProofs ---------------------------
(***************************************************************************)
(* What TLAPS proves of Disputes: the books are kept with reversals too,   *)
(* every approval has its own reversal, and a decision is final.           *)
(***************************************************************************)
EXTENDS Disputes, PaymentsProofs

(* r is a posted reversal that takes back what t moved. *)
Undoes(r, t) ==
  /\ r \in Reversals
  /\ t \in TransferIds
  /\ transfers[r].status = "posted"
  /\ transfers[r].from = transfers[t].to
  /\ transfers[r].to = transfers[t].from
  /\ transfers[r].amount = transfers[t].amount

DecisionsHold ==
  \A d \in DisputeIds :
    /\ disputes[d].transfer \in TransferIds
    /\ disputes[d].status = "approved" =>
         /\ Undoes(disputes[d].reversal, disputes[d].transfer)
         /\ \A e \in DisputeIds \ {d} : disputes[e].reversal # disputes[d].reversal
    /\ disputes[d].status # "approved" => disputes[d].reversal = 0

(* Between its two commits an approval owns a reversal nobody names yet. *)
DecidingHolds ==
  deciding # NotDeciding =>
    /\ deciding.dispute \in DisputeIds
    /\ disputes[deciding.dispute].status = "submitted"
    /\ Undoes(deciding.reversal, disputes[deciding.dispute].transfer)
    /\ \A d \in DisputeIds : disputes[d].reversal # deciding.reversal

(* The inductive invariant.  ApprovalIsReversed alone is not inductive: it *)
(* says nothing of the reversal an approval is about to record.            *)
DInv ==
  /\ IInv
  /\ disputes \in Seq(Dispute)
  /\ deciding \in [dispute : Nat, reversal : Nat]
  /\ DecisionsHold
  /\ DecidingHolds
-----------------------------------------------------------------------------
(* The fields of a transfer that a reversal copies never change. *)
RowsKept ==
  \A t \in TransferIds :
    /\ t \in TransferIds'
    /\ transfers'[t].from = transfers[t].from
    /\ transfers'[t].to = transfers[t].to
    /\ transfers'[t].amount = transfers[t].amount
    /\ transfers'[t].kind = transfers[t].kind
    /\ transfers[t].status = "posted" => transfers'[t].status = "posted"

LEMMA NextKeepsRows ==
  ASSUME IInv, [Next]_vars
  PROVE  RowsKept
<1> SUFFICES ASSUME NEW t \in TransferIds
             PROVE  /\ t \in TransferIds'
                    /\ transfers'[t].from = transfers[t].from
                    /\ transfers'[t].to = transfers[t].to
                    /\ transfers'[t].amount = transfers[t].amount
                    /\ transfers'[t].kind = transfers[t].kind
                    /\ transfers[t].status = "posted" => transfers'[t].status = "posted"
  BY DEF RowsKept
<1>1. transfers[t] \in Transfer /\ transfers' \in Seq(Transfer)
  <2>1. TypeOK /\ TypeOK'
    BY NextKeepsInv DEF IInv
  <2> QED
    BY <2>1 DEF TypeOK, TransferIds
<1>2. /\ t \in DOMAIN transfers'
      /\ \/ transfers'[t] = [transfers[t] EXCEPT !.utr = transfers'[t].utr]
         \/ /\ isPending(t)
            /\ transfers'[t] = [transfers[t] EXCEPT !.status = "posted", !.day = day]
  BY NextOnlySettles DEF IInv
<1>3. t \in TransferIds'
  BY <1>1, <1>2 DEF TransferIds
<1> QED
  BY <1>1, <1>2, <1>3 DEF Transfer, isPending

LEMMA RowsKeptKeepsUndoes ==
  ASSUME RowsKept, NEW r, NEW t, Undoes(r, t)
  PROVE  Undoes(r, t)'
BY DEF RowsKept, Undoes, Reversals

(* A step that keeps the rows and the disputes keeps the decisions. *)
LEMMA RowsKeptKeepsDecisions ==
  ASSUME DecisionsHold, DecidingHolds, RowsKept, UNCHANGED disputeVars
  PROVE  DecisionsHold' /\ DecidingHolds'
<1>1. /\ UNCHANGED <<disputes, deciding>>
      /\ DisputeIds' = DisputeIds
      /\ TransferIds \subseteq TransferIds'
  BY DEF disputeVars, DisputeIds, RowsKept
<1>2. DecisionsHold'
  BY <1>1, RowsKeptKeepsUndoes DEF DecisionsHold
<1>3. DecidingHolds'
  BY <1>1, RowsKeptKeepsUndoes DEF DecidingHolds
<1> QED
  BY <1>2, <1>3
-----------------------------------------------------------------------------
LEMMA FileKeepsInv ==
  ASSUME DInv, NEW user \in Users, NEW t \in TransferIds, FileDispute(user, t)
  PROVE  DInv'
<1> DEFINE new == [user |-> user, transfer |-> t, status |-> "submitted", reversal |-> 0]
<1>1. /\ UNCHANGED vars /\ deciding = NotDeciding /\ UNCHANGED deciding
      /\ disputes' = Append(disputes, new)
      /\ disputes \in Seq(Dispute)
  BY DEF FileDispute, ready, DInv
<1>2. IInv' /\ RowsKept
  BY <1>1, NextKeepsInv, NextKeepsRows DEF DInv
<1>3. /\ new \in Dispute /\ new.transfer = t
      /\ new.status = "submitted" /\ new.reversal = 0
  BY DEF Dispute, TransferIds
<1> HIDE DEF new
<1>4. /\ disputes' \in Seq(Dispute)
      /\ DisputeIds' = DisputeIds \cup {Len(disputes) + 1}
      /\ disputes'[Len(disputes) + 1] = new
      /\ \A d \in DisputeIds : disputes'[d] = disputes[d]
      /\ Len(disputes) + 1 \notin DisputeIds
  BY <1>1, <1>3 DEF DisputeIds
<1>5. TransferIds' = TransferIds
  BY <1>1 DEF TransferIds, vars
<1>6. \A r, u : Undoes(r, u) => Undoes(r, u)' /\ r # 0
  BY <1>2, RowsKeptKeepsUndoes DEF Undoes, Reversals, TransferIds
<1>7. DecisionsHold'
  BY <1>3, <1>4, <1>5, <1>6 DEF DecisionsHold, DInv
<1> QED
  BY <1>1, <1>2, <1>4, <1>7 DEF DInv, DecidingHolds

LEMMA RejectKeepsInv ==
  ASSUME DInv, NEW d \in DisputeIds, RejectDispute(d)
  PROVE  DInv'
<1> DEFINE new == [disputes[d] EXCEPT !.status = "rejected"]
<1>1. /\ UNCHANGED vars /\ deciding = NotDeciding /\ UNCHANGED deciding
      /\ disputes' = [disputes EXCEPT ![d] = new]
      /\ disputes[d].status = "submitted"
      /\ disputes \in Seq(Dispute) /\ disputes[d] \in Dispute
  BY DEF RejectDispute, canDecide, ready, DInv, DisputeIds
<1>2. IInv' /\ RowsKept
  BY <1>1, NextKeepsInv, NextKeepsRows DEF DInv
<1>3. /\ new \in Dispute /\ new.transfer = disputes[d].transfer
      /\ new.status = "rejected" /\ new.reversal = disputes[d].reversal
  BY <1>1 DEF Dispute
<1> HIDE DEF new
<1>4. /\ disputes' \in Seq(Dispute)
      /\ DisputeIds' = DisputeIds
      /\ disputes'[d] = new
      /\ \A e \in DisputeIds \ {d} : disputes'[e] = disputes[e]
  BY <1>1, <1>3 DEF DisputeIds
<1>5. TransferIds' = TransferIds
  BY <1>1 DEF TransferIds, vars
<1>6. \A r, u : Undoes(r, u) => Undoes(r, u)'
  BY <1>2, RowsKeptKeepsUndoes
<1>7. DecisionsHold'
  BY <1>1, <1>3, <1>4, <1>5, <1>6 DEF DecisionsHold, DInv
<1> QED
  BY <1>1, <1>2, <1>4, <1>7 DEF DInv, DecidingHolds

LEMMA ReverseKeepsInv ==
  ASSUME DInv, NEW d \in DisputeIds, ReverseTransfer(d),
         NEW t, t = disputes[d].transfer,
         NEW r, r = Len(transfers) + 1,
         NEW from, from = transfers[t].to,
         NEW to, to = transfers[t].from
  PROVE  DInv'
<1>1. /\ deciding = NotDeciding
      /\ disputes[d].status = "submitted"
      /\ transfers[t].from # NoAccount
      /\ postTransfer(from, to, transfers[t].amount, NoKey, "reversal",
                      "internal", transfers[t].category)
      /\ deciding' = [dispute |-> d, reversal |-> r]
      /\ UNCHANGED <<disputes, batch, stamping, day, crashes>>
  BY DEF ReverseTransfer, canDecide, ready
<1>2. t \in TransferIds /\ transfers \in Seq(Transfer) /\ transfers[t] \in Transfer
  BY DEF DInv, DecisionsHold, IInv, TypeOK, TransferIds
<1>3. /\ from \in AccountIds /\ to \in AccountIds
      /\ transfers[t].amount \in Amounts
      /\ transfers[t].category \in {"p2p", "self", "bill", "card", "faucet"}
  BY <1>1, <1>2 DEF Transfer
<1>4. IInv'
  <2>1. ~keyUsed(NoKey) /\ stamping' = stamping /\ IInv
    BY <1>1 DEF keyUsed, DInv
  <2> QED
    BY <1>1, <1>3, <2>1, PostKeepsInv
<1> DEFINE new ==
      [ from |-> from, to |-> to, amount |-> transfers[t].amount, key |-> NoKey,
        kind |-> "reversal", status |-> "posted", rail |-> "internal",
        category |-> transfers[t].category, day |-> day, utr |-> 1 ]
<1>5. transfers' = Append(transfers, new)
  BY <1>1 DEF postTransfer, insertTransfer
<1>6. /\ new.from = from /\ new.to = to /\ new.amount = transfers[t].amount
      /\ new.kind = "reversal" /\ new.status = "posted"
  OBVIOUS
<1> HIDE DEF new
<1>7. /\ TransferIds' = TransferIds \cup {r}
      /\ r \notin TransferIds /\ r \in Nat
      /\ transfers'[r] = new
      /\ \A u \in TransferIds : transfers'[u] = transfers[u]
  BY <1>2, <1>5 DEF TransferIds
<1>8. RowsKept
  BY <1>7 DEF RowsKept
<1>9. Undoes(r, t)'
  BY <1>2, <1>6, <1>7, <1>1 DEF Undoes, Reversals
<1>10. \A v, u : Undoes(v, u) => Undoes(v, u)' /\ v # r
  BY <1>7, <1>8, RowsKeptKeepsUndoes DEF Undoes, Reversals
<1>11. DisputeIds' = DisputeIds /\ d \in Nat
  BY <1>1 DEF DisputeIds
<1>12. DecisionsHold'
  BY <1>1, <1>7, <1>10, <1>11 DEF DecisionsHold, DInv
<1>13. \A e \in DisputeIds : disputes[e].reversal # r
  <2>1. r # 0
    BY <1>2
  <2> QED
    BY <1>10, <2>1 DEF DInv, DecisionsHold
<1>14. DecidingHolds'
  BY <1>1, <1>9, <1>11, <1>13 DEF DecidingHolds
<1> QED
  BY <1>1, <1>4, <1>7, <1>11, <1>12, <1>14 DEF DInv

LEMMA RecordKeepsInv ==
  ASSUME DInv, RecordApproval,
         NEW d, d = deciding.dispute,
         NEW r, r = deciding.reversal
  PROVE  DInv'
<1> DEFINE new == [disputes[d] EXCEPT !.status = "approved", !.reversal = r]
<1>1. /\ UNCHANGED vars
      /\ deciding' = NotDeciding
      /\ d \in DisputeIds /\ d \in Nat /\ r \in Nat
      /\ disputes[d].status = "submitted"
      /\ Undoes(r, disputes[d].transfer)
      /\ \A e \in DisputeIds : disputes[e].reversal # r
      /\ disputes \in Seq(Dispute) /\ disputes[d] \in Dispute
  BY DEF RecordApproval, DInv, DecidingHolds, DisputeIds
<1>2. disputes' = [disputes EXCEPT ![d] = new]
  BY <1>1 DEF RecordApproval
<1>3. IInv' /\ RowsKept
  BY <1>1, NextKeepsInv, NextKeepsRows DEF DInv
<1>4. /\ new \in Dispute /\ new.transfer = disputes[d].transfer
      /\ new.status = "approved" /\ new.reversal = r
  BY <1>1 DEF Dispute
<1> HIDE DEF new
<1>5. /\ disputes' \in Seq(Dispute)
      /\ DisputeIds' = DisputeIds
      /\ disputes'[d] = new
      /\ \A e \in DisputeIds \ {d} : disputes'[e] = disputes[e]
  BY <1>1, <1>2, <1>4 DEF DisputeIds
<1>6. TransferIds' = TransferIds
  BY <1>1 DEF TransferIds, vars
<1>7. \A v, u : Undoes(v, u) => Undoes(v, u)'
  BY <1>3, RowsKeptKeepsUndoes
<1>8. DecisionsHold'
  <2> SUFFICES ASSUME NEW e \in DisputeIds
               PROVE  /\ disputes'[e].transfer \in TransferIds'
                      /\ disputes'[e].status = "approved" =>
                           /\ Undoes(disputes[e].reversal, disputes[e].transfer)'
                           /\ \A f \in DisputeIds \ {e} :
                                disputes'[f].reversal # disputes'[e].reversal
                      /\ disputes'[e].status # "approved" => disputes'[e].reversal = 0
    BY <1>5 DEF DecisionsHold
  <2>1. /\ disputes[e].transfer \in TransferIds
        /\ disputes[e].status = "approved" =>
             /\ Undoes(disputes[e].reversal, disputes[e].transfer)
             /\ \A f \in DisputeIds \ {e} : disputes[f].reversal # disputes[e].reversal
        /\ disputes[e].status # "approved" => disputes[e].reversal = 0
    BY DEF DInv, DecisionsHold
  <2>2. CASE e = d
    <3>1. disputes'[e] = new
      BY <1>5, <2>2
    <3>2. Undoes(disputes[e].reversal, disputes[e].transfer)'
      BY <1>1, <1>4, <1>7, <2>2, <3>1
    <3>3. \A f \in DisputeIds \ {e} : disputes'[f].reversal # disputes'[e].reversal
      BY <1>1, <1>4, <1>5, <2>2, <3>1
    <3> QED
      BY <1>4, <1>6, <2>1, <2>2, <3>1, <3>2, <3>3
  <2>3. CASE e # d
    <3>1. disputes'[e] = disputes[e]
      BY <1>5, <2>3
    <3>2. disputes[e].status = "approved" =>
            Undoes(disputes[e].reversal, disputes[e].transfer)'
      BY <1>7, <2>1, <3>1
    <3>3. disputes[e].status = "approved" =>
            \A f \in DisputeIds \ {e} : disputes'[f].reversal # disputes'[e].reversal
      BY <1>1, <1>4, <1>5, <2>1, <3>1
    <3> QED
      BY <1>6, <2>1, <3>1, <3>2, <3>3
  <2> QED
    BY <2>2, <2>3
<1>9. deciding' \in [dispute : Nat, reversal : Nat]
  BY <1>1 DEF NotDeciding
<1> QED
  BY <1>1, <1>3, <1>5, <1>8, <1>9 DEF DInv, DecidingHolds

LEMMA CrashDecidingKeepsInv ==
  ASSUME DInv, CrashDeciding
  PROVE  DInv'
<1>1. /\ UNCHANGED <<accounts, transfers, ledger, batch, stamping, day, disputes>>
      /\ crashes' = crashes + 1 /\ crashes < MaxCrashes
      /\ deciding' = NotDeciding
  BY DEF CrashDeciding
<1>2. IInv'
  <2>1. crashes' \in 0..MaxCrashes
    <3>1. crashes \in 0..MaxCrashes /\ MaxCrashes \in Nat
      BY PaymentsAssumption DEF DInv, IInv, TypeOK
    <3> QED
      BY <1>1, <3>1
  <2> QED
    BY <1>1, <2>1 DEF DInv, IInv, Books, TypeOK, KeyPaysOnce, TransferIds,
                      PendingHasSource, isPending
<1>3. DecisionsHold' /\ DecidingHolds'
  BY <1>1 DEF DInv, DecisionsHold, DecidingHolds, Undoes, Reversals, TransferIds,
              DisputeIds
<1>4. deciding' \in [dispute : Nat, reversal : Nat]
  BY <1>1 DEF NotDeciding
<1> QED
  BY <1>1, <1>2, <1>3, <1>4 DEF DInv

LEMMA DisputesInitIsInv ==
  ASSUME DisputesInit
  PROVE  DInv
<1>1. IInv /\ disputes = << >> /\ deciding = NotDeciding
  BY InitIsInv DEF DisputesInit
<1>2. DisputeIds = {} /\ disputes \in Seq(Dispute)
  BY <1>1 DEF DisputeIds
<1> QED
  BY <1>1, <1>2 DEF DInv, DecisionsHold, DecidingHolds, NotDeciding

LEMMA DisputesNextKeepsInv ==
  ASSUME DInv, [DisputesNext]_<<vars, disputeVars>>
  PROVE  DInv'
<1>1. CASE [Next]_vars /\ UNCHANGED disputeVars
  <2>1. IInv' /\ RowsKept
    BY <1>1, NextKeepsInv, NextKeepsRows DEF DInv
  <2>2. DecisionsHold' /\ DecidingHolds'
    BY <1>1, <2>1, RowsKeptKeepsDecisions DEF DInv
  <2> QED
    BY <1>1, <2>1, <2>2 DEF DInv, disputeVars
<1>2. CASE \E d \in DisputeIds : ReverseTransfer(d)
  BY <1>2, ReverseKeepsInv
<1>3. CASE RecordApproval
  BY <1>3, RecordKeepsInv
<1> QED
  BY <1>1, <1>2, <1>3, FileKeepsInv, RejectKeepsInv, CrashDecidingKeepsInv
     DEF DisputesNext, DisputesStep, PaymentsStep
-----------------------------------------------------------------------------
(* The results. *)

(* The inductive invariant is one: the books of Payments are kept with     *)
(* disputes and reversals beside it.                                       *)
THEOREM DisputesInvariance == DisputesSpec => []DInv
BY DisputesInitIsInv, DisputesNextKeepsInv, PTL DEF DisputesSpec

(* Every variable of Payments and of Disputes keeps its type. *)
THEOREM DisputesTypeCorrect == DisputesSpec => []DisputesTypeOK
<1>1. DInv => DisputesTypeOK
  BY DEF DInv, IInv, DisputesTypeOK
<1> QED
  BY <1>1, DisputesInvariance, PTL

(* An approved dispute names a reversal that mirrors its transfer and that *)
(* no other dispute names; one that is not approved names none.            *)
THEOREM ApprovalsAreReversed == DisputesSpec => []ApprovalIsReversed
<1>1. DInv => ApprovalIsReversed
  <2> SUFFICES ASSUME DInv, NEW d \in DisputeIds
               PROVE  IF disputes[d].status = "approved"
                      THEN /\ Undoes(disputes[d].reversal, disputes[d].transfer)
                           /\ \A e \in DisputeIds \ {d} :
                                disputes[e].reversal # disputes[d].reversal
                      ELSE disputes[d].reversal = 0
    BY DEF ApprovalIsReversed, Undoes
  <2> QED
    BY DEF DInv, DecisionsHold
<1> QED
  BY <1>1, DisputesInvariance, PTL

(* A decided dispute is never rewritten. *)
THEOREM DecisionsAreFinal == DisputesSpec => DecisionIsFinal
<1>1. DInv /\ [DisputesNext]_<<vars, disputeVars>> =>
        [ \A d \in DisputeIds :
            disputes[d].status # "submitted" => disputes'[d] = disputes[d] ]_disputes
  <2> SUFFICES ASSUME DInv, DisputesNext, NEW d \in DisputeIds,
                      disputes[d].status # "submitted"
               PROVE  disputes'[d] = disputes[d]
    BY DEF disputeVars
  <2>1. CASE UNCHANGED disputes
    BY <2>1
  <2>2. CASE \E user \in Users, t \in TransferIds : FileDispute(user, t)
    BY <2>2 DEF FileDispute, DInv, DisputeIds
  <2>3. CASE \E e \in DisputeIds : RejectDispute(e)
    BY <2>3 DEF RejectDispute, canDecide, DInv, DisputeIds
  <2>4. CASE RecordApproval
    BY <2>4 DEF RecordApproval, DInv, DecidingHolds, DisputeIds
  <2> QED
    BY <2>1, <2>2, <2>3, <2>4
       DEF DisputesNext, PaymentsStep, DisputesStep, ReverseTransfer,
           CrashDeciding, disputeVars
<1> QED
  BY <1>1, DisputesInvariance, PTL DEF DisputesSpec, DecisionIsFinal
-----------------------------------------------------------------------------
(* Reversals no dispute names, but for the one being recorded. *)
unnamed == { r \in Reversals : \A d \in DisputeIds : disputes[d].reversal # r }

unattributed == unnamed \ {deciding.reversal}

Attributed(S, stops) == IsFiniteSet(S) /\ Cardinality(S) <= stops

LEMMA FewerUnattributed ==
  ASSUME NEW S, NEW stops \in Nat, Attributed(S, stops), NEW T \in SUBSET S
  PROVE  Attributed(T, stops) /\ Attributed(T, stops + 1)
<1>1. IsFiniteSet(S) /\ Cardinality(S) \in Nat /\ Cardinality(S) <= stops
  BY FS_CardinalityType DEF Attributed
<1>2. IsFiniteSet(T) /\ Cardinality(T) \in Nat /\ Cardinality(T) <= Cardinality(S)
  BY <1>1, FS_Subset, FS_CardinalityType
<1> QED
  BY <1>1, <1>2 DEF Attributed

LEMMA OneMoreUnattributed ==
  ASSUME NEW S, NEW stops \in Nat, Attributed(S, stops), NEW x, NEW T \in SUBSET (S \cup {x})
  PROVE  Attributed(T, stops + 1)
<1>1. IsFiniteSet(S) /\ Cardinality(S) \in Nat /\ Cardinality(S) <= stops
  BY FS_CardinalityType DEF Attributed
<1>2. CASE x \in S
  BY <1>2, FewerUnattributed
<1>3. CASE x \notin S
  <2>1. IsFiniteSet(S \cup {x}) /\ Cardinality(S \cup {x}) = Cardinality(S) + 1
    BY <1>1, <1>3, FS_AddElement
  <2>2. IsFiniteSet(T) /\ Cardinality(T) \in Nat /\ Cardinality(T) <= Cardinality(S \cup {x})
    BY <2>1, FS_Subset, FS_CardinalityType
  <2> QED
    BY <1>1, <2>1, <2>2 DEF Attributed
<1> QED
  BY <1>2, <1>3

(* No step of Payments inserts a reversal. *)
LEMMA InsertIsNoReversal ==
  ASSUME TypeOK, NEW from, NEW to, NEW amount, NEW key, NEW kind, NEW status,
         NEW rail, NEW category, kind # "reversal",
         insertTransfer(from, to, amount, key, kind, status, rail, category)
  PROVE  \A t \in TransferIds' : transfers'[t].kind = "reversal" => t \in TransferIds
<1> DEFINE row == [ from |-> from, to |-> to, amount |-> amount, key |-> key,
                    kind |-> kind, status |-> status, rail |-> rail,
                    category |-> category, day |-> day,
                    utr |-> IF status = "pending" \/ kind = "reversal" THEN 1 ELSE 0 ]
<1>1. transfers \in Seq(Transfer) /\ transfers' = Append(transfers, row) /\ row.kind = kind
  BY DEF TypeOK, insertTransfer
<1> HIDE DEF row
<1>2. /\ TransferIds' = TransferIds \cup {Len(transfers) + 1}
      /\ transfers'[Len(transfers) + 1] = row
  BY <1>1 DEF TransferIds
<1> QED
  BY <1>1, <1>2

LEMMA NextIsNoReversal ==
  ASSUME IInv, [Next]_vars
  PROVE  \A t \in TransferIds' : transfers'[t].kind = "reversal" => t \in TransferIds
<1>1. CASE TransferIds' = TransferIds
  BY <1>1
<1>2. CASE UNCHANGED transfers
  BY <1>1, <1>2 DEF TransferIds
<1>3. CASE Request
  <2>1. PICK from \in AccountIds, to \in AccountIds, amount \in Amounts,
             key \in Keys \cup {NoKey} :
          \/ \E rail \in InstantRails \cup {"internal"} :
               executeTransfer(from, to, amount, key, rail)
          \/ \E rail \in InstantRails : RetryTransfer(from, amount, key, rail)
          \/ \E rail \in BatchRails :
               CreatePendingRailTransfer(from, to, amount, key, rail)
          \/ PayBill(from, to, amount, key)
    BY <1>3 DEF Request, ExecuteTransfer, RunInstruction
  <2>2. \/ UNCHANGED transfers
        \/ \E status, rail, category :
             insertTransfer(from, to, amount, key, "transfer", status, rail, category)
    BY <2>1 DEF executeTransfer, RetryTransfer, PayBill, postTransfer,
                CreatePendingRailTransfer
  <2> QED
    BY <1>2, <2>2, InsertIsNoReversal DEF IInv
<1>4. CASE Administer
  <2>1. PICK to \in AccountIds :
          \/ \E amount \in Amounts, key \in Keys \cup {NoKey} :
               FaucetDeposit(to, amount, key)
          \/ UNCHANGED transfers
    BY <1>4 DEF Administer, FreezeAccount, UnfreezeAccount, CloseAccount
  <2> QED
    BY <1>2, <2>1, InsertIsNoReversal DEF FaucetDeposit, IInv
<1>5. CASE SettleStep
  BY <1>1, <1>2, <1>5, PostingKeepsTable DEF IInv, SettleStep, SettlePending, SettleFails
<1>7. CASE StampUtr
  BY <1>1, <1>7, StampKeepsTable DEF IInv
<1>6. CASE SettleTick \/ Crash \/ NextDay \/ UNCHANGED vars
  BY <1>2, <1>6 DEF SettleTick, Crash, NextDay, vars
<1> QED
  BY <1>3, <1>4, <1>5, <1>6, <1>7 DEF Next

LEMMA DisputesNextKeepsAttributed ==
  ASSUME DInv, Attributed(unattributed, crashes), [DisputesNext]_<<vars, disputeVars>>
  PROVE  Attributed(unattributed', crashes')
<1>1. /\ crashes \in Nat /\ disputes \in Seq(Dispute) /\ 0 \notin unnamed
      /\ transfers \in Seq(Transfer)
  BY PaymentsAssumption DEF DInv, IInv, TypeOK, unnamed, Reversals, TransferIds
<1>2. ASSUME unattributed' \subseteq unattributed, crashes' \in {crashes, crashes + 1}
      PROVE  Attributed(unattributed', crashes')
  BY <1>1, <1>2, FewerUnattributed
<1>3. CASE [Next]_vars /\ UNCHANGED disputeVars
  <2>1. Reversals' = Reversals
    <3>1. \A t \in TransferIds' : transfers'[t].kind = "reversal" => t \in TransferIds
      BY <1>3, NextIsNoReversal DEF DInv
    <3>2. RowsKept
      BY <1>3, NextKeepsRows DEF DInv
    <3> QED
      BY <3>1, <3>2 DEF RowsKept, Reversals
  <2>2. unattributed' = unattributed
    BY <1>3, <2>1 DEF unattributed, unnamed, disputeVars, DisputeIds
  <2>3. crashes' \in {crashes, crashes + 1}
    BY <1>3 DEF Next, vars, Request, Administer, SettleStep, SettleTick, SettlePending,
       SettleFails, Crash, NextDay, StampUtr, ExecuteTransfer, RunInstruction, executeTransfer,
       RetryTransfer, PayBill,
       CreatePendingRailTransfer, FaucetDeposit, FreezeAccount, UnfreezeAccount,
       CloseAccount
  <2> QED
    BY <1>2, <2>2, <2>3
<1>4. ASSUME NEW user \in Users, NEW t \in TransferIds, FileDispute(user, t)
      PROVE  Attributed(unattributed', crashes')
  <2> DEFINE new == [user |-> user, transfer |-> t, status |-> "submitted", reversal |-> 0]
  <2>1. disputes' = Append(disputes, new) /\ UNCHANGED vars /\ UNCHANGED deciding
    BY <1>4 DEF FileDispute
  <2>2. \A d \in DisputeIds : d \in DisputeIds' /\ disputes'[d] = disputes[d]
    BY <1>1, <2>1 DEF DisputeIds
  <2>3. transfers' = transfers /\ crashes' = crashes
    BY <2>1 DEF vars
  <2>4. unattributed' \subseteq unattributed
    BY <2>1, <2>2, <2>3 DEF unattributed, unnamed, Reversals, TransferIds
  <2> QED
    BY <1>2, <2>3, <2>4
<1>5. ASSUME NEW d \in DisputeIds, RejectDispute(d)
      PROVE  Attributed(unattributed', crashes')
  <2>1. disputes' = [disputes EXCEPT ![d].status = "rejected"] /\ UNCHANGED vars
        /\ UNCHANGED deciding
    BY <1>5 DEF RejectDispute
  <2>2. /\ DisputeIds' = DisputeIds
        /\ \A e \in DisputeIds : disputes'[e].reversal = disputes[e].reversal
    BY <1>1, <2>1 DEF DisputeIds, Dispute
  <2>3. transfers' = transfers /\ crashes' = crashes
    BY <2>1 DEF vars
  <2>4. unattributed' \subseteq unattributed
    BY <2>1, <2>2, <2>3 DEF unattributed, unnamed, Reversals, TransferIds
  <2> QED
    BY <1>2, <2>3, <2>4
<1>6. ASSUME NEW d \in DisputeIds, ReverseTransfer(d)
      PROVE  Attributed(unattributed', crashes')
  <2> PICK from, to, amount, category :
        insertTransfer(from, to, amount, NoKey, "reversal", "posted", "internal", category)
    BY <1>6 DEF ReverseTransfer, postTransfer
  <2>1. /\ deciding = NotDeciding
        /\ deciding' = [dispute |-> d, reversal |-> Len(transfers) + 1]
        /\ UNCHANGED disputes /\ crashes' = crashes
    BY <1>6 DEF ReverseTransfer, ready
  <2>2. /\ TransferIds' = TransferIds \cup {Len(transfers) + 1}
        /\ \A t \in TransferIds : transfers'[t] = transfers[t]
    BY <1>1 DEF insertTransfer, TransferIds
  <2>3. /\ deciding.reversal = 0 /\ deciding'.reversal = Len(transfers) + 1
        /\ DisputeIds' = DisputeIds
    BY <2>1 DEF NotDeciding, DisputeIds
  <2>4. unattributed' \subseteq unattributed
    BY <1>1, <2>1, <2>2, <2>3 DEF unattributed, unnamed, Reversals
  <2> QED
    BY <1>2, <2>1, <2>4
<1>7. CASE RecordApproval
  <2> PICK d : d = deciding.dispute
    OBVIOUS
  <2> PICK r : r = deciding.reversal
    OBVIOUS
  <2>1. /\ deciding # NotDeciding /\ UNCHANGED vars
        /\ disputes' = [disputes EXCEPT ![d].status = "approved", ![d].reversal = r]
    BY <1>7 DEF RecordApproval
  <2>2. d \in DisputeIds /\ disputes[d].reversal = 0
    BY <2>1 DEF DInv, DecidingHolds, DecisionsHold
  <2>3. /\ DisputeIds' = DisputeIds /\ disputes'[d].reversal = r
        /\ \A e \in DisputeIds \ {d} : disputes'[e] = disputes[e]
    BY <1>1, <2>1, <2>2 DEF DisputeIds, Dispute
  <2>4. transfers' = transfers /\ crashes' = crashes
    BY <2>1 DEF vars
  <2>5. unattributed' \subseteq unattributed
    <3>1. unnamed' \subseteq unnamed \ {r}
      BY <1>1, <2>2, <2>3, <2>4 DEF unnamed, Reversals, TransferIds
    <3> QED
      BY <3>1 DEF unattributed
  <2> QED
    BY <1>2, <2>4, <2>5
<1>8. CASE CrashDeciding
  <2>1. /\ transfers' = transfers /\ disputes' = disputes /\ crashes' = crashes + 1
    BY <1>8 DEF CrashDeciding
  <2>2. unattributed' \subseteq unattributed \cup {deciding.reversal}
    BY <2>1 DEF unattributed, unnamed, Reversals, TransferIds, DisputeIds
  <2> QED
    BY <1>1, <2>1, <2>2, OneMoreUnattributed
<1> QED
  BY <1>3, <1>4, <1>5, <1>6, <1>7, <1>8 DEF DisputesNext, DisputesStep, PaymentsStep

THEOREM UnattributedCounted == DisputesSpec => []Attributed(unattributed, crashes)
<1>1. DisputesInit => Attributed(unattributed, crashes)
  <2>1. DisputesInit => unattributed = {} /\ crashes = 0
    BY DEF DisputesInit, Init, unattributed, unnamed, Reversals, TransferIds
  <2> QED
    BY <2>1, FS_EmptySet DEF Attributed
<1>2. /\ DInv /\ Attributed(unattributed, crashes)
      /\ [DisputesNext]_<<vars, disputeVars>>
      => Attributed(unattributed, crashes)'
  BY DisputesNextKeepsAttributed DEF Attributed
<1> QED
  BY <1>1, <1>2, DisputesInvariance, PTL DEF DisputesSpec

(* Money is returned once per approval: a reversal no dispute names is the *)
(* one being recorded, or one that a stop of the process left behind.      *)
THEOREM ReversalsAreAttributed == DisputesSpec => []ReversalsAttributed
<1>1. Attributed(unattributed, crashes) => ReversalsAttributed
  <2>1. { r \in Reversals \ {deciding.reversal} :
            \A d \in DisputeIds : disputes[d].reversal # r } = unattributed
    BY DEF unattributed, unnamed
  <2> QED
    BY <2>1 DEF Attributed, ReversalsAttributed
<1> QED
  BY <1>1, UnattributedCounted, PTL
=============================================================================
