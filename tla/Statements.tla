----------------------------- MODULE Statements -----------------------------
(***************************************************************************)
(* Account statements: a read model over the ledger entries and transfers  *)
(* of Payments.  A ledger row is inserted by the transaction that posts    *)
(* its transfer, so the day of the one is the day of the other.  The lines *)
(* of a statement are the positions of its rows in the ledger of the       *)
(* account: rows of one millisecond are taken in their order of insertion, *)
(* and the others were inserted in the order of their days.  The statement *)
(* keeps no balance of its own: the opening one is worked out backwards    *)
(* from the first line.                                                    *)
(***************************************************************************)
EXTENDS Payments

postedAt(a, i) == transfers[ledger[a][i].transfer].day

(* Inclusive of `from`, exclusive of `to`: the first days of two calendar  *)
(* months in getMonthlyStatement.                                          *)
linesOf(a, from, to) ==
  { i \in DOMAIN ledger[a] : postedAt(a, i) \in from..(to - 1) }

totalOf(a, lines, kind) ==
  SumFunctionOnSet([i \in DOMAIN ledger[a] |-> ledger[a][i].amount],
                   { i \in lines : ledger[a][i].kind = kind })

(* Faulty variant: the first line is taken for a credit. *)
openingAsCredit(a, lines) ==
  IF lines = {} THEN 0
  ELSE ledger[a][Min(lines)].running - ledger[a][Min(lines)].amount

openingBalance(a, lines) ==
  IF lines = {} THEN 0
  ELSE LET first == ledger[a][Min(lines)]
       IN  IF first.kind = "credit" THEN first.running - first.amount
           ELSE first.running + first.amount

queryStatement(a, from, to) ==
  LET lines == linesOf(a, from, to)
  IN  [ opening     |-> openingBalance(a, lines),
        closing     |-> IF lines = {} THEN 0 ELSE ledger[a][Max(lines)].running,
        totalDebit  |-> totalOf(a, lines, "debit"),
        totalCredit |-> totalOf(a, lines, "credit"),
        lines       |-> lines ]
-----------------------------------------------------------------------------
(* The running balance of the last row before day d. *)
balanceBefore(a, d) ==
  LET rows == { i \in DOMAIN ledger[a] : postedAt(a, i) < d }
  IN  IF rows = {} THEN OpeningBalance[a] ELSE ledger[a][Max(rows)].running

(* A statement with lines adds up: it opens with the balance at the start  *)
(* of its period and, when the period has not ended, closes with the       *)
(* balance of the account; its totals make up the difference.  So the      *)
(* statements of consecutive periods join, although pending transfers are  *)
(* stamped with the day they settle on and card payments, bills and faucet *)
(* deposits come in between (README: "opening = balance at start of        *)
(* month").  A transfer from an account to itself adds its amount again.   *)
addsUp(a, from, to) ==
  LET s == queryStatement(a, from, to)
      self == { t \in postedToSelf :
                  transfers[t].to = a /\ transfers[t].day \in from..(to - 1) }
  IN  s.lines # {} =>
        /\ s.opening = balanceBefore(a, from)
        /\ to > day => s.closing = accounts[a].balance
        /\ s.closing = s.opening + s.totalCredit - s.totalDebit + sumAmounts(self)

StatementsAddUp ==
  \A a \in AccountIds, from \in 0..MaxDay :
    \A to \in (from + 1)..(MaxDay + 1) : addsUp(a, from, to)
=============================================================================
