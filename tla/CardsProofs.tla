----------------------------- MODULE CardsProofs -----------------------------
(***************************************************************************)
(* What TLAPS proves of Cards: what a card spends in a day or a month      *)
(* stays within the bank's limits, and payments with cards keep what       *)
(* PaymentsProofs shows of the others.                                     *)
(*                                                                         *)
(* The limits of a card change at any time, so what it has spent may well  *)
(* exceed the ones it has now.  What is kept is that it is within the      *)
(* bank's: the limits a payment is checked against never exceed them, and  *)
(* the check counts at least what the card spent since the month began.    *)
(***************************************************************************)
EXTENDS Cards, Statements, PaymentsProofs

LEMMA CardConstants ==
  /\ DailyLimit \in Nat /\ MonthlyLimit \in Nat /\ MaxDay \in Nat
  /\ DaysPerMonth \in Nat \ {0}
  /\ DefaultLimits \in Limits /\ AskedLimits \subseteq Limits
  /\ PerTxnBankMax \in Nat \ {0} /\ DailyLimit # 0 /\ MonthlyLimit # 0
  /\ Merchant \in AccountIds
BY CardsAssumption, PaymentsAssumption

(* spentWith and what checkCardLimits counts, of values. *)
spent(ts, ids, c, first, last) ==
  { t \in Rows(ts) : <<t, c>> \in ids /\ ts[t].day \in first..last }

spentSince(ts, ids, c, first) ==
  { t \in Rows(ts) : <<t, c>> \in ids /\ ts[t].day >= first }

InBankMax(ts, ids) ==
  \A c \in Nat, d \in 0..MaxDay :
    /\ atMost(total(ts, spent(ts, ids, c, d, d)), DailyLimit)
    /\ atMost(total(ts, spent(ts, ids, c, monthStart(d), d)), MonthlyLimit)

(* A card payment is posted from the start, so settlement gives it no new  *)
(* day.                                                                    *)
CardRows(ts, ids, n) ==
  /\ ids \subseteq Rows(ts) \X (1..n)
  /\ \A id \in ids : ts[id[1]].status = "posted"

(* The limits of every card, whoever set them, are below the bank's. *)
LimitsOfBank ==
  \A c \in DebitCards :
    /\ cards[c].limits.daily <= DailyLimit
    /\ cards[c].limits.monthly <= MonthlyLimit

(* With what is shown of payments, the inductive invariant. *)
CInv ==
  /\ cards \in Seq(Card)
  /\ CardRows(transfers, cardIds, Len(cards))
  /\ LimitsOfBank
  /\ InBankMax(transfers, cardIds)

PaymentsInv ==
  /\ IInv
  /\ Tallied(accounts, transfers, openings)
  /\ Posted(transfers, ledger)
  /\ Limited(transfers)
-----------------------------------------------------------------------------
(* Limits *)
LEMMA MinIs ==
  \A i, j \in Nat \ {0} : Min({i, j}) \in Nat \ {0} /\ Min({i, j}) <= j
<1> SUFFICES ASSUME NEW i \in Nat \ {0}, NEW j \in Nat \ {0}
             PROVE  Min({i, j}) \in Nat \ {0} /\ Min({i, j}) <= j
  OBVIOUS
<1>1. \E m \in {i, j} : \A n \in {i, j} : m <= n
  OBVIOUS
<1>2. Min({i, j}) \in {i, j} /\ \A n \in {i, j} : Min({i, j}) <= n
  BY <1>1 DEF Min
<1> QED
  BY <1>2

LEMMA DefaultsAreOfBank ==
  /\ defaultLimitsForTier \in Limits
  /\ defaultLimitsForTier.daily <= DailyLimit
  /\ defaultLimitsForTier.monthly <= MonthlyLimit
<1>1. /\ DefaultLimits.perTxn \in Nat \ {0} /\ DefaultLimits.daily \in Nat \ {0}
      /\ DefaultLimits.monthly \in Nat \ {0}
      /\ DOMAIN DefaultLimits = {"perTxn", "daily", "monthly"}
      /\ PerTxnBankMax \in Nat \ {0} /\ DailyLimit \in Nat \ {0} /\ MonthlyLimit \in Nat \ {0}
  BY CardConstants DEF Limits
<1>2. defaultLimitsForTier =
        [field \in {"perTxn", "daily", "monthly"} |->
           Min({DefaultLimits[field], bankMaxForTier[field]})]
  BY <1>1 DEF defaultLimitsForTier
<1>3. /\ bankMaxForTier["perTxn"] = PerTxnBankMax
      /\ bankMaxForTier["daily"] = DailyLimit
      /\ bankMaxForTier["monthly"] = MonthlyLimit
  BY DEF bankMaxForTier
<1>4. /\ defaultLimitsForTier.perTxn = Min({DefaultLimits.perTxn, PerTxnBankMax})
      /\ defaultLimitsForTier.daily = Min({DefaultLimits.daily, DailyLimit})
      /\ defaultLimitsForTier.monthly = Min({DefaultLimits.monthly, MonthlyLimit})
  BY <1>2, <1>3
<1>5. defaultLimitsForTier =
        [ perTxn |-> defaultLimitsForTier.perTxn, daily |-> defaultLimitsForTier.daily,
          monthly |-> defaultLimitsForTier.monthly ]
  BY <1>2
<1>6. /\ defaultLimitsForTier.perTxn \in Nat \ {0}
      /\ defaultLimitsForTier.daily \in Nat \ {0}
      /\ defaultLimitsForTier.daily <= DailyLimit
      /\ defaultLimitsForTier.monthly \in Nat \ {0}
      /\ defaultLimitsForTier.monthly <= MonthlyLimit
  BY <1>1, <1>4, MinIs
<1> QED
  BY <1>5, <1>6 DEF Limits
LEMMA CardIs ==
  ASSUME CInv, NEW c \in DebitCards
  PROVE  /\ c \in Nat /\ cards[c] \in Card /\ cards[c].account \in AccountIds
         /\ cards[c].limits.daily \in Nat /\ cards[c].limits.monthly \in Nat
         /\ cards[c].limits.daily <= DailyLimit /\ cards[c].limits.monthly <= MonthlyLimit
<1>1. c \in Nat /\ cards[c] \in Card
  BY DEF CInv, DebitCards
<1>2. cards[c].account \in AccountIds /\ cards[c].limits \in Limits
  BY <1>1 DEF Card
<1>3. cards[c].limits.daily \in Nat /\ cards[c].limits.monthly \in Nat
  BY <1>2 DEF Limits
<1> QED
  BY <1>1, <1>2, <1>3 DEF CInv, LimitsOfBank
-----------------------------------------------------------------------------
(* A step of Payments keeps the amount of every row and the day of the     *)
(* posted ones.                                                            *)
PostedRowsKept ==
  /\ Rows(transfers) \subseteq Rows(transfers')
  /\ \A t \in Rows(transfers) :
       /\ transfers'[t].amount = transfers[t].amount
       /\ transfers[t].status = "posted" =>
            transfers'[t].status = "posted" /\ transfers'[t].day = transfers[t].day

LEMMA NextKeepsPostedRows ==
  ASSUME IInv, [Next]_vars
  PROVE  PostedRowsKept
<1>1. TypeOK /\ TypeOK'
  BY NextKeepsInv DEF IInv
<1>2. ASSUME NEW t \in Rows(transfers)
      PROVE  /\ t \in Rows(transfers')
             /\ transfers'[t].amount = transfers[t].amount
             /\ transfers[t].status = "posted" =>
                  transfers'[t].status = "posted" /\ transfers'[t].day = transfers[t].day
  <2>1. /\ t \in DOMAIN transfers'
        /\ \/ transfers'[t] = [transfers[t] EXCEPT !.utr = transfers'[t].utr]
           \/ /\ isPending(t)
              /\ transfers'[t] = [transfers[t] EXCEPT !.status = "posted", !.day = day]
    BY <1>1, NextOnlySettles DEF Rows, TransferIds
  <2>2. t \in Rows(transfers') /\ transfers[t] \in Transfer
    BY <1>1, <2>1 DEF TypeOK, Rows
  <2> QED
    BY <2>1, <2>2 DEF Transfer, isPending
<1> QED
  BY <1>2 DEF PostedRowsKept

LEMMA RowsKeptKeepCards ==
  ASSUME NEW ts \in Seq(Transfer), NEW us, NEW ids, NEW n,
         CardRows(ts, ids, n), InBankMax(ts, ids),
         Rows(ts) \subseteq Rows(us),
         \A t \in Rows(ts) :
           /\ us[t].amount = ts[t].amount
           /\ ts[t].status = "posted" => us[t].status = "posted" /\ us[t].day = ts[t].day
  PROVE  CardRows(us, ids, n) /\ InBankMax(us, ids)
<1>1. ASSUME NEW c, NEW first, NEW last
      PROVE  total(us, spent(us, ids, c, first, last)) = total(ts, spent(ts, ids, c, first, last))
  <2>1. \A t : <<t, c>> \in ids => /\ t \in Rows(ts) /\ t \in Rows(us)
                                   /\ us[t].day = ts[t].day
    BY DEF CardRows
  <2>2. spent(us, ids, c, first, last) = spent(ts, ids, c, first, last)
    BY <2>1 DEF spent
  <2>3. spent(ts, ids, c, first, last) \in SUBSET Rows(ts)
    BY DEF spent
  <2>4. total(us, spent(ts, ids, c, first, last)) = total(ts, spent(ts, ids, c, first, last))
    BY <2>3, TotalSame
  <2> QED
    BY <2>2, <2>4
<1>2. InBankMax(us, ids)
  BY <1>1 DEF InBankMax
<1>3. CardRows(us, ids, n)
  BY DEF CardRows
<1> QED
  BY <1>2, <1>3

LEMMA PaymentsKeepCards ==
  ASSUME IInv, CInv, [Next]_vars, UNCHANGED cardVars
  PROVE  CInv'
<1>1. cards' = cards /\ cardIds' = cardIds /\ DebitCards' = DebitCards
  BY DEF cardVars, DebitCards
<1>2. /\ transfers \in Seq(Transfer) /\ PostedRowsKept
  BY NextKeepsPostedRows DEF IInv, TypeOK
<1>3. CardRows(transfers', cardIds, Len(cards)) /\ InBankMax(transfers', cardIds)
  BY <1>2, RowsKeptKeepCards DEF CInv, PostedRowsKept
<1>4. LimitsOfBank'
  BY <1>1 DEF CInv, LimitsOfBank
<1> QED
  BY <1>1, <1>3, <1>4 DEF CInv, CardRows, InBankMax, spent, total, Rows
-----------------------------------------------------------------------------
(* Changes to cards alone. *)
LEMMA UpdateKeepsCards ==
  ASSUME CInv, NEW c \in DebitCards, NEW card \in Card, update(c, card),
         card.limits.daily <= DailyLimit, card.limits.monthly <= MonthlyLimit
  PROVE  CInv'
<1>1. /\ cards \in Seq(Card) /\ cards' = [cards EXCEPT ![c] = card]
      /\ transfers' = transfers /\ cardIds' = cardIds
  BY DEF CInv, update, vars
<1>2. /\ cards' \in Seq(Card) /\ Len(cards') = Len(cards) /\ DebitCards' = DebitCards
      /\ cards'[c] = card /\ \A d \in DebitCards \ {c} : cards'[d] = cards[d]
  BY <1>1 DEF DebitCards
<1>3. LimitsOfBank'
  BY <1>2 DEF CInv, LimitsOfBank
<1> QED
  BY <1>1, <1>2, <1>3 DEF CInv, CardRows, InBankMax, spent, total, Rows

LEMMA IssueKeepsCards ==
  ASSUME CInv, NEW account \in AccountIds, IssueCard(account)
  PROVE  CInv'
<1> DEFINE card == [account |-> account, status |-> "active", limits |-> defaultLimitsForTier]
<1>1. /\ cards \in Seq(Card) /\ cards' = Append(cards, card)
      /\ transfers' = transfers /\ cardIds' = cardIds
  BY DEF CInv, IssueCard, vars
<1>2. /\ card \in Card /\ card.limits.daily <= DailyLimit
      /\ card.limits.monthly <= MonthlyLimit
  BY DefaultsAreOfBank DEF Card
<1> HIDE DEF card
<1>3. /\ cards' \in Seq(Card) /\ Len(cards') = Len(cards) + 1 /\ Len(cards) \in Nat
      /\ DebitCards' = DebitCards \cup {Len(cards) + 1}
      /\ cards'[Len(cards) + 1] = card /\ \A d \in DebitCards : cards'[d] = cards[d]
  BY <1>1, <1>2 DEF DebitCards
<1>4. LimitsOfBank'
  BY <1>2, <1>3 DEF CInv, LimitsOfBank
<1>5. CardRows(transfers, cardIds, Len(cards'))
  BY <1>3 DEF CInv, CardRows
<1> QED
  BY <1>1, <1>3, <1>4, <1>5 DEF CInv, CardRows, InBankMax, spent, total, Rows

LEMMA ChangeKeepsCards ==
  ASSUME CInv, NEW c \in DebitCards,
         \/ \E limits \in AskedLimits : SetCardLimits(c, limits)
         \/ FreezeCard(c) \/ UnfreezeCard(c) \/ CancelCard(c)
  PROVE  CInv'
<1>1. /\ cards[c] \in Card
      /\ cards[c].limits.daily <= DailyLimit /\ cards[c].limits.monthly <= MonthlyLimit
  BY DEF CInv, LimitsOfBank, DebitCards
<1>2. ASSUME NEW limits \in AskedLimits, SetCardLimits(c, limits)
      PROVE  CInv'
  <2>1. limits \in Limits /\ DOMAIN limits = {"perTxn", "daily", "monthly"}
    BY CardConstants DEF Limits
  <2>2. limits.daily <= DailyLimit /\ limits.monthly <= MonthlyLimit
    BY <1>2, <2>1 DEF SetCardLimits, validateLimitsAgainstBankMax, bankMaxForTier
  <2> DEFINE card == [cards[c] EXCEPT !.limits = limits]
  <2>3. card \in Card /\ card.limits = limits
    BY <1>1, <2>1 DEF Card
  <2>4. update(c, card)
    BY <1>2 DEF SetCardLimits
  <2> HIDE DEF card
  <2> QED
    BY <2>2, <2>3, <2>4, UpdateKeepsCards
<1>3. ASSUME NEW status \in {"active", "frozen", "cancelled"},
             update(c, [cards[c] EXCEPT !.status = status])
      PROVE  CInv'
  <2> DEFINE card == [cards[c] EXCEPT !.status = status]
  <2>1. card \in Card /\ card.limits = cards[c].limits
    BY <1>1 DEF Card
  <2>2. update(c, card)
    BY <1>3
  <2> HIDE DEF card
  <2> QED
    BY <1>1, <2>1, <2>2, UpdateKeepsCards
<1> QED
  BY <1>2, <1>3 DEF FreezeCard, UnfreezeCard, CancelCard
-----------------------------------------------------------------------------
(* A card payment: a row more, of the card. *)
Checked(ts, ids, c, card, row, first, last, since, limit) ==
  c = card /\ row.day \in first..last
    => /\ since <= first
       /\ total(ts, spentSince(ts, ids, c, since)) + amountOf(row) <= limit

LEMMA OneMoreSpent ==
  ASSUME NEW ts \in Seq(Transfer), NEW us, NEW n, NEW row \in Transfer,
         Inserted(ts, us, n, row),
         NEW ids, NEW k, CardRows(ts, ids, k), NEW card, NEW c,
         NEW first \in Nat, NEW last \in Nat, NEW since \in Nat, NEW limit \in Nat,
         atMost(total(ts, spent(ts, ids, c, first, last)), limit),
         Checked(ts, ids, c, card, row, first, last, since, limit)
  PROVE  atMost(total(us, spent(us, ids \cup {<<n, card>>}, c, first, last)), limit)
<1> DEFINE new == ids \cup {<<n, card>>}
<1>1. /\ Rows(us) = Rows(ts) \cup {n} /\ n \notin Rows(ts)
      /\ us[n] = row /\ \A t \in Rows(ts) : us[t] = ts[t]
  BY InsertedRows
<1>2. spent(ts, ids, c, first, last) \in SUBSET Rows(ts)
  BY DEF spent
<1>3. \A t \in Rows(ts) : <<t, c>> \in new <=> <<t, c>> \in ids
  BY <1>1
<1>4. <<n, c>> \in new <=> c = card
  BY <1>1 DEF CardRows
<1> HIDE DEF new
<1>5. CASE c = card /\ row.day \in first..last
  <2>1. spent(us, new, c, first, last) = spent(ts, ids, c, first, last) \cup {n}
    BY <1>1, <1>3, <1>4, <1>5 DEF spent
  <2>2. spentSince(ts, ids, c, since) \in SUBSET Rows(ts)
    BY DEF spentSince
  <2>3. spent(ts, ids, c, first, last) \in SUBSET spentSince(ts, ids, c, since)
    <3> SUFFICES ASSUME NEW t \in spent(ts, ids, c, first, last)
                 PROVE  t \in spentSince(ts, ids, c, since)
      OBVIOUS
    <3>1. t \in Rows(ts) /\ <<t, c>> \in ids /\ ts[t].day \in first..last
      BY DEF spent
    <3> PICK d \in Nat : d = ts[t].day
      BY <3>1
    <3>2. d >= since
      BY <1>5, <3>1 DEF Checked
    <3> QED
      BY <3>1, <3>2 DEF spentSince
  <2>4. total(ts, spentSince(ts, ids, c, since)) + amountOf(row) <= limit
    BY <1>5 DEF Checked
  <2>5. atMost(total(us, spent(ts, ids, c, first, last) \cup {n}), limit)
    BY <2>2, <2>3, <2>4, OneMoreOf
  <2> QED
    BY <2>1, <2>5 DEF new
<1>6. CASE ~(c = card /\ row.day \in first..last)
  <2>1. spent(us, new, c, first, last) = spent(ts, ids, c, first, last)
    BY <1>1, <1>3, <1>4, <1>6 DEF spent
  <2>2. total(us, spent(ts, ids, c, first, last)) = total(ts, spent(ts, ids, c, first, last))
    BY <1>2, TotalInserted
  <2> QED
    BY <2>1, <2>2 DEF new
<1> QED
  BY <1>5, <1>6

(* The row of a card payment. *)
LEMMA CardRow ==
  ASSUME TypeOK, NEW from \in AccountIds, NEW to \in AccountIds, NEW amount \in Amounts,
         NEW key \in Keys \cup {NoKey},
         insertTransfer(from, to, amount, key, "transfer", "posted", "internal", "card")
  PROVE  \E row \in Transfer, n \in Nat :
           /\ Inserted(transfers, transfers', n, row)
           /\ row.from = from /\ amountOf(row) = amount
           /\ row.kind = "transfer" /\ row.status = "posted"
           /\ row.category = "card" /\ row.day = day
BY InsertedRow

LEMMA SpentRow ==
  ASSUME TypeOK, CInv, NEW c \in DebitCards, NEW amount \in Amounts,
         NEW key \in Keys \cup {NoKey}, SimulateCardSpend(c, amount, key)
  PROVE  \E row \in Transfer, n \in Nat :
           /\ Inserted(transfers, transfers', n, row)
           /\ amountOf(row) = amount /\ row.status = "posted" /\ row.day = day
           /\ row.kind = "transfer" /\ row.category = "card"
           /\ row.from = cards[c].account /\ row.from \in AccountIds
           /\ n = Len(transfers) + 1
<1>1. cards[c].account \in AccountIds /\ Merchant \in AccountIds
  BY CardIs, CardConstants
<1> PICK from \in AccountIds : from = cards[c].account
  BY <1>1
<1> PICK to \in AccountIds : to = Merchant
  BY <1>1
<1>2. insertTransfer(from, to, amount, key, "transfer", "posted", "internal", "card")
  BY DEF SimulateCardSpend, postTransfer
<1>3. PICK row \in Transfer, n \in Nat :
        /\ Inserted(transfers, transfers', n, row)
        /\ row.from = from /\ amountOf(row) = amount
        /\ row.kind = "transfer" /\ row.status = "posted"
        /\ row.category = "card" /\ row.day = day
  BY <1>2, CardRow
<1>4. n = Len(transfers) + 1
  <2>1. Inserted(transfers, transfers', n, row)
    BY <1>3
  <2> QED
    BY ONLY <2>1 DEF Inserted
<1> QED
  BY <1>3, <1>4

LEMMA SpendKeepsCards ==
  ASSUME TypeOK, CInv, NEW c \in DebitCards, NEW amount \in Amounts,
         NEW key \in Keys \cup {NoKey}, SimulateCardSpend(c, amount, key)
  PROVE  CInv'
<1>1. PICK row \in Transfer, n \in Nat :
        /\ Inserted(transfers, transfers', n, row)
        /\ amountOf(row) = amount /\ row.status = "posted" /\ row.day = day
        /\ n = Len(transfers) + 1
  BY SpentRow
<1>2. /\ cardIds' = cardIds \cup {<<n, c>>} /\ cards' = cards /\ DebitCards' = DebitCards
      /\ transfers \in Seq(Transfer) /\ day \in 0..MaxDay /\ day \in Nat
      /\ amount \in Nat /\ c \in Nat
      /\ CardRows(transfers, cardIds, Len(cards))
      /\ cards[c].limits.daily <= DailyLimit /\ cards[c].limits.monthly <= MonthlyLimit
      /\ cards[c].limits.daily \in Nat /\ cards[c].limits.monthly \in Nat
  <2>1. /\ cardIds' = cardIds \cup {<<Len(transfers) + 1, c>>} /\ cards' = cards
        /\ DebitCards' = DebitCards
    BY DEF SimulateCardSpend, DebitCards
  <2>2. /\ transfers \in Seq(Transfer) /\ day \in 0..MaxDay
        /\ CardRows(transfers, cardIds, Len(cards))
    BY DEF TypeOK, CInv
  <2>3. day \in Nat /\ amount \in Nat
    BY <2>2, PaymentsAssumption
  <2> QED
    BY <1>1, <2>1, <2>2, <2>3, CardIs
<1>3. /\ total(transfers, spentSince(transfers, cardIds, c, day)) + amount <= DailyLimit
      /\ total(transfers, spentSince(transfers, cardIds, c, monthStart(day))) + amount
           <= MonthlyLimit
  <2> DEFINE today == total(transfers, spentSince(transfers, cardIds, c, day))
             month == total(transfers, spentSince(transfers, cardIds, c, monthStart(day)))
  <2>1. /\ today + amount <= cards[c].limits.daily
        /\ month + amount <= cards[c].limits.monthly
    BY DEF SimulateCardSpend, checkCardLimits, cardUsedSince, sumAmounts, total, spentSince,
           monthStart, TransferIds, Rows
  <2>2. today \in Nat /\ month \in Nat
    <3>1. \A first : spentSince(transfers, cardIds, c, first) \in SUBSET Rows(transfers)
      BY DEF spentSince
    <3> QED
      BY <1>2, <3>1, TotalTyped
  <2> HIDE DEF today, month
  <2>3. \A i, j, k, l \in Nat : i + j <= k /\ k <= l => i + j <= l
    OBVIOUS
  <2>4. today + amount <= DailyLimit
    BY <1>2, <2>1, <2>2, <2>3, CardConstants
  <2>5. month + amount <= MonthlyLimit
    BY <1>2, <2>1, <2>2, <2>3, CardConstants
  <2> QED
    BY <2>4, <2>5 DEF today, month
<1>4. ASSUME NEW e \in Nat, NEW d \in 0..MaxDay
      PROVE  /\ atMost(total(transfers', spent(transfers', cardIds', e, d, d)), DailyLimit)
             /\ atMost(total(transfers', spent(transfers', cardIds', e, monthStart(d), d)),
                       MonthlyLimit)
  <2>1. /\ d \in Nat /\ monthStart(d) \in Nat /\ monthStart(day) \in Nat
        /\ DailyLimit \in Nat /\ MonthlyLimit \in Nat /\ DaysPerMonth \in Nat \ {0}
    <3>1. d \in Nat /\ day \in Nat /\ DaysPerMonth \in Nat \ {0}
      BY <1>2, CardConstants
    <3>2. monthStart(d) \in Nat /\ monthStart(day) \in Nat
      BY <3>1, MonthStartIs DEF monthStart
    <3> QED
      BY <3>1, <3>2, CardConstants
  <2>2. /\ atMost(total(transfers, spent(transfers, cardIds, e, d, d)), DailyLimit)
        /\ atMost(total(transfers, spent(transfers, cardIds, e, monthStart(d), d)), MonthlyLimit)
    BY DEF CInv, InBankMax
  <2>3. Checked(transfers, cardIds, e, c, row, d, d, day, DailyLimit)
    BY <1>1, <1>2, <1>3, <2>1 DEF Checked
  <2>4. Checked(transfers, cardIds, e, c, row, monthStart(d), d, monthStart(day), MonthlyLimit)
    <3> SUFFICES ASSUME e = c, row.day \in monthStart(d)..d
                 PROVE  /\ monthStart(day) <= monthStart(d)
                        /\ total(transfers, spentSince(transfers, cardIds, e, monthStart(day)))
                             + amountOf(row) <= MonthlyLimit
      BY DEF Checked
    <3>1. day <= d
      BY <1>1, <1>2, <2>1
    <3>2. monthStart(day) <= monthStart(d)
      BY <1>2, <2>1, <3>1, MonthStarts DEF monthStart
    <3> QED
      BY <1>1, <1>3, <3>2
  <2> PICK us : us = transfers'
    OBVIOUS
  <2>0. Inserted(transfers, us, n, row) /\ CardRows(transfers, cardIds, Len(cards))
    BY <1>1, <1>2
  <2>5. atMost(total(us, spent(us, cardIds \cup {<<n, c>>}, e, d, d)), DailyLimit)
    BY <1>2, <2>0, <2>1, <2>2, <2>3, OneMoreSpent
  <2>6. atMost(total(us, spent(us, cardIds \cup {<<n, c>>}, e, monthStart(d), d)), MonthlyLimit)
    BY <1>2, <2>0, <2>1, <2>2, <2>4, OneMoreSpent
  <2> QED
    BY <1>2, <2>5, <2>6
<1>5. InBankMax(transfers', cardIds')
  BY <1>4 DEF InBankMax
<1>6. CardRows(transfers', cardIds', Len(cards))
  <2>1. /\ Rows(transfers') = Rows(transfers) \cup {n}
        /\ transfers'[n] = row /\ \A t \in Rows(transfers) : transfers'[t] = transfers[t]
    BY <1>1, <1>2, InsertedRows
  <2> QED
    BY <1>1, <1>2, <2>1 DEF CardRows, DebitCards
<1>7. LimitsOfBank'
  BY <1>2 DEF CInv, LimitsOfBank
<1> QED
  BY <1>2, <1>5, <1>6, <1>7 DEF CInv, CardRows, InBankMax, spent, total, Rows

(* It keeps what payments keep: it is one, of a category of its own. *)
LEMMA PaymentsInvIs ==
  ASSUME IInv', Tallied(accounts', transfers', openings), Posted(transfers', ledger'),
         Limited(transfers')
  PROVE  PaymentsInv'
BY DEF PaymentsInv, Tallied, Accounted, Conserved, PendingOnBatchRail, total, onAccounts,
       pendingOf, toSelf, keptHolds, faucets, holdOf, Rows, openings, Posted, Entered,
       RowsHaveTransfer, entries, isEntryDue, Limited, InLimits, InstantIsCounted, outbound

LEMMA SpendKeepsPayments ==
  ASSUME PaymentsInv, CInv, NEW c \in DebitCards, NEW amount \in Amounts,
         NEW key \in Keys \cup {NoKey}, SimulateCardSpend(c, amount, key)
  PROVE  PaymentsInv'
<1>1. cards[c].account \in AccountIds /\ Merchant \in AccountIds
  BY CardIs, CardConstants
<1> PICK from \in AccountIds : from = cards[c].account
  BY <1>1
<1> PICK to \in AccountIds : to = Merchant
  BY <1>1
<1>2. /\ postTransfer(from, to, amount, key, "transfer", "internal", "card")
      /\ ~keyUsed(key) /\ UNCHANGED <<batch, stamping, day, crashes>>
  BY DEF SimulateCardSpend
<1>3. IInv'
  BY <1>2, PostKeepsInv DEF PaymentsInv
<1>4. Tallied(accounts', transfers', openings)
  BY <1>2, PostKeepsTallies, OpeningsAreInt DEF PaymentsInv, IInv, Tables
<1>5. Posted(transfers', ledger')
  BY <1>2, PostKeepsPosted DEF PaymentsInv
<1>6. Limited(transfers')
  <2>1. PICK row \in Transfer, n \in Nat :
          /\ Inserted(transfers, transfers', n, row)
          /\ row.status = "posted" /\ row.category = "card" /\ row.from \in AccountIds
    BY SpentRow DEF PaymentsInv, IInv
  <2> QED
    BY <2>1, OtherRowKeepsLimits DEF PaymentsInv, IInv, TypeOK
<1> QED
  BY <1>3, <1>4, <1>5, <1>6, PaymentsInvIs

LEMMA NextKeepsPayments ==
  ASSUME PaymentsInv, [Next]_vars
  PROVE  PaymentsInv'
<1>1. IInv'
  BY NextKeepsInv DEF PaymentsInv
<1>2. Tallied(accounts', transfers', openings)
  BY NextKeepsTallies, OpeningsAreInt DEF PaymentsInv, IInv, Tables
<1>3. Posted(transfers', ledger') /\ Limited(transfers')
  BY NextKeepsPosted, NextKeepsLimits DEF PaymentsInv
<1> QED
  BY <1>1, <1>2, <1>3, PaymentsInvIs

LEMMA CardsInitIsInv ==
  ASSUME CardsInit
  PROVE  PaymentsInv /\ CInv
<1>1. Init /\ cards = << >> /\ cardIds = {} /\ Rows(transfers) = {}
  BY DEF CardsInit, Init, Rows
<1>2. PaymentsInv
  <2>1. Posted(transfers, ledger)
    BY <1>1 DEF Init, Posted, Entered, RowsHaveTransfer, Rows
  <2> QED
    BY <1>1, <2>1, InitIsInv, InitTallies, InitLimited DEF PaymentsInv
<1>3. InBankMax(transfers, cardIds)
  <2>1. \A c, first, last : spent(transfers, cardIds, c, first, last) = {}
    BY <1>1 DEF spent
  <2>2. total(transfers, {}) = 0
    BY SumEmpty DEF total
  <2> QED
    BY <2>1, <2>2, CardConstants DEF InBankMax, atMost
<1>4. cards \in Seq(Card) /\ DebitCards = {}
  BY <1>1 DEF DebitCards
<1> QED
  BY <1>1, <1>2, <1>3, <1>4 DEF CInv, CardRows, LimitsOfBank

LEMMA CardsNextKeepsInv ==
  ASSUME PaymentsInv, CInv, [CardsNext]_cardsVars
  PROVE  PaymentsInv' /\ CInv'
<1>1. CASE [Next]_vars /\ UNCHANGED cardVars
  BY <1>1, NextKeepsPayments, PaymentsKeepCards DEF PaymentsInv
<1>2. CASE \E a \in AccountIds : IssueCard(a)
  BY <1>2, IssueKeepsCards, NextKeepsPayments DEF IssueCard
<1>3. ASSUME NEW c \in DebitCards,
             \/ \E limits \in AskedLimits : SetCardLimits(c, limits)
             \/ FreezeCard(c) \/ UnfreezeCard(c) \/ CancelCard(c)
      PROVE  PaymentsInv' /\ CInv'
  <2>1. UNCHANGED vars
    BY <1>3 DEF SetCardLimits, FreezeCard, UnfreezeCard, CancelCard, update
  <2> QED
    BY <1>3, <2>1, ChangeKeepsCards, NextKeepsPayments
<1>4. ASSUME NEW c \in DebitCards, NEW amount \in Amounts, NEW key \in Keys \cup {NoKey},
             SimulateCardSpend(c, amount, key)
      PROVE  PaymentsInv' /\ CInv'
  BY <1>4, SpendKeepsCards, SpendKeepsPayments DEF PaymentsInv, IInv
<1> QED
  BY <1>1, <1>2, <1>3, <1>4 DEF CardsNext, PaymentsStep, CardStep, cardsVars
-----------------------------------------------------------------------------
(* The first and the last of some numbers. *)
LEMMA LeastIs ==
  ASSUME NEW N \in Nat, NEW S \in SUBSET (1..N), S # {}
  PROVE  Min(S) \in S /\ \A i \in S : Min(S) <= i
<1> DEFINE Good == { n \in Nat : (\E i \in S : i <= n) => \E m \in S : \A i \in S : m <= i }
<1>1. 0 \in Good
  OBVIOUS
<1>2. ASSUME NEW n \in 0..(N - 1), n \in Good
      PROVE  n + 1 \in Good
  <2> SUFFICES ASSUME NEW j \in S, j <= n + 1, ~ \E i \in S : i <= n
               PROVE  \E m \in S : \A i \in S : m <= i
    BY <1>2
  <2>1. \A i \in S : j <= i
    OBVIOUS
  <2> QED
    BY <2>1
<1> HIDE DEF Good
<1>3. N \in Good
  BY <1>1, <1>2, UpToInduction
<1>4. \E i \in S : i <= N
  <2> PICK i \in S : i \in 1..N
    OBVIOUS
  <2> QED
    OBVIOUS
<1>5. \E m \in S : \A i \in S : m <= i
  BY <1>3, <1>4 DEF Good
<1> QED
  BY <1>5 DEF Min

LEMMA GreatestIs ==
  ASSUME NEW N \in Nat, NEW S \in SUBSET (1..N), S # {}
  PROVE  Max(S) \in S /\ \A i \in S : i <= Max(S)
<1> DEFINE Good == { n \in Nat : (\E i \in S : i >= N - n) => \E m \in S : \A i \in S : m >= i }
<1>1. 0 \in Good
  OBVIOUS
<1>2. ASSUME NEW n \in 0..(N - 1), n \in Good
      PROVE  n + 1 \in Good
  <2> SUFFICES ASSUME NEW j \in S, j >= N - (n + 1), ~ \E i \in S : i >= N - n
               PROVE  \E m \in S : \A i \in S : m >= i
    BY <1>2
  <2>1. \A i \in S : j >= i
    OBVIOUS
  <2> QED
    BY <2>1
<1> HIDE DEF Good
<1>3. N \in Good
  BY <1>1, <1>2, UpToInduction
<1>4. \E i \in S : i >= N - N
  <2> PICK i \in S : i \in 1..N
    OBVIOUS
  <2> QED
    OBVIOUS
<1>5. \E m \in S : \A i \in S : m >= i
  BY <1>3, <1>4 DEF Good
<1>6. Max(S) \in S /\ \A i \in S : Max(S) >= i
  BY <1>5 DEF Max
<1> QED
  BY <1>6

(* A sum over other names for the same things. *)
Renames(f, g, h, S, T) ==
  /\ \A x \in S : h[x] \in T /\ f[x] \in Nat /\ g[h[x]] = f[x]
  /\ \A y \in T : \E x \in S : h[x] = y
  /\ \A x, y \in S : h[x] = h[y] => x = y

LEMMA SumOfImage ==
  ASSUME NEW f, NEW g, NEW h, NEW S, NEW T, IsFiniteSet(S),
         Renames(f, g, h, S, T)
  PROVE  SumFunctionOnSet(f, S) = SumFunctionOnSet(g, T)
<1>0. /\ T = { h[x] : x \in S } /\ \A x, y \in S : h[x] = h[y] => x = y
      /\ \A x \in S : f[x] \in Nat /\ g[h[x]] = f[x]
  BY DEF Renames
<1> DEFINE image(s) == { h[x] : x \in s }
           Good == { s \in SUBSET S :
                       /\ IsFiniteSet(image(s))
                       /\ SumFunctionOnSet(f, s) = SumFunctionOnSet(g, image(s)) }
<1>1. ASSUME NEW U \in SUBSET S, \A V \in SUBSET U : V # U => V \in Good
      PROVE  U \in Good
  <2>1. CASE U = {}
    BY <2>1, SumEmpty, FS_EmptySet
  <2>2. CASE U # {}
    <3> PICK z : z = pick(U)
      OBVIOUS
    <3>1. z \in U /\ IsFiniteSet(U)
      BY <2>2, PickIs, FS_Subset
    <3> PICK rest : rest = U \ {z}
      OBVIOUS
    <3>2. rest \in SUBSET U /\ rest # U /\ rest \in SUBSET S
      BY <3>1
    <3>3. /\ IsFiniteSet(image(rest))
          /\ SumFunctionOnSet(f, rest) = SumFunctionOnSet(g, image(rest))
      BY <1>1, <3>2
    <3>4. image(U) = image(rest) \cup {h[z]} /\ h[z] \notin image(rest)
      BY <1>0, <3>1
    <3>5. SumFunctionOnSet(f, U) = f[z] + SumFunctionOnSet(f, rest)
      BY <2>2, <3>1, SumTakes
    <3>6. \A y \in image(rest) \cup {h[z]} : g[y] \in Nat
      BY <1>0, <3>1, <3>2
    <3> HIDE DEF image
    <3>7. /\ IsFiniteSet(image(rest) \cup {h[z]})
          /\ SumFunctionOnSet(g, image(rest) \cup {h[z]})
               = g[h[z]] + SumFunctionOnSet(g, image(rest))
      <4> PICK new : new = h[z]
        OBVIOUS
      <4> PICK old : old = image(rest)
        OBVIOUS
      <4>1. IsFiniteSet(old) /\ new \notin old /\ \A y \in old \cup {new} : g[y] \in Nat
        BY <3>3, <3>4, <3>6
      <4>2. SumFunctionOnSet(g, old \cup {new}) = g[new] + SumFunctionOnSet(g, old)
        BY <4>1, SumAdds
      <4>3. IsFiniteSet(old \cup {new})
        BY <4>1, FS_AddElement
      <4> QED
        BY <4>2, <4>3
    <3> QED
      BY <1>0, <3>1, <3>3, <3>4, <3>5, <3>7
  <2> QED
    BY <2>1, <2>2
<1> HIDE DEF Good
<1>2. \A U \in SUBSET S : (\A V \in SUBSET U : V # U => V \in Good) => U \in Good
  BY <1>1
<1>3. S \in Good
  BY <1>2, SetInduction
<1> QED
  BY <1>0, <1>3 DEF Good

(* A sum over a stretch of positions, one longer. *)
stretch(P, m, n) == { i \in P : i \in m..n }

AreNat(f, m, n) == \A i \in m..n : f[i] \in Nat

LEMMA SumGrows ==
  ASSUME NEW f, NEW P, NEW m \in Nat, NEW n \in Nat, NEW k \in Nat, k = n + 1, m <= k,
         AreNat(f, m, k)
  PROVE  /\ SumFunctionOnSet(f, stretch(P, m, n)) \in Nat
         /\ k \in P => SumFunctionOnSet(f, stretch(P, m, k))
                         = f[k] + SumFunctionOnSet(f, stretch(P, m, n))
         /\ k \notin P => SumFunctionOnSet(f, stretch(P, m, k))
                            = SumFunctionOnSet(f, stretch(P, m, n))
<1> PICK S : S = stretch(P, m, n)
  OBVIOUS
<1>1. m..k = (m..n) \cup {k} /\ k \notin m..n
  OBVIOUS
<1>2. IsFiniteSet(S) /\ k \notin S /\ (\A i \in S \cup {k} : f[i] \in Nat)
  <2>1. IsFiniteSet(m..n)
    BY FS_Interval
  <2> QED
    BY <1>1, <2>1, FS_Subset DEF AreNat, stretch
<1>3. SumFunctionOnSet(f, S) \in Nat
  BY <1>2, SumTyped
<1>4. SumFunctionOnSet(f, S \cup {k}) = f[k] + SumFunctionOnSet(f, S)
  BY <1>2, SumAdds
<1>5. /\ k \in P => stretch(P, m, k) = S \cup {k}
      /\ k \notin P => stretch(P, m, k) = S
  BY <1>1 DEF stretch
<1> QED
  BY <1>3, <1>4, <1>5
-----------------------------------------------------------------------------
(* Statements.  Each running balance follows from the one before: by the   *)
(* amount of its row and, when its row is the credit of a transfer to the  *)
(* same account, by that amount again, for the credit overwrote the debit. *)
priorTo(q, opening, i) == IF i = 1 THEN opening ELSE q[i - 1].running

overwrites(ts, row) ==
  row.kind = "credit" /\ ts[row.transfer].from = ts[row.transfer].to

Follows(ts, row, prior) ==
  row.running = prior + (IF row.kind = "credit" THEN row.amount ELSE -row.amount)
                      + (IF overwrites(ts, row) THEN row.amount ELSE 0)

RunsOn(ts, q, opening) ==
  \A i \in 1..Len(q) :
    /\ Follows(ts, q[i], priorTo(q, opening, i))
    /\ overwrites(ts, q[i]) => i # 1 /\ q[i - 1].transfer = q[i].transfer

dayOf(ts, row) == ts[row.transfer].day

InDayOrder(ts, q, today) ==
  \A i \in 1..Len(q) :
    /\ dayOf(ts, q[i]) <= today
    /\ \A j \in i..Len(q) : dayOf(ts, q[i]) <= dayOf(ts, q[j])

(* With what is shown of payments, inductive. *)
Joined(ts, led, today) ==
  \A a \in AccountIds :
    RunsOn(ts, led[a], OpeningBalance[a]) /\ InDayOrder(ts, led[a], today)

(* What a row is joined by is kept of its transfer. *)
KeptPosted(ts, us) ==
  \A t \in Rows(ts) :
    ts[t].status = "posted" =>
      us[t].day = ts[t].day /\ us[t].from = ts[t].from /\ us[t].to = ts[t].to

LEMMA RowIsDue ==
  ASSUME NEW ts, NEW led \in [AccountIds -> Seq(Row)], Posted(ts, led),
         NEW a \in AccountIds, NEW i \in 1..Len(led[a])
  PROVE  /\ led[a][i] \in Row
         /\ led[a][i].transfer \in Rows(ts)
         /\ led[a][i].amount = ts[led[a][i].transfer].amount
         /\ ts[led[a][i].transfer].status = "posted"
         /\ led[a][i].kind = "credit" => ts[led[a][i].transfer].to = a
<1> PICK t : t = led[a][i].transfer
  OBVIOUS
<1> PICK kind : kind = led[a][i].kind
  OBVIOUS
<1>0. led[a] \in Seq(Row)
  OBVIOUS
<1>1. led[a][i] \in Row /\ kind \in {"debit", "credit"}
  <2>1. led[a][i] \in Row
    BY <1>0
  <2> QED
    BY <2>1 DEF Row
<1>2. t \in Rows(ts) /\ led[a][i].amount = ts[t].amount
  BY DEF Posted, RowsHaveTransfer
<1>3. i \in entries(led, t, a, kind)
  BY DEF entries
<1>4. isEntryDue(ts[t], kind, a)
  BY <1>1, <1>2, <1>3, EntriesAreDue DEF Posted
<1> QED
  BY <1>1, <1>2, <1>4 DEF isEntryDue

LEMMA DayIsNat ==
  ASSUME NEW row \in Transfer
  PROVE  row.day \in Nat
BY PaymentsAssumption DEF Transfer

LEMMA JoinedKept ==
  ASSUME NEW ts \in Seq(Transfer), NEW us, NEW led \in [AccountIds -> Seq(Row)],
         Posted(ts, led), KeptPosted(ts, us),
         NEW today \in Nat, NEW then \in Nat, today <= then, Joined(ts, led, today)
  PROVE  Joined(us, led, then)
<1> SUFFICES ASSUME NEW a \in AccountIds
             PROVE  RunsOn(us, led[a], OpeningBalance[a]) /\ InDayOrder(us, led[a], then)
  BY DEF Joined
<1> PICK q : q = led[a]
  OBVIOUS
<1>1. ASSUME NEW i \in 1..Len(q)
      PROVE  /\ overwrites(us, q[i]) = overwrites(ts, q[i])
             /\ dayOf(us, q[i]) = dayOf(ts, q[i])
             /\ dayOf(ts, q[i]) \in Nat
  <2>1. q[i].transfer \in Rows(ts) /\ ts[q[i].transfer].status = "posted"
    BY RowIsDue
  <2> PICK t \in Rows(ts) : t = q[i].transfer
    BY <2>1
  <2>2. us[t].day = ts[t].day /\ us[t].from = ts[t].from /\ us[t].to = ts[t].to
    BY <2>1 DEF KeptPosted
  <2>3. ts[t] \in Transfer
    BY RowsAre
  <2>4. ts[t].day \in Nat
    BY <2>3, DayIsNat
  <2> QED
    BY <2>2, <2>4 DEF overwrites, dayOf
<1>2. RunsOn(ts, q, OpeningBalance[a]) /\ InDayOrder(ts, q, today)
  BY DEF Joined
<1>3. RunsOn(us, q, OpeningBalance[a])
  BY <1>1, <1>2 DEF RunsOn, Follows
<1>4. InDayOrder(us, q, then)
  <2> SUFFICES ASSUME NEW i \in 1..Len(q)
               PROVE  /\ dayOf(us, q[i]) <= then
                      /\ \A j \in i..Len(q) : dayOf(us, q[i]) <= dayOf(us, q[j])
    BY DEF InDayOrder
  <2>1. dayOf(us, q[i]) <= then
    BY <1>1, <1>2 DEF InDayOrder
  <2>2. i..Len(q) \subseteq 1..Len(q)
    OBVIOUS
  <2>3. \A j \in i..Len(q) : dayOf(us, q[i]) <= dayOf(us, q[j])
    BY <1>1, <1>2, <2>2 DEF InDayOrder
  <2> QED
    BY <2>1, <2>3
<1> QED
  BY <1>3, <1>4

LEMMA JoinedOnTheDay ==
  ASSUME NEW ts \in Seq(Transfer), NEW us, NEW led \in [AccountIds -> Seq(Row)],
         Posted(ts, led), KeptPosted(ts, us), NEW today \in Nat, Joined(ts, led, today)
  PROVE  Joined(us, led, today)
<1>1. today <= today
  OBVIOUS
<1> QED
  BY <1>1, JoinedKept

(* A row of today that follows from the last one. *)
LEMMA RowJoins ==
  ASSUME NEW ts, NEW led, NEW new, NEW a, NEW row, Wrote(led, new, a, row),
         NEW today \in Nat, Joined(ts, led, today), dayOf(ts, row) = today,
         Follows(ts, row, priorTo(led[a], OpeningBalance[a], Len(led[a]) + 1)),
         overwrites(ts, row) =>
           Len(led[a]) # 0 /\ led[a][Len(led[a])].transfer = row.transfer
  PROVE  Joined(ts, new, today)
<1> SUFFICES ASSUME NEW b \in AccountIds
             PROVE  RunsOn(ts, new[b], OpeningBalance[b]) /\ InDayOrder(ts, new[b], today)
  BY DEF Joined
<1>1. RunsOn(ts, led[b], OpeningBalance[b]) /\ InDayOrder(ts, led[b], today)
  BY DEF Joined
<1>2. CASE b # a
  BY <1>1, <1>2, WroteIs
<1>3. CASE b = a
  <2> PICK q : q = led[a]
    OBVIOUS
  <2> PICK r : r = new[a]
    OBVIOUS
  <2> PICK o : o = OpeningBalance[a]
    OBVIOUS
  <2>1. /\ Len(q) \in Nat /\ Len(r) = Len(q) + 1 /\ r[Len(q) + 1] = row
        /\ \A i \in 1..Len(q) : r[i] = q[i]
    BY WroteIs
  <2> PICK n \in Nat : n = Len(q)
    BY <2>1
  <2>2. ASSUME NEW i \in 1..(n + 1)
        PROVE  priorTo(r, o, i) = priorTo(q, o, i)
    <3>1. i # 1 => i - 1 \in 1..n
      OBVIOUS
    <3> QED
      BY <2>1, <3>1 DEF priorTo
  <2>3. RunsOn(ts, r, o)
    <3> SUFFICES ASSUME NEW i \in 1..(n + 1)
                 PROVE  /\ Follows(ts, r[i], priorTo(r, o, i))
                        /\ overwrites(ts, r[i]) => i # 1 /\ r[i - 1].transfer = r[i].transfer
      BY <2>1 DEF RunsOn
    <3>1. CASE i = n + 1
      BY <2>1, <2>2, <3>1
    <3>2. CASE i # n + 1
      <4>1. i \in 1..n /\ (i # 1 => i - 1 \in 1..n)
        BY <3>2
      <4>2. r[i] = q[i] /\ (i # 1 => r[i - 1] = q[i - 1])
        BY <2>1, <4>1
      <4> QED
        BY <1>1, <1>3, <2>2, <4>1, <4>2 DEF RunsOn
    <3> QED
      BY <3>1, <3>2
  <2>4. InDayOrder(ts, r, today)
    <3> SUFFICES ASSUME NEW i \in 1..(n + 1)
                 PROVE  /\ dayOf(ts, r[i]) <= today
                        /\ \A j \in i..(n + 1) : dayOf(ts, r[i]) <= dayOf(ts, r[j])
      BY <2>1 DEF InDayOrder
    <3>1. CASE i = n + 1
      <4>1. r[i] = row /\ today <= today
        BY <2>1, <3>1
      <4>2. \A j \in i..(n + 1) : j = i
        BY <3>1
      <4> QED
        BY <4>1, <4>2
    <3>2. CASE i # n + 1
      <4>1. i \in 1..n /\ r[i] = q[i]
        BY <2>1, <3>2
      <4>2. /\ dayOf(ts, q[i]) <= today
            /\ \A j \in i..n : dayOf(ts, q[i]) <= dayOf(ts, q[j])
        BY <1>1, <1>3, <4>1 DEF InDayOrder
      <4>3. ASSUME NEW j \in i..(n + 1)
            PROVE  dayOf(ts, q[i]) <= dayOf(ts, r[j])
        <5>1. j = n + 1 \/ (j \in i..n /\ j \in 1..n)
          OBVIOUS
        <5> QED
          BY <2>1, <4>2, <5>1
      <4> QED
        BY <4>1, <4>2, <4>3
    <3> QED
      BY <3>1, <3>2
  <2> QED
    BY <1>3, <2>3, <2>4
<1> QED
  BY <1>2, <1>3
-----------------------------------------------------------------------------
LEMMA BalanceIsPrior ==
  ASSUME IInv, NEW a \in AccountIds
  PROVE  /\ Len(ledger[a]) \in Nat
         /\ priorTo(ledger[a], OpeningBalance[a], Len(ledger[a]) + 1) = balanceOf(accounts, a)
<1>1. ledger[a] \in Seq(Row)
  BY DEF IInv, TypeOK
<1> PICK q : q = ledger[a]
  OBVIOUS
<1>2. Len(q) \in Nat /\ (q = << >> <=> Len(q) = 0) /\ (Len(q) + 1) - 1 = Len(q)
  BY <1>1
<1>3. balanceOf(accounts, a) = IF q = << >> THEN OpeningBalance[a] ELSE q[Len(q)].running
  BY DEF IInv, Books, balanceOf
<1> QED
  BY <1>2, <1>3 DEF priorTo

(* The two rows of a payment, on one account or on two. *)
LEMMA PaymentJoins ==
  ASSUME IInv, Posted(transfers, ledger), Joined(transfers, ledger, day),
         NEW us \in Seq(Transfer), KeptPosted(transfers, us),
         NEW t \in Rows(us), us[t].day = day,
         NEW from \in AccountIds, NEW to \in AccountIds, NEW amount \in Amounts,
         us[t].from = from, us[t].to = to,
         NEW debited \in Account, NEW credited \in Account,
         isSum(balanceOf(accounts, from), debited.balance, amount),
         isSum(credited.balance, balanceOf(accounts, to), amount),
         insertRows(t, from, to, amount, debited, credited)
  PROVE  Joined(us, ledger', day)
<1> DEFINE debitRow == ledgerRow(t, "debit", amount, debited)
           creditRow == ledgerRow(t, "credit", amount, credited)
           mid == insertRow(ledger, from, debitRow)
<1>0. t \in Nat
  BY RowsAre DEF Rows
<1>1. /\ debitRow \in Row /\ creditRow \in Row
      /\ debitRow.transfer = t /\ debitRow.kind = "debit" /\ debitRow.amount = amount
      /\ creditRow.transfer = t /\ creditRow.kind = "credit" /\ creditRow.amount = amount
      /\ debitRow.running = debited.balance /\ creditRow.running = credited.balance
  BY <1>0 DEF ledgerRow, Row, Account
<1>2. ledger' = insertRow(mid, to, creditRow)
  BY DEF insertRows
<1> HIDE DEF debitRow, creditRow
<1>3. Wrote(ledger, mid, from, debitRow)
  BY <1>1 DEF Wrote, IInv, TypeOK
<1> HIDE DEF mid
<1>4. Wrote(mid, ledger', to, creditRow)
  BY <1>1, <1>2, <1>3, WroteIs DEF Wrote
<1>5. /\ day \in Nat /\ transfers \in Seq(Transfer) /\ ledger \in [AccountIds -> Seq(Row)]
      /\ amount \in Nat /\ debited.balance \in Nat /\ credited.balance \in Nat
      /\ balanceOf(accounts, from) \in Nat /\ balanceOf(accounts, to) \in Nat
  <2>1. accounts[from] \in Account /\ accounts[to] \in Account
    BY DEF IInv, Books
  <2> QED
    BY <2>1, PaymentsAssumption DEF IInv, TypeOK, Account, balanceOf
<1>6. Joined(us, ledger, day)
  BY <1>5, JoinedOnTheDay
<1>7. dayOf(us, debitRow) = day /\ dayOf(us, creditRow) = day
  BY <1>1 DEF dayOf
<1>8. Joined(us, mid, day)
  <2>1. ~overwrites(us, debitRow)
    BY <1>1 DEF overwrites
  <2>2. debited.balance = balanceOf(accounts, from) + (-amount) + 0
    <3>1. \A i, j, k \in Nat : i = j + k => j = i + (-k) + 0
      OBVIOUS
    <3> QED
      BY <1>5, <3>1 DEF isSum
  <2>3. Follows(us, debitRow, balanceOf(accounts, from))
    BY <1>1, <2>1, <2>2 DEF Follows
  <2> QED
    BY <1>3, <1>5, <1>6, <1>7, <2>1, <2>3, BalanceIsPrior, RowJoins
<1>9. overwrites(us, creditRow) <=> from = to
  BY <1>1 DEF overwrites
<1>10. CASE from # to
  <2>1. mid[to] = ledger[to]
    BY <1>3, <1>10, WroteIs
  <2>2. credited.balance = balanceOf(accounts, to) + amount + 0
    <3>1. \A i, j, k \in Nat : i = j + k => i = j + k + 0
      OBVIOUS
    <3> QED
      BY <1>5, <3>1 DEF isSum
  <2>3. Follows(us, creditRow, balanceOf(accounts, to))
    BY <1>1, <1>9, <1>10, <2>2 DEF Follows
  <2> QED
    BY <1>4, <1>5, <1>7, <1>8, <1>9, <1>10, <2>1, <2>3, BalanceIsPrior, RowJoins
<1>11. CASE from = to
  <2>1. /\ Len(mid[to]) # 0 /\ Len(mid[to]) \in Nat
        /\ mid[to][Len(mid[to])] = debitRow
    BY <1>3, <1>11, WroteIs
  <2>2. priorTo(mid[to], OpeningBalance[to], Len(mid[to]) + 1) = debited.balance
    <3>1. Len(mid[to]) + 1 # 1 /\ (Len(mid[to]) + 1) - 1 = Len(mid[to])
      BY <2>1
    <3> QED
      BY <1>1, <2>1, <3>1 DEF priorTo
  <2>3. credited.balance = debited.balance + amount + amount
    <3>1. \A i, j, k, l \in Nat : i = j + k /\ l = i + k => l = j + k + k
      OBVIOUS
    <3> QED
      BY <1>5, <1>11, <3>1 DEF isSum
  <2>4. Follows(us, creditRow, debited.balance)
    BY <1>1, <1>9, <1>11, <2>3 DEF Follows
  <2> QED
    BY <1>1, <1>4, <1>5, <1>7, <1>8, <2>1, <2>2, <2>4, RowJoins
<1> QED
  BY <1>10, <1>11

LEMMA InsertedKeepsPosted ==
  ASSUME NEW ts \in Seq(Transfer), NEW us, NEW n, NEW row, Inserted(ts, us, n, row)
  PROVE  KeptPosted(ts, us) /\ us \in Seq(Transfer) /\ n \in Rows(us)
BY InsertedRows DEF KeptPosted

LEMMA PostJoins ==
  ASSUME IInv, Posted(transfers, ledger), Joined(transfers, ledger, day),
         NEW from \in AccountIds, NEW to \in AccountIds,
         NEW amount \in Amounts, NEW key \in Keys \cup {NoKey},
         NEW rail \in InstantRails \cup {"internal"},
         NEW category \in {"p2p", "self", "bill", "card", "faucet"},
         postTransfer(from, to, amount, key, "transfer", rail, category)
  PROVE  Joined(transfers', ledger', day)
<1> DEFINE debited == debit(accounts[from], amount)
           credited == credit(accounts[to], amount)
<1>1. /\ amount \in Nat /\ transfers \in Seq(Transfer)
      /\ accounts[from] \in Account /\ accounts[to] \in Account
      /\ AccountType[from] \in AccountTypes
  BY PaymentsAssumption DEF IInv, TypeOK, Books
<1>2. /\ debited \in Account /\ credited \in Account
      /\ isSum(balanceOf(accounts, from), debited.balance, amount)
      /\ isSum(credited.balance, balanceOf(accounts, to), amount)
  BY <1>1, DebitIsTyped, CreditIsTyped, DebitMoves, CreditMoves DEF postTransfer, balanceOf
<1>3. PICK row \in Transfer, n \in Nat :
        /\ Inserted(transfers, transfers', n, row)
        /\ row.from = from /\ row.to = to /\ row.day = day
  <2>1. insertTransfer(from, to, amount, key, "transfer", "posted", rail, category)
    BY DEF postTransfer
  <2> QED
    BY <2>1, InsertedRow DEF IInv
<1>4. insertRows(n, from, to, amount, debited, credited)
  BY <1>3 DEF Inserted, postTransfer
<1> HIDE DEF debited, credited
<1> PICK us : us = transfers'
  OBVIOUS
<1>5. /\ us \in Seq(Transfer) /\ KeptPosted(transfers, us) /\ n \in Rows(us)
      /\ us[n].from = from /\ us[n].to = to /\ us[n].day = day
  BY <1>1, <1>3, InsertedKeepsPosted DEF Inserted
<1> QED
  BY <1>2, <1>4, <1>5, PaymentJoins

LEMMA FaucetJoins ==
  ASSUME IInv, Posted(transfers, ledger), Joined(transfers, ledger, day),
         NEW to \in AccountIds, NEW amount \in Amounts, NEW key \in Keys \cup {NoKey},
         FaucetDeposit(to, amount, key)
  PROVE  Joined(transfers', ledger', day)
<1> DEFINE credited == credit(accounts[to], amount)
           creditRow(n) == ledgerRow(n, "credit", amount, credited)
<1>1. /\ amount \in Nat /\ transfers \in Seq(Transfer) /\ accounts[to] \in Account
      /\ day \in Nat /\ ledger \in [AccountIds -> Seq(Row)]
  BY PaymentsAssumption DEF IInv, TypeOK, Books
<1>2. credited \in Account /\ isSum(credited.balance, balanceOf(accounts, to), amount)
  BY <1>1, CreditIsTyped, CreditMoves DEF balanceOf
<1>3. PICK row \in Transfer, n \in Nat :
        /\ Inserted(transfers, transfers', n, row)
        /\ row.from = NoAccount /\ row.to = to /\ row.day = day
  <2> PICK from \in AccountIds \cup {NoAccount} : from = NoAccount
    OBVIOUS
  <2> PICK kind \in {"transfer", "faucet", "reversal"} : kind = "faucet"
    OBVIOUS
  <2> PICK rail \in InstantRails \cup BatchRails \cup {"internal"} : rail = "internal"
    OBVIOUS
  <2> PICK category \in {"p2p", "self", "bill", "card", "faucet"} : category = "faucet"
    OBVIOUS
  <2>1. insertTransfer(from, to, amount, key, kind, "posted", rail, category)
    BY DEF FaucetDeposit
  <2>2. \E row \in Transfer, n \in Nat :
          /\ Inserted(transfers, transfers', n, row)
          /\ row.from = from /\ row.to = to /\ row.day = day
    BY <2>1, InsertedRow DEF IInv
  <2> QED
    BY <2>2
<1>4. ledger' = insertRow(ledger, to, creditRow(n))
  BY <1>3 DEF Inserted, FaucetDeposit
<1>5. /\ creditRow(n) \in Row /\ creditRow(n).transfer = n
      /\ creditRow(n).kind = "credit" /\ creditRow(n).amount = amount
      /\ creditRow(n).running = credited.balance
  BY <1>2 DEF ledgerRow, Row, Account
<1> HIDE DEF credited, creditRow
<1> PICK r : r = creditRow(n)
  OBVIOUS
<1> PICK us : us = transfers'
  OBVIOUS
<1>6. Wrote(ledger, ledger', to, r)
  BY <1>1, <1>4, <1>5 DEF Wrote
<1>7. /\ us \in Seq(Transfer) /\ KeptPosted(transfers, us)
      /\ us[n].from = NoAccount /\ us[n].to = to /\ us[n].day = day
  BY <1>1, <1>3, InsertedKeepsPosted DEF Inserted
<1>8. Joined(us, ledger, day)
  BY <1>1, <1>7, JoinedOnTheDay
<1>9. ~overwrites(us, r) /\ dayOf(us, r) = day
  BY <1>5, <1>7, PaymentsAssumption DEF overwrites, dayOf
<1>10. Follows(us, r, balanceOf(accounts, to))
  <2>1. credited.balance = balanceOf(accounts, to) + amount + 0
    <3>1. \A i, j, k \in Nat : i = j + k => i = j + k + 0
      OBVIOUS
    <3>2. credited.balance \in Nat /\ balanceOf(accounts, to) \in Nat
      BY <1>1, <1>2 DEF Account, balanceOf
    <3> QED
      BY <1>1, <1>2, <3>1, <3>2 DEF isSum
  <2> QED
    BY <1>5, <1>9, <2>1 DEF Follows
<1> QED
  BY <1>1, <1>6, <1>8, <1>9, <1>10, BalanceIsPrior, RowJoins

LEMMA SettledJoins ==
  ASSUME IInv, Posted(transfers, ledger), Joined(transfers, ledger, day),
         KeptPosted(transfers, transfers'),
         NEW t \in TransferIds, SettlePending(t)
  PROVE  Joined(transfers', ledger', day)
<1> PICK from : from = transfers[t].from
  OBVIOUS
<1> PICK to : to = transfers[t].to
  OBVIOUS
<1> PICK amount : amount = transfers[t].amount
  OBVIOUS
<1> DEFINE released == releaseHold(accounts[from], amount)
           debited == debit(released, amount)
           credited == credit(accounts[to], amount)
<1>1. /\ from \in AccountIds /\ to \in AccountIds
      /\ amount \in Amounts /\ amount \in Nat /\ t \in Rows(transfers)
      /\ transfers \in Seq(Transfer)
  <2>1. transfers \in Seq(Transfer) /\ transfers[t] \in Transfer /\ t \in Rows(transfers)
    BY DEF IInv, TypeOK, TransferIds, Rows
  <2>2. to \in AccountIds /\ amount \in Amounts /\ amount \in Nat
    BY <2>1, PaymentsAssumption DEF Transfer
  <2>3. from \in AccountIds
    BY DEF IInv, PendingHasSource, SettlePending, canSettle
  <2> QED
    BY <2>1, <2>2, <2>3
<1>2. accounts[from] \in Account /\ accounts[to] \in Account
  BY <1>1 DEF IInv, Books
<1>3. /\ canReleaseHold(accounts[from], amount)
      /\ canDebit(released, AccountType[from], amount)
      /\ isPending(t)
  BY DEF SettlePending, canSettle
<1>4. markPosted(t) /\ insertRows(t, from, to, amount, debited, credited)
  BY DEF SettlePending
<1>5. released \in Account /\ released.balance = accounts[from].balance
  BY <1>1, <1>2, <1>3, ReleaseIsTyped, ReleaseMoves
<1> HIDE DEF released
<1>6. /\ debited \in Account /\ credited \in Account
      /\ isSum(balanceOf(accounts, from), debited.balance, amount)
      /\ isSum(credited.balance, balanceOf(accounts, to), amount)
  BY <1>1, <1>2, <1>3, <1>5, DebitIsTyped, CreditIsTyped, DebitMoves, CreditMoves
     DEF balanceOf
<1> HIDE DEF debited, credited
<1>7. Settled(transfers, transfers', t, from, to, amount)
  <2>1. Settled(transfers, transfers', t, transfers[t].from, transfers[t].to,
                amountOf(transfers[t]))
    BY <1>3, <1>4, SettledRow DEF IInv
  <2> QED
    BY <2>1 DEF amountOf
<1>8. transfers'[t].day = day
  <2>1. transfers[t] \in Transfer
    BY <1>1, RowsAre
  <2>2. [transfers[t] EXCEPT !.status = "posted", !.day = day].day = day
    BY <2>1 DEF Transfer
  <2>3. transfers' =
          [transfers EXCEPT ![t] = [transfers[t] EXCEPT !.status = "posted", !.day = day]]
    BY <1>1, <1>4 DEF markPosted, Rows
  <2>4. t \in DOMAIN transfers
    BY <1>1 DEF Rows
  <2> QED
    BY <2>2, <2>3, <2>4
<1> PICK us : us = transfers'
  OBVIOUS
<1>9. /\ us \in Seq(Transfer) /\ KeptPosted(transfers, us) /\ t \in Rows(us)
      /\ us[t].from = from /\ us[t].to = to /\ us[t].day = day
  BY <1>1, <1>7, <1>8 DEF Settled, Rewritten, Rows
<1> QED
  BY <1>1, <1>4, <1>6, <1>9, PaymentJoins

LEMMA NextKeptPosted ==
  ASSUME IInv, [Next]_vars
  PROVE  KeptPosted(transfers, transfers')
<1>1. TypeOK /\ TypeOK'
  BY NextKeepsInv DEF IInv
<1> SUFFICES ASSUME NEW t \in Rows(transfers), transfers[t].status = "posted"
             PROVE  /\ transfers'[t].day = transfers[t].day
                    /\ transfers'[t].from = transfers[t].from
                    /\ transfers'[t].to = transfers[t].to
  BY DEF KeptPosted
<1>2. transfers'[t] = [transfers[t] EXCEPT !.utr = transfers'[t].utr]
  BY <1>1, NextOnlySettles DEF Rows, TransferIds, isPending
<1>3. transfers[t] \in Transfer
  BY <1>1, RowsAre DEF TypeOK
<1> QED
  BY <1>2, <1>3 DEF Transfer

LEMMA NextKeepsJoined ==
  ASSUME IInv, Posted(transfers, ledger), Joined(transfers, ledger, day), [Next]_vars
  PROVE  Joined(transfers', ledger', day')
<1>0. KeptPosted(transfers, transfers')
  BY NextKeptPosted
<1>1. /\ day \in Nat /\ transfers \in Seq(Transfer) /\ ledger \in [AccountIds -> Seq(Row)]
  BY PaymentsAssumption DEF IInv, TypeOK
<1>2. ASSUME ledger' = ledger, day' = day \/ day' = day + 1
      PROVE  Joined(transfers', ledger', day')
  <2> PICK then \in Nat : then = day' /\ day <= then
    BY <1>1, <1>2
  <2> PICK us : us = transfers'
    OBVIOUS
  <2>1. Joined(us, ledger, then)
    BY <1>0, <1>1, JoinedKept
  <2> QED
    BY <1>2, <2>1
<1>3. CASE Request
  <2>1. PICK a \in AccountIds, b \in AccountIds, amount \in Amounts,
             key \in Keys \cup {NoKey} :
          \/ \E rail \in InstantRails \cup {"internal"} :
               executeTransfer(a, b, amount, key, rail)
          \/ \E rail \in InstantRails : RetryTransfer(a, amount, key, rail)
          \/ \E rail \in BatchRails :
               CreatePendingRailTransfer(a, b, amount, key, rail)
          \/ PayBill(a, b, amount, key)
    BY <1>3 DEF Request, ExecuteTransfer, RunInstruction
  <2>2. ASSUME NEW rail \in InstantRails \cup {"internal"},
               executeTransfer(a, b, amount, key, rail)
        PROVE  Joined(transfers', ledger', day')
    <3>1. categoryOf(a, b) \in {"p2p", "self", "bill", "card", "faucet"} /\ day' = day
      BY <2>2 DEF categoryOf, executeTransfer
    <3> QED
      BY <2>2, <3>1, PostJoins DEF executeTransfer
  <2>3. CASE PayBill(a, b, amount, key)
    BY <2>3, PostJoins DEF PayBill
  <2>4. ASSUME \/ \E rail \in InstantRails : RetryTransfer(a, amount, key, rail)
               \/ \E rail \in BatchRails : CreatePendingRailTransfer(a, b, amount, key, rail)
        PROVE  Joined(transfers', ledger', day')
    BY <1>2, <2>4 DEF RetryTransfer, CreatePendingRailTransfer
  <2> QED
    BY <2>1, <2>2, <2>3, <2>4
<1>4. CASE Administer
  <2>1. ASSUME NEW a \in AccountIds, NEW amount \in Amounts, NEW key \in Keys \cup {NoKey},
               FaucetDeposit(a, amount, key)
        PROVE  Joined(transfers', ledger', day')
    BY <2>1, FaucetJoins DEF FaucetDeposit
  <2> QED
    BY <1>2, <1>4, <2>1 DEF Administer, FreezeAccount, UnfreezeAccount, CloseAccount
<1>5. CASE SettleStep
  <2>1. ASSUME NEW t \in TransferIds, SettlePending(t)
        PROVE  Joined(transfers', ledger', day')
    BY <1>0, <2>1, SettledJoins DEF SettlePending
  <2> QED
    BY <1>2, <1>5, <2>1 DEF SettleStep, SettleFails
<1>6. CASE StampUtr \/ SettleTick \/ Crash \/ NextDay \/ UNCHANGED vars
  BY <1>2, <1>6 DEF StampUtr, SettleTick, Crash, NextDay, vars
<1> QED
  BY <1>3, <1>4, <1>5, <1>6 DEF Next
-----------------------------------------------------------------------------
(* The rows of a period, added up. *)
amounts(q) == [i \in DOMAIN q |-> q[i].amount]

ofKind(q, kind) == { i \in DOMAIN q : q[i].kind = kind }

doubled(ts, q) == { i \in DOMAIN q : overwrites(ts, q[i]) }

sumIn(q, P, m, n) == SumFunctionOnSet(amounts(q), stretch(P, m, n))

Adds(ts, q, opening, m, n) ==
  priorTo(q, opening, n + 1) =
    priorTo(q, opening, m) + sumIn(q, ofKind(q, "credit"), m, n)
      - sumIn(q, ofKind(q, "debit"), m, n) + sumIn(q, doubled(ts, q), m, n)

LEMMA OneRowMore ==
  ASSUME NEW ts, NEW q \in Seq(Row), NEW opening \in Nat, RunsOn(ts, q, opening),
         NEW m \in 1..Len(q), NEW n \in Nat, m <= n + 1, n + 1 <= Len(q),
         Adds(ts, q, opening, m, n)
  PROVE  Adds(ts, q, opening, m, n + 1)
<1> PICK k \in Nat : k = n + 1
  OBVIOUS
<1>0. m \in Nat /\ m <= k
  OBVIOUS
<1>1. k \in 1..Len(q) /\ k \in DOMAIN q /\ DOMAIN q = 1..Len(q) /\ k + 1 # 1 /\ (k + 1) - 1 = k
  OBVIOUS
<1>2. \A i \in 1..Len(q) : q[i] \in Row
  OBVIOUS
<1>3. /\ \A i \in m..k : amounts(q)[i] \in Nat
      /\ amounts(q)[k] = q[k].amount
  <2>1. \A i \in 1..Len(q) : amounts(q)[i] = q[i].amount
    BY <1>1 DEF amounts
  <2>2. \A i \in 1..Len(q) : q[i].amount \in Nat
    BY <1>2, PaymentsAssumption DEF Row
  <2>3. m..k \subseteq 1..Len(q)
    BY <1>1
  <2> QED
    BY <1>1, <2>1, <2>2, <2>3
<1>4. q[k].kind \in {"debit", "credit"} /\ q[k].running \in Nat /\ q[k].amount \in Nat
  BY <1>1, <1>2, PaymentsAssumption DEF Row
<1>5. \A i \in 1..(Len(q) + 1) : priorTo(q, opening, i) \in Nat
  <2> TAKE i \in 1..(Len(q) + 1)
  <2>1. CASE i = 1
    BY <2>1 DEF priorTo
  <2>2. CASE i # 1
    <3>1. i - 1 \in 1..Len(q)
      BY <2>2
    <3>2. q[i - 1].running \in Nat
      BY <1>2, <3>1 DEF Row
    <3> QED
      BY <2>2, <3>2 DEF priorTo
  <2> QED
    BY <2>1, <2>2
<1>6. priorTo(q, opening, k) \in Nat /\ priorTo(q, opening, m) \in Nat
  BY <1>1, <1>5
<1>7. Follows(ts, q[k], priorTo(q, opening, k))
  BY <1>1 DEF RunsOn
<1>8. priorTo(q, opening, k + 1) = q[k].running
  BY <1>1 DEF priorTo
<1>9. /\ k \in ofKind(q, "credit") <=> q[k].kind = "credit"
      /\ k \in ofKind(q, "debit") <=> q[k].kind = "debit"
      /\ k \in doubled(ts, q) <=> overwrites(ts, q[k])
  BY <1>1 DEF ofKind, doubled
<1>10. ASSUME NEW P
       PROVE  /\ sumIn(q, P, m, n) \in Nat
              /\ k \in P => sumIn(q, P, m, k) = q[k].amount + sumIn(q, P, m, n)
              /\ k \notin P => sumIn(q, P, m, k) = sumIn(q, P, m, n)
  <2> PICK f : f = amounts(q)
    OBVIOUS
  <2>1. AreNat(f, m, k)
    BY <1>3 DEF AreNat
  <2>2. /\ SumFunctionOnSet(f, stretch(P, m, n)) \in Nat
        /\ k \in P => SumFunctionOnSet(f, stretch(P, m, k))
                        = f[k] + SumFunctionOnSet(f, stretch(P, m, n))
        /\ k \notin P => SumFunctionOnSet(f, stretch(P, m, k))
                           = SumFunctionOnSet(f, stretch(P, m, n))
    BY <2>1, <1>0, SumGrows
  <2> QED
    BY <1>3, <2>2 DEF sumIn
<1> DEFINE x == q[k].amount
           r == q[k].running
           p == priorTo(q, opening, k)
           o == priorTo(q, opening, m)
           c == sumIn(q, ofKind(q, "credit"), m, n)
           d == sumIn(q, ofKind(q, "debit"), m, n)
           s == sumIn(q, doubled(ts, q), m, n)
           newC == sumIn(q, ofKind(q, "credit"), m, k)
           newD == sumIn(q, ofKind(q, "debit"), m, k)
           newS == sumIn(q, doubled(ts, q), m, k)
<1>11. /\ x \in Nat /\ r \in Nat /\ p \in Nat /\ o \in Nat /\ c \in Nat /\ d \in Nat
       /\ s \in Nat
  BY <1>4, <1>6, <1>10
<1>12. p = o + c - d + s
  BY DEF Adds
<1>13. SUFFICES r = o + newC - newD + newS
  BY <1>8 DEF Adds
<1>14. CASE q[k].kind = "debit"
  <2>1. r = p - x
    <3>1. r = p + (-x) + 0
      BY <1>7, <1>14 DEF Follows, overwrites
    <3> HIDE DEF r, p, x
    <3> QED
      BY <1>11, <3>1
  <2>2. newC = c /\ newD = x + d /\ newS = s
    BY <1>9, <1>10, <1>14 DEF overwrites
  <2> HIDE DEF r, p, x, o, c, d, s, newC, newD, newS
  <2> QED
    BY <1>11, <1>12, <2>1, <2>2
<1>15. CASE q[k].kind = "credit" /\ ~overwrites(ts, q[k])
  <2>1. r = p + x
    <3>1. r = p + x + 0
      BY <1>7, <1>15 DEF Follows
    <3> HIDE DEF r, p, x
    <3> QED
      BY <1>11, <3>1
  <2>2. newC = x + c /\ newD = d /\ newS = s
    BY <1>9, <1>10, <1>15
  <2> HIDE DEF r, p, x, o, c, d, s, newC, newD, newS
  <2> QED
    BY <1>11, <1>12, <2>1, <2>2
<1>16. CASE overwrites(ts, q[k])
  <2>1. r = p + x + x
    BY <1>7, <1>16 DEF Follows, overwrites
  <2>2. newC = x + c /\ newD = d /\ newS = x + s
    BY <1>9, <1>10, <1>16 DEF overwrites
  <2> HIDE DEF r, p, x, o, c, d, s, newC, newD, newS
  <2> QED
    BY <1>11, <1>12, <2>1, <2>2
<1> QED
  BY <1>4, <1>14, <1>15, <1>16

LEMMA PeriodAdds ==
  ASSUME NEW ts, NEW q \in Seq(Row), NEW opening \in Nat, RunsOn(ts, q, opening),
         NEW m \in 1..Len(q), NEW n \in m..Len(q)
  PROVE  Adds(ts, q, opening, m, n)
<1> DEFINE Good == { d \in Nat : Adds(ts, q, opening, m, m + d - 1) }
<1> PICK N \in Nat : N = n - m + 1
  OBVIOUS
<1>1. 0 \in Good
  <2> PICK first \in Nat : first = m - 1 /\ first + 1 = m /\ m + 0 - 1 = first
    OBVIOUS
  <2>1. m..first = {}
    OBVIOUS
  <2>2. \A P : sumIn(q, P, m, first) = 0
    BY <2>1, SumEmpty DEF sumIn, stretch
  <2>3. priorTo(q, opening, m) \in Int
    <3>1. m # 1 => m - 1 \in 1..Len(q)
      OBVIOUS
    <3>2. m # 1 => q[m - 1] \in Row
      BY <3>1
    <3> QED
      BY <3>2 DEF priorTo, Row
  <2>4. Adds(ts, q, opening, m, first)
    <3>1. \A p \in Int : p = p + 0 - 0 + 0
      OBVIOUS
    <3> QED
      BY <2>2, <2>3, <3>1 DEF Adds
  <2> QED
    BY <2>4
<1>2. ASSUME NEW d \in 0..(N - 1), d \in Good
      PROVE  d + 1 \in Good
  <2> PICK k \in Nat : k = m + d - 1 /\ m + (d + 1) - 1 = k + 1
    OBVIOUS
  <2>1. m <= k + 1 /\ k + 1 <= Len(q) /\ Adds(ts, q, opening, m, k)
    BY <1>2
  <2>2. Adds(ts, q, opening, m, k + 1)
    BY <2>1, OneRowMore
  <2> QED
    BY <2>2
<1> HIDE DEF Good
<1>3. N \in Good
  BY <1>1, <1>2, UpToInduction
<1>4. m + N - 1 = n
  OBVIOUS
<1> QED
  BY <1>3, <1>4 DEF Good
-----------------------------------------------------------------------------
(* The lines of a period follow one another in the ledger. *)
window(ts, q, from, to) == { i \in DOMAIN q : dayOf(ts, q[i]) \in from..(to - 1) }

DaysAreNat(ts, q) == \A i \in 1..Len(q) : dayOf(ts, q[i]) \in Nat

StartsAt(ts, q, m, from) == \A i \in 1..Len(q) : i < m <=> dayOf(ts, q[i]) < from

LEMMA WindowIs ==
  ASSUME NEW ts, NEW q \in Seq(Row), NEW today \in Nat, InDayOrder(ts, q, today),
         DaysAreNat(ts, q),
         NEW from \in Nat, NEW to \in Nat, NEW W, W = window(ts, q, from, to), W # {},
         NEW m, m = Min(W), NEW k, k = Max(W)
  PROVE  /\ m \in 1..Len(q) /\ k \in m..Len(q)
         /\ W = m..k
         /\ StartsAt(ts, q, m, from)
         /\ to > today => k = Len(q)
<1> PICK N \in Nat : N = Len(q)
  OBVIOUS
<1>1. W \in SUBSET (1..N) /\ DOMAIN q = 1..N
  BY DEF window
<1>2. /\ m \in W /\ k \in W /\ m \in 1..N /\ k \in 1..N /\ m <= k
      /\ \A i \in W : m <= i /\ i <= k
  <2>1. m \in W /\ \A i \in W : m <= i
    BY <1>1, LeastIs
  <2>2. k \in W /\ \A i \in W : i <= k
    BY <1>1, GreatestIs
  <2> QED
    BY <1>1, <2>1, <2>2
<1>3. ASSUME NEW i \in 1..N, NEW j \in 1..N, i <= j
      PROVE  /\ dayOf(ts, q[i]) <= dayOf(ts, q[j]) /\ dayOf(ts, q[j]) <= today
             /\ dayOf(ts, q[i]) \in Nat /\ dayOf(ts, q[j]) \in Nat
  <2>1. j \in i..Len(q)
    BY <1>3
  <2> QED
    BY <2>1 DEF InDayOrder, DaysAreNat
<1>4. \A i \in 1..N : i \in W <=> from <= dayOf(ts, q[i]) /\ dayOf(ts, q[i]) < to
  BY <1>1 DEF window, DaysAreNat
<1>5. ASSUME NEW i \in 1..N
      PROVE  /\ m <= i => from <= dayOf(ts, q[i])
             /\ i <= k => dayOf(ts, q[i]) < to
             /\ i < m => dayOf(ts, q[i]) < from
  <2>1. ASSUME m <= i
        PROVE  from <= dayOf(ts, q[i])
    BY <1>2, <1>3, <1>4, <2>1
  <2>2. ASSUME i <= k
        PROVE  dayOf(ts, q[i]) < to
    BY <1>2, <1>3, <1>4, <2>2
  <2>3. ASSUME i < m
        PROVE  dayOf(ts, q[i]) < from
    <3>1. i \notin W /\ i <= k
      BY <1>2, <2>3
    <3>2. dayOf(ts, q[i]) \in Nat
      BY DEF DaysAreNat
    <3> QED
      BY <1>4, <2>2, <3>1, <3>2
  <2> QED
    BY <2>1, <2>2, <2>3
<1>6. W = m..k
  <2>1. \A i \in m..k : i \in 1..N /\ m <= i /\ i <= k
    BY <1>2
  <2>2. \A i \in m..k : i \in W
    BY <1>4, <1>5, <2>1
  <2>3. \A i \in W : i \in m..k
    BY <1>1, <1>2
  <2> QED
    BY <2>2, <2>3
<1>7. ASSUME to > today
      PROVE  k = N
  <2>1. N \in 1..N /\ m <= N /\ k <= N
    BY <1>2
  <2>2. from <= dayOf(ts, q[N]) /\ dayOf(ts, q[N]) <= today /\ dayOf(ts, q[N]) \in Nat
    BY <1>3, <1>5, <2>1
  <2>3. N \in W
    BY <1>4, <1>7, <2>1, <2>2
  <2> QED
    BY <1>2, <2>1, <2>3
<1>8. ASSUME NEW i \in 1..N
      PROVE  i < m <=> dayOf(ts, q[i]) < from
  <2>1. dayOf(ts, q[i]) \in Nat
    BY DEF DaysAreNat
  <2>2. i < m \/ m <= i
    BY <1>2
  <2>3. ASSUME m <= i
        PROVE  ~ i < m /\ ~ dayOf(ts, q[i]) < from
    BY <1>2, <1>5, <2>1, <2>3
  <2> QED
    BY <1>5, <2>2, <2>3
<1>9. k \in m..N
  BY <1>2
<1> QED
  BY <1>2, <1>6, <1>7, <1>8, <1>9 DEF StartsAt

(* The first of them is no second row of a transfer to the same account.   *)
LEMMA OpensBefore ==
  ASSUME NEW ts, NEW q \in Seq(Row), NEW opening \in Nat, RunsOn(ts, q, opening),
         NEW m \in 1..Len(q), NEW from \in Nat, StartsAt(ts, q, m, from)
  PROVE  /\ q[m].kind = "credit" => priorTo(q, opening, m) = q[m].running - q[m].amount
         /\ q[m].kind # "credit" => priorTo(q, opening, m) = q[m].running + q[m].amount
<1>1. ~overwrites(ts, q[m])
  <2> SUFFICES ASSUME m # 1, q[m - 1].transfer = q[m].transfer
               PROVE  FALSE
    BY DEF RunsOn
  <2>1. m - 1 \in 1..Len(q) /\ m - 1 < m
    OBVIOUS
  <2>2. dayOf(ts, q[m - 1]) = dayOf(ts, q[m])
    BY DEF dayOf
  <2>3. dayOf(ts, q[m - 1]) < from /\ ~ dayOf(ts, q[m]) < from
    BY <2>1 DEF StartsAt
  <2> QED
    BY <2>2, <2>3
<1>2. Follows(ts, q[m], priorTo(q, opening, m))
  BY DEF RunsOn
<1>3. priorTo(q, opening, m) \in Nat
  <2>1. m # 1 => m - 1 \in 1..Len(q)
    OBVIOUS
  <2>2. m # 1 => q[m - 1] \in Row
    BY <2>1
  <2> QED
    BY <2>2 DEF priorTo, Row
<1>4. q[m].amount \in Nat /\ q[m].running \in Nat
  <2>1. q[m] \in Row
    OBVIOUS
  <2> QED
    BY <2>1, PaymentsAssumption DEF Row
<1> PICK p \in Nat : p = priorTo(q, opening, m)
  BY <1>3
<1> PICK x \in Nat : x = q[m].amount
  BY <1>4
<1> PICK r \in Nat : r = q[m].running
  BY <1>4
<1>5. CASE q[m].kind = "credit"
  <2>1. r = p + x + 0
    BY <1>1, <1>2, <1>5 DEF Follows
  <2> QED
    BY <1>5, <2>1
<1>6. CASE q[m].kind # "credit"
  <2>1. r = p + (-x) + 0
    BY <1>1, <1>2, <1>6 DEF Follows
  <2>2. p = r + x
    <3>1. \A i, j, k \in Nat : k = i + (-j) + 0 => i = k + j
      OBVIOUS
    <3> QED
      BY <2>1, <3>1
  <2> QED
    BY <1>6, <2>2
<1> QED
  BY <1>5, <1>6

(* The last row before them. *)
rowsBefore(ts, q, from) == { i \in DOMAIN q : dayOf(ts, q[i]) < from }

endBefore(ts, q, opening, from) ==
  IF rowsBefore(ts, q, from) = {} THEN opening
  ELSE q[Max(rowsBefore(ts, q, from))].running

LEMMA LastBefore ==
  ASSUME NEW ts, NEW q \in Seq(Row), NEW opening, NEW m \in 1..Len(q), NEW from \in Nat,
         StartsAt(ts, q, m, from)
  PROVE  priorTo(q, opening, m) = endBefore(ts, q, opening, from)
<1> PICK R : R = rowsBefore(ts, q, from)
  OBVIOUS
<1>1. R = 1..(m - 1)
  BY DEF StartsAt, rowsBefore
<1>2. CASE m = 1
  BY <1>1, <1>2 DEF priorTo, endBefore
<1>3. CASE m # 1
  <2>1. m - 1 \in R /\ R # {} /\ R \in SUBSET (1..Len(q)) /\ Len(q) \in Nat
    BY <1>1, <1>3
  <2>2. Max(R) \in R /\ m - 1 <= Max(R)
    BY <2>1, GreatestIs
  <2>3. Max(R) = m - 1
    BY <1>1, <2>2
  <2> QED
    BY <1>3, <2>1, <2>3 DEF priorTo, endBefore
<1> QED
  BY <1>2, <1>3

(* What the doubled lines add is what transfers to the same account moved. *)
doubledIn(ts, q, from, to) == { i \in doubled(ts, q) : i \in window(ts, q, from, to) }

selfIn(ts, a, from, to) ==
  { t \in toSelf(ts) : ts[t].to = a /\ ts[t].day \in from..(to - 1) }

LEMMA DoubledIs ==
  ASSUME NEW ts \in Seq(Transfer), NEW led \in [AccountIds -> Seq(Row)], Posted(ts, led),
         NEW a \in AccountIds, NEW from \in Nat, NEW to \in Nat
  PROVE  SumFunctionOnSet(amounts(led[a]), doubledIn(ts, led[a], from, to))
           = total(ts, selfIn(ts, a, from, to))
<1> PICK q : q = led[a]
  OBVIOUS
<1> PICK S : S = doubledIn(ts, q, from, to)
  OBVIOUS
<1> PICK T : T = selfIn(ts, a, from, to)
  OBVIOUS
<1> PICK f : f = amounts(q)
  OBVIOUS
<1> PICK g : g = [t \in Rows(ts) |-> ts[t].amount]
  OBVIOUS
<1> PICK h : h = [i \in S |-> q[i].transfer]
  OBVIOUS
<1>0. q \in Seq(Row) /\ DOMAIN q = 1..Len(q) /\ Len(q) \in Nat
  OBVIOUS
<1>1. ASSUME NEW i \in S
      PROVE  /\ i \in 1..Len(q) /\ h[i] = q[i].transfer /\ h[i] \in Rows(ts)
             /\ f[i] = ts[h[i]].amount /\ f[i] \in Nat
             /\ h[i] \in T /\ i \in entries(led, h[i], a, "credit")
  <2>1. i \in 1..Len(led[a]) /\ i \in DOMAIN q /\ h[i] = q[i].transfer
    BY <1>0 DEF doubledIn, doubled
  <2>2. /\ h[i] \in Rows(ts) /\ q[i].amount = ts[h[i]].amount
        /\ ts[h[i]].status = "posted"
        /\ q[i].kind = "credit" => ts[h[i]].to = a
    BY <2>1, RowIsDue
  <2>3. q[i].kind = "credit" /\ ts[h[i]].from = ts[h[i]].to
    BY <2>1 DEF doubledIn, doubled, overwrites
  <2>4. ts[h[i]].day \in from..(to - 1)
    BY <2>1 DEF doubledIn, window, dayOf
  <2>5. h[i] \in T
    BY <2>2, <2>3, <2>4 DEF selfIn, toSelf
  <2>6. i \in entries(led, h[i], a, "credit")
    BY <2>1, <2>3 DEF entries
  <2>7. f[i] = q[i].amount
    BY <2>1 DEF amounts
  <2>8. f[i] \in Nat
    BY <2>2, <2>7, RowsAre
  <2> QED
    BY <2>1, <2>2, <2>5, <2>6, <2>7, <2>8
<1>2. ASSUME NEW t \in T
      PROVE  \E i \in S : h[i] = t
  <2>1. t \in Rows(ts) /\ isEntryDue(ts[t], "credit", a)
    BY DEF selfIn, toSelf, isEntryDue
  <2>2. PICK i : entries(led, t, a, "credit") = {i}
    BY <2>1, EntriesAreDue DEF Posted, isSingleton
  <2>3. i \in 1..Len(q) /\ q[i].transfer = t /\ q[i].kind = "credit"
    BY <2>2 DEF entries
  <2>4. i \in doubled(ts, q)
    BY <1>0, <2>3 DEF doubled, overwrites, selfIn, toSelf
  <2>5. i \in window(ts, q, from, to)
    BY <1>0, <2>3 DEF window, dayOf, selfIn
  <2> QED
    BY <2>3, <2>4, <2>5 DEF doubledIn
<1>3. ASSUME NEW i \in S, NEW j \in S, h[i] = h[j]
      PROVE  i = j
  <2>1. isEntryDue(ts[h[i]], "credit", a)
    BY <1>1 DEF selfIn, toSelf, isEntryDue
  <2>2. isSingleton(entries(led, h[i], a, "credit"))
    BY <1>1, <2>1, EntriesAreDue DEF Posted
  <2> QED
    BY <1>1, <1>3, <2>2 DEF isSingleton
<1>4. IsFiniteSet(S)
  <2>1. S \subseteq 1..Len(q)
    BY <1>1
  <2>2. IsFiniteSet(1..Len(q))
    BY <1>0, FS_Interval
  <2> QED
    BY <2>1, <2>2, FS_Subset
<1>5. Renames(f, g, h, S, T)
  <2>1. \A i \in S : h[i] \in T /\ f[i] \in Nat /\ g[h[i]] = f[i]
    BY <1>1
  <2> QED
    BY <1>2, <1>3, <2>1 DEF Renames
<1>6. SumFunctionOnSet(f, S) = SumFunctionOnSet(g, T)
  BY <1>4, <1>5, SumOfImage
<1> QED
  BY <1>6 DEF total

LEMMA JoinedAddsUp ==
  ASSUME IInv, Posted(transfers, ledger), Joined(transfers, ledger, day)
  PROVE  StatementsAddUp
<1> SUFFICES ASSUME NEW a \in AccountIds, NEW from \in 0..MaxDay,
                    NEW to \in (from + 1)..(MaxDay + 1)
             PROVE  addsUp(a, from, to)
  BY DEF StatementsAddUp
<1>1. /\ transfers \in Seq(Transfer) /\ ledger \in [AccountIds -> Seq(Row)]
      /\ day \in Nat /\ from \in Nat /\ to \in Nat /\ OpeningBalance[a] \in Nat
  BY PaymentsAssumption DEF IInv, TypeOK
<1> PICK ts \in Seq(Transfer) : ts = transfers
  BY <1>1
<1> PICK led \in [AccountIds -> Seq(Row)] : led = ledger
  BY <1>1
<1> PICK q \in Seq(Row) : q = led[a]
  OBVIOUS
<1>0. Posted(ts, led)
  OBVIOUS
<1> PICK W : W = linesOf(a, from, to)
  OBVIOUS
<1> SUFFICES ASSUME W # {}
             PROVE  addsUp(a, from, to)
  BY DEF addsUp, queryStatement
<1>2. W = window(ts, q, from, to)
  BY DEF linesOf, window, postedAt, dayOf
<1>3. RunsOn(ts, q, OpeningBalance[a]) /\ InDayOrder(ts, q, day)
  BY DEF Joined
<1>4. DaysAreNat(ts, q)
  <2> SUFFICES ASSUME NEW i \in 1..Len(q)
               PROVE  dayOf(ts, q[i]) \in Nat
    BY DEF DaysAreNat
  <2>1. q[i].transfer \in Rows(ts)
    BY <1>1, RowIsDue
  <2> PICK t \in Rows(ts) : t = q[i].transfer
    BY <2>1
  <2>2. ts[t] \in Transfer
    BY RowsAre
  <2>3. ts[t].day \in Nat
    BY <2>2, DayIsNat
  <2> QED
    BY <2>3 DEF dayOf
<1> PICK m : m = Min(W)
  OBVIOUS
<1> PICK k : k = Max(W)
  OBVIOUS
<1>5. /\ m \in 1..Len(q) /\ k \in m..Len(q) /\ W = m..k
      /\ StartsAt(ts, q, m, from)
      /\ to > day => k = Len(q)
  BY <1>1, <1>2, <1>3, <1>4, WindowIs
<1> PICK o \in Nat : o = OpeningBalance[a]
  BY <1>1
<1> PICK p : p = priorTo(q, o, m)
  OBVIOUS
<1>6. openingBalance(a, W) = p
  BY <1>1, <1>3, <1>5, OpensBefore DEF openingBalance
<1>7. balanceBefore(a, from) = p
  <2>1. balanceBefore(a, from) = endBefore(ts, q, o, from)
    BY DEF balanceBefore, postedAt, dayOf, endBefore, rowsBefore
  <2>2. priorTo(q, o, m) = endBefore(ts, q, o, from)
    BY <1>1, <1>5, LastBefore
  <2> QED
    BY <2>1, <2>2
<1>8. q[k].running = priorTo(q, o, k + 1) /\ k \in Nat
  <2>1. k \in Nat /\ k + 1 # 1 /\ (k + 1) - 1 = k
    BY <1>5
  <2> QED
    BY <2>1 DEF priorTo
<1>9. to > day => q[k].running = accounts[a].balance
  <2>1. priorTo(q, o, Len(q) + 1) = accounts[a].balance
    BY BalanceIsPrior DEF balanceOf
  <2> QED
    BY <1>5, <1>8, <2>1
<1>10. Adds(ts, q, o, m, k)
  BY <1>3, <1>5, PeriodAdds
<1> DEFINE c == totalOf(a, W, "credit")
           d == totalOf(a, W, "debit")
           self == { t \in postedToSelf :
                       transfers[t].to = a /\ transfers[t].day \in from..(to - 1) }
           s == sumAmounts(self)
<1>11. ASSUME NEW kind
       PROVE  totalOf(a, W, kind) = sumIn(q, ofKind(q, kind), m, k)
  <2>1. { i \in W : ledger[a][i].kind = kind } = stretch(ofKind(q, kind), m, k)
    <3>1. m..k \subseteq DOMAIN q
      BY <1>5
    <3> QED
      BY <1>5, <3>1 DEF stretch, ofKind
  <2> QED
    BY <2>1 DEF totalOf, sumIn, amounts
<1>12. s = sumIn(q, doubled(ts, q), m, k)
  <2>1. stretch(doubled(ts, q), m, k) = doubledIn(ts, q, from, to)
    BY <1>2, <1>5 DEF stretch, doubledIn
  <2>2. self = selfIn(ts, a, from, to)
    BY DEF selfIn, toSelf, postedToSelf, TransferIds, Rows
  <2> HIDE DEF self
  <2>3. SumFunctionOnSet(amounts(q), doubledIn(ts, q, from, to))
          = total(ts, selfIn(ts, a, from, to))
    <3>1. from \in Nat /\ to \in Nat
      BY <1>1
    <3>2. SumFunctionOnSet(amounts(led[a]), doubledIn(ts, led[a], from, to))
            = total(ts, selfIn(ts, a, from, to))
      BY <1>0, <3>1, DoubledIs
    <3> QED
      BY <3>2
  <2>4. sumAmounts(self) = total(ts, self)
    BY DEF sumAmounts, total, TransferIds, Rows
  <2> QED
    BY <2>1, <2>2, <2>3, <2>4 DEF sumIn
<1>13. q[k].running = p + c - d + s
  <2>1. c = sumIn(q, ofKind(q, "credit"), m, k) /\ d = sumIn(q, ofKind(q, "debit"), m, k)
    BY <1>11
  <2> HIDE DEF c, d, s
  <2> QED
    BY <1>8, <1>10, <1>12, <2>1 DEF Adds
<1> PICK st : st = queryStatement(a, from, to)
  OBVIOUS
<1>14. /\ st.lines = W /\ st.opening = p /\ st.closing = q[k].running
       /\ st.totalCredit = c /\ st.totalDebit = d
  <2>1. st.lines = W
    BY DEF queryStatement
  <2>2. st.opening = p
    BY <1>6 DEF queryStatement
  <2>3. st.closing = q[k].running
    BY DEF queryStatement
  <2>4. st.totalCredit = c /\ st.totalDebit = d
    BY DEF queryStatement
  <2> QED
    BY <2>1, <2>2, <2>3, <2>4
<1>15. st.closing = st.opening + st.totalCredit - st.totalDebit + s
  BY <1>13, <1>14
<1> QED
  BY <1>7, <1>9, <1>14, <1>15 DEF addsUp

LEMMA SpendJoins ==
  ASSUME PaymentsInv, CInv, Joined(transfers, ledger, day), NEW c \in DebitCards,
         NEW amount \in Amounts, NEW key \in Keys \cup {NoKey},
         SimulateCardSpend(c, amount, key)
  PROVE  Joined(transfers', ledger', day')
<1>1. cards[c].account \in AccountIds /\ Merchant \in AccountIds
  BY CardIs, CardConstants
<1> PICK from \in AccountIds : from = cards[c].account
  BY <1>1
<1> PICK to \in AccountIds : to = Merchant
  BY <1>1
<1>2. /\ postTransfer(from, to, amount, key, "transfer", "internal", "card")
      /\ day' = day
  BY DEF SimulateCardSpend
<1> QED
  BY <1>2, PostJoins DEF PaymentsInv

LEMMA CardsInitJoins ==
  ASSUME CardsInit
  PROVE  Joined(transfers, ledger, day)
<1>1. \A a \in AccountIds : 1..Len(ledger[a]) = {}
  BY DEF CardsInit, Init
<1> QED
  BY <1>1 DEF Joined, RunsOn, InDayOrder

LEMMA CardsNextJoins ==
  ASSUME PaymentsInv, CInv, Joined(transfers, ledger, day), [CardsNext]_cardsVars
  PROVE  Joined(transfers, ledger, day)'
<1>1. ASSUME [Next]_vars
      PROVE  Joined(transfers', ledger', day')
  BY <1>1, NextKeepsJoined DEF PaymentsInv
<1>2. ASSUME NEW c \in DebitCards,
             \/ \E limits \in AskedLimits : SetCardLimits(c, limits)
             \/ FreezeCard(c) \/ UnfreezeCard(c) \/ CancelCard(c)
      PROVE  UNCHANGED vars
  BY <1>2 DEF SetCardLimits, FreezeCard, UnfreezeCard, CancelCard, update
<1>3. Joined(transfers', ledger', day')
  BY <1>1, <1>2, SpendJoins DEF CardsNext, PaymentsStep, CardStep, IssueCard, cardsVars
<1> QED
  BY <1>3 DEF Joined, RunsOn, InDayOrder, Follows, overwrites, priorTo, dayOf
-----------------------------------------------------------------------------
(* The results. *)

(* The inductive invariant is one. *)
THEOREM CardsInvariance == CardsSpec => [](PaymentsInv /\ CInv)
BY CardsInitIsInv, CardsNextKeepsInv, PTL DEF CardsSpec

(* No card spends more in a day or in a month than the bank allows,        *)
(* whatever limits it is given between its payments.                       *)
THEOREM CardsStayWithinBankMax == CardsSpec => []CardsWithinBankMax
<1>1. CInv => CardsWithinBankMax
  <2>1. DebitCards \subseteq Nat
    BY DEF DebitCards
  <2> QED
    BY <2>1 DEF CInv, InBankMax, CardsWithinBankMax, spentWith, spent, atMost, monthStart,
                sumAmounts, total, TransferIds, Rows
<1> QED
  BY <1>1, CardsInvariance, PTL

(* With card payments too, money is conserved, every posted transfer has   *)
(* its two ledger rows, holds are accounted for, and the transfers a user  *)
(* requests on the instant rails, neither card payments nor runs of        *)
(* standing instructions, stay within the limits on transfers.             *)
THEOREM CardsKeepPayments ==
  CardsSpec => [](MoneyConserved /\ DoubleEntry /\ HoldsAccounted /\ InstantWithinLimits)
<1>1. PaymentsInv => MoneyConserved /\ DoubleEntry /\ HoldsAccounted /\ InstantWithinLimits
  BY TalliedMoney, TalliedHolds, PostedIsDouble, LimitedIsWithin DEF PaymentsInv
<1> QED
  BY <1>1, CardsInvariance, PTL

(* Each running balance follows from the one before, and the rows of an    *)
(* account are in the order of their days.                                 *)
THEOREM RowsAreJoined == CardsSpec => []Joined(transfers, ledger, day)
BY CardsInitJoins, CardsNextJoins, CardsInvariance, PTL DEF CardsSpec

(* A statement opens with the balance before its period, its totals make   *)
(* up the difference, and it closes with the balance of the account when   *)
(* its period has not ended, so that the statements of consecutive periods *)
(* join.                                                                   *)
THEOREM StatementsJoin == CardsSpec => []StatementsAddUp
<1>1. PaymentsInv /\ Joined(transfers, ledger, day) => StatementsAddUp
  BY JoinedAddsUp DEF PaymentsInv
<1> QED
  BY <1>1, CardsInvariance, RowsAreJoined, PTL
=============================================================================
