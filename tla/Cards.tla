-------------------------------- MODULE Cards --------------------------------
(***************************************************************************)
(* Debit cards, on top of Payments: issued for an account, frozen,         *)
(* unfrozen, cancelled, given limits by the customer below those of the    *)
(* bank, and spent with.  A card payment is a posted transfer to the       *)
(* account of the merchant's biller.  What the limits measure is the sum   *)
(* of the card's own transfers, found by the column cardId, which is       *)
(* `cardIds` here.                                                         *)
(*                                                                         *)
(* Every operation is one transaction of one synchronous handler, so none  *)
(* runs inside the settlement loop.  A refused call is a stuttering step,  *)
(* as is a payment whose idempotency key is known: the row the key is on   *)
(* is the answer, whoever's it is.                                         *)
(***************************************************************************)
EXTENDS Payments

CONSTANTS
  Merchant,        \* account of the biller CARD_MERCHANT_BILLER_NAME
  PerTxnBankMax,   \* PER_TXN_BANK_MAX_BASE for tier "full"
  DefaultLimits,   \* DEFAULT_CARD_PER_TXN, _DAILY and _MONTHLY_LIMIT_MINOR
  AskedLimits,     \* limits customers ask for
  MaxCards         \* bound: rows of the debit_cards table

Limits == [perTxn : Nat \ {0}, daily : Nat \ {0}, monthly : Nat \ {0}]

ASSUME CardsAssumption ==
  /\ Merchant \in BillerAccounts
  /\ PerTxnBankMax \in Nat \ {0}
  /\ DefaultLimits \in Limits
  /\ AskedLimits \subseteq Limits
  /\ DailyLimit \in Nat \ {0}
  /\ MonthlyLimit \in Nat \ {0}
  /\ MaxCards \in Nat

VARIABLES
  cards,    \* the debit_cards table, in insertion order
  cardIds   \* the column cardId: pairs of a transfer and the card it used

cardVars == <<cards, cardIds>>

cardsVars == <<vars, cardVars>>

Card ==
  [ account : AccountIds,
    status  : {"active", "frozen", "cancelled"},
    limits  : Limits ]

DebitCards == 1..Len(cards)

CardsInit == Init /\ cards = << >> /\ cardIds = {}
-----------------------------------------------------------------------------
(* Limits *)

bankMaxForTier ==
  [perTxn |-> PerTxnBankMax, daily |-> DailyLimit, monthly |-> MonthlyLimit]

defaultLimitsForTier ==
  [field \in DOMAIN DefaultLimits |->
     Min({DefaultLimits[field], bankMaxForTier[field]})]

validateLimitsAgainstBankMax(limits) ==
  /\ \A field \in DOMAIN limits : limits[field] <= bankMaxForTier[field]
  /\ limits.perTxn <= limits.daily
  /\ limits.daily <= limits.monthly

cardUsedSince(c, first) ==
  sumAmounts({ t \in TransferIds :
                 <<t, c>> \in cardIds /\ transfers[t].day >= first })

(* Faulty variant: the sum of the month starts with the day. *)
checkCardDay(c, amount) ==
  /\ amount <= cards[c].limits.perTxn
  /\ cardUsedSince(c, day) + amount <= cards[c].limits.daily
  /\ cardUsedSince(c, day) + amount <= cards[c].limits.monthly

checkCardLimits(c, amount) ==
  /\ amount <= cards[c].limits.perTxn
  /\ cardUsedSince(c, day) + amount <= cards[c].limits.daily
  /\ cardUsedSince(c, day - (day % DaysPerMonth)) + amount <= cards[c].limits.monthly
-----------------------------------------------------------------------------
(* The customer's operations.  All are behind requireBankingAccess, of the *)
(* owner of the card's account.                                            *)

mustOwn(c) == idle /\ hasBankingAccess(AccountOwner[cards[c].account])

(* deps.repo.update *)
update(c, card) ==
  /\ cards' = [cards EXCEPT ![c] = card]
  /\ UNCHANGED <<vars, cardIds>>

(* The account may be of any type and in any state. *)
IssueCard(account) ==
  /\ idle
  /\ hasBankingAccess(AccountOwner[account])
  /\ Len(cards) < MaxCards
  /\ cards' = Append(cards, [ account |-> account, status |-> "active",
                              limits |-> defaultLimitsForTier ])
  /\ UNCHANGED <<vars, cardIds>>

SetCardLimits(c, limits) ==
  /\ mustOwn(c)
  /\ cards[c].status # "cancelled"
  /\ validateLimitsAgainstBankMax(limits)
  /\ update(c, [cards[c] EXCEPT !.limits = limits])

FreezeCard(c) ==
  /\ mustOwn(c)
  /\ cards[c].status = "active"
  /\ update(c, [cards[c] EXCEPT !.status = "frozen"])

UnfreezeCard(c) ==
  /\ mustOwn(c)
  /\ cards[c].status = "frozen"
  /\ update(c, [cards[c] EXCEPT !.status = "active"])

CancelCard(c) ==
  /\ mustOwn(c)
  /\ cards[c].status # "cancelled"
  /\ update(c, [cards[c] EXCEPT !.status = "cancelled"])

(* The status and the limits are looked at before the idempotency key.     *)
(* The limits on transfers are not: a card has its own.                    *)
SimulateCardSpend(c, amount, key) ==
  /\ mustOwn(c)
  /\ cards[c].status = "active"
  /\ checkCardLimits(c, amount)
  /\ ~keyUsed(key)
  /\ postTransfer(cards[c].account, Merchant, amount, key, "transfer", "internal", "card")
  /\ cardIds' = cardIds \cup {<<Len(transfers) + 1, c>>}
  /\ UNCHANGED <<cards, batch, stamping, day, crashes>>
-----------------------------------------------------------------------------
(* A step of Payments: an account with an active card is not closed. *)
PaymentsStep ==
  /\ Next
  /\ \A c \in DebitCards :
       cards[c].status = "active" =>
         \/ accounts'[cards[c].account].status # "Closed"
         \/ accounts[cards[c].account].status = "Closed"
  /\ UNCHANGED cardVars

CardStep ==
  \/ \E a \in AccountIds : IssueCard(a)
  \/ \E c \in DebitCards :
       \/ \E limits \in AskedLimits : SetCardLimits(c, limits)
       \/ FreezeCard(c)
       \/ UnfreezeCard(c)
       \/ CancelCard(c)
       \/ \E amount \in Amounts, key \in Keys \cup {NoKey} :
            SimulateCardSpend(c, amount, key)

CardsNext == PaymentsStep \/ CardStep

(* The ticks of Payments, which run whatever customers do with cards. *)
CardsFairness ==
  /\ WF_cardsVars(SettleTick /\ UNCHANGED cardVars)
  /\ WF_cardsVars(SettleStep /\ UNCHANGED cardVars)
  /\ WF_cardsVars(StampUtr /\ UNCHANGED cardVars)

CardsSpec == CardsInit /\ [][CardsNext]_cardsVars /\ CardsFairness
-----------------------------------------------------------------------------
(* Properties *)

CardsTypeOK ==
  /\ TypeOK
  /\ cards \in Seq(Card)
  /\ cardIds \subseteq TransferIds \X DebitCards

spentWith(c, first, last) ==
  sumAmounts({ t \in TransferIds :
                 <<t, c>> \in cardIds /\ transfers[t].day \in first..last })

(* Whatever limits its owner gives a card, raises and lowers again between *)
(* payments, freezes and cancellations, no card spends more in a day or in *)
(* a month than the bank allows (cardLimits.ts, "bank max").               *)
CardsWithinBankMax ==
  \A c \in DebitCards, d \in 0..MaxDay :
    /\ spentWith(c, d, d) <= DailyLimit
    /\ spentWith(c, d - (d % DaysPerMonth), d) <= MonthlyLimit
=============================================================================
