--------------------------- MODULE PaymentsProofs ---------------------------
(***************************************************************************)
(* What TLAPS proves of Payments for every set of accounts, transfers and  *)
(* keys, every limit and every bound.                                      *)
(***************************************************************************)
EXTENDS Payments, TLAPS, FiniteSetTheorems

(***************************************************************************)
(* Sums.  The library's induction theorems cannot be used, for they take   *)
(* an operator; that strict inclusion of finite sets is well-founded can.  *)
(***************************************************************************)

(* A property of sets, as the set of those that have it, that every subset *)
(* of S has when its proper subsets have it.                               *)
LEMMA SetInduction ==
  ASSUME NEW S, IsFiniteSet(S), NEW Good,
         \A T \in SUBSET S : (\A U \in SUBSET T : U # T => U \in Good) => T \in Good
  PROVE  \A T \in SUBSET S : T \in Good
<1> SUFFICES ASSUME NEW V \in SUBSET S, V \notin Good
             PROVE  FALSE
  OBVIOUS
<1> DEFINE Bad == (SUBSET S) \ Good
<1>1. Bad \subseteq SUBSET S /\ Bad # {}
  OBVIOUS
<1>2. IsWellFoundedOn(StrictSubsetOrdering(S), SUBSET S)
  BY FS_FiniteSubsetsOfFinite, FS_StrictSubsetOrderingWellFounded
<1>3. \E T \in Bad : \A U \in Bad : ~ (<<U, T>> \in StrictSubsetOrdering(S))
  <2> HIDE DEF Bad
  <2> QED
    BY <1>1, <1>2, WFMin
<1> PICK T \in Bad : \A U \in Bad : ~ (<<U, T>> \in StrictSubsetOrdering(S))
  BY <1>3
<1>4. ASSUME NEW U \in SUBSET T, U # T
      PROVE  U \in Good
  <2>1. <<U, T>> \in StrictSubsetOrdering(S)
    BY <1>4 DEF StrictSubsetOrdering
  <2> QED
    BY <1>4, <2>1
<1> QED
  BY <1>4

(* The same for the numbers up to one. *)
LEMMA UpToInduction ==
  ASSUME NEW N \in Nat, NEW Good,
         0 \in Good, \A n \in 0..(N - 1) : n \in Good => n + 1 \in Good
  PROVE  N \in Good
<1> SUFFICES ASSUME N \notin Good
             PROVE  FALSE
  OBVIOUS
<1> DEFINE All == 0..N
           Fine == { S \in SUBSET All : \A n \in 0..N : S = 0..n => n \in Good }
<1>1. IsFiniteSet(All)
  BY FS_Interval
<1>2. ASSUME NEW T \in SUBSET All, \A U \in SUBSET T : U # T => U \in Fine
      PROVE  T \in Fine
  <2> SUFFICES ASSUME NEW n \in 0..N, T = 0..n
               PROVE  n \in Good
    OBVIOUS
  <2>1. CASE n = 0
    BY <2>1
  <2>2. CASE n # 0
    <3>1. n - 1 \in 0..(N - 1) /\ n - 1 \in 0..N /\ (n - 1) + 1 = n
      BY <2>2
    <3>2. 0..(n - 1) \in SUBSET T /\ n \in T /\ n \notin 0..(n - 1)
      BY <2>2
    <3>3. 0..(n - 1) # T
      BY <3>2
    <3>4. 0..(n - 1) \in Fine
      BY <1>2, <3>2, <3>3
    <3>5. n - 1 \in Good
      BY <3>1, <3>4
    <3> QED
      BY <3>1, <3>5
  <2> QED
    BY <2>1, <2>2
<1> HIDE DEF All, Fine
<1>3. \A T \in SUBSET All : (\A U \in SUBSET T : U # T => U \in Fine) => T \in Fine
  BY <1>2
<1>4. \A T \in SUBSET All : T \in Fine
  BY <1>1, <1>3, SetInduction
<1>5. 0..N \in Fine
  BY <1>4 DEF All
<1> QED
  BY <1>5 DEF Fine
-----------------------------------------------------------------------------
(* What SumFunctionOnSet returns.  It is a fold: a recursive function on   *)
(* the subsets of a set, that takes out one element at a time.             *)

pick(s) == CHOOSE x \in s : TRUE

sumsTo(f, g, s) == IF s = {} THEN 0 ELSE f[pick(s)] + g[s \ {pick(s)}]

Sums(f, D, g) == g = [s \in D |-> sumsTo(f, g, s)]

sums(f, S) == CHOOSE g : Sums(f, SUBSET S, g)

LEMMA SumIs ==
  ASSUME NEW f, NEW S
  PROVE  SumFunctionOnSet(f, S) = sums(f, S)[S]
BY DEF SumFunctionOnSet, FoldFunctionOnSet, MapThenFoldSet, sums, Sums, sumsTo, pick

LEMMA PickIs ==
  ASSUME NEW s, s # {}
  PROVE  pick(s) \in s
BY DEF pick

(* The recursion has a solution: first on the sets of at most n elements.  *)
upTo(S, n) == { s \in SUBSET S : Cardinality(s) <= n }

LEMMA UpToIs ==
  ASSUME NEW S, IsFiniteSet(S), NEW n \in Nat, NEW s \in upTo(S, n), s # {}
  PROVE  n > 0 /\ s \ {pick(s)} \in upTo(S, n) /\ s \ {pick(s)} \in upTo(S, n - 1)
<1>1. /\ IsFiniteSet(s) /\ Cardinality(s) \in Nat /\ Cardinality(s) <= n
      /\ s \subseteq S
  BY FS_Subset, FS_CardinalityType DEF upTo
<1>2. Cardinality(s \ {pick(s)}) = Cardinality(s) - 1
  BY <1>1, PickIs, FS_RemoveElement
<1>3. Cardinality(s) # 0
  BY <1>1, FS_EmptySet
<1>4. s \ {pick(s)} \subseteq S
  BY <1>1
<1> QED
  BY <1>1, <1>2, <1>3, <1>4 DEF upTo

LEMMA SumsGrow ==
  ASSUME NEW f, NEW S, IsFiniteSet(S), NEW n \in Nat, n > 0,
         NEW g, Sums(f, upTo(S, n - 1), g)
  PROVE  \E h : Sums(f, upTo(S, n), h)
<1> PICK h : h = [s \in upTo(S, n) |-> sumsTo(f, g, s)]
  OBVIOUS
<1>1. ASSUME NEW s \in upTo(S, n)
      PROVE  sumsTo(f, g, s) = sumsTo(f, h, s)
  <2>1. CASE s = {}
    BY <2>1 DEF sumsTo
  <2>2. CASE s # {}
    <3> PICK u : u = s \ {pick(s)}
      OBVIOUS
    <3>1. u \in upTo(S, n) /\ u \in upTo(S, n - 1)
      BY <2>2, UpToIs
    <3>2. h[u] = sumsTo(f, g, u) /\ g[u] = sumsTo(f, g, u)
      BY <3>1 DEF Sums
    <3> QED
      BY <3>2 DEF sumsTo
  <2> QED
    BY <2>1, <2>2
<1>2. h = [s \in upTo(S, n) |-> sumsTo(f, h, s)]
  BY <1>1
<1> QED
  BY <1>2 DEF Sums

LEMMA SumsStart ==
  ASSUME NEW f, NEW S, IsFiniteSet(S)
  PROVE  \E h : Sums(f, upTo(S, 0), h)
<1> PICK h : h = [s \in upTo(S, 0) |-> 0]
  OBVIOUS
<1>1. ASSUME NEW s \in upTo(S, 0), s # {}
      PROVE  FALSE
  <2>1. 0 \in Nat /\ ~ 0 > 0
    OBVIOUS
  <2> QED
    BY <1>1, <2>1, UpToIs
<1>2. \A s \in upTo(S, 0) : sumsTo(f, h, s) = 0
  BY <1>1 DEF sumsTo
<1>3. h = [s \in upTo(S, 0) |-> sumsTo(f, h, s)]
  BY <1>2
<1> QED
  BY <1>3 DEF Sums

LEMMA SumsAre ==
  ASSUME NEW f, NEW S, IsFiniteSet(S)
  PROVE  Sums(f, SUBSET S, sums(f, S))
<1> PICK N \in Nat : N = Cardinality(S)
  BY FS_CardinalityType
<1> DEFINE Good == { n \in Nat : \E g : Sums(f, upTo(S, n), g) }
<1>1. 0 \in Good
  BY SumsStart
<1>2. ASSUME NEW n \in 0..(N - 1), n \in Good
      PROVE  n + 1 \in Good
  <2>1. n \in Nat /\ n + 1 \in Nat /\ n + 1 > 0 /\ (n + 1) - 1 = n
    OBVIOUS
  <2>2. PICK g : Sums(f, upTo(S, n), g)
    BY <1>2
  <2>3. \E h : Sums(f, upTo(S, n + 1), h)
    BY <2>1, <2>2, SumsGrow
  <2> QED
    BY <2>1, <2>3
<1> HIDE DEF Good
<1>3. N \in Good
  BY <1>1, <1>2, UpToInduction
<1>4. \A s \in SUBSET S : Cardinality(s) <= N
  BY FS_Subset
<1>5. upTo(S, N) = SUBSET S
  BY <1>4 DEF upTo
<1>6. \E g : Sums(f, SUBSET S, g)
  BY <1>3, <1>5 DEF Good
<1> QED
  BY <1>6 DEF sums

(* What was summed of a subset does not depend on the set. *)
LEMMA SumsAgree ==
  ASSUME NEW f, NEW S, IsFiniteSet(S), NEW U \in SUBSET S
  PROVE  sums(f, S)[U] = SumFunctionOnSet(f, U)
<1> PICK g : g = sums(f, S) /\ Sums(f, SUBSET S, g)
  BY SumsAre
<1> PICK h : h = sums(f, U) /\ Sums(f, SUBSET U, h)
  BY SumsAre, FS_Subset
<1> DEFINE Good == { s \in SUBSET U : g[s] = h[s] }
<1>1. ASSUME NEW T \in SUBSET U, \A V \in SUBSET T : V # T => V \in Good
      PROVE  T \in Good
  <2>1. T \subseteq U /\ T \subseteq S
    OBVIOUS
  <2>2. g[T] = sumsTo(f, g, T) /\ h[T] = sumsTo(f, h, T)
    BY <2>1 DEF Sums
  <2>3. CASE T = {}
    BY <2>2, <2>3 DEF sumsTo
  <2>4. CASE T # {}
    <3>1. T \ {pick(T)} \subseteq T /\ T \ {pick(T)} # T
      BY <2>4, PickIs
    <3>2. g[T \ {pick(T)}] = h[T \ {pick(T)}]
      BY <1>1, <3>1
    <3> QED
      BY <2>2, <3>2 DEF sumsTo
  <2> QED
    BY <2>3, <2>4
<1> HIDE DEF Good
<1>2. IsFiniteSet(U)
  BY FS_Subset
<1>3. \A T \in SUBSET U : (\A V \in SUBSET T : V # T => V \in Good) => T \in Good
  BY <1>1
<1>5. \A T \in SUBSET U : T \in Good
  BY <1>2, <1>3, SetInduction
<1>4. g[U] = h[U]
  BY <1>5 DEF Good
<1> QED
  BY <1>4, SumIs

LEMMA SumTakes ==
  ASSUME NEW f, NEW S, IsFiniteSet(S)
  PROVE  SumFunctionOnSet(f, S) =
           IF S = {} THEN 0 ELSE f[pick(S)] + SumFunctionOnSet(f, S \ {pick(S)})
<1> PICK g : g = sums(f, S) /\ Sums(f, SUBSET S, g)
  BY SumsAre
<1>1. SumFunctionOnSet(f, S) = sumsTo(f, g, S)
  BY SumIs DEF Sums
<1>2. S \ {pick(S)} \in SUBSET S
  OBVIOUS
<1>3. g[S \ {pick(S)}] = SumFunctionOnSet(f, S \ {pick(S)})
  BY <1>2, SumsAgree
<1> QED
  BY <1>1, <1>3 DEF sumsTo

LEMMA SumEmpty ==
  ASSUME NEW f
  PROVE  SumFunctionOnSet(f, {}) = 0
BY SumTakes, FS_EmptySet

LEMMA SumTyped ==
  ASSUME NEW f, NEW S, IsFiniteSet(S), \A x \in S : f[x] \in Nat
  PROVE  SumFunctionOnSet(f, S) \in Nat
<1> DEFINE Good == { s \in SUBSET S : SumFunctionOnSet(f, s) \in Nat }
<1>1. ASSUME NEW T \in SUBSET S, \A V \in SUBSET T : V # T => V \in Good
      PROVE  T \in Good
  <2>1. CASE T = {}
    BY <2>1, SumEmpty
  <2>2. CASE T # {}
    <3> PICK x : x = pick(T)
      OBVIOUS
    <3>1. x \in T /\ T \ {x} \in SUBSET T /\ T \ {x} # T /\ IsFiniteSet(T)
      BY <2>2, PickIs, FS_Subset
    <3>2. SumFunctionOnSet(f, T \ {x}) \in Nat
      BY <1>1, <3>1
    <3>3. SumFunctionOnSet(f, T) = f[x] + SumFunctionOnSet(f, T \ {x})
      BY <2>2, <3>1, SumTakes
    <3>4. f[x] \in Nat
      BY <3>1
    <3> QED
      BY <3>2, <3>3, <3>4
  <2> QED
    BY <2>1, <2>2
<1> HIDE DEF Good
<1>2. S \in Good
  BY <1>1, SetInduction
<1> QED
  BY <1>2 DEF Good

(* It does not matter which element is taken out first. *)
LEMMA SumRemoves ==
  ASSUME NEW f, NEW S, IsFiniteSet(S), \A x \in S : f[x] \in Nat, NEW x \in S
  PROVE  SumFunctionOnSet(f, S) = f[x] + SumFunctionOnSet(f, S \ {x})
<1> DEFINE Good ==
      { s \in SUBSET S :
          \A y \in s : SumFunctionOnSet(f, s) = f[y] + SumFunctionOnSet(f, s \ {y}) }
<1>1. ASSUME NEW T \in SUBSET S, \A V \in SUBSET T : V # T => V \in Good
      PROVE  T \in Good
  <2> SUFFICES ASSUME NEW y \in T
               PROVE  SumFunctionOnSet(f, T) = f[y] + SumFunctionOnSet(f, T \ {y})
    OBVIOUS
  <2> PICK z : z = pick(T)
    OBVIOUS
  <2>1. IsFiniteSet(T) /\ z \in T
    BY PickIs, FS_Subset
  <2>2. SumFunctionOnSet(f, T) = f[z] + SumFunctionOnSet(f, T \ {z})
    BY <2>1, SumTakes
  <2>3. CASE y = z
    BY <2>2, <2>3
  <2>4. CASE y # z
    <3> PICK rest : rest = (T \ {z}) \ {y}
      OBVIOUS
    <3>1. rest = (T \ {y}) \ {z} /\ rest \subseteq T /\ rest \subseteq S
      OBVIOUS
    <3>2. SumFunctionOnSet(f, T \ {z}) = f[y] + SumFunctionOnSet(f, rest)
      <4>1. T \ {z} \in SUBSET T /\ T \ {z} # T /\ y \in T \ {z}
        BY <2>1, <2>4
      <4>2. T \ {z} \in Good
        BY <1>1, <4>1
      <4> QED
        BY <4>1, <4>2
    <3>3. SumFunctionOnSet(f, T \ {y}) = f[z] + SumFunctionOnSet(f, rest)
      <4>1. T \ {y} \in SUBSET T /\ T \ {y} # T /\ z \in T \ {y}
        BY <2>1, <2>4
      <4>2. T \ {y} \in Good
        BY <1>1, <4>1
      <4> QED
        BY <3>1, <4>1, <4>2
    <3>4. f[y] \in Nat /\ f[z] \in Nat /\ SumFunctionOnSet(f, rest) \in Nat
      <4>1. IsFiniteSet(rest) /\ \A v \in rest : f[v] \in Nat
        BY <3>1, FS_Subset
      <4> QED
        BY <2>1, <4>1, SumTyped
    <3> QED
      BY <2>2, <3>2, <3>3, <3>4
  <2> QED
    BY <2>3, <2>4
<1> HIDE DEF Good
<1>2. S \in Good
  BY <1>1, SetInduction
<1> QED
  BY <1>2 DEF Good

LEMMA SumAdds ==
  ASSUME NEW f, NEW S, IsFiniteSet(S), NEW x, x \notin S,
         \A y \in S \cup {x} : f[y] \in Nat
  PROVE  SumFunctionOnSet(f, S \cup {x}) = f[x] + SumFunctionOnSet(f, S)
<1>1. IsFiniteSet(S \cup {x}) /\ x \in S \cup {x} /\ (S \cup {x}) \ {x} = S
  BY FS_AddElement
<1> QED
  BY <1>1, SumRemoves

LEMMA SumSame ==
  ASSUME NEW f, NEW g, NEW S, IsFiniteSet(S), \A x \in S : f[x] = g[x]
  PROVE  SumFunctionOnSet(f, S) = SumFunctionOnSet(g, S)
<1> DEFINE Good == { s \in SUBSET S : SumFunctionOnSet(f, s) = SumFunctionOnSet(g, s) }
<1>1. ASSUME NEW T \in SUBSET S, \A V \in SUBSET T : V # T => V \in Good
      PROVE  T \in Good
  <2>1. CASE T = {}
    BY <2>1, SumEmpty
  <2>2. CASE T # {}
    <3> PICK z : z = pick(T)
      OBVIOUS
    <3>1. z \in T /\ f[z] = g[z] /\ IsFiniteSet(T)
      BY <2>2, PickIs, FS_Subset
    <3>2. /\ SumFunctionOnSet(f, T) = f[z] + SumFunctionOnSet(f, T \ {z})
          /\ SumFunctionOnSet(g, T) = g[z] + SumFunctionOnSet(g, T \ {z})
      BY <2>2, <3>1, SumTakes
    <3>3. SumFunctionOnSet(f, T \ {z}) = SumFunctionOnSet(g, T \ {z})
      BY <1>1, <3>1
    <3> QED
      BY <3>1, <3>2, <3>3
  <2> QED
    BY <2>1, <2>2
<1> HIDE DEF Good
<1>2. S \in Good
  BY <1>1, SetInduction
<1> QED
  BY <1>2 DEF Good

(* A summand is at most the sum, and so is the sum of a part. *)
LEMMA SumOfPart ==
  ASSUME NEW f, NEW S, IsFiniteSet(S), \A x \in S : f[x] \in Nat, NEW part \in SUBSET S
  PROVE  SumFunctionOnSet(f, part) <= SumFunctionOnSet(f, S)
<1> DEFINE Good ==
      { s \in SUBSET S :
          \A u \in SUBSET s : SumFunctionOnSet(f, u) <= SumFunctionOnSet(f, s) }
<1>1. ASSUME NEW T \in SUBSET S, \A V \in SUBSET T : V # T => V \in Good
      PROVE  T \in Good
  <2> SUFFICES ASSUME NEW u \in SUBSET T
               PROVE  SumFunctionOnSet(f, u) <= SumFunctionOnSet(f, T)
    OBVIOUS
  <2>1. IsFiniteSet(T) /\ \A x \in T : f[x] \in Nat
    BY FS_Subset
  <2>2. SumFunctionOnSet(f, T) \in Nat
    BY <2>1, SumTyped
  <2>3. CASE u = T
    BY <2>2, <2>3
  <2>4. CASE u # T
    <3> PICK x \in T : x \notin u
      BY <2>4
    <3> PICK rest : rest = T \ {x}
      OBVIOUS
    <3>1. rest \in SUBSET T /\ rest # T /\ u \in SUBSET rest
      OBVIOUS
    <3>2. SumFunctionOnSet(f, u) <= SumFunctionOnSet(f, rest)
      BY <1>1, <3>1
    <3>3. SumFunctionOnSet(f, T) = f[x] + SumFunctionOnSet(f, rest)
      BY <2>1, SumRemoves
    <3>4. IsFiniteSet(rest) /\ IsFiniteSet(u)
      BY <2>1, FS_Subset
    <3>5. /\ SumFunctionOnSet(f, rest) \in Nat /\ SumFunctionOnSet(f, u) \in Nat
          /\ f[x] \in Nat
      BY <2>1, <3>4, SumTyped
    <3> QED
      BY <3>2, <3>3, <3>5
  <2> QED
    BY <2>3, <2>4
<1> HIDE DEF Good
<1>2. \A T \in SUBSET S : (\A V \in SUBSET T : V # T => V \in Good) => T \in Good
  BY <1>1
<1>3. \A T \in SUBSET S : T \in Good
  BY <1>2, SetInduction
<1>4. S \in Good
  BY <1>3
<1> QED
  BY <1>4 DEF Good

LEMMA SumAtLeast ==
  ASSUME NEW f, NEW S, IsFiniteSet(S), \A x \in S : f[x] \in Nat, NEW x \in S
  PROVE  f[x] <= SumFunctionOnSet(f, S)
<1>1. SumFunctionOnSet(f, S) = f[x] + SumFunctionOnSet(f, S \ {x})
  BY SumRemoves
<1>2. IsFiniteSet(S \ {x}) /\ \A y \in S \ {x} : f[y] \in Nat
  BY FS_Subset
<1>3. SumFunctionOnSet(f, S \ {x}) \in Nat /\ f[x] \in Nat
  BY <1>2, SumTyped
<1> QED
  BY <1>1, <1>3

(* Functions that differ in one place: stated without a difference.        *)
LEMMA SumOfUpdate ==
  ASSUME NEW f, NEW g, NEW S, IsFiniteSet(S), NEW x \in S,
         \A y \in S : f[y] \in Nat /\ g[y] \in Nat,
         \A y \in S \ {x} : g[y] = f[y]
  PROVE  SumFunctionOnSet(g, S) + f[x] = SumFunctionOnSet(f, S) + g[x]
<1> PICK rest : rest = S \ {x}
  OBVIOUS
<1>1. IsFiniteSet(rest) /\ \A y \in rest : g[y] = f[y] /\ f[y] \in Nat
  BY FS_Subset
<1>2. SumFunctionOnSet(g, rest) = SumFunctionOnSet(f, rest)
  BY <1>1, SumSame
<1>3. SumFunctionOnSet(f, S) = f[x] + SumFunctionOnSet(f, rest)
  BY SumRemoves
<1>4. SumFunctionOnSet(g, S) = g[x] + SumFunctionOnSet(g, rest)
  BY SumRemoves
<1>5. SumFunctionOnSet(f, rest) \in Nat /\ f[x] \in Nat /\ g[x] \in Nat
  BY <1>1, SumTyped
<1> QED
  BY <1>2, <1>3, <1>4, <1>5
-----------------------------------------------------------------------------
(* What the accounts table and the ledger keep together:                   *)
(*   - a hold is covered by the balance it is on;                          *)
(*   - a closed account is empty;                                          *)
(*   - a spendable account that ever held money still does, for every      *)
(*     debit leaves the minimum balance of its type behind;                *)
(*   - the last running balance is the balance.                            *)
(* It is stated of two values, for a payment writes the tables twice.      *)
Books(accs, led) ==
  /\ accs \in [AccountIds -> Account]
  /\ led \in [AccountIds -> Seq(Row)]
  /\ \A a \in AccountIds :
       /\ accs[a].hold <= accs[a].balance
       /\ accs[a].status = "Closed" => accs[a].balance = 0 /\ accs[a].hold = 0
       /\ /\ AccountType[a] # "fixed_deposit"
          /\ led[a] # << >> \/ OpeningBalance[a] > 0
          => accs[a].balance > 0
       /\ accs[a].balance =
            IF led[a] = << >> THEN OpeningBalance[a] ELSE led[a][Len(led[a])].running

(* Only a posted row, a faucet deposit, is without a source account. *)
PendingHasSource ==
  \A t \in TransferIds : isPending(t) => transfers[t].from \in AccountIds

(* The inductive invariant.  TypeOK is not inductive by itself: a balance  *)
(* stays a natural number because canDebit looks at the balance less the   *)
(* hold.  FundedNeverCloses is not either: it needs the floor below the    *)
(* balance of a funded account.                                            *)
IInv == TypeOK /\ Books(accounts, ledger) /\ PendingHasSource /\ KeyPaysOnce
-----------------------------------------------------------------------------
(* The account operators. *)

(* An account row fit to be written where money has moved. *)
Live(acc, type) ==
  /\ acc \in Account
  /\ acc.status = "Active"
  /\ acc.hold <= acc.balance
  /\ type # "fixed_deposit" => acc.balance > 0

(* debit leaves a typed row whose hold is covered and whose balance is at  *)
(* least the minimum of its type.                                          *)
LEMMA DebitIsLive ==
  ASSUME NEW acc \in Account, NEW type \in AccountTypes, NEW amount \in Nat,
         canDebit(acc, type, amount)
  PROVE  Live(debit(acc, amount), type)
<1>1. MinBalance[type] > 0 /\ MinBalance[type] \in Nat
  BY MinBalanceAssumption DEF canDebit, AccountTypes
<1>2. /\ acc.balance - acc.hold >= amount
      /\ acc.balance - amount >= MinBalance[type]
      /\ acc.status = "Active"
      /\ acc.hold \in Nat /\ acc.balance \in Nat
  BY DEF canDebit, availableBalance, isActive, Account
<1> QED
  BY <1>1, <1>2 DEF Live, debit, Account, AccountStatuses

(* credit leaves a typed row with money on it. *)
LEMMA CreditIsLive ==
  ASSUME NEW acc \in Account, NEW type, NEW amount \in Nat,
         acc.hold <= acc.balance, canCredit(acc, amount)
  PROVE  Live(credit(acc, amount), type)
BY DEF Live, canCredit, credit, isActive, Account, AccountStatuses

(* releaseHold never makes a hold negative. *)
LEMMA ReleaseIsTyped ==
  ASSUME NEW acc \in Account, NEW amount \in Nat, canReleaseHold(acc, amount)
  PROVE  releaseHold(acc, amount) \in Account
BY DEF canReleaseHold, releaseHold, Account, AccountStatuses
-----------------------------------------------------------------------------
(* Writes keep the books. *)

(* One account row and the ledger row that goes with it. *)
LEMMA WriteKeepsBooks ==
  ASSUME NEW accs, NEW led, NEW a \in AccountIds, NEW acc, NEW row \in Row,
         Books(accs, led), Live(acc, AccountType[a]), row.running = acc.balance
  PROVE  Books([accs EXCEPT ![a] = acc], insertRow(led, a, row))
<1> DEFINE newAccs == [accs EXCEPT ![a] = acc]
           newLed == insertRow(led, a, row)
<1>1. /\ newAccs \in [AccountIds -> Account]
      /\ newAccs[a] = acc
      /\ \A b \in AccountIds \ {a} : newAccs[b] = accs[b]
  BY DEF Books, Live
<1>2. /\ newLed \in [AccountIds -> Seq(Row)]
      /\ newLed[a] = Append(led[a], row)
      /\ \A b \in AccountIds \ {a} : newLed[b] = led[b]
  BY DEF Books, insertRow
<1>3. newLed[a] # << >> /\ newLed[a][Len(newLed[a])] = row
  BY <1>2 DEF Books
<1> HIDE DEF newAccs, newLed
<1>4. Books(newAccs, newLed)
  BY <1>1, <1>2, <1>3 DEF Books, Live
<1> QED
  BY <1>4 DEF newAccs, newLed

(* The two account rows and the two ledger rows of a payment, also when    *)
(* they fall on one account.                                               *)
LEMMA PaymentKeepsBooks ==
  ASSUME NEW from \in AccountIds, NEW to \in AccountIds, NEW t \in Nat,
         NEW amount \in Amounts, NEW debited, NEW credited,
         Books(accounts, ledger),
         Live(debited, AccountType[from]), Live(credited, AccountType[to]),
         updateBoth(from, to, debited, credited),
         insertRows(t, from, to, amount, debited, credited)
  PROVE  Books(accounts, ledger)'
<1> DEFINE debitRow == ledgerRow(t, "debit", amount, debited)
           creditRow == ledgerRow(t, "credit", amount, credited)
           accs == [accounts EXCEPT ![from] = debited]
           led == insertRow(ledger, from, debitRow)
<1>1. /\ debitRow \in Row /\ debitRow.running = debited.balance
      /\ creditRow \in Row /\ creditRow.running = credited.balance
  BY DEF ledgerRow, Row, Live, Account
<1> HIDE DEF debitRow, creditRow
<1>2. Books(accs, led)
  BY <1>1, WriteKeepsBooks
<1>3. /\ accounts' = [accs EXCEPT ![to] = credited]
      /\ ledger' = insertRow(led, to, creditRow)
  BY DEF updateBoth, insertRows, debitRow, creditRow
<1> HIDE DEF accs, led
<1>4. Books([accs EXCEPT ![to] = credited], insertRow(led, to, creditRow))
  BY <1>1, <1>2, WriteKeepsBooks
<1> QED
  BY <1>3, <1>4 DEF Books

(* An account row written without a ledger row: what freezing, closing and *)
(* placing a hold do.                                                      *)
LEMMA StatusKeepsBooks ==
  ASSUME NEW a \in AccountIds, NEW acc \in Account,
         Books(accounts, ledger),
         acc.balance = accounts[a].balance,
         acc.hold <= acc.balance,
         acc.status = "Closed" => acc.balance = 0 /\ acc.hold = 0,
         accounts' = [accounts EXCEPT ![a] = acc],
         UNCHANGED ledger
  PROVE  Books(accounts, ledger)'
<1>1. /\ accounts' \in [AccountIds -> Account]
      /\ accounts'[a] = acc
      /\ \A b \in AccountIds \ {a} : accounts'[b] = accounts[b]
  BY DEF Books
<1> QED
  BY <1>1 DEF Books
-----------------------------------------------------------------------------
(* The transfers table. *)

(* Inserting a well-typed row under a fresh key keeps the table typed and  *)
(* every key on one row; no row moves.                                     *)
LEMMA InsertKeepsTable ==
  ASSUME TypeOK, KeyPaysOnce, PendingHasSource,
         NEW from \in AccountIds \cup {NoAccount}, NEW to \in AccountIds,
         NEW amount \in Amounts, NEW key \in Keys \cup {NoKey},
         NEW kind \in {"transfer", "faucet", "reversal"},
         NEW status \in {"pending", "posted"},
         NEW rail \in InstantRails \cup BatchRails \cup {"internal"},
         NEW category \in {"p2p", "self", "bill", "card", "faucet"},
         ~keyUsed(key), status = "pending" => from \in AccountIds,
         insertTransfer(from, to, amount, key, kind, status, rail, category)
  PROVE  /\ transfers' \in Seq(Transfer)
         /\ TransferIds \subseteq TransferIds'
         /\ Len(transfers) + 1 \in TransferIds'
         /\ KeyPaysOnce' /\ PendingHasSource'
         /\ Len(transfers) + 1 \in Nat
<1> DEFINE new == [ from |-> from, to |-> to, amount |-> amount, key |-> key,
                    kind |-> kind, status |-> status, rail |-> rail,
                    category |-> category, day |-> day,
                    utr |-> IF status = "pending" \/ kind = "reversal" THEN 1 ELSE 0 ]
<1>1. new \in Transfer
  BY DEF TypeOK, Transfer
<1>2. transfers \in Seq(Transfer) /\ transfers' = Append(transfers, new)
  BY DEF TypeOK, insertTransfer
<1>3. new.key = key /\ new.status = status /\ new.from = from
  OBVIOUS
<1> HIDE DEF new
<1>4. /\ transfers' \in Seq(Transfer)
      /\ Len(transfers') = Len(transfers) + 1 /\ Len(transfers) \in Nat
      /\ transfers'[Len(transfers) + 1] = new
      /\ \A t \in TransferIds : transfers'[t] = transfers[t]
  BY <1>1, <1>2 DEF TransferIds
<1>5. TransferIds' = TransferIds \cup {Len(transfers) + 1}
  BY <1>4 DEF TransferIds
<1>6. KeyPaysOnce'
  BY <1>3, <1>4, <1>5 DEF KeyPaysOnce, keyUsed
<1>7. PendingHasSource'
  BY <1>3, <1>4, <1>5 DEF PendingHasSource, isPending
<1> QED
  BY <1>4, <1>5, <1>6, <1>7
-----------------------------------------------------------------------------
(* A payment that is posted at once: what executeTransfer and PayBill do.  *)
LEMMA PostKeepsInv ==
  ASSUME IInv,
         NEW from \in AccountIds, NEW to \in AccountIds,
         NEW amount \in Amounts, NEW key \in Keys \cup {NoKey},
         NEW kind \in {"transfer", "faucet", "reversal"},
         NEW rail \in InstantRails \cup BatchRails \cup {"internal"},
         NEW category \in {"p2p", "self", "bill", "card", "faucet"},
         ~keyUsed(key),
         postTransfer(from, to, amount, key, kind, rail, category),
         stamping' \in {stamping, 0, Len(transfers) + 1},
         UNCHANGED <<batch, day, crashes>>
  PROVE  IInv'
<1> DEFINE debited == debit(accounts[from], amount)
           credited == credit(accounts[to], amount)
<1>1. /\ amount \in Nat
      /\ AccountType[from] \in AccountTypes
      /\ accounts[from] \in Account /\ accounts[to] \in Account
      /\ accounts[to].hold <= accounts[to].balance
  BY PaymentsAssumption DEF IInv, Books
<1>2. Live(debited, AccountType[from]) /\ Live(credited, AccountType[to])
  BY <1>1, DebitIsLive, CreditIsLive DEF postTransfer
<1>3. /\ insertTransfer(from, to, amount, key, kind, "posted", rail, category)
      /\ updateBoth(from, to, debited, credited)
      /\ insertRows(Len(transfers) + 1, from, to, amount, debited, credited)
  BY DEF postTransfer
<1> HIDE DEF debited, credited
<1>4. /\ transfers' \in Seq(Transfer)
      /\ TransferIds \subseteq TransferIds'
      /\ Len(transfers) + 1 \in TransferIds'
      /\ KeyPaysOnce' /\ PendingHasSource'
      /\ Len(transfers) + 1 \in Nat
  BY <1>3, InsertKeepsTable DEF IInv
<1>5. Books(accounts, ledger)'
  BY <1>2, <1>3, <1>4, PaymentKeepsBooks DEF IInv
<1> QED
  BY <1>4, <1>5 DEF IInv, TypeOK, Books

(* A step that changes one account row and no ledger row. *)
LEMMA AdminKeepsInv ==
  ASSUME IInv, NEW a \in AccountIds, NEW acc \in Account,
         acc.balance = accounts[a].balance,
         acc.hold <= acc.balance,
         acc.status = "Closed" => acc.balance = 0 /\ acc.hold = 0,
         accounts' = [accounts EXCEPT ![a] = acc],
         UNCHANGED <<transfers, ledger, batch, stamping, day, crashes>>
  PROVE  IInv'
<1>1. Books(accounts, ledger)'
  BY StatusKeepsBooks DEF IInv
<1> QED
  BY <1>1 DEF IInv, Books, TypeOK, KeyPaysOnce, TransferIds, PendingHasSource,
              isPending
-----------------------------------------------------------------------------
(* Every step keeps the inductive invariant. *)

LEMMA ExecuteTransferKeepsInv ==
  ASSUME IInv, NEW from \in AccountIds, NEW to \in AccountIds,
         NEW amount \in Amounts, NEW key \in Keys \cup {NoKey},
         NEW rail \in InstantRails \cup {"internal"},
         executeTransfer(from, to, amount, key, rail)
  PROVE  IInv'
<1>1. categoryOf(from, to) \in {"p2p", "self", "bill", "card", "faucet"}
  BY DEF categoryOf
<1> QED
  BY <1>1, PostKeepsInv DEF executeTransfer

(* A new UTR is all that changes. *)
LEMMA NewUtr ==
  ASSUME NEW row \in Transfer, NEW utr \in Nat
  PROVE  LET new == [row EXCEPT !.utr = utr]
         IN  /\ new \in Transfer
             /\ new.key = row.key
             /\ new.status = row.status
             /\ new.from = row.from
             /\ new = [row EXCEPT !.utr = new.utr]
BY DEF Transfer

LEMMA SameUtr ==
  ASSUME NEW row \in Transfer
  PROVE  row = [row EXCEPT !.utr = row.utr]
BY DEF Transfer

(* The second transaction of an IMPS or UPI request keeps the table. *)
LEMMA StampKeepsTable ==
  ASSUME TypeOK, KeyPaysOnce, PendingHasSource, StampUtr
  PROVE  /\ transfers' \in Seq(Transfer)
         /\ TransferIds' = TransferIds
         /\ KeyPaysOnce' /\ PendingHasSource'
<1> DEFINE stamped == [transfers[stamping] EXCEPT !.utr = transfers[stamping].utr + 1]
<1>1. /\ stamping \in TransferIds
      /\ transfers \in Seq(Transfer) /\ transfers[stamping] \in Transfer
  BY DEF TypeOK, StampUtr, TransferIds
<1>2. /\ stamped \in Transfer
      /\ stamped.key = transfers[stamping].key
      /\ stamped.status = transfers[stamping].status
      /\ stamped.from = transfers[stamping].from
  <2>1. transfers[stamping].utr + 1 \in Nat
    BY <1>1 DEF Transfer
  <2> QED
    BY <1>1, <2>1, NewUtr
<1>3. transfers' = [transfers EXCEPT ![stamping] = stamped]
  BY <1>1 DEF StampUtr
<1> HIDE DEF stamped
<1>4. /\ transfers' \in Seq(Transfer)
      /\ Len(transfers') = Len(transfers)
      /\ transfers'[stamping] = stamped
      /\ \A u \in TransferIds \ {stamping} : transfers'[u] = transfers[u]
  BY <1>1, <1>2, <1>3 DEF TransferIds
<1>5. TransferIds' = TransferIds
  BY <1>4 DEF TransferIds
<1>6. KeyPaysOnce' /\ PendingHasSource'
  BY <1>1, <1>2, <1>4, <1>5 DEF KeyPaysOnce, PendingHasSource, isPending
<1> QED
  BY <1>4, <1>5, <1>6

LEMMA StampUtrKeepsInv ==
  ASSUME IInv, StampUtr
  PROVE  IInv'
<1>1. /\ transfers' \in Seq(Transfer)
      /\ TransferIds' = TransferIds
      /\ KeyPaysOnce' /\ PendingHasSource'
  BY StampKeepsTable DEF IInv
<1> QED
  BY <1>1 DEF StampUtr, IInv, TypeOK, Books

LEMMA PayBillKeepsInv ==
  ASSUME IInv, NEW from \in AccountIds, NEW to \in AccountIds,
         NEW amount \in Amounts, NEW key \in Keys \cup {NoKey},
         PayBill(from, to, amount, key)
  PROVE  IInv'
BY PostKeepsInv DEF PayBill

LEMMA CreatePendingKeepsInv ==
  ASSUME IInv, NEW from \in AccountIds, NEW to \in AccountIds,
         NEW amount \in Amounts, NEW key \in Keys \cup {NoKey},
         NEW rail \in BatchRails,
         CreatePendingRailTransfer(from, to, amount, key, rail)
  PROVE  IInv'
<1> DEFINE held == placeHold(accounts[from], amount)
<1>1. accounts[from] \in Account /\ amount \in Nat
  BY PaymentsAssumption DEF IInv, Books
<1>2. /\ held \in Account
      /\ held.balance = accounts[from].balance
      /\ held.hold <= held.balance
      /\ held.status # "Closed"
  BY <1>1 DEF CreatePendingRailTransfer, canPlaceHold, placeHold, isActive,
              Account, AccountStatuses
<1>3. /\ accounts' = [accounts EXCEPT ![from] = held]
      /\ ~keyUsed(key)
      /\ insertTransfer(from, to, amount, key, "transfer", "pending", rail,
                        categoryOf(from, to))
      /\ UNCHANGED <<ledger, batch, stamping, day, crashes>>
  BY DEF CreatePendingRailTransfer
<1> HIDE DEF held
<1>4. Books(accounts, ledger)'
  BY <1>2, <1>3, StatusKeepsBooks DEF IInv
<1>5. categoryOf(from, to) \in {"p2p", "self", "bill", "card", "faucet"}
  BY DEF categoryOf
<1>6. /\ transfers' \in Seq(Transfer)
      /\ TransferIds \subseteq TransferIds'
      /\ Len(transfers) + 1 \in TransferIds'
      /\ KeyPaysOnce' /\ PendingHasSource'
  BY <1>3, <1>5, InsertKeepsTable DEF IInv
<1> QED
  BY <1>3, <1>4, <1>6 DEF IInv, TypeOK, Books

LEMMA FaucetKeepsInv ==
  ASSUME IInv, NEW to \in AccountIds,
         NEW amount \in Amounts, NEW key \in Keys \cup {NoKey},
         FaucetDeposit(to, amount, key)
  PROVE  IInv'
<1> DEFINE credited == credit(accounts[to], amount)
           row == ledgerRow(Len(transfers) + 1, "credit", amount, credited)
<1>1. /\ accounts[to] \in Account /\ accounts[to].hold <= accounts[to].balance
      /\ amount \in Nat
      /\ canCredit(accounts[to], amount)
  BY PaymentsAssumption DEF IInv, Books, FaucetDeposit
<1>2. Live(credited, AccountType[to])
  BY <1>1, CreditIsLive
<1>3. /\ accounts' = [accounts EXCEPT ![to] = credited]
      /\ ledger' = insertRow(ledger, to, row)
      /\ ~keyUsed(key)
      /\ insertTransfer(NoAccount, to, amount, key, "faucet", "posted",
                        "internal", "faucet")
      /\ UNCHANGED <<batch, stamping, day, crashes>>
  BY DEF FaucetDeposit
<1> HIDE DEF credited
<1>4. /\ transfers' \in Seq(Transfer)
      /\ TransferIds \subseteq TransferIds'
      /\ Len(transfers) + 1 \in TransferIds'
      /\ KeyPaysOnce' /\ PendingHasSource'
      /\ Len(transfers) + 1 \in Nat
  BY <1>3, InsertKeepsTable DEF IInv
<1>5. row \in Row /\ row.running = credited.balance
  BY <1>2, <1>4 DEF ledgerRow, Row, Live, Account
<1> HIDE DEF row
<1>6. Books([accounts EXCEPT ![to] = credited], insertRow(ledger, to, row))
  BY <1>2, <1>5, WriteKeepsBooks DEF IInv
<1>7. Books(accounts, ledger)'
  BY <1>3, <1>6 DEF Books
<1> QED
  BY <1>3, <1>4, <1>7 DEF IInv, TypeOK, Books

(* Posting a pending transfer keeps the table. *)
LEMMA PostingKeepsTable ==
  ASSUME TypeOK, KeyPaysOnce, PendingHasSource, NEW t \in TransferIds, markPosted(t)
  PROVE  /\ transfers' \in Seq(Transfer)
         /\ TransferIds' = TransferIds
         /\ KeyPaysOnce' /\ PendingHasSource'
<1> DEFINE settled == [transfers[t] EXCEPT !.status = "posted", !.day = day]
<1>1. transfers \in Seq(Transfer) /\ transfers[t] \in Transfer /\ t \in Nat
  BY DEF TypeOK, TransferIds
<1>2. /\ settled \in Transfer
      /\ settled.key = transfers[t].key
      /\ settled.status = "posted"
  BY <1>1 DEF Transfer, TypeOK
<1>3. transfers' = [transfers EXCEPT ![t] = settled]
  BY <1>1 DEF markPosted
<1> HIDE DEF settled
<1>4. /\ transfers' \in Seq(Transfer)
      /\ Len(transfers') = Len(transfers)
      /\ transfers'[t] = settled
      /\ \A u \in TransferIds \ {t} : transfers'[u] = transfers[u]
  BY <1>1, <1>2, <1>3 DEF TransferIds
<1>5. TransferIds' = TransferIds
  BY <1>4 DEF TransferIds
<1>6. KeyPaysOnce' /\ PendingHasSource'
  BY <1>2, <1>4, <1>5 DEF KeyPaysOnce, PendingHasSource, isPending
<1> QED
  BY <1>4, <1>5, <1>6

LEMMA SettlePendingKeepsInv ==
  ASSUME IInv, NEW t \in TransferIds, SettlePending(t)
  PROVE  IInv'
<1> DEFINE from == transfers[t].from
           to == transfers[t].to
           amount == transfers[t].amount
           released == releaseHold(accounts[from], amount)
           debited == debit(released, amount)
           credited == credit(accounts[to], amount)
<1>1. transfers \in Seq(Transfer) /\ transfers[t] \in Transfer /\ t \in Nat
  BY DEF IInv, TypeOK, TransferIds
<1>2. from \in AccountIds /\ to \in AccountIds /\ amount \in Amounts /\ amount \in Nat
  BY <1>1, PaymentsAssumption
     DEF IInv, PendingHasSource, SettlePending, canSettle, Transfer
<1>3. /\ AccountType[from] \in AccountTypes
      /\ accounts[from] \in Account /\ accounts[to] \in Account
      /\ accounts[to].hold <= accounts[to].balance
  BY <1>2, PaymentsAssumption DEF IInv, Books
<1>4. /\ canReleaseHold(accounts[from], amount)
      /\ canDebit(released, AccountType[from], amount)
      /\ canCredit(accounts[to], amount)
      /\ isPending(t)
  BY DEF SettlePending, canSettle
<1>5. /\ transfers' = [transfers EXCEPT ![t].status = "posted", ![t].day = day]
      /\ updateBoth(from, to, debited, credited)
      /\ insertRows(t, from, to, amount, debited, credited)
      /\ batch' = batch \ {t}
      /\ UNCHANGED <<stamping, day, crashes>>
  BY DEF SettlePending, markPosted
<1>6. Live(debited, AccountType[from]) /\ Live(credited, AccountType[to])
  <2>1. released \in Account
    BY <1>2, <1>3, <1>4, ReleaseIsTyped
  <2> HIDE DEF released
  <2> QED
    BY <1>2, <1>3, <1>4, <2>1, DebitIsLive, CreditIsLive
<1> HIDE DEF from, to, amount, debited, credited, released
<1>7. Books(accounts, ledger)'
  BY <1>1, <1>2, <1>5, <1>6, PaymentKeepsBooks DEF IInv
<1>8. /\ transfers' \in Seq(Transfer)
      /\ TransferIds' = TransferIds
      /\ KeyPaysOnce' /\ PendingHasSource'
  BY PostingKeepsTable DEF IInv, SettlePending
<1> QED
  BY <1>5, <1>7, <1>8 DEF IInv, TypeOK, Books

(* Init and every step of Next. *)
LEMMA InitIsInv ==
  ASSUME Init
  PROVE  IInv
<1>1. \A a \in AccountIds : OpeningBalance[a] \in Nat
  BY PaymentsAssumption
<1>2. TransferIds = {} /\ transfers \in Seq(Transfer)
  BY DEF Init, TransferIds
<1>3. Books(accounts, ledger)
  BY <1>1 DEF Init, Books, open, Account, AccountStatuses
<1> QED
  BY <1>2, <1>3, PaymentsAssumption
     DEF Init, IInv, TypeOK, Books, KeyPaysOnce, PendingHasSource

LEMMA NextKeepsInv ==
  ASSUME IInv, [Next]_vars
  PROVE  IInv'
<1>1. CASE Request
  <2>1. PICK a \in AccountIds, b \in AccountIds, amount \in Amounts,
             key \in Keys \cup {NoKey} :
          \/ \E rail \in InstantRails \cup {"internal"} :
               executeTransfer(a, b, amount, key, rail)
          \/ \E rail \in InstantRails : RetryTransfer(a, amount, key, rail)
          \/ \E rail \in BatchRails :
               CreatePendingRailTransfer(a, b, amount, key, rail)
          \/ PayBill(a, b, amount, key)
    BY <1>1 DEF Request, ExecuteTransfer, RunInstruction
  <2>2. CASE \E rail \in InstantRails : RetryTransfer(a, amount, key, rail)
    BY <2>2 DEF RetryTransfer, IInv, Books, TypeOK, KeyPaysOnce, TransferIds,
                PendingHasSource, isPending
  <2> QED
    BY <2>1, <2>2, ExecuteTransferKeepsInv, CreatePendingKeepsInv, PayBillKeepsInv
<1>2. CASE Administer
  <2>1. PICK a \in AccountIds :
          \/ \E amount \in Amounts, key \in Keys \cup {NoKey} :
               FaucetDeposit(a, amount, key)
          \/ FreezeAccount(a)
          \/ UnfreezeAccount(a)
          \/ CloseAccount(a)
    BY <1>2 DEF Administer
  <2>2. accounts[a] \in Account /\ accounts[a].hold <= accounts[a].balance
    BY DEF IInv, Books
  <2>3. CASE FreezeAccount(a)
    BY <2>2, <2>3, AdminKeepsInv
       DEF FreezeAccount, freeze, canFreeze, Account, AccountStatuses
  <2>4. CASE UnfreezeAccount(a)
    BY <2>2, <2>4, AdminKeepsInv
       DEF UnfreezeAccount, unfreeze, Account, AccountStatuses
  <2>5. CASE CloseAccount(a)
    BY <2>2, <2>5, AdminKeepsInv
       DEF CloseAccount, close, canClose, Account, AccountStatuses
  <2> QED
    BY <2>1, <2>3, <2>4, <2>5, FaucetKeepsInv
<1>3. CASE SettleTick
  BY <1>3 DEF SettleTick, IInv, Books, TypeOK, KeyPaysOnce, TransferIds,
              PendingHasSource, isPending
<1>4. CASE SettleStep
  <2>1. PICK t \in TransferIds : SettlePending(t) \/ SettleFails(t)
    BY <1>4 DEF SettleStep
  <2>2. CASE SettleFails(t)
    BY <2>2 DEF SettleFails, IInv, Books, TypeOK, KeyPaysOnce, TransferIds,
                PendingHasSource, isPending
  <2> QED
    BY <2>1, <2>2, SettlePendingKeepsInv
<1>5. CASE Crash
  BY <1>5, PaymentsAssumption
     DEF Crash, IInv, Books, TypeOK, KeyPaysOnce, TransferIds,
         PendingHasSource, isPending
<1>6. CASE NextDay
  BY <1>6, PaymentsAssumption
     DEF NextDay, IInv, Books, TypeOK, KeyPaysOnce, TransferIds,
         PendingHasSource, isPending
<1>7. CASE UNCHANGED vars
  BY <1>7 DEF vars, IInv, Books, TypeOK, KeyPaysOnce, TransferIds,
              PendingHasSource, isPending
<1> QED
  BY <1>1, <1>2, <1>3, <1>4, <1>5, <1>6, <1>7, StampUtrKeepsInv DEF Next

(* The inductive invariant is an invariant. *)
THEOREM Invariance == Spec => []IInv
BY InitIsInv, NextKeepsInv, PTL DEF Spec
-----------------------------------------------------------------------------
(* The results. *)

(* Every variable keeps its type: no debit, release or interleaving of the *)
(* settlement loop makes a balance or a hold negative.                     *)
THEOREM TypeCorrect == Spec => []TypeOK
BY Invariance, PTL DEF IInv

(* A hold never exceeds the balance it is on. *)
THEOREM HoldsAreCovered == Spec => []HoldIsCovered
<1>1. IInv => HoldIsCovered
  BY DEF IInv, Books, HoldIsCovered
<1> QED
  BY <1>1, Invariance, PTL

(* The last running balance of the ledger is the balance of the account,   *)
(* also after transfers with one account at both ends.                     *)
THEOREM LedgerAgrees == Spec => []LedgerEndsAtBalance
<1>1. IInv => LedgerEndsAtBalance
  BY DEF IInv, Books, LedgerEndsAtBalance
<1> QED
  BY <1>1, Invariance, PTL

(* A savings or current account that ever held money is never closed. *)
THEOREM NoFundedClose == Spec => []FundedNeverCloses
<1>1. IInv => FundedNeverCloses
  <2> SUFFICES ASSUME IInv, NEW a \in AccountIds,
                      accounts[a].status = "Closed",
                      AccountType[a] # "fixed_deposit"
               PROVE  ledger[a] = << >> /\ OpeningBalance[a] = 0 /\ accounts[a].hold = 0
    BY DEF FundedNeverCloses
  <2>1. accounts[a].balance = 0 /\ accounts[a].hold = 0
    BY DEF IInv, Books
  <2>2. ledger[a] = << >> /\ ~(OpeningBalance[a] > 0)
    BY <2>1 DEF IInv, Books
  <2> QED
    BY <2>1, <2>2, PaymentsAssumption
<1> QED
  BY <1>1, Invariance, PTL

(* An idempotency key is on one transfer, whichever endpoint or rail it    *)
(* was used on.                                                            *)
THEOREM KeysPayOnce == Spec => []KeyPaysOnce
BY Invariance, PTL DEF IInv

(* A transfer row is never rewritten, but for a pending one being posted. *)
LEMMA InsertTouchesNoRow ==
  ASSUME TypeOK, NEW from, NEW to, NEW amount, NEW key, NEW kind, NEW status,
         NEW rail, NEW category, NEW t \in TransferIds,
         insertTransfer(from, to, amount, key, kind, status, rail, category)
  PROVE  t \in DOMAIN transfers' /\ transfers'[t] = transfers[t]
BY DEF TypeOK, insertTransfer, TransferIds

LEMMA NextOnlySettles ==
  ASSUME TypeOK, [Next]_vars, NEW t \in TransferIds
  PROVE  /\ t \in DOMAIN transfers'
         /\ \/ transfers'[t] = [transfers[t] EXCEPT !.utr = transfers'[t].utr]
            \/ /\ isPending(t)
               /\ transfers'[t] =
                    [transfers[t] EXCEPT !.status = "posted", !.day = day]
<1>1. /\ transfers \in Seq(Transfer) /\ transfers[t] \in Transfer
      /\ t \in DOMAIN transfers
      /\ transfers[t] = [transfers[t] EXCEPT !.utr = transfers[t].utr]
  <2>1. transfers \in Seq(Transfer) /\ transfers[t] \in Transfer /\ t \in DOMAIN transfers
    BY DEF TypeOK, TransferIds
  <2> QED
    BY <2>1, SameUtr
<1>2. CASE UNCHANGED transfers
  BY <1>1, <1>2
<1>3. CASE Request
  BY <1>1, <1>3, InsertTouchesNoRow
     DEF Request, ExecuteTransfer, RunInstruction, executeTransfer, RetryTransfer, PayBill,
         postTransfer, CreatePendingRailTransfer
<1>4. CASE \E a \in AccountIds, amount \in Amounts, key \in Keys \cup {NoKey} :
             FaucetDeposit(a, amount, key)
  BY <1>1, <1>4, InsertTouchesNoRow DEF FaucetDeposit
<1>5. CASE \E u \in TransferIds : SettlePending(u)
  <2>1. PICK u \in TransferIds : SettlePending(u)
    BY <1>5
  <2>2. /\ transfers' = [transfers EXCEPT ![u].status = "posted", ![u].day = day]
        /\ isPending(u)
    BY <2>1 DEF SettlePending, markPosted, canSettle
  <2>3. CASE u = t
    BY <1>1, <2>2, <2>3
  <2>4. CASE u # t
    BY <1>1, <2>2, <2>4
  <2> QED
    BY <2>3, <2>4
<1>6. CASE StampUtr
  <2>1. /\ stamping \in TransferIds
        /\ transfers' = [transfers EXCEPT ![stamping].utr = @ + 1]
    BY <1>6 DEF StampUtr, TypeOK
  <2>2. CASE stamping = t
    BY <1>1, <2>1, <2>2 DEF Transfer
  <2>3. CASE stamping # t
    BY <1>1, <2>1, <2>3
  <2> QED
    BY <2>2, <2>3
<1> QED
  BY <1>1, <1>2, <1>3, <1>4, <1>5, <1>6
     DEF Next, Administer, SettleStep, SettleTick, SettleFails, Crash, NextDay,
         FreezeAccount, UnfreezeAccount, CloseAccount, vars

(* A posted transfer is final, a pending one can only be posted. *)
THEOREM TransfersAreFinal == Spec => TransfersOnlySettle
<1>1. TypeOK /\ [Next]_vars =>
        [ \A t \in TransferIds :
            /\ t \in DOMAIN transfers'
            /\ \/ transfers'[t] = [transfers[t] EXCEPT !.utr = transfers'[t].utr]
               \/ /\ isPending(t)
                  /\ transfers'[t] =
                       [transfers[t] EXCEPT !.status = "posted", !.day = day] ]_vars
  BY NextOnlySettles
<1> QED
  BY <1>1, TypeCorrect, PTL DEF Spec, TransfersOnlySettle
-----------------------------------------------------------------------------
(* Sums over the two tables, of values of theirs: a step relates two.      *)

Rows(ts) == 1..Len(ts)

total(ts, S) == SumFunctionOnSet([t \in Rows(ts) |-> ts[t].amount], S)

onAccounts(accs) == SumFunctionOnSet([a \in AccountIds |-> accs[a].balance], AccountIds)

pendingOf(ts, a) == { t \in Rows(ts) : ts[t].status = "pending" /\ ts[t].from = a }

toSelf(ts) == { t \in Rows(ts) : ts[t].status = "posted" /\ ts[t].from = ts[t].to }

keptHolds(ts, a) == { t \in toSelf(ts) : ts[t].from = a /\ ts[t].rail \in BatchRails }

faucets(ts) == { t \in Rows(ts) : ts[t].kind = "faucet" }

(* Names for three fields and for an equation keep records out of the        *)
(* arithmetic.                                                             *)
amountOf(row) == row.amount

isSum(x, y, z) == x = y + z

balanceOf(accs, a) == accs[a].balance

holdOf(accs, a) == accs[a].hold

(* HoldsAccounted and MoneyConserved, of values: `base` is the money that  *)
(* was there without the transfers.                                        *)
Accounted(accs, ts) ==
  \A a \in AccountIds :
    holdOf(accs, a) = total(ts, pendingOf(ts, a)) + total(ts, keptHolds(ts, a))

Conserved(accs, ts, base) ==
  onAccounts(accs) = base + total(ts, faucets(ts)) + total(ts, toSelf(ts))

(* A row that is pending is on a rail the settlement loop takes it from. *)
PendingOnBatchRail(ts) ==
  \A t \in Rows(ts) : ts[t].status = "pending" => ts[t].rail \in BatchRails

Tallied(accs, ts, base) ==
  Accounted(accs, ts) /\ Conserved(accs, ts, base) /\ PendingOnBatchRail(ts)

openings == SumFunctionOnSet(OpeningBalance, AccountIds)

(* us is ts with one row more, or with one row rewritten. *)
Inserted(ts, us, n, row) ==
  /\ us \in Seq(Transfer)
  /\ n = Len(ts) + 1
  /\ Len(us) = n
  /\ us[n] = row
  /\ \A t \in Rows(ts) : us[t] = ts[t]

Rewritten(ts, us, u) ==
  /\ us \in Seq(Transfer)
  /\ Len(us) = Len(ts)
  /\ u \in Rows(ts)
  /\ us[u].amount = ts[u].amount
  /\ us[u].from = ts[u].from
  /\ us[u].to = ts[u].to
  /\ us[u].kind = ts[u].kind
  /\ us[u].rail = ts[u].rail
  /\ \A t \in Rows(ts) \ {u} : us[t] = ts[t]

LEMMA RowsAre ==
  ASSUME NEW ts \in Seq(Transfer)
  PROVE  /\ Len(ts) \in Nat
         /\ IsFiniteSet(Rows(ts))
         /\ \A t \in Rows(ts) : ts[t] \in Transfer /\ ts[t].amount \in Nat
         /\ Len(ts) + 1 \notin Rows(ts)
<1>1. Len(ts) \in Nat /\ Rows(ts) = 1..Len(ts)
  BY DEF Rows
<1>2. \A t \in Rows(ts) : ts[t] \in Transfer
  BY <1>1
<1>3. \A row \in Transfer : row.amount \in Nat
  BY PaymentsAssumption DEF Transfer
<1>4. IsFiniteSet(Rows(ts))
  BY <1>1, FS_Interval
<1> QED
  BY <1>1, <1>2, <1>3, <1>4

LEMMA TotalTyped ==
  ASSUME NEW ts \in Seq(Transfer), NEW S \in SUBSET Rows(ts)
  PROVE  total(ts, S) \in Nat
<1> PICK f : f = [t \in Rows(ts) |-> ts[t].amount]
  OBVIOUS
<1>1. IsFiniteSet(S) /\ \A t \in S : f[t] \in Nat
  BY RowsAre, FS_Subset
<1> QED
  BY <1>1, SumTyped DEF total

LEMMA TotalTakes ==
  ASSUME NEW ts \in Seq(Transfer), NEW S \in SUBSET Rows(ts), NEW t \in S
  PROVE  total(ts, S) = ts[t].amount + total(ts, S \ {t})
<1> DEFINE f == [u \in Rows(ts) |-> ts[u].amount]
<1>1. IsFiniteSet(S) /\ \A u \in S : f[u] \in Nat
  BY RowsAre, FS_Subset
<1>2. f[t] = ts[t].amount
  OBVIOUS
<1>3. total(ts, S) = SumFunctionOnSet(f, S) /\ total(ts, S \ {t}) = SumFunctionOnSet(f, S \ {t})
  BY DEF total
<1> HIDE DEF f
<1>4. SumFunctionOnSet(f, S) = f[t] + SumFunctionOnSet(f, S \ {t})
  BY <1>1, SumRemoves
<1> QED
  BY <1>2, <1>3, <1>4

LEMMA TotalSame ==
  ASSUME NEW ts \in Seq(Transfer), NEW us, NEW S \in SUBSET Rows(ts),
         S \subseteq Rows(us), \A t \in S : us[t].amount = ts[t].amount
  PROVE  total(us, S) = total(ts, S)
<1> PICK f : f = [t \in Rows(ts) |-> ts[t].amount]
  OBVIOUS
<1> PICK g : g = [t \in Rows(us) |-> us[t].amount]
  OBVIOUS
<1>1. IsFiniteSet(S) /\ \A t \in S : f[t] = g[t]
  BY RowsAre, FS_Subset
<1>2. SumFunctionOnSet(f, S) = SumFunctionOnSet(g, S)
  BY <1>1, SumSame
<1> QED
  BY <1>2 DEF total

(* A table with one row more, and its sums. *)
LEMMA InsertedRows ==
  ASSUME NEW ts \in Seq(Transfer), NEW us, NEW n, NEW row, Inserted(ts, us, n, row)
  PROVE  /\ us \in Seq(Transfer)
         /\ Rows(us) = Rows(ts) \cup {n}
         /\ n \notin Rows(ts)
         /\ us[n] = row
         /\ \A t \in Rows(ts) : us[t] = ts[t]
BY DEF Inserted, Rows

LEMMA TotalInserted ==
  ASSUME NEW ts \in Seq(Transfer), NEW us, NEW n, NEW row, Inserted(ts, us, n, row)
  PROVE  \A S \in SUBSET Rows(ts) :
           /\ total(us, S) = total(ts, S)
           /\ isSum(total(us, S \cup {n}), total(ts, S), amountOf(row))
<1> SUFFICES ASSUME NEW S \in SUBSET Rows(ts)
             PROVE  /\ total(us, S) = total(ts, S)
                    /\ isSum(total(us, S \cup {n}), total(ts, S), amountOf(row))
  OBVIOUS
<1>1. /\ Rows(us) = Rows(ts) \cup {n} /\ n \notin Rows(ts)
      /\ us \in Seq(Transfer) /\ us[n] = row /\ \A t \in Rows(ts) : us[t] = ts[t]
  BY InsertedRows
<1>2. total(us, S) = total(ts, S)
  BY <1>1, TotalSame
<1>3. total(us, S \cup {n}) = us[n].amount + total(us, (S \cup {n}) \ {n})
  BY <1>1, TotalTakes
<1>4. (S \cup {n}) \ {n} = S
  BY <1>1
<1>5. total(ts, S) \in Nat /\ us[n].amount \in Nat
  BY <1>1, TotalTyped, RowsAre
<1>6. isSum(total(us, S \cup {n}), total(ts, S), amountOf(row))
  <2> PICK p \in Nat : p = us[n].amount
    BY <1>5
  <2> PICK q \in Nat : q = total(ts, S)
    BY <1>5
  <2>1. total(us, S \cup {n}) = p + q /\ amountOf(row) = p
    BY <1>1, <1>2, <1>3, <1>4 DEF amountOf
  <2> QED
    BY <2>1 DEF isSum
<1> QED
  BY <1>2, <1>6

LEMMA TotalRewritten ==
  ASSUME NEW ts \in Seq(Transfer), NEW us, NEW u, Rewritten(ts, us, u),
         NEW S \in SUBSET Rows(ts)
  PROVE  total(us, S) = total(ts, S) /\ Rows(us) = Rows(ts)
<1>1. Rows(us) = Rows(ts) /\ \A t \in S : us[t].amount = ts[t].amount
  BY DEF Rewritten, Rows
<1> QED
  BY <1>1, TotalSame

LEMMA BalancesAreNat ==
  ASSUME NEW accs \in [AccountIds -> Account]
  PROVE  \A a \in AccountIds : balanceOf(accs, a) \in Nat /\ holdOf(accs, a) \in Nat
BY DEF balanceOf, holdOf, Account

(* The sum of the balances when one account row is written. *)
LEMMA WriteSums ==
  ASSUME NEW accs \in [AccountIds -> Account], NEW a \in AccountIds,
         NEW new \in [AccountIds -> Account],
         \A b \in AccountIds \ {a} : balanceOf(new, b) = balanceOf(accs, b)
  PROVE  /\ onAccounts(new) + balanceOf(accs, a) = onAccounts(accs) + balanceOf(new, a)
         /\ onAccounts(accs) \in Nat
         /\ onAccounts(new) \in Nat
<1> PICK f : f = [b \in AccountIds |-> balanceOf(accs, b)]
  OBVIOUS
<1> PICK g : g = [b \in AccountIds |-> balanceOf(new, b)]
  OBVIOUS
<1>1. \A b \in AccountIds : balanceOf(accs, b) \in Nat /\ balanceOf(new, b) \in Nat
  BY BalancesAreNat
<1>2. \A b \in AccountIds : f[b] \in Nat /\ g[b] \in Nat
  BY <1>1
<1>3. \A b \in AccountIds \ {a} : g[b] = f[b]
  OBVIOUS
<1>4. IsFiniteSet(AccountIds)
  BY PaymentsAssumption
<1>5. f[a] = balanceOf(accs, a) /\ g[a] = balanceOf(new, a)
  OBVIOUS
<1>6. SumFunctionOnSet(g, AccountIds) + f[a] = SumFunctionOnSet(f, AccountIds) + g[a]
  BY <1>2, <1>3, <1>4, SumOfUpdate
<1>7. SumFunctionOnSet(g, AccountIds) \in Nat /\ SumFunctionOnSet(f, AccountIds) \in Nat
  BY <1>2, <1>4, SumTyped
<1> QED
  BY <1>5, <1>6, <1>7 DEF onAccounts, balanceOf

(* The two writes of a payment make no money, unless they fall on one      *)
(* account: then the credited row overwrites the debited one.              *)
LEMMA PaymentSums ==
  ASSUME NEW accs \in [AccountIds -> Account],
         NEW from \in AccountIds, NEW to \in AccountIds, NEW amount \in Nat,
         NEW mid \in [AccountIds -> Account], NEW new \in [AccountIds -> Account],
         isSum(balanceOf(accs, from), balanceOf(mid, from), amount),
         \A b \in AccountIds \ {from} : balanceOf(mid, b) = balanceOf(accs, b),
         isSum(balanceOf(new, to), balanceOf(accs, to), amount),
         \A b \in AccountIds \ {to} : balanceOf(new, b) = balanceOf(mid, b)
  PROVE  /\ from # to => onAccounts(new) = onAccounts(accs)
         /\ from = to => isSum(onAccounts(new), onAccounts(accs), amount)
<1>2. /\ onAccounts(mid) + balanceOf(accs, from) = onAccounts(accs) + balanceOf(mid, from)
      /\ onAccounts(accs) \in Nat
  BY WriteSums
<1>3. /\ onAccounts(new) + balanceOf(mid, to) = onAccounts(mid) + balanceOf(new, to)
      /\ onAccounts(mid) \in Nat /\ onAccounts(new) \in Nat
  BY WriteSums
<1> PICK b \in Nat : b = balanceOf(accs, from)
  BY BalancesAreNat
<1> PICK c \in Nat : c = balanceOf(accs, to)
  BY BalancesAreNat
<1> PICK d \in Nat : d = balanceOf(mid, from)
  BY BalancesAreNat
<1> PICK e \in Nat : e = balanceOf(new, to)
  BY BalancesAreNat
<1> PICK x \in Nat : x = onAccounts(accs)
  BY <1>2
<1> PICK y \in Nat : y = onAccounts(mid)
  BY <1>3
<1> PICK z \in Nat : z = onAccounts(new)
  BY <1>3
<1>7. y + b = x + d /\ b = d + amount /\ e = c + amount
  BY <1>2 DEF isSum
<1>4. CASE from # to
  <2>1. balanceOf(mid, to) = c
    BY <1>4
  <2>2. z + c = y + e
    BY <1>3, <2>1
  <2>3. z = x
    BY <1>7, <2>2
  <2> QED
    BY <1>4, <2>3
<1>5. CASE from = to
  <2>1. balanceOf(mid, to) = d /\ b = c
    BY <1>5
  <2>2. z + d = y + e
    BY <1>3, <2>1
  <2>3. z = x + amount
    BY <1>7, <2>1, <2>2
  <2> QED
    BY <1>5, <2>3 DEF isSum
<1> QED
  BY <1>4, <1>5

(* The sums are natural numbers. *)
LEMMA TalliesAreNat ==
  ASSUME NEW accs \in [AccountIds -> Account], NEW ts \in Seq(Transfer)
  PROVE  /\ onAccounts(accs) \in Nat
         /\ openings \in Nat
         /\ total(ts, faucets(ts)) \in Nat
         /\ total(ts, toSelf(ts)) \in Nat
<1>1. IsFiniteSet(AccountIds) /\ \A a \in AccountIds : OpeningBalance[a] \in Nat
  BY PaymentsAssumption
<1>2. openings \in Nat
  BY <1>1, SumTyped DEF openings
<1> DEFINE f == [a \in AccountIds |-> accs[a].balance]
<1>3. \A a \in AccountIds : f[a] \in Nat
  BY DEF Account
<1>4. onAccounts(accs) = SumFunctionOnSet(f, AccountIds)
  BY DEF onAccounts
<1> HIDE DEF f
<1>5. onAccounts(accs) \in Nat
  BY <1>1, <1>3, <1>4, SumTyped
<1>6. faucets(ts) \in SUBSET Rows(ts) /\ toSelf(ts) \in SUBSET Rows(ts)
  BY DEF faucets, toSelf
<1> QED
  BY <1>2, <1>5, <1>6, TotalTyped

LEMMA AmountIsNat ==
  ASSUME NEW row \in Transfer
  PROVE  amountOf(row) \in Nat
BY PaymentsAssumption DEF Transfer, amountOf

(* A payment that is posted at once. *)
LEMMA PostTallies ==
  ASSUME NEW accs \in [AccountIds -> Account], NEW ts \in Seq(Transfer),
         NEW row \in Transfer, NEW us,
         NEW mid \in [AccountIds -> Account], NEW new \in [AccountIds -> Account],
         NEW base \in Int, Tallied(accs, ts, base), NEW n, Inserted(ts, us, n, row),
         row.status = "posted", row.kind # "faucet", row.rail \notin BatchRails,
         row.from \in AccountIds, row.to \in AccountIds,
         isSum(balanceOf(accs, row.from), balanceOf(mid, row.from), amountOf(row)),
         holdOf(mid, row.from) = holdOf(accs, row.from),
         \A b \in AccountIds \ {row.from} : mid[b] = accs[b],
         isSum(balanceOf(new, row.to), balanceOf(accs, row.to), amountOf(row)),
         holdOf(new, row.to) = holdOf(accs, row.to),
         \A b \in AccountIds \ {row.to} : new[b] = mid[b]
  PROVE  Tallied(new, us, base)
<1>1. /\ Rows(us) = Rows(ts) \cup {n} /\ n \notin Rows(ts)
      /\ us[n] = row /\ \A t \in Rows(ts) : us[t] = ts[t]
  BY InsertedRows
<1>8. \A S \in SUBSET Rows(ts) :
        /\ total(us, S) = total(ts, S)
        /\ isSum(total(us, S \cup {n}), total(ts, S), amountOf(row))
  <2> SUFFICES ASSUME NEW S \in SUBSET Rows(ts)
               PROVE  /\ total(us, S) = total(ts, S)
                      /\ isSum(total(us, S \cup {n}), total(ts, S), amountOf(row))
    OBVIOUS
  <2> QED
    BY TotalInserted
<1>2. \A a \in AccountIds : holdOf(new, a) = holdOf(accs, a)
  BY DEF holdOf
<1>3. \A a \in AccountIds : pendingOf(us, a) = pendingOf(ts, a)
  BY <1>1 DEF pendingOf
<1>4. \A a \in AccountIds : keptHolds(us, a) = keptHolds(ts, a)
  BY <1>1 DEF keptHolds, toSelf
<1>5. Accounted(new, us)
  <2> SUFFICES ASSUME NEW a \in AccountIds
               PROVE  holdOf(new, a) = total(us, pendingOf(us, a)) + total(us, keptHolds(us, a))
    BY DEF Accounted
  <2>1. pendingOf(ts, a) \in SUBSET Rows(ts) /\ keptHolds(ts, a) \in SUBSET Rows(ts)
    BY DEF pendingOf, keptHolds, toSelf
  <2>2. /\ total(us, pendingOf(ts, a)) = total(ts, pendingOf(ts, a))
        /\ total(us, keptHolds(ts, a)) = total(ts, keptHolds(ts, a))
    BY <2>1, <1>8
  <2> QED
    BY <1>2, <1>3, <1>4, <2>2 DEF Tallied, Accounted
<1>6. Conserved(new, us, base)
  <2> PICK amount \in Nat : amount = amountOf(row)
    BY AmountIsNat
  <2> PICK from \in AccountIds, to \in AccountIds : from = row.from /\ to = row.to
    OBVIOUS
  <2>6. /\ isSum(balanceOf(accs, from), balanceOf(mid, from), amount)
        /\ \A b \in AccountIds \ {from} : balanceOf(mid, b) = balanceOf(accs, b)
        /\ isSum(balanceOf(new, to), balanceOf(accs, to), amount)
        /\ \A b \in AccountIds \ {to} : balanceOf(new, b) = balanceOf(mid, b)
    BY DEF balanceOf
  <2>1. /\ from # to => onAccounts(new) = onAccounts(accs)
        /\ from = to => isSum(onAccounts(new), onAccounts(accs), amount)
    BY <2>6, PaymentSums
  <2>2. faucets(us) = faucets(ts) /\ faucets(ts) \in SUBSET Rows(ts)
    BY <1>1 DEF faucets
  <2>3. toSelf(ts) \in SUBSET Rows(ts)
    BY DEF toSelf
  <2>4. /\ total(us, faucets(ts)) = total(ts, faucets(ts))
        /\ total(us, toSelf(ts)) = total(ts, toSelf(ts))
        /\ isSum(total(us, toSelf(ts) \cup {n}), total(ts, toSelf(ts)), amountOf(row))
    BY <2>2, <2>3, <1>8
  <2>5. /\ row.from # row.to => toSelf(us) = toSelf(ts)
        /\ row.from = row.to => toSelf(us) = toSelf(ts) \cup {n}
    BY <1>1 DEF toSelf
  <2> PICK p \in Nat : p = total(ts, faucets(ts))
    BY TalliesAreNat
  <2> PICK q \in Nat : q = total(ts, toSelf(ts))
    BY TalliesAreNat
  <2>7. onAccounts(accs) = base + p + q
    BY DEF Tallied, Conserved
  <2>8. CASE row.from = row.to
    <3>1. total(us, toSelf(us)) = q + amount /\ total(us, faucets(us)) = p
      BY <2>2, <2>4, <2>5, <2>8 DEF isSum
    <3>2. onAccounts(new) = (base + p + q) + amount
      BY <2>1, <2>7, <2>8 DEF isSum
    <3> QED
      BY <3>1, <3>2 DEF Conserved
  <2>9. CASE row.from # row.to
    <3>1. total(us, toSelf(us)) = q /\ total(us, faucets(us)) = p
      BY <2>2, <2>4, <2>5, <2>9
    <3>2. onAccounts(new) = base + p + q
      BY <2>1, <2>7, <2>9
    <3> QED
      BY <3>1, <3>2 DEF Conserved
  <2> QED
    BY <2>8, <2>9
<1>7. PendingOnBatchRail(us)
  BY <1>1 DEF Tallied, PendingOnBatchRail
<1> QED
  BY <1>5, <1>6, <1>7 DEF Tallied

(* A pending row and its hold. *)
LEMMA PendingTallies ==
  ASSUME NEW accs \in [AccountIds -> Account], NEW ts \in Seq(Transfer),
         NEW row \in Transfer, NEW us, NEW new \in [AccountIds -> Account],
         NEW base \in Int, Tallied(accs, ts, base), NEW n, Inserted(ts, us, n, row),
         row.status = "pending", row.kind # "faucet", row.rail \in BatchRails,
         row.from \in AccountIds,
         balanceOf(new, row.from) = balanceOf(accs, row.from),
         isSum(holdOf(new, row.from), holdOf(accs, row.from), amountOf(row)),
         \A b \in AccountIds \ {row.from} : new[b] = accs[b]
  PROVE  Tallied(new, us, base)
<1>1. /\ Rows(us) = Rows(ts) \cup {n} /\ n \notin Rows(ts)
      /\ us[n] = row /\ \A t \in Rows(ts) : us[t] = ts[t]
  BY InsertedRows
<1>8. \A S \in SUBSET Rows(ts) :
        /\ total(us, S) = total(ts, S)
        /\ isSum(total(us, S \cup {n}), total(ts, S), amountOf(row))
  <2> SUFFICES ASSUME NEW S \in SUBSET Rows(ts)
               PROVE  /\ total(us, S) = total(ts, S)
                      /\ isSum(total(us, S \cup {n}), total(ts, S), amountOf(row))
    OBVIOUS
  <2> QED
    BY TotalInserted
<1>2. \A a \in AccountIds : balanceOf(new, a) = balanceOf(accs, a)
  BY DEF balanceOf
<1>3. toSelf(us) = toSelf(ts) /\ faucets(us) = faucets(ts)
  BY <1>1 DEF toSelf, faucets
<1>4. toSelf(ts) \in SUBSET Rows(ts) /\ faucets(ts) \in SUBSET Rows(ts)
  BY DEF toSelf, faucets
<1>5. Accounted(new, us)
  <2> SUFFICES ASSUME NEW a \in AccountIds
               PROVE  holdOf(new, a) = total(us, pendingOf(us, a)) + total(us, keptHolds(us, a))
    BY DEF Accounted
  <2>1. pendingOf(ts, a) \in SUBSET Rows(ts) /\ keptHolds(ts, a) \in SUBSET Rows(ts)
    BY DEF pendingOf, keptHolds, toSelf
  <2>2. /\ total(us, pendingOf(ts, a)) = total(ts, pendingOf(ts, a))
        /\ isSum(total(us, pendingOf(ts, a) \cup {n}), total(ts, pendingOf(ts, a)), amountOf(row))
        /\ total(us, keptHolds(ts, a)) = total(ts, keptHolds(ts, a))
    BY <2>1, <1>8
  <2>3. keptHolds(us, a) = keptHolds(ts, a)
    BY <1>1, <1>3 DEF keptHolds, toSelf
  <2>4. /\ row.from # a => pendingOf(us, a) = pendingOf(ts, a)
        /\ row.from = a => pendingOf(us, a) = pendingOf(ts, a) \cup {n}
    BY <1>1 DEF pendingOf
  <2> PICK amount \in Nat : amount = amountOf(row)
    BY AmountIsNat
  <2> PICK p \in Nat : p = total(ts, pendingOf(ts, a))
    BY <2>1, TotalTyped
  <2> PICK k \in Nat : k = total(ts, keptHolds(ts, a))
    BY <2>1, TotalTyped
  <2>5. holdOf(accs, a) = p + k
    BY DEF Tallied, Accounted
  <2>8. total(us, keptHolds(us, a)) = k
    BY <2>2, <2>3
  <2>6. CASE row.from = a
    <3>1. total(us, pendingOf(us, a)) = p + amount
      BY <2>2, <2>4, <2>6 DEF isSum
    <3>2. holdOf(new, a) = (p + k) + amount
      BY <2>5, <2>6 DEF isSum
    <3> QED
      BY <2>8, <3>1, <3>2
  <2>7. CASE row.from # a
    <3>1. total(us, pendingOf(us, a)) = p
      BY <2>2, <2>4, <2>7
    <3>2. holdOf(new, a) = p + k
      BY <2>5, <2>7 DEF holdOf
    <3> QED
      BY <2>8, <3>1, <3>2
  <2> QED
    BY <2>6, <2>7
<1>6. Conserved(new, us, base)
  <2>1. onAccounts(new) = onAccounts(accs)
    BY <1>2 DEF onAccounts, balanceOf
  <2>2. /\ total(us, faucets(ts)) = total(ts, faucets(ts))
        /\ total(us, toSelf(ts)) = total(ts, toSelf(ts))
    BY <1>4, <1>8
  <2> QED
    BY <1>3, <2>1, <2>2 DEF Tallied, Conserved
<1>7. PendingOnBatchRail(us)
  BY <1>1 DEF Tallied, PendingOnBatchRail
<1> QED
  BY <1>5, <1>6, <1>7 DEF Tallied

(* One balance grows by what a payment brings. *)
LEMMA CreditSums ==
  ASSUME NEW accs \in [AccountIds -> Account], NEW a \in AccountIds, NEW amount \in Nat,
         NEW new \in [AccountIds -> Account],
         isSum(balanceOf(new, a), balanceOf(accs, a), amount),
         \A b \in AccountIds \ {a} : balanceOf(new, b) = balanceOf(accs, b)
  PROVE  isSum(onAccounts(new), onAccounts(accs), amount)
<1>1. /\ onAccounts(new) + balanceOf(accs, a) = onAccounts(accs) + balanceOf(new, a)
      /\ onAccounts(accs) \in Nat /\ onAccounts(new) \in Nat
  BY WriteSums
<1> PICK b \in Nat : b = balanceOf(accs, a)
  BY BalancesAreNat
<1> PICK c \in Nat : c = balanceOf(new, a)
  BY BalancesAreNat
<1> QED
  BY <1>1 DEF isSum

(* One transfer taken out of a set of them, or put in. *)
LEMMA TotalWithout ==
  ASSUME NEW ts \in Seq(Transfer), NEW S \in SUBSET Rows(ts), NEW u \in S
  PROVE  isSum(total(ts, S), total(ts, S \ {u}), amountOf(ts[u]))
<1> PICK p \in Nat : p = ts[u].amount
  BY RowsAre
<1> PICK q \in Nat : q = total(ts, S \ {u})
  BY TotalTyped
<1>1. total(ts, S) = p + q
  BY TotalTakes
<1> QED
  BY <1>1 DEF isSum, amountOf

LEMMA TotalWith ==
  ASSUME NEW ts \in Seq(Transfer), NEW S \in SUBSET Rows(ts), NEW u \in Rows(ts), u \notin S
  PROVE  isSum(total(ts, S \cup {u}), total(ts, S), amountOf(ts[u]))
<1>1. S \cup {u} \in SUBSET Rows(ts) /\ u \in S \cup {u} /\ (S \cup {u}) \ {u} = S
  OBVIOUS
<1>2. isSum(total(ts, S \cup {u}), total(ts, (S \cup {u}) \ {u}), amountOf(ts[u]))
  BY <1>1, TotalWithout
<1> QED
  BY <1>1, <1>2

(* A hold h is the sum of the pending transfers P and of the kept holds K. *)
(* It still is when a pending transfer u becomes a kept hold; less the     *)
(* amount of u it is the sum without u.                                    *)
LEMMA HoldKept ==
  ASSUME NEW ts \in Seq(Transfer), NEW P \in SUBSET Rows(ts), NEW K \in SUBSET Rows(ts),
         NEW u \in P, u \notin K,
         NEW h \in Nat, isSum(h, total(ts, P), total(ts, K))
  PROVE  isSum(h, total(ts, P \ {u}), total(ts, K \cup {u}))
<1>1. /\ isSum(total(ts, P), total(ts, P \ {u}), amountOf(ts[u]))
      /\ isSum(total(ts, K \cup {u}), total(ts, K), amountOf(ts[u]))
  BY TotalWithout, TotalWith
<1>2. /\ total(ts, P) \in Nat /\ total(ts, P \ {u}) \in Nat
      /\ total(ts, K) \in Nat /\ total(ts, K \cup {u}) \in Nat
      /\ amountOf(ts[u]) \in Nat
  BY TotalTyped, RowsAre, AmountIsNat
<1>3. \A p, r, k, l, amount \in Nat :
        isSum(h, p, k) /\ isSum(p, r, amount) /\ isSum(l, k, amount) => isSum(h, r, l)
  BY DEF isSum
<1> QED
  BY <1>1, <1>2, <1>3

LEMMA HoldTaken ==
  ASSUME NEW ts \in Seq(Transfer), NEW P \in SUBSET Rows(ts), NEW K \in SUBSET Rows(ts),
         NEW u \in P,
         NEW h \in Nat, isSum(h, total(ts, P), total(ts, K)),
         NEW m \in Nat, isSum(h, m, amountOf(ts[u]))
  PROVE  isSum(m, total(ts, P \ {u}), total(ts, K))
<1>1. isSum(total(ts, P), total(ts, P \ {u}), amountOf(ts[u]))
  BY TotalWithout
<1>2. /\ total(ts, P) \in Nat /\ total(ts, P \ {u}) \in Nat
      /\ total(ts, K) \in Nat /\ amountOf(ts[u]) \in Nat
  BY TotalTyped, RowsAre, AmountIsNat
<1>3. \A p, r, k, amount \in Nat :
        isSum(h, p, k) /\ isSum(h, m, amount) /\ isSum(p, r, amount) => isSum(m, r, k)
  BY DEF isSum
<1> QED
  BY <1>1, <1>2, <1>3

(* A deposit from nowhere. *)
LEMMA FaucetTallies ==
  ASSUME NEW accs \in [AccountIds -> Account], NEW ts \in Seq(Transfer),
         NEW row \in Transfer, NEW us, NEW new \in [AccountIds -> Account],
         NEW base \in Int, Tallied(accs, ts, base), NEW n, Inserted(ts, us, n, row),
         row.status = "posted", row.kind = "faucet", row.from # row.to,
         row.to \in AccountIds,
         isSum(balanceOf(new, row.to), balanceOf(accs, row.to), amountOf(row)),
         holdOf(new, row.to) = holdOf(accs, row.to),
         \A b \in AccountIds \ {row.to} : new[b] = accs[b]
  PROVE  Tallied(new, us, base)
<1>1. /\ Rows(us) = Rows(ts) \cup {n} /\ n \notin Rows(ts)
      /\ us[n] = row /\ \A t \in Rows(ts) : us[t] = ts[t]
  BY InsertedRows
<1>2. ASSUME NEW S \in SUBSET Rows(ts)
      PROVE  /\ total(us, S) = total(ts, S)
             /\ isSum(total(us, S \cup {n}), total(ts, S), amountOf(row))
  BY TotalInserted
<1>3. \A a \in AccountIds : holdOf(new, a) = holdOf(accs, a)
  BY DEF holdOf
<1>4. \A a \in AccountIds :
        pendingOf(us, a) = pendingOf(ts, a) /\ keptHolds(us, a) = keptHolds(ts, a)
  BY <1>1 DEF pendingOf, keptHolds, toSelf
<1>5. \A a \in AccountIds :
        pendingOf(ts, a) \in SUBSET Rows(ts) /\ keptHolds(ts, a) \in SUBSET Rows(ts)
  BY DEF pendingOf, keptHolds, toSelf
<1>6. Accounted(new, us)
  BY <1>2, <1>3, <1>4, <1>5 DEF Accounted, Tallied
<1>7. Conserved(new, us, base)
  <2> PICK amount \in Nat : amount = amountOf(row)
    BY AmountIsNat
  <2> PICK to \in AccountIds : to = row.to
    OBVIOUS
  <2>2. /\ isSum(balanceOf(new, to), balanceOf(accs, to), amount)
        /\ \A b \in AccountIds \ {to} : balanceOf(new, b) = balanceOf(accs, b)
    BY DEF balanceOf
  <2>3. isSum(onAccounts(new), onAccounts(accs), amount)
    BY <2>2, CreditSums
  <2> PICK p \in Nat : p = total(ts, faucets(ts))
    BY TalliesAreNat
  <2> PICK q \in Nat : q = total(ts, toSelf(ts))
    BY TalliesAreNat
  <2>5. onAccounts(accs) = base + p + q
    BY DEF Tallied, Conserved
  <2>6. /\ toSelf(us) = toSelf(ts) /\ toSelf(ts) \in SUBSET Rows(ts)
        /\ faucets(us) = faucets(ts) \cup {n} /\ faucets(ts) \in SUBSET Rows(ts)
    BY <1>1 DEF toSelf, faucets
  <2>7. /\ total(us, toSelf(us)) = q
        /\ isSum(total(us, faucets(us)), p, amount)
    BY <1>2, <2>6
  <2>8. total(us, faucets(us)) = p + amount
    BY <2>7 DEF isSum
  <2>9. onAccounts(new) = (base + p + q) + amount
    BY <2>3, <2>5 DEF isSum
  <2> QED
    BY <2>7, <2>8, <2>9 DEF Conserved
<1>8. PendingOnBatchRail(us)
  BY <1>1 DEF Tallied, PendingOnBatchRail
<1> QED
  BY <1>6, <1>7, <1>8 DEF Tallied

(* A pending transfer that is posted.  The two account rows were read      *)
(* before either was written: with one account at both ends the hold that  *)
(* was released comes back, and the amount is not debited.                 *)
Settled(ts, us, u, from, to, amount) ==
  /\ Rewritten(ts, us, u)
  /\ ts[u].status = "pending" /\ us[u].status = "posted"
  /\ ts[u].from = from /\ ts[u].to = to /\ amountOf(ts[u]) = amount

LEMMA SettleTallies ==
  ASSUME NEW accs \in [AccountIds -> Account], NEW ts \in Seq(Transfer),
         NEW us, NEW u, NEW base \in Int, Tallied(accs, ts, base),
         NEW from \in AccountIds, NEW to \in AccountIds, NEW amount \in Nat,
         Settled(ts, us, u, from, to, amount),
         NEW mid \in [AccountIds -> Account], NEW new \in [AccountIds -> Account],
         isSum(balanceOf(accs, from), balanceOf(mid, from), amount),
         isSum(holdOf(accs, from), holdOf(mid, from), amount),
         \A b \in AccountIds \ {from} : mid[b] = accs[b],
         isSum(balanceOf(new, to), balanceOf(accs, to), amount),
         holdOf(new, to) = holdOf(accs, to),
         \A b \in AccountIds \ {to} : new[b] = mid[b]
  PROVE  Tallied(new, us, base)
<1>1. /\ Rows(us) = Rows(ts) /\ u \in Rows(ts)
      /\ \A t \in Rows(ts) :
           /\ us[t].from = ts[t].from /\ us[t].to = ts[t].to
           /\ us[t].kind = ts[t].kind /\ us[t].rail = ts[t].rail
           /\ t # u => us[t].status = ts[t].status
      /\ ts[u].status = "pending" /\ us[u].status = "posted"
      /\ ts[u].from = from /\ ts[u].to = to
  BY DEF Settled, Rewritten, Rows
<1>9. amountOf(ts[u]) = amount
  BY DEF Settled
<1>2. ASSUME NEW S \in SUBSET Rows(ts)
      PROVE  total(us, S) = total(ts, S)
  BY TotalRewritten DEF Settled
<1>3. ts[u].rail \in BatchRails
  BY <1>1 DEF Tallied, PendingOnBatchRail
<1>4. toSelf(ts) \in SUBSET Rows(ts) /\ faucets(ts) \in SUBSET Rows(ts)
  BY DEF toSelf, faucets
<1>5. ASSUME NEW a \in AccountIds
      PROVE  /\ pendingOf(us, a) = pendingOf(ts, a) \ {u}
             /\ pendingOf(ts, a) \in SUBSET Rows(ts)
             /\ u \in pendingOf(ts, a) <=> a = from
             /\ keptHolds(ts, a) \in SUBSET Rows(ts)
             /\ u \notin keptHolds(ts, a)
             /\ from = to /\ a = from => keptHolds(us, a) = keptHolds(ts, a) \cup {u}
             /\ ~ (from = to /\ a = from) => keptHolds(us, a) = keptHolds(ts, a)
  BY <1>1, <1>3 DEF pendingOf, keptHolds, toSelf
<1>6. Accounted(new, us)
  <2> SUFFICES ASSUME NEW a \in AccountIds
               PROVE  holdOf(new, a) = total(us, pendingOf(us, a)) + total(us, keptHolds(us, a))
    BY DEF Accounted
  <2> PICK P \in SUBSET Rows(ts) : P = pendingOf(ts, a)
    BY <1>5
  <2> PICK K \in SUBSET Rows(ts) : K = keptHolds(ts, a)
    BY <1>5
  <2>1. isSum(holdOf(accs, a), total(ts, P), total(ts, K))
    BY DEF Tallied, Accounted, isSum
  <2> PICK h \in Nat : h = holdOf(accs, a)
    BY BalancesAreNat
  <2>2. CASE a # from
    <3>3. u \notin P /\ pendingOf(us, a) = P \ {u}
      BY <1>5, <2>2
    <3>4. keptHolds(us, a) = K
      BY <1>5, <2>2
    <3>1. pendingOf(us, a) = P /\ keptHolds(us, a) = K
      BY <3>3, <3>4
    <3>2. holdOf(new, a) = holdOf(accs, a)
      BY <2>2 DEF holdOf
    <3> QED
      BY <1>2, <2>1, <3>1, <3>2 DEF isSum
  <2>3. CASE a = from
    <3>1. u \in P /\ pendingOf(us, a) = P \ {u} /\ u \notin K
      BY <1>5, <2>3
    <3>2. isSum(h, total(ts, P), total(ts, K))
      BY <2>1
    <3>3. total(us, pendingOf(us, a)) = total(ts, P \ {u})
      BY <1>2, <3>1
    <3>4. CASE from = to
      <4>1. keptHolds(us, a) = K \cup {u} /\ K \cup {u} \in SUBSET Rows(ts)
        BY <1>1, <1>5, <2>3, <3>4
      <4>2. total(us, keptHolds(us, a)) = total(ts, K \cup {u})
        BY <1>2, <4>1
      <4>3. holdOf(new, a) = h
        BY <2>3, <3>4
      <4>4. isSum(h, total(ts, P \ {u}), total(ts, K \cup {u}))
        BY <3>1, <3>2, HoldKept
      <4> QED
        BY <3>3, <4>2, <4>3, <4>4 DEF isSum
    <3>5. CASE from # to
      <4>1. total(us, keptHolds(us, a)) = total(ts, K)
        BY <1>2, <1>5, <3>5
      <4>2. isSum(h, holdOf(mid, a), amountOf(ts[u])) /\ holdOf(mid, a) \in Nat
        BY <1>9, <2>3, BalancesAreNat
      <4>3. isSum(holdOf(mid, a), total(ts, P \ {u}), total(ts, K))
        BY <3>1, <3>2, <4>2, HoldTaken
      <4>4. holdOf(new, a) = holdOf(mid, a)
        BY <2>3, <3>5 DEF holdOf
      <4> QED
        BY <3>3, <4>1, <4>3, <4>4 DEF isSum
    <3> QED
      BY <3>4, <3>5
  <2> QED
    BY <2>2, <2>3
<1>7. Conserved(new, us, base)
  <2>1. /\ isSum(balanceOf(accs, from), balanceOf(mid, from), amount)
        /\ \A b \in AccountIds \ {from} : balanceOf(mid, b) = balanceOf(accs, b)
        /\ isSum(balanceOf(new, to), balanceOf(accs, to), amount)
        /\ \A b \in AccountIds \ {to} : balanceOf(new, b) = balanceOf(mid, b)
    BY DEF balanceOf
  <2>2. /\ from # to => onAccounts(new) = onAccounts(accs)
        /\ from = to => isSum(onAccounts(new), onAccounts(accs), amount)
    BY <2>1, PaymentSums
  <2> PICK p \in Nat : p = total(ts, faucets(ts))
    BY TalliesAreNat
  <2> PICK q \in Nat : q = total(ts, toSelf(ts))
    BY TalliesAreNat
  <2>3. onAccounts(accs) = base + p + q
    BY DEF Tallied, Conserved
  <2>4. total(us, faucets(us)) = p
    <3>1. faucets(us) = faucets(ts)
      BY <1>1 DEF faucets
    <3> QED
      BY <1>2, <1>4, <3>1
  <2>5. CASE from = to
    <3>1. toSelf(us) = toSelf(ts) \cup {u} /\ u \notin toSelf(ts)
      BY <1>1, <2>5 DEF toSelf
    <3>2. isSum(total(ts, toSelf(ts) \cup {u}), q, amount)
      BY <1>1, <1>4, <1>9, <3>1, TotalWith
    <3>3. total(us, toSelf(us)) = total(ts, toSelf(ts) \cup {u})
      BY <1>1, <1>2, <1>4, <3>1
    <3>4. total(us, toSelf(us)) = q + amount
      BY <3>2, <3>3 DEF isSum
    <3>5. onAccounts(new) = (base + p + q) + amount
      BY <2>2, <2>3, <2>5 DEF isSum
    <3> QED
      BY <2>4, <3>4, <3>5 DEF Conserved
  <2>6. CASE from # to
    <3>1. toSelf(us) = toSelf(ts)
      BY <1>1, <2>6 DEF toSelf
    <3>2. total(us, toSelf(us)) = q
      BY <1>2, <1>4, <3>1
    <3>3. onAccounts(new) = base + p + q
      BY <2>2, <2>3, <2>6
    <3> QED
      BY <2>4, <3>2, <3>3 DEF Conserved
  <2> QED
    BY <2>5, <2>6
<1>8. PendingOnBatchRail(us)
  BY <1>1 DEF Tallied, PendingOnBatchRail
<1> QED
  BY <1>6, <1>7, <1>8 DEF Tallied

(* A step that moves no money: a new UTR, a new status of an account.      *)
LEMMA QuietTallies ==
  ASSUME NEW accs, NEW ts \in Seq(Transfer), NEW us, NEW new,
         NEW base \in Int, Tallied(accs, ts, base),
         Rows(us) = Rows(ts),
         \A t \in Rows(ts) :
           /\ us[t].amount = ts[t].amount /\ us[t].status = ts[t].status
           /\ us[t].from = ts[t].from /\ us[t].to = ts[t].to
           /\ us[t].kind = ts[t].kind /\ us[t].rail = ts[t].rail,
         \A a \in AccountIds : new[a].balance = accs[a].balance /\ new[a].hold = accs[a].hold
  PROVE  Tallied(new, us, base)
<1>1. ASSUME NEW S \in SUBSET Rows(ts)
      PROVE  total(us, S) = total(ts, S)
  BY TotalSame
<1>2. /\ toSelf(us) = toSelf(ts) /\ toSelf(ts) \in SUBSET Rows(ts)
      /\ faucets(us) = faucets(ts) /\ faucets(ts) \in SUBSET Rows(ts)
  BY DEF toSelf, faucets
<1>3. ASSUME NEW a \in AccountIds
      PROVE  /\ pendingOf(us, a) = pendingOf(ts, a) /\ pendingOf(ts, a) \in SUBSET Rows(ts)
             /\ keptHolds(us, a) = keptHolds(ts, a) /\ keptHolds(ts, a) \in SUBSET Rows(ts)
  BY <1>2 DEF pendingOf, keptHolds, toSelf
<1>4. onAccounts(new) = onAccounts(accs)
  BY DEF onAccounts
<1>5. Accounted(new, us)
  BY <1>1, <1>3 DEF holdOf, Tallied, Accounted
<1>6. Conserved(new, us, base)
  BY <1>1, <1>2, <1>4 DEF Tallied, Conserved
<1>7. PendingOnBatchRail(us)
  BY DEF Tallied, PendingOnBatchRail
<1> QED
  BY <1>5, <1>6, <1>7 DEF Tallied

-----------------------------------------------------------------------------
(* What the money is kept by, whatever the ledger says: a module that      *)
(* moves money without ledger rows keeps these.                            *)
Tables == TypeOK /\ KeyPaysOnce /\ PendingHasSource

(* debit leaves a typed row, and is not for deposits. *)
LEMMA DebitIsTyped ==
  ASSUME NEW acc \in Account, NEW type, NEW amount \in Nat,
         canDebit(acc, type, amount)
  PROVE  debit(acc, amount) \in Account /\ type # "fixed_deposit"
BY DEF canDebit, availableBalance, debit, Account, AccountStatuses

LEMMA CreditIsTyped ==
  ASSUME NEW acc \in Account, NEW amount \in Nat
  PROVE  credit(acc, amount) \in Account
BY DEF credit, Account, AccountStatuses

(* The steps. *)

LEMMA InsertedRow ==
  ASSUME TypeOK, NEW from \in AccountIds \cup {NoAccount}, NEW to \in AccountIds,
         NEW amount \in Amounts, NEW key \in Keys \cup {NoKey},
         NEW kind \in {"transfer", "faucet", "reversal"},
         NEW status \in {"pending", "posted"},
         NEW rail \in InstantRails \cup BatchRails \cup {"internal"},
         NEW category \in {"p2p", "self", "bill", "card", "faucet"},
         insertTransfer(from, to, amount, key, kind, status, rail, category)
  PROVE  \E row \in Transfer, n \in Nat :
           /\ Inserted(transfers, transfers', n, row)
           /\ row.from = from /\ row.to = to /\ amountOf(row) = amount
           /\ row.kind = kind /\ row.status = status /\ row.rail = rail
           /\ row.category = category /\ row.day = day /\ row.key = key
<1> DEFINE row == [ from |-> from, to |-> to, amount |-> amount, key |-> key,
                    kind |-> kind, status |-> status, rail |-> rail,
                    category |-> category, day |-> day,
                    utr |-> IF status = "pending" \/ kind = "reversal" THEN 1 ELSE 0 ]
<1>1. row \in Transfer
  BY DEF TypeOK, Transfer
<1>2. transfers \in Seq(Transfer) /\ transfers' = Append(transfers, row)
  BY DEF TypeOK, insertTransfer
<1>3. /\ row.from = from /\ row.to = to /\ amountOf(row) = amount
      /\ row.kind = kind /\ row.status = status /\ row.rail = rail
      /\ row.category = category /\ row.day = day /\ row.key = key
  BY DEF amountOf
<1> HIDE DEF row
<1>4. Inserted(transfers, transfers', Len(transfers) + 1, row) /\ Len(transfers) + 1 \in Nat
  BY <1>1, <1>2 DEF Inserted, Rows
<1> QED
  BY <1>1, <1>3, <1>4

(* The row of a deposit from nowhere, and a pending row. *)
LEMMA FaucetRow ==
  ASSUME TypeOK, NEW to \in AccountIds, NEW amount \in Amounts,
         NEW key \in Keys \cup {NoKey}, FaucetDeposit(to, amount, key)
  PROVE  \E row \in Transfer, n \in Nat :
           /\ Inserted(transfers, transfers', n, row)
           /\ row.from = NoAccount /\ row.to = to /\ amountOf(row) = amount
           /\ row.kind = "faucet" /\ row.status = "posted" /\ row.rail = "internal"
<1> PICK from \in AccountIds \cup {NoAccount} : from = NoAccount
  OBVIOUS
<1> PICK kind \in {"transfer", "faucet", "reversal"} : kind = "faucet"
  OBVIOUS
<1> PICK status \in {"pending", "posted"} : status = "posted"
  OBVIOUS
<1> PICK rail \in InstantRails \cup BatchRails \cup {"internal"} : rail = "internal"
  OBVIOUS
<1> PICK category \in {"p2p", "self", "bill", "card", "faucet"} : category = "faucet"
  OBVIOUS
<1>1. insertTransfer(from, to, amount, key, kind, status, rail, category)
  BY DEF FaucetDeposit
<1>2. \E row \in Transfer, n \in Nat :
        /\ Inserted(transfers, transfers', n, row)
        /\ row.from = from /\ row.to = to /\ amountOf(row) = amount
        /\ row.kind = kind /\ row.status = status /\ row.rail = rail
        /\ row.category = category /\ row.day = day
  BY <1>1, InsertedRow
<1> QED
  BY <1>2

LEMMA PendingRow ==
  ASSUME TypeOK, NEW from \in AccountIds, NEW to \in AccountIds, NEW amount \in Amounts,
         NEW key \in Keys \cup {NoKey}, NEW rail \in BatchRails,
         CreatePendingRailTransfer(from, to, amount, key, rail)
  PROVE  \E row \in Transfer, n \in Nat :
           /\ Inserted(transfers, transfers', n, row)
           /\ row.from = from /\ row.to = to /\ amountOf(row) = amount
           /\ row.kind = "transfer" /\ row.status = "pending" /\ row.rail = rail
<1> PICK category \in {"p2p", "self", "bill", "card", "faucet"} :
           category = categoryOf(from, to)
  BY DEF categoryOf
<1>1. insertTransfer(from, to, amount, key, "transfer", "pending", rail, category)
  BY DEF CreatePendingRailTransfer
<1>2. \E row \in Transfer, n \in Nat :
        /\ Inserted(transfers, transfers', n, row)
        /\ row.from = from /\ row.to = to /\ amountOf(row) = amount
        /\ row.kind = "transfer" /\ row.status = "pending" /\ row.rail = rail
        /\ row.category = category /\ row.day = day
  BY <1>1, InsertedRow
<1> QED
  BY <1>2

(* What a debit and a credit do to an account row. *)
LEMMA DebitMoves ==
  ASSUME NEW acc \in Account, NEW amount \in Nat
  PROVE  /\ isSum(acc.balance, debit(acc, amount).balance, amount)
         /\ debit(acc, amount).hold = acc.hold
BY DEF isSum, debit, Account

LEMMA CreditMoves ==
  ASSUME NEW acc \in Account, NEW amount \in Nat
  PROVE  /\ isSum(credit(acc, amount).balance, acc.balance, amount)
         /\ credit(acc, amount).hold = acc.hold
BY DEF isSum, credit, Account

(* A payment that is posted at once: what executeTransfer and PayBill do.  *)
LEMMA PostKeepsTallies ==
  ASSUME Tables, NEW base \in Int, Tallied(accounts, transfers, base),
         NEW from \in AccountIds, NEW to \in AccountIds,
         NEW amount \in Amounts, NEW key \in Keys \cup {NoKey},
         NEW rail \in InstantRails \cup {"internal"},
         NEW category \in {"p2p", "self", "bill", "card", "faucet"},
         postTransfer(from, to, amount, key, "transfer", rail, category)
  PROVE  Tallied(accounts', transfers', base)
<1> DEFINE debited == debit(accounts[from], amount)
           credited == credit(accounts[to], amount)
           mid == [accounts EXCEPT ![from] = debited]
<1>1. /\ amount \in Nat
      /\ accounts \in [AccountIds -> Account] /\ transfers \in Seq(Transfer)
      /\ accounts[from] \in Account /\ accounts[to] \in Account
      /\ AccountType[from] \in AccountTypes
  BY PaymentsAssumption DEF Tables, TypeOK
<1>2. debited \in Account /\ credited \in Account
  BY <1>1, DebitIsTyped, CreditIsTyped DEF postTransfer
<1>3. PICK row \in Transfer, n \in Nat :
        /\ Inserted(transfers, transfers', n, row)
        /\ row.from = from /\ row.to = to /\ amountOf(row) = amount
        /\ row.kind = "transfer" /\ row.status = "posted" /\ row.rail = rail
  <2>1. insertTransfer(from, to, amount, key, "transfer", "posted", rail, category)
    BY DEF postTransfer
  <2> QED
    BY <2>1, InsertedRow DEF Tables
<1>4. /\ isSum(accounts[from].balance, debited.balance, amount)
      /\ debited.hold = accounts[from].hold
      /\ isSum(credited.balance, accounts[to].balance, amount)
      /\ credited.hold = accounts[to].hold
  BY <1>1, DebitMoves, CreditMoves
<1>5. accounts' = [mid EXCEPT ![to] = credited]
  BY DEF postTransfer, updateBoth
<1> HIDE DEF debited, credited
<1>6. /\ mid \in [AccountIds -> Account] /\ mid[from] = debited
      /\ \A b \in AccountIds \ {from} : mid[b] = accounts[b]
  BY <1>1, <1>2
<1> HIDE DEF mid
<1>7. /\ accounts' \in [AccountIds -> Account] /\ accounts'[to] = credited
      /\ \A b \in AccountIds \ {to} : accounts'[b] = mid[b]
  BY <1>2, <1>5, <1>6
<1>8. /\ isSum(balanceOf(accounts, from), balanceOf(mid, from), amount)
      /\ holdOf(mid, from) = holdOf(accounts, from)
      /\ isSum(balanceOf(accounts', to), balanceOf(accounts, to), amount)
      /\ holdOf(accounts', to) = holdOf(accounts, to)
  BY <1>4, <1>6, <1>7 DEF balanceOf, holdOf
<1>9. rail \notin BatchRails
  BY PaymentsAssumption DEF BatchRails
<1> QED
  BY <1>1, <1>3, <1>6, <1>7, <1>8, <1>9, PostTallies

LEMMA HoldMoves ==
  ASSUME NEW acc \in Account, NEW amount \in Nat
  PROVE  /\ placeHold(acc, amount) \in Account
         /\ placeHold(acc, amount).balance = acc.balance
         /\ isSum(placeHold(acc, amount).hold, acc.hold, amount)
BY DEF placeHold, Account, AccountStatuses, isSum

(* A hold and the pending row it is for. *)
LEMMA CreatePendingKeepsTallies ==
  ASSUME Tables, NEW base \in Int, Tallied(accounts, transfers, base),
         NEW from \in AccountIds, NEW to \in AccountIds,
         NEW amount \in Amounts, NEW key \in Keys \cup {NoKey}, NEW rail \in BatchRails,
         CreatePendingRailTransfer(from, to, amount, key, rail)
  PROVE  Tallied(accounts', transfers', base)
<1> DEFINE held == placeHold(accounts[from], amount)
<1>1. /\ amount \in Nat
      /\ accounts \in [AccountIds -> Account] /\ transfers \in Seq(Transfer)
      /\ accounts[from] \in Account
  BY PaymentsAssumption DEF Tables, TypeOK
<1>2. /\ held \in Account /\ held.balance = accounts[from].balance
      /\ isSum(held.hold, accounts[from].hold, amount)
  BY <1>1, HoldMoves
<1>3. PICK row \in Transfer, n \in Nat :
        /\ Inserted(transfers, transfers', n, row)
        /\ row.from = from /\ row.to = to /\ amountOf(row) = amount
        /\ row.kind = "transfer" /\ row.status = "pending" /\ row.rail = rail
  BY PendingRow DEF Tables
<1>4. accounts' = [accounts EXCEPT ![from] = held]
  BY <1>1 DEF CreatePendingRailTransfer
<1> HIDE DEF held
<1>5. /\ accounts' \in [AccountIds -> Account] /\ accounts'[from] = held
      /\ \A b \in AccountIds \ {from} : accounts'[b] = accounts[b]
  BY <1>1, <1>2, <1>4
<1>6. /\ balanceOf(accounts', from) = balanceOf(accounts, from)
      /\ isSum(holdOf(accounts', from), holdOf(accounts, from), amount)
  BY <1>2, <1>5 DEF balanceOf, holdOf
<1> QED
  BY <1>1, <1>3, <1>5, <1>6, PendingTallies

(* A faucet deposit has no source account. *)
LEMMA FaucetKeepsTallies ==
  ASSUME Tables, NEW base \in Int, Tallied(accounts, transfers, base),
         NEW to \in AccountIds, NEW amount \in Amounts, NEW key \in Keys \cup {NoKey},
         FaucetDeposit(to, amount, key)
  PROVE  Tallied(accounts', transfers', base)
<1> DEFINE credited == credit(accounts[to], amount)
<1>1. /\ amount \in Nat
      /\ accounts \in [AccountIds -> Account] /\ transfers \in Seq(Transfer)
      /\ accounts[to] \in Account
  BY PaymentsAssumption DEF Tables, TypeOK
<1>2. credited \in Account
  BY <1>1, CreditIsTyped
<1>3. PICK row \in Transfer, n \in Nat :
        /\ Inserted(transfers, transfers', n, row)
        /\ row.from = NoAccount /\ row.to = to /\ amountOf(row) = amount
        /\ row.kind = "faucet" /\ row.status = "posted" /\ row.rail = "internal"
  BY FaucetRow DEF Tables
<1>4. isSum(credited.balance, accounts[to].balance, amount) /\ credited.hold = accounts[to].hold
  BY <1>1, CreditMoves
<1>5. accounts' = [accounts EXCEPT ![to] = credited]
  BY DEF FaucetDeposit
<1> HIDE DEF credited
<1>6. /\ accounts' \in [AccountIds -> Account] /\ accounts'[to] = credited
      /\ \A b \in AccountIds \ {to} : accounts'[b] = accounts[b]
  BY <1>1, <1>2, <1>5
<1>7. /\ isSum(balanceOf(accounts', to), balanceOf(accounts, to), amount)
      /\ holdOf(accounts', to) = holdOf(accounts, to)
  BY <1>4, <1>6 DEF balanceOf, holdOf
<1>8. row.from # row.to
  BY <1>3, PaymentsAssumption
<1> QED
  BY <1>1, <1>3, <1>6, <1>7, <1>8, FaucetTallies

(* What the release of a hold does to an account row. *)
LEMMA ReleaseMoves ==
  ASSUME NEW acc \in Account, NEW amount \in Nat, canReleaseHold(acc, amount)
  PROVE  /\ isSum(acc.hold, releaseHold(acc, amount).hold, amount)
         /\ releaseHold(acc, amount).balance = acc.balance
BY DEF isSum, releaseHold, canReleaseHold, Account

(* The row of a settled transfer. *)
LEMMA SettledRow ==
  ASSUME TypeOK, NEW t \in TransferIds, isPending(t), markPosted(t)
  PROVE  Settled(transfers, transfers', t, transfers[t].from, transfers[t].to,
                 amountOf(transfers[t]))
<1> DEFINE settled == [transfers[t] EXCEPT !.status = "posted", !.day = day]
<1>1. transfers \in Seq(Transfer) /\ transfers[t] \in Transfer /\ t \in Rows(transfers)
  BY DEF TypeOK, TransferIds, Rows
<1>2. /\ settled \in Transfer /\ settled.status = "posted"
      /\ settled.amount = transfers[t].amount
      /\ settled.from = transfers[t].from /\ settled.to = transfers[t].to
      /\ settled.kind = transfers[t].kind /\ settled.rail = transfers[t].rail
  BY <1>1 DEF Transfer, TypeOK
<1>3. transfers' = [transfers EXCEPT ![t] = settled]
  BY <1>1 DEF markPosted
<1> HIDE DEF settled
<1>4. /\ transfers' \in Seq(Transfer)
      /\ Len(transfers') = Len(transfers)
      /\ transfers'[t] = settled
      /\ \A u \in Rows(transfers) \ {t} : transfers'[u] = transfers[u]
  BY <1>1, <1>2, <1>3 DEF Rows
<1> QED
  BY <1>1, <1>2, <1>4 DEF Settled, Rewritten, isPending

LEMMA SettlePendingKeepsTallies ==
  ASSUME Tables, NEW base \in Int, Tallied(accounts, transfers, base),
         NEW t \in TransferIds, SettlePending(t)
  PROVE  Tallied(accounts', transfers', base)
<1> PICK from : from = transfers[t].from
  OBVIOUS
<1> PICK to : to = transfers[t].to
  OBVIOUS
<1> PICK amount : amount = amountOf(transfers[t])
  OBVIOUS
<1> DEFINE released == releaseHold(accounts[from], amount)
           debited == debit(released, amount)
           credited == credit(accounts[to], amount)
           mid == [accounts EXCEPT ![from] = debited]
<1>1. /\ from \in AccountIds /\ to \in AccountIds /\ amount \in Nat
      /\ accounts \in [AccountIds -> Account] /\ transfers \in Seq(Transfer)
  <2>1. transfers \in Seq(Transfer) /\ transfers[t] \in Transfer
    BY DEF Tables, TypeOK, TransferIds
  <2>2. to \in AccountIds /\ amount \in Nat
    BY <2>1, AmountIsNat DEF Transfer
  <2>3. from \in AccountIds
    BY DEF Tables, PendingHasSource, SettlePending, canSettle
  <2> QED
    BY <2>1, <2>2, <2>3 DEF Tables, TypeOK
<1>2. /\ accounts[from] \in Account /\ accounts[to] \in Account
      /\ AccountType[from] \in AccountTypes
  BY <1>1, PaymentsAssumption DEF Tables, TypeOK
<1>3. /\ canReleaseHold(accounts[from], amount)
      /\ canDebit(released, AccountType[from], amount)
      /\ canCredit(accounts[to], amount)
      /\ isPending(t)
  BY DEF SettlePending, canSettle, amountOf
<1>4. /\ markPosted(t)
      /\ accounts' = [mid EXCEPT ![to] = credited]
  BY DEF SettlePending, updateBoth, amountOf
<1>5. released \in Account
  BY <1>1, <1>2, <1>3, ReleaseIsTyped
<1>6. /\ isSum(accounts[from].hold, released.hold, amount)
      /\ released.balance = accounts[from].balance
  BY <1>1, <1>2, <1>3, ReleaseMoves
<1> HIDE DEF released
<1>7. debited \in Account /\ credited \in Account
  BY <1>1, <1>2, <1>3, <1>5, DebitIsTyped, CreditIsTyped
<1>8. /\ isSum(accounts[from].balance, debited.balance, amount)
      /\ isSum(accounts[from].hold, debited.hold, amount)
      /\ isSum(credited.balance, accounts[to].balance, amount)
      /\ credited.hold = accounts[to].hold
  BY <1>1, <1>2, <1>5, <1>6, DebitMoves, CreditMoves
<1> HIDE DEF debited, credited
<1>9. /\ mid \in [AccountIds -> Account] /\ mid[from] = debited
      /\ \A b \in AccountIds \ {from} : mid[b] = accounts[b]
  BY <1>1, <1>7
<1> HIDE DEF mid
<1>10. /\ accounts' \in [AccountIds -> Account] /\ accounts'[to] = credited
       /\ \A b \in AccountIds \ {to} : accounts'[b] = mid[b]
  BY <1>1, <1>4, <1>7, <1>9
<1>11. /\ isSum(balanceOf(accounts, from), balanceOf(mid, from), amount)
       /\ isSum(holdOf(accounts, from), holdOf(mid, from), amount)
       /\ isSum(balanceOf(accounts', to), balanceOf(accounts, to), amount)
       /\ holdOf(accounts', to) = holdOf(accounts, to)
  BY <1>8, <1>9, <1>10 DEF balanceOf, holdOf
<1>12. Settled(transfers, transfers', t, from, to, amount)
  BY <1>3, <1>4, SettledRow DEF Tables
<1> QED
  BY <1>1, <1>9, <1>10, <1>11, <1>12, SettleTallies

(* Freezing, unfreezing and closing write the status alone, a UTR is not   *)
(* summed up, and the other steps leave both tables alone.                 *)
LEMMA StampKeepsTallies ==
  ASSUME Tables, NEW base \in Int, Tallied(accounts, transfers, base), StampUtr
  PROVE  Tallied(accounts', transfers', base)
<1> DEFINE stamped == [transfers[stamping] EXCEPT !.utr = transfers[stamping].utr + 1]
<1>1. /\ stamping \in Rows(transfers)
      /\ transfers \in Seq(Transfer) /\ transfers[stamping] \in Transfer
  BY DEF Tables, TypeOK, StampUtr, TransferIds, Rows
<1>2. /\ stamped.amount = transfers[stamping].amount
      /\ stamped.status = transfers[stamping].status
      /\ stamped.from = transfers[stamping].from /\ stamped.to = transfers[stamping].to
      /\ stamped.kind = transfers[stamping].kind /\ stamped.rail = transfers[stamping].rail
  BY <1>1 DEF Transfer
<1>3. transfers' = [transfers EXCEPT ![stamping] = stamped]
  BY <1>1 DEF StampUtr
<1> HIDE DEF stamped
<1>4. /\ Rows(transfers') = Rows(transfers)
      /\ transfers'[stamping] = stamped
      /\ \A t \in Rows(transfers) \ {stamping} : transfers'[t] = transfers[t]
  BY <1>1, <1>3 DEF Rows
<1>5. \A t \in Rows(transfers) :
        /\ transfers'[t].amount = transfers[t].amount
        /\ transfers'[t].status = transfers[t].status
        /\ transfers'[t].from = transfers[t].from /\ transfers'[t].to = transfers[t].to
        /\ transfers'[t].kind = transfers[t].kind /\ transfers'[t].rail = transfers[t].rail
  BY <1>2, <1>4
<1>6. accounts' = accounts
  BY DEF StampUtr
<1> QED
  BY <1>1, <1>4, <1>5, <1>6, QuietTallies

LEMMA StatusKeepsTallies ==
  ASSUME Tables, NEW base \in Int, Tallied(accounts, transfers, base),
         NEW a \in AccountIds, FreezeAccount(a) \/ UnfreezeAccount(a) \/ CloseAccount(a)
  PROVE  Tallied(accounts', transfers', base)
<1>1. transfers \in Seq(Transfer) /\ accounts \in [AccountIds -> Account]
  BY DEF Tables, TypeOK
<1>2. transfers' = transfers
  BY DEF FreezeAccount, UnfreezeAccount, CloseAccount
<1>3. PICK acc \in Account :
        /\ accounts' = [accounts EXCEPT ![a] = acc]
        /\ acc.balance = accounts[a].balance /\ acc.hold = accounts[a].hold
  <2>1. accounts[a] \in Account
    BY <1>1
  <2> QED
    BY <2>1 DEF FreezeAccount, UnfreezeAccount, CloseAccount, freeze, unfreeze, close,
                Account, AccountStatuses
<1>4. \A b \in AccountIds :
        accounts'[b].balance = accounts[b].balance /\ accounts'[b].hold = accounts[b].hold
  BY <1>1, <1>3
<1> QED
  BY <1>1, <1>2, <1>4, QuietTallies

(* Before the first transfer the sums are over nothing. *)
LEMMA InitTallies ==
  ASSUME Init
  PROVE  Tallied(accounts, transfers, openings)
<1>1. /\ \A a \in AccountIds : holdOf(accounts, a) = 0 /\ accounts[a].balance = OpeningBalance[a]
      /\ Rows(transfers) = {}
  BY DEF Init, open, holdOf, Rows
<1>2. /\ \A a \in AccountIds : pendingOf(transfers, a) = {} /\ keptHolds(transfers, a) = {}
      /\ toSelf(transfers) = {} /\ faucets(transfers) = {}
  BY <1>1 DEF pendingOf, keptHolds, toSelf, faucets
<1>3. total(transfers, {}) = 0
  BY SumEmpty DEF total
<1>4. onAccounts(accounts) = openings
  <2>1. OpeningBalance = [a \in AccountIds |-> accounts[a].balance]
    BY <1>1, PaymentsAssumption
  <2> QED
    BY <2>1 DEF onAccounts, openings
<1>5. openings \in Nat
  <2>1. IsFiniteSet(AccountIds) /\ \A a \in AccountIds : OpeningBalance[a] \in Nat
    BY PaymentsAssumption
  <2> QED
    BY <2>1, SumTyped DEF openings
<1> QED
  BY <1>1, <1>2, <1>3, <1>4, <1>5 DEF Tallied, Accounted, Conserved, PendingOnBatchRail

LEMMA NextKeepsTallies ==
  ASSUME Tables, NEW base \in Int, Tallied(accounts, transfers, base), [Next]_vars
  PROVE  Tallied(accounts', transfers', base)
<1>1. CASE accounts' = accounts /\ transfers' = transfers
  BY <1>1
<1>2. CASE Request
  <2>1. PICK a \in AccountIds, b \in AccountIds, amount \in Amounts,
             key \in Keys \cup {NoKey} :
          \/ \E rail \in InstantRails \cup {"internal"} :
               executeTransfer(a, b, amount, key, rail)
          \/ \E rail \in InstantRails : RetryTransfer(a, amount, key, rail)
          \/ \E rail \in BatchRails :
               CreatePendingRailTransfer(a, b, amount, key, rail)
          \/ PayBill(a, b, amount, key)
    BY <1>2 DEF Request, ExecuteTransfer, RunInstruction
  <2>2. ASSUME NEW rail \in InstantRails \cup {"internal"},
               executeTransfer(a, b, amount, key, rail)
        PROVE  Tallied(accounts', transfers', base)
    <3>1. categoryOf(a, b) \in {"p2p", "self", "bill", "card", "faucet"}
      BY DEF categoryOf
    <3> QED
      BY <2>2, <3>1, PostKeepsTallies DEF executeTransfer
  <2>3. ASSUME NEW rail \in InstantRails, RetryTransfer(a, amount, key, rail)
        PROVE  Tallied(accounts', transfers', base)
    BY <1>1, <2>3 DEF RetryTransfer
  <2>4. CASE PayBill(a, b, amount, key)
    BY <2>4, PostKeepsTallies DEF PayBill
  <2> QED
    BY <2>1, <2>2, <2>3, <2>4, CreatePendingKeepsTallies
<1>3. CASE Administer
  BY <1>3, FaucetKeepsTallies, StatusKeepsTallies DEF Administer
<1>4. CASE SettleStep
  BY <1>1, <1>4, SettlePendingKeepsTallies DEF SettleStep, SettleFails
<1>5. CASE SettleTick \/ Crash \/ NextDay \/ UNCHANGED vars
  BY <1>1, <1>5 DEF SettleTick, Crash, NextDay, vars
<1> QED
  BY <1>2, <1>3, <1>4, <1>5, StampKeepsTallies DEF Next

LEMMA OpeningsAreInt == openings \in Int
<1>1. IsFiniteSet(AccountIds) /\ \A a \in AccountIds : OpeningBalance[a] \in Nat
  BY PaymentsAssumption
<1> QED
  BY <1>1, SumTyped DEF openings

(* Holds, balances and transfers agree: the inductive invariant of the two *)
(* theorems below.                                                         *)
THEOREM TalliesAgree == Spec => []Tallied(accounts, transfers, openings)
<1>1. Tallied(accounts, transfers, openings) /\ Tables /\ [Next]_vars
        => Tallied(accounts, transfers, openings)'
  BY NextKeepsTallies, OpeningsAreInt
     DEF Tallied, Accounted, Conserved, PendingOnBatchRail, total, onAccounts, pendingOf,
         toSelf, keptHolds, faucets, holdOf, Rows, openings
<1>2. IInv => Tables
  BY DEF IInv, Tables
<1> QED
  BY <1>1, <1>2, InitTallies, Invariance, PTL DEF Spec

LEMMA TalliedHolds ==
  ASSUME Tallied(accounts, transfers, openings)
  PROVE  HoldsAccounted
BY DEF Tallied, Accounted, HoldsAccounted, holdOf, total, sumAmounts, pendingOf,
       keptHolds, toSelf, postedToSelf, isPending, Rows, TransferIds

LEMMA TalliedMoney ==
  ASSUME Tallied(accounts, transfers, openings)
  PROVE  MoneyConserved
BY DEF Tallied, Conserved, MoneyConserved, onAccounts, sumBalances, total, sumAmounts,
       faucets, toSelf, postedToSelf, Rows, TransferIds, openings

(* A hold is the sum of the pending transfers it was placed for, and of    *)
(* the transfers to the same account whose settlement kept it.             *)
THEOREM HoldsAreAccounted == Spec => []HoldsAccounted
BY TalliedHolds, TalliesAgree, PTL

(* Balances add up to what was there, what the faucet gave and what        *)
(* transfers to the same account made.                                     *)
THEOREM MoneyIsConserved == Spec => []MoneyConserved
BY TalliedMoney, TalliesAgree, PTL
-----------------------------------------------------------------------------
(* Double entry.  What is due of a transfer on an account, and the rows of *)
(* a ledger, by their places.                                              *)
isEntryDue(row, kind, a) ==
  /\ row.status = "posted"
  /\ \/ kind = "debit" /\ row.from = a
     \/ kind = "credit" /\ row.to = a

entries(led, t, a, kind) ==
  { i \in 1..Len(led[a]) : led[a][i].transfer = t /\ led[a][i].kind = kind }

isSingleton(S) == \E i : S = {i}

Entered(ts, led) ==
  \A t \in Rows(ts), a \in AccountIds, kind \in {"debit", "credit"} :
    /\ isEntryDue(ts[t], kind, a) => isSingleton(entries(led, t, a, kind))
    /\ ~isEntryDue(ts[t], kind, a) => entries(led, t, a, kind) = {}

(* Every row is of a transfer, so a new transfer has none yet. *)
RowsHaveTransfer(ts, led) ==
  \A a \in AccountIds : \A i \in 1..Len(led[a]) :
    /\ led[a][i].transfer \in Rows(ts)
    /\ led[a][i].amount = ts[led[a][i].transfer].amount

Posted(ts, led) == Entered(ts, led) /\ RowsHaveTransfer(ts, led)

(* new is led with a row more on the account a. *)
Wrote(led, new, a, row) ==
  /\ led \in [AccountIds -> Seq(Row)]
  /\ row \in Row
  /\ a \in AccountIds
  /\ new = insertRow(led, a, row)

LEMMA WroteIs ==
  ASSUME NEW led, NEW new, NEW a, NEW row, Wrote(led, new, a, row)
  PROVE  /\ new \in [AccountIds -> Seq(Row)]
         /\ Len(led[a]) \in Nat
         /\ Len(new[a]) = Len(led[a]) + 1
         /\ new[a][Len(led[a]) + 1] = row
         /\ \A i \in 1..Len(led[a]) : new[a][i] = led[a][i]
         /\ \A b \in AccountIds \ {a} : new[b] = led[b]
<1>1. led[a] \in Seq(Row) /\ a \in AccountIds /\ row \in Row
  BY DEF Wrote
<1>2. new[a] = Append(led[a], row) /\ \A b \in AccountIds \ {a} : new[b] = led[b]
  BY DEF Wrote, insertRow
<1>3. new \in [AccountIds -> Seq(Row)]
  BY <1>1 DEF Wrote, insertRow
<1> QED
  BY <1>1, <1>2, <1>3

LEMMA EntryAdded ==
  ASSUME NEW led, NEW new, NEW a, NEW row, Wrote(led, new, a, row),
         NEW t, NEW kind, row.transfer = t, row.kind = kind
  PROVE  entries(new, t, a, kind) = entries(led, t, a, kind) \cup {Len(led[a]) + 1}
<1>1. /\ Len(led[a]) \in Nat
      /\ Len(new[a]) = Len(led[a]) + 1
      /\ new[a][Len(led[a]) + 1] = row
      /\ \A i \in 1..Len(led[a]) : new[a][i] = led[a][i]
  BY WroteIs
<1>2. 1..Len(new[a]) = 1..Len(led[a]) \cup {Len(led[a]) + 1}
  BY <1>1
<1> QED
  BY <1>1, <1>2 DEF entries

LEMMA EntryKept ==
  ASSUME NEW led, NEW new, NEW a, NEW row, Wrote(led, new, a, row),
         NEW t, NEW b \in AccountIds, NEW kind,
         b # a \/ row.transfer # t \/ row.kind # kind
  PROVE  entries(new, t, b, kind) = entries(led, t, b, kind)
<1>1. CASE b # a
  BY <1>1, WroteIs DEF entries
<1>2. CASE b = a
  <2>1. /\ Len(led[a]) \in Nat
        /\ Len(new[a]) = Len(led[a]) + 1
        /\ new[a][Len(led[a]) + 1] = row
        /\ \A i \in 1..Len(led[a]) : new[a][i] = led[a][i]
    BY WroteIs
  <2>2. 1..Len(new[a]) = 1..Len(led[a]) \cup {Len(led[a]) + 1}
    BY <2>1
  <2> QED
    BY <1>2, <2>1, <2>2 DEF entries
<1> QED
  BY <1>1, <1>2

(* The transfer t becomes posted, whether it was pending or was not there. *)
BecomesPosted(ts, us, t) ==
  /\ Rows(us) = Rows(ts) \cup {t}
  /\ \A u \in Rows(ts) \ {t} :
       /\ us[u].from = ts[u].from /\ us[u].to = ts[u].to
       /\ us[u].status = ts[u].status /\ us[u].amount = ts[u].amount
  /\ us[t].status = "posted"
  /\ t \in Rows(ts) => ts[t].status = "pending" /\ us[t].amount = ts[t].amount

LEMMA NoEntriesYet ==
  ASSUME NEW ts, NEW us, NEW t, NEW led,
         Posted(ts, led), BecomesPosted(ts, us, t),
         NEW a \in AccountIds, NEW kind \in {"debit", "credit"}
  PROVE  entries(led, t, a, kind) = {}
<1>1. CASE t \in Rows(ts)
  BY <1>1 DEF Posted, Entered, BecomesPosted, isEntryDue
<1>2. CASE t \notin Rows(ts)
  BY <1>2 DEF Posted, RowsHaveTransfer, entries
<1> QED
  BY <1>1, <1>2

LEMMA EntriesAreDue ==
  ASSUME NEW ts, NEW led, Entered(ts, led), NEW t \in Rows(ts), NEW a \in AccountIds,
         NEW kind \in {"debit", "credit"}
  PROVE  /\ isEntryDue(ts[t], kind, a) => isSingleton(entries(led, t, a, kind))
         /\ ~isEntryDue(ts[t], kind, a) => entries(led, t, a, kind) = {}
BY DEF Entered

(* Its rows follow: a row is written for the ends that are accounts, and   *)
(* no other.                                                               *)
Followed(us, t, led, new) ==
  /\ \A u, kind : \A a \in AccountIds :
       u # t => entries(new, u, a, kind) = entries(led, u, a, kind)
  /\ \A a \in AccountIds, kind \in {"debit", "credit"} :
       /\ isEntryDue(us[t], kind, a) => isSingleton(entries(new, t, a, kind))
       /\ ~isEntryDue(us[t], kind, a) => entries(new, t, a, kind) = {}

LEMMA RowsFollow ==
  ASSUME NEW ts, NEW us, NEW t, NEW led, NEW new,
         Posted(ts, led), BecomesPosted(ts, us, t),
         Followed(us, t, led, new)
  PROVE  Entered(us, new)
<1> SUFFICES ASSUME NEW u \in Rows(us), NEW a \in AccountIds,
                    NEW kind \in {"debit", "credit"}
             PROVE  /\ isEntryDue(us[u], kind, a) => isSingleton(entries(new, u, a, kind))
                    /\ ~isEntryDue(us[u], kind, a) => entries(new, u, a, kind) = {}
  BY DEF Entered
<1>1. CASE u # t
  <2>1. u \in Rows(ts)
    BY <1>1 DEF BecomesPosted
  <2>2. /\ us[u].from = ts[u].from /\ us[u].to = ts[u].to
        /\ us[u].status = ts[u].status
    BY <1>1, <2>1 DEF BecomesPosted
  <2>3. entries(new, u, a, kind) = entries(led, u, a, kind)
    BY <1>1 DEF Followed
  <2>4. /\ isEntryDue(ts[u], kind, a) => isSingleton(entries(led, u, a, kind))
        /\ ~isEntryDue(ts[u], kind, a) => entries(led, u, a, kind) = {}
    BY <2>1, EntriesAreDue DEF Posted
  <2>5. /\ isEntryDue(us[u], kind, a) => isEntryDue(ts[u], kind, a)
        /\ ~isEntryDue(us[u], kind, a) => ~isEntryDue(ts[u], kind, a)
    BY <2>2 DEF isEntryDue
  <2> QED
    BY <2>3, <2>4, <2>5
<1>2. CASE u = t
  BY <1>2 DEF Followed
<1> QED
  BY <1>1, <1>2

LEMMA WroteHasTransfer ==
  ASSUME NEW us, NEW led, NEW new, NEW a, NEW row, Wrote(led, new, a, row),
         RowsHaveTransfer(us, led),
         row.transfer \in Rows(us), row.amount = us[row.transfer].amount
  PROVE  RowsHaveTransfer(us, new)
<1> SUFFICES ASSUME NEW b \in AccountIds, NEW i \in 1..Len(new[b])
             PROVE  /\ new[b][i].transfer \in Rows(us)
                    /\ new[b][i].amount = us[new[b][i].transfer].amount
  BY DEF RowsHaveTransfer
<1>1. CASE b # a
  BY <1>1, WroteIs DEF RowsHaveTransfer
<1>2. CASE b = a /\ i \in 1..Len(led[a])
  BY <1>2, WroteIs DEF RowsHaveTransfer
<1>3. CASE b = a /\ i \notin 1..Len(led[a])
  <2>1. i = Len(led[a]) + 1
    BY <1>3, WroteIs
  <2> QED
    BY <1>3, <2>1, WroteIs
<1> QED
  BY <1>1, <1>2, <1>3

LEMMA PostedHaveTransfer ==
  ASSUME NEW ts, NEW us, NEW t, NEW led,
         Posted(ts, led), BecomesPosted(ts, us, t)
  PROVE  RowsHaveTransfer(us, led)
<1> SUFFICES ASSUME NEW b \in AccountIds, NEW i \in 1..Len(led[b])
             PROVE  /\ led[b][i].transfer \in Rows(us)
                    /\ led[b][i].amount = us[led[b][i].transfer].amount
  BY DEF RowsHaveTransfer
<1>1. /\ led[b][i].transfer \in Rows(ts)
      /\ led[b][i].amount = ts[led[b][i].transfer].amount
  BY DEF Posted, RowsHaveTransfer
<1> QED
  BY <1>1 DEF BecomesPosted

(* The two rows of a payment. *)
LEMMA PaymentPosted ==
  ASSUME NEW ts, NEW us, NEW t, NEW led, NEW mid, NEW new,
         Posted(ts, led), BecomesPosted(ts, us, t),
         NEW from \in AccountIds, NEW to \in AccountIds,
         us[t].from = from, us[t].to = to,
         NEW debitRow, Wrote(led, mid, from, debitRow),
         debitRow.transfer = t, debitRow.kind = "debit", debitRow.amount = us[t].amount,
         NEW creditRow, Wrote(mid, new, to, creditRow),
         creditRow.transfer = t, creditRow.kind = "credit",
         creditRow.amount = us[t].amount
  PROVE  Posted(us, new)
<1>1. ASSUME NEW u, NEW kind, NEW a \in AccountIds, u # t
      PROVE  entries(new, u, a, kind) = entries(led, u, a, kind)
  BY <1>1, EntryKept
<1>2. ASSUME NEW a \in AccountIds, NEW kind \in {"debit", "credit"}
      PROVE  /\ isEntryDue(us[t], kind, a) => isSingleton(entries(new, t, a, kind))
             /\ ~isEntryDue(us[t], kind, a) => entries(new, t, a, kind) = {}
  <2>1. entries(led, t, a, kind) = {}
    BY NoEntriesYet
  <2>2. us[t].status = "posted"
    BY DEF BecomesPosted
  <2>3. CASE kind = "debit" /\ a = from
    <3>1. entries(mid, t, from, "debit") = entries(led, t, from, "debit") \cup {Len(led[from]) + 1}
      BY EntryAdded
    <3>2. entries(new, t, from, "debit") = entries(mid, t, from, "debit")
      BY EntryKept
    <3> QED
      BY <2>1, <2>2, <2>3, <3>1, <3>2 DEF isEntryDue, isSingleton
  <2>4. CASE kind = "credit" /\ a = to
    <3>1. entries(mid, t, to, "credit") = entries(led, t, to, "credit")
      BY EntryKept
    <3>2. entries(new, t, to, "credit") = entries(mid, t, to, "credit") \cup {Len(mid[to]) + 1}
      BY EntryAdded
    <3> QED
      BY <2>1, <2>2, <2>4, <3>1, <3>2 DEF isEntryDue, isSingleton
  <2>5. CASE kind # "debit" \/ a # from
    <3>1. entries(mid, t, a, kind) = entries(led, t, a, kind)
      BY <2>5, EntryKept
    <3>2. CASE kind # "credit" \/ a # to
      <4>1. entries(new, t, a, kind) = entries(mid, t, a, kind)
        BY <3>2, EntryKept
      <4>2. ~isEntryDue(us[t], kind, a)
        BY <2>5, <3>2 DEF isEntryDue
      <4> QED
        BY <2>1, <3>1, <4>1, <4>2
    <3> QED
      BY <2>4, <3>2
  <2> QED
    BY <2>3, <2>5
<1>3. Entered(us, new)
  <2>1. Followed(us, t, led, new)
    BY <1>1, <1>2 DEF Followed
  <2> QED
    BY <2>1, RowsFollow
<1>4. t \in Rows(us)
  BY DEF BecomesPosted
<1>5. RowsHaveTransfer(us, led)
  BY PostedHaveTransfer
<1>6. RowsHaveTransfer(us, mid)
  BY <1>4, <1>5, WroteHasTransfer
<1>7. RowsHaveTransfer(us, new)
  BY <1>4, <1>6, WroteHasTransfer
<1> QED
  BY <1>3, <1>7 DEF Posted

(* The one row of a deposit from nowhere. *)
LEMMA FaucetPosted ==
  ASSUME NEW ts, NEW us, NEW t, NEW led, NEW new,
         Posted(ts, led), BecomesPosted(ts, us, t),
         us[t].from \notin AccountIds, NEW to \in AccountIds, us[t].to = to,
         NEW row, Wrote(led, new, to, row),
         row.transfer = t, row.kind = "credit", row.amount = us[t].amount
  PROVE  Posted(us, new)
<1>1. ASSUME NEW u, NEW kind, NEW a \in AccountIds, u # t
      PROVE  entries(new, u, a, kind) = entries(led, u, a, kind)
  BY <1>1, EntryKept
<1>2. ASSUME NEW a \in AccountIds, NEW kind \in {"debit", "credit"}
      PROVE  /\ isEntryDue(us[t], kind, a) => isSingleton(entries(new, t, a, kind))
             /\ ~isEntryDue(us[t], kind, a) => entries(new, t, a, kind) = {}
  <2>1. entries(led, t, a, kind) = {}
    BY NoEntriesYet
  <2>2. us[t].status = "posted"
    BY DEF BecomesPosted
  <2>3. CASE kind = "credit" /\ a = to
    <3>1. entries(new, t, to, "credit") = entries(led, t, to, "credit") \cup {Len(led[to]) + 1}
      BY EntryAdded
    <3> QED
      BY <2>1, <2>2, <2>3, <3>1 DEF isEntryDue, isSingleton
  <2>4. CASE kind # "credit" \/ a # to
    <3>1. entries(new, t, a, kind) = entries(led, t, a, kind)
      BY <2>4, EntryKept
    <3>2. ~isEntryDue(us[t], kind, a)
      BY <2>4 DEF isEntryDue
    <3> QED
      BY <2>1, <3>1, <3>2
  <2> QED
    BY <2>3, <2>4
<1>3. Entered(us, new)
  <2>1. Followed(us, t, led, new)
    BY <1>1, <1>2 DEF Followed
  <2> QED
    BY <2>1, RowsFollow
<1>4. t \in Rows(us)
  BY DEF BecomesPosted
<1>5. RowsHaveTransfer(us, led)
  BY PostedHaveTransfer
<1>6. RowsHaveTransfer(us, new)
  BY <1>4, <1>5, WroteHasTransfer
<1> QED
  BY <1>3, <1>6 DEF Posted

(* A pending row has no ledger row yet. *)
LEMMA PendingNotPosted ==
  ASSUME NEW ts, NEW us, NEW n, NEW led,
         Posted(ts, led), Rows(us) = Rows(ts) \cup {n}, n \notin Rows(ts),
         \A t \in Rows(ts) : us[t] = ts[t], us[n].status = "pending"
  PROVE  Posted(us, led)
<1>1. ASSUME NEW a \in AccountIds, NEW kind \in {"debit", "credit"}
      PROVE  entries(led, n, a, kind) = {} /\ ~isEntryDue(us[n], kind, a)
  BY DEF Posted, RowsHaveTransfer, entries, isEntryDue
<1>2. Entered(us, led)
  BY <1>1 DEF Posted, Entered
<1>3. RowsHaveTransfer(us, led)
  BY DEF Posted, RowsHaveTransfer
<1> QED
  BY <1>2, <1>3 DEF Posted

(* A new UTR is on no ledger row. *)
LEMMA QuietPosted ==
  ASSUME NEW ts, NEW us, NEW led, Posted(ts, led), Rows(us) = Rows(ts),
         \A t \in Rows(ts) :
           /\ us[t].amount = ts[t].amount /\ us[t].status = ts[t].status
           /\ us[t].from = ts[t].from /\ us[t].to = ts[t].to
  PROVE  Posted(us, led)
<1>1. ASSUME NEW t \in Rows(us), NEW kind, NEW a
      PROVE  /\ isEntryDue(us[t], kind, a) => isEntryDue(ts[t], kind, a)
             /\ ~isEntryDue(us[t], kind, a) => ~isEntryDue(ts[t], kind, a)
  BY DEF isEntryDue
<1>2. Entered(us, led)
  BY <1>1 DEF Posted, Entered
<1>3. RowsHaveTransfer(us, led)
  BY DEF Posted, RowsHaveTransfer
<1> QED
  BY <1>2, <1>3 DEF Posted

LEMMA PaymentStepPosted ==
  ASSUME IInv, Posted(transfers, ledger),
         NEW t \in Nat, BecomesPosted(transfers, transfers', t),
         NEW from \in AccountIds, NEW to \in AccountIds, NEW amount \in Amounts,
         transfers'[t].from = from, transfers'[t].to = to, transfers'[t].amount = amount,
         NEW debited \in Account, NEW credited \in Account,
         insertRows(t, from, to, amount, debited, credited)
  PROVE  Posted(transfers', ledger')
<1> DEFINE debitRow == ledgerRow(t, "debit", amount, debited)
           creditRow == ledgerRow(t, "credit", amount, credited)
           mid == insertRow(ledger, from, debitRow)
<1>1. /\ debitRow \in Row /\ creditRow \in Row
      /\ debitRow.transfer = t /\ debitRow.kind = "debit" /\ debitRow.amount = amount
      /\ creditRow.transfer = t /\ creditRow.kind = "credit" /\ creditRow.amount = amount
  BY DEF ledgerRow, Row, Account
<1>2. ledger' = insertRow(mid, to, creditRow)
  BY DEF insertRows
<1> HIDE DEF debitRow, creditRow
<1>3. Wrote(ledger, mid, from, debitRow)
  BY <1>1 DEF Wrote, IInv, TypeOK
<1> HIDE DEF mid
<1>4. Wrote(mid, ledger', to, creditRow)
  BY <1>1, <1>2, <1>3, WroteIs DEF Wrote
<1> QED
  BY <1>1, <1>3, <1>4, PaymentPosted

LEMMA InsertedBecomesPosted ==
  ASSUME NEW ts \in Seq(Transfer), NEW us, NEW n, NEW row, Inserted(ts, us, n, row),
         row.status = "posted"
  PROVE  BecomesPosted(ts, us, n)
BY InsertedRows DEF BecomesPosted

LEMMA PostKeepsPosted ==
  ASSUME IInv, Posted(transfers, ledger),
         NEW from \in AccountIds, NEW to \in AccountIds,
         NEW amount \in Amounts, NEW key \in Keys \cup {NoKey},
         NEW rail \in InstantRails \cup {"internal"},
         NEW category \in {"p2p", "self", "bill", "card", "faucet"},
         postTransfer(from, to, amount, key, "transfer", rail, category)
  PROVE  Posted(transfers', ledger')
<1> DEFINE debited == debit(accounts[from], amount)
           credited == credit(accounts[to], amount)
<1>1. /\ amount \in Nat /\ transfers \in Seq(Transfer)
      /\ accounts[from] \in Account /\ accounts[to] \in Account
      /\ accounts[to].hold <= accounts[to].balance
      /\ AccountType[from] \in AccountTypes
  BY PaymentsAssumption DEF IInv, TypeOK, Books
<1>2. debited \in Account /\ credited \in Account
  BY <1>1, DebitIsLive, CreditIsLive DEF postTransfer, Live
<1>3. PICK row \in Transfer, n \in Nat :
        /\ Inserted(transfers, transfers', n, row)
        /\ row.from = from /\ row.to = to /\ amountOf(row) = amount
        /\ row.kind = "transfer" /\ row.status = "posted" /\ row.rail = rail
  <2>1. insertTransfer(from, to, amount, key, "transfer", "posted", rail, category)
    BY DEF postTransfer
  <2> QED
    BY <2>1, InsertedRow DEF IInv
<1>4. insertRows(n, from, to, amount, debited, credited)
  BY <1>3 DEF Inserted, postTransfer
<1> HIDE DEF debited, credited
<1>5. BecomesPosted(transfers, transfers', n)
  BY <1>1, <1>3, InsertedBecomesPosted
<1>6. transfers'[n].from = from /\ transfers'[n].to = to /\ transfers'[n].amount = amount
  BY <1>3 DEF Inserted, amountOf
<1> QED
  BY <1>2, <1>4, <1>5, <1>6, PaymentStepPosted

LEMMA FaucetKeepsPosted ==
  ASSUME IInv, Posted(transfers, ledger),
         NEW to \in AccountIds, NEW amount \in Amounts, NEW key \in Keys \cup {NoKey},
         FaucetDeposit(to, amount, key)
  PROVE  Posted(transfers', ledger')
<1> DEFINE credited == credit(accounts[to], amount)
           creditRow(n) == ledgerRow(n, "credit", amount, credited)
<1>1. /\ amount \in Nat /\ transfers \in Seq(Transfer)
      /\ accounts[to] \in Account /\ accounts[to].hold <= accounts[to].balance
  BY PaymentsAssumption DEF IInv, TypeOK, Books
<1>2. credited \in Account
  BY <1>1, CreditIsLive DEF FaucetDeposit, Live
<1>3. PICK row \in Transfer, n \in Nat :
        /\ Inserted(transfers, transfers', n, row)
        /\ row.from = NoAccount /\ row.to = to /\ amountOf(row) = amount
        /\ row.kind = "faucet" /\ row.status = "posted" /\ row.rail = "internal"
  BY FaucetRow DEF IInv
<1>4. ledger' = insertRow(ledger, to, creditRow(n))
  BY <1>3 DEF Inserted, FaucetDeposit
<1>5. /\ creditRow(n) \in Row /\ creditRow(n).transfer = n
      /\ creditRow(n).kind = "credit" /\ creditRow(n).amount = amount
  BY <1>2 DEF ledgerRow, Row, Account
<1> HIDE DEF credited, creditRow
<1>6. Wrote(ledger, ledger', to, creditRow(n))
  BY <1>4, <1>5 DEF Wrote, IInv, TypeOK
<1>7. BecomesPosted(transfers, transfers', n)
  BY <1>1, <1>3, InsertedBecomesPosted
<1>8. /\ transfers'[n].from \notin AccountIds /\ transfers'[n].to = to
      /\ transfers'[n].amount = amount
  BY <1>3, PaymentsAssumption DEF Inserted, amountOf
<1> QED
  BY <1>5, <1>6, <1>7, <1>8, FaucetPosted

LEMMA CreatePendingKeepsPosted ==
  ASSUME IInv, Posted(transfers, ledger),
         NEW from \in AccountIds, NEW to \in AccountIds,
         NEW amount \in Amounts, NEW key \in Keys \cup {NoKey}, NEW rail \in BatchRails,
         CreatePendingRailTransfer(from, to, amount, key, rail)
  PROVE  Posted(transfers', ledger')
<1>1. PICK row \in Transfer, n \in Nat :
        /\ Inserted(transfers, transfers', n, row)
        /\ row.status = "pending"
  BY PendingRow DEF IInv
<1>2. transfers \in Seq(Transfer) /\ ledger' = ledger
  BY DEF IInv, TypeOK, CreatePendingRailTransfer
<1>3. /\ Rows(transfers') = Rows(transfers) \cup {n} /\ n \notin Rows(transfers)
      /\ transfers'[n].status = "pending"
      /\ \A t \in Rows(transfers) : transfers'[t] = transfers[t]
  BY <1>1, <1>2, InsertedRows
<1> QED
  BY <1>2, <1>3, PendingNotPosted

LEMMA SettlePendingKeepsPosted ==
  ASSUME IInv, Posted(transfers, ledger), NEW t \in TransferIds, SettlePending(t)
  PROVE  Posted(transfers', ledger')
<1> PICK from : from = transfers[t].from
  OBVIOUS
<1> PICK to : to = transfers[t].to
  OBVIOUS
<1> PICK amount : amount = transfers[t].amount
  OBVIOUS
<1> DEFINE released == releaseHold(accounts[from], amount)
           debited == debit(released, amount)
           credited == credit(accounts[to], amount)
<1>1. /\ from \in AccountIds /\ to \in AccountIds
      /\ amount \in Amounts /\ amount \in Nat /\ t \in Nat
      /\ transfers \in Seq(Transfer)
  <2>1. transfers \in Seq(Transfer) /\ transfers[t] \in Transfer /\ t \in Nat
    BY DEF IInv, TypeOK, TransferIds
  <2>2. to \in AccountIds /\ amount \in Amounts /\ amount \in Nat
    BY <2>1, PaymentsAssumption DEF Transfer
  <2>3. from \in AccountIds
    BY DEF IInv, PendingHasSource, SettlePending, canSettle
  <2> QED
    BY <2>1, <2>2, <2>3
<1>2. /\ accounts[from] \in Account /\ accounts[to] \in Account
      /\ accounts[to].hold <= accounts[to].balance
      /\ AccountType[from] \in AccountTypes
  BY <1>1, PaymentsAssumption DEF IInv, Books
<1>3. /\ canReleaseHold(accounts[from], amount)
      /\ canDebit(released, AccountType[from], amount)
      /\ canCredit(accounts[to], amount)
      /\ isPending(t)
  BY DEF SettlePending, canSettle
<1>4. markPosted(t) /\ insertRows(t, from, to, amount, debited, credited)
  BY DEF SettlePending
<1>5. released \in Account
  BY <1>1, <1>2, <1>3, ReleaseIsTyped
<1> HIDE DEF released
<1>6. debited \in Account /\ credited \in Account
  BY <1>1, <1>2, <1>3, <1>5, DebitIsLive, CreditIsLive DEF Live
<1> HIDE DEF debited, credited
<1>7. Settled(transfers, transfers', t, from, to, amount)
  <2>1. Settled(transfers, transfers', t, transfers[t].from, transfers[t].to,
                amountOf(transfers[t]))
    BY <1>3, <1>4, SettledRow DEF IInv
  <2> QED
    BY <2>1 DEF amountOf
<1>8. /\ BecomesPosted(transfers, transfers', t)
      /\ transfers'[t].from = from /\ transfers'[t].to = to
      /\ transfers'[t].amount = amount
  BY <1>7 DEF Settled, Rewritten, BecomesPosted, amountOf, Rows
<1> QED
  BY <1>1, <1>4, <1>6, <1>8, PaymentStepPosted

LEMMA StampKeepsPosted ==
  ASSUME IInv, Posted(transfers, ledger), StampUtr
  PROVE  Posted(transfers', ledger')
<1> DEFINE stamped == [transfers[stamping] EXCEPT !.utr = transfers[stamping].utr + 1]
<1>1. /\ stamping \in Rows(transfers)
      /\ transfers \in Seq(Transfer) /\ transfers[stamping] \in Transfer
  BY DEF IInv, TypeOK, StampUtr, TransferIds, Rows
<1>2. /\ stamped.amount = transfers[stamping].amount
      /\ stamped.status = transfers[stamping].status
      /\ stamped.from = transfers[stamping].from /\ stamped.to = transfers[stamping].to
  BY <1>1 DEF Transfer
<1>3. transfers' = [transfers EXCEPT ![stamping] = stamped]
  BY <1>1 DEF StampUtr
<1> HIDE DEF stamped
<1>4. /\ Rows(transfers') = Rows(transfers)
      /\ transfers'[stamping] = stamped
      /\ \A t \in Rows(transfers) \ {stamping} : transfers'[t] = transfers[t]
  BY <1>1, <1>3 DEF Rows
<1>5. \A t \in Rows(transfers) :
        /\ transfers'[t].amount = transfers[t].amount
        /\ transfers'[t].status = transfers[t].status
        /\ transfers'[t].from = transfers[t].from /\ transfers'[t].to = transfers[t].to
  BY <1>2, <1>4
<1>6. ledger' = ledger
  BY DEF StampUtr
<1> QED
  BY <1>4, <1>5, <1>6, QuietPosted

LEMMA NextKeepsPosted ==
  ASSUME IInv, Posted(transfers, ledger), [Next]_vars
  PROVE  Posted(transfers', ledger')
<1>1. CASE ledger' = ledger /\ transfers' = transfers
  BY <1>1
<1>2. CASE Request
  <2>1. PICK a \in AccountIds, b \in AccountIds, amount \in Amounts,
             key \in Keys \cup {NoKey} :
          \/ \E rail \in InstantRails \cup {"internal"} :
               executeTransfer(a, b, amount, key, rail)
          \/ \E rail \in InstantRails : RetryTransfer(a, amount, key, rail)
          \/ \E rail \in BatchRails :
               CreatePendingRailTransfer(a, b, amount, key, rail)
          \/ PayBill(a, b, amount, key)
    BY <1>2 DEF Request, ExecuteTransfer, RunInstruction
  <2>2. ASSUME NEW rail \in InstantRails \cup {"internal"},
               executeTransfer(a, b, amount, key, rail)
        PROVE  Posted(transfers', ledger')
    <3>1. categoryOf(a, b) \in {"p2p", "self", "bill", "card", "faucet"}
      BY DEF categoryOf
    <3> QED
      BY <2>2, <3>1, PostKeepsPosted DEF executeTransfer
  <2>3. ASSUME NEW rail \in InstantRails, RetryTransfer(a, amount, key, rail)
        PROVE  Posted(transfers', ledger')
    BY <1>1, <2>3 DEF RetryTransfer
  <2>4. CASE PayBill(a, b, amount, key)
    BY <2>4, PostKeepsPosted DEF PayBill
  <2> QED
    BY <2>1, <2>2, <2>3, <2>4, CreatePendingKeepsPosted
<1>3. CASE Administer
  BY <1>1, <1>3, FaucetKeepsPosted
     DEF Administer, FreezeAccount, UnfreezeAccount, CloseAccount
<1>4. CASE SettleStep
  BY <1>1, <1>4, SettlePendingKeepsPosted DEF SettleStep, SettleFails
<1>5. CASE SettleTick \/ Crash \/ NextDay \/ UNCHANGED vars
  BY <1>1, <1>5 DEF SettleTick, Crash, NextDay, vars
<1> QED
  BY <1>2, <1>3, <1>4, <1>5, StampKeepsPosted DEF Next

THEOREM LedgerIsPosted == Spec => []Posted(transfers, ledger)
<1>1. Init => Posted(transfers, ledger)
  BY DEF Init, Posted, Entered, RowsHaveTransfer, Rows
<1>2. IInv /\ Posted(transfers, ledger) /\ [Next]_vars => Posted(transfers, ledger)'
  BY NextKeepsPosted DEF Posted, Entered, RowsHaveTransfer, entries, isEntryDue, Rows
<1> QED
  BY <1>1, <1>2, Invariance, PTL DEF Spec

LEMMA PostedIsDouble ==
  ASSUME Posted(transfers, ledger)
  PROVE  DoubleEntry
<1> SUFFICES ASSUME NEW t \in TransferIds, NEW a \in AccountIds
             PROVE  LET rows(kind) == { i \in rowsOf(t, a) : ledger[a][i].kind = kind }
                        due(end) == IF transfers[t].status = "posted" /\ end = a
                                    THEN 1 ELSE 0
                    IN  /\ Cardinality(rows("debit")) = due(transfers[t].from)
                        /\ Cardinality(rows("credit")) = due(transfers[t].to)
                        /\ \A i \in rowsOf(t, a) : ledger[a][i].amount = transfers[t].amount
  BY DEF DoubleEntry
<1>1. ASSUME NEW kind
      PROVE  { i \in rowsOf(t, a) : ledger[a][i].kind = kind } = entries(ledger, t, a, kind)
  BY DEF rowsOf, entries
<1>2. t \in Rows(transfers)
  BY DEF TransferIds, Rows
<1>3. ASSUME NEW kind \in {"debit", "credit"}
      PROVE  /\ isEntryDue(transfers[t], kind, a) => Cardinality(entries(ledger, t, a, kind)) = 1
             /\ ~isEntryDue(transfers[t], kind, a) => Cardinality(entries(ledger, t, a, kind)) = 0
  <2>1. /\ isEntryDue(transfers[t], kind, a) => isSingleton(entries(ledger, t, a, kind))
        /\ ~isEntryDue(transfers[t], kind, a) => entries(ledger, t, a, kind) = {}
    BY <1>2, EntriesAreDue DEF Posted
  <2>2. \A i : Cardinality({i}) = 1
    BY FS_Singleton
  <2> QED
    BY <2>1, <2>2, FS_EmptySet DEF isSingleton
<1>4. Cardinality(entries(ledger, t, a, "debit")) =
        IF transfers[t].status = "posted" /\ transfers[t].from = a THEN 1 ELSE 0
  BY <1>3 DEF isEntryDue
<1>5. Cardinality(entries(ledger, t, a, "credit")) =
        IF transfers[t].status = "posted" /\ transfers[t].to = a THEN 1 ELSE 0
  BY <1>3 DEF isEntryDue
<1>6. \A i \in rowsOf(t, a) : ledger[a][i].amount = transfers[t].amount
  BY DEF rowsOf, Posted, RowsHaveTransfer
<1> QED
  BY <1>1, <1>4, <1>5, <1>6

(* A posted transfer has one debit row on its source and one credit row on *)
(* its destination, a pending one has none.                                *)
THEOREM BooksAreDouble == Spec => []DoubleEntry
BY PostedIsDouble, LedgerIsPosted, PTL
-----------------------------------------------------------------------------
(* The limits.  A month starts no later than a month that ends later. *)
LEMMA MonthStarts ==
  ASSUME NEW n \in Nat \ {0}, NEW d \in Nat, NEW e \in Nat, d <= e
  PROVE  d - (d % n) <= e - (e % n)
OBVIOUS

LEMMA MonthStartIs ==
  ASSUME NEW d \in Nat
  PROVE  d - (d % DaysPerMonth) \in Nat
<1>1. DaysPerMonth \in Nat \ {0}
  BY PaymentsAssumption
<1>2. \A n \in Nat \ {0} : d - (d % n) \in Nat
  OBVIOUS
<1> QED
  BY <1>1, <1>2

(* instantOutbound, of a value. *)
outbound(ts, user, first, last) ==
  { t \in Rows(ts) :
      /\ ts[t].kind = "transfer"
      /\ ts[t].category \notin {"bill", "card"}
      /\ ts[t].rail \in InstantRails
      /\ ts[t].key \notin InstructionKeys
      /\ AccountOwner[ts[t].from] = user
      /\ ts[t].day \in first..last }

(* What the limit check of a request counts. *)
counted(ts, user, first) ==
  { t \in Rows(ts) :
      /\ ts[t].from # NoAccount
      /\ AccountOwner[ts[t].from] = user
      /\ ts[t].status = "posted"
      /\ ts[t].day >= first }

atMost(x, y) == x <= y

monthStart(d) == d - (d % DaysPerMonth)

InLimits(ts) ==
  \A user \in KycApproved, d \in 0..MaxDay :
    /\ atMost(total(ts, outbound(ts, user, d, d)), DailyLimit)
    /\ atMost(total(ts, outbound(ts, user, monthStart(d), d)), MonthlyLimit)

(* A transfer on an instant rail is counted: it has a source and is posted *)
(* from the start.                                                         *)
InstantIsCounted(ts) ==
  \A t \in Rows(ts) :
    /\ ts[t].kind = "transfer" => ts[t].from \in AccountIds
    /\ ts[t].rail \in InstantRails => ts[t].status = "posted"
    /\ ts[t].day \in Nat

Limited(ts) == InLimits(ts) /\ InstantIsCounted(ts)

LEMMA TotalOfPart ==
  ASSUME NEW ts \in Seq(Transfer), NEW S \in SUBSET Rows(ts), NEW part \in SUBSET S
  PROVE  total(ts, part) <= total(ts, S)
<1> DEFINE f == [t \in Rows(ts) |-> ts[t].amount]
<1>1. IsFiniteSet(S) /\ \A t \in S : f[t] \in Nat
  BY RowsAre, FS_Subset
<1>2. total(ts, S) = SumFunctionOnSet(f, S) /\ total(ts, part) = SumFunctionOnSet(f, part)
  BY DEF total
<1> HIDE DEF f
<1> QED
  BY <1>1, <1>2, SumOfPart

LEMMA OutboundIsCounted ==
  ASSUME NEW ts \in Seq(Transfer), InstantIsCounted(ts), NEW user,
         NEW first \in Nat, NEW last \in Nat, NEW since \in Nat, since <= first
  PROVE  outbound(ts, user, first, last) \in SUBSET counted(ts, user, since)
<1> SUFFICES ASSUME NEW t \in outbound(ts, user, first, last)
             PROVE  t \in counted(ts, user, since)
  OBVIOUS
<1>1. /\ t \in Rows(ts) /\ ts[t].kind = "transfer" /\ ts[t].rail \in InstantRails
      /\ AccountOwner[ts[t].from] = user
  BY DEF outbound
<1>2. ts[t].from # NoAccount /\ ts[t].status = "posted" /\ ts[t].day \in Nat
  BY <1>1, PaymentsAssumption DEF InstantIsCounted
<1>3. ts[t].day >= since
  <2> PICK d \in Nat : d = ts[t].day
    BY <1>2
  <2>1. d >= first
    BY DEF outbound
  <2>2. d >= since
    BY <2>1
  <2> QED
    BY <2>2
<1> QED
  BY <1>1, <1>2, <1>3 DEF counted

(* A step that adds nothing to what is limited. *)
LEMMA SameOutbound ==
  ASSUME NEW ts \in Seq(Transfer), NEW us, Limited(ts), InstantIsCounted(us),
         Rows(ts) \subseteq Rows(us),
         \A t \in Rows(ts) : us[t].amount = ts[t].amount,
         \A user, first, last : outbound(us, user, first, last) = outbound(ts, user, first, last)
  PROVE  Limited(us)
<1>1. ASSUME NEW user, NEW first, NEW last
      PROVE  total(us, outbound(us, user, first, last)) = total(ts, outbound(ts, user, first, last))
  <2>1. outbound(ts, user, first, last) \in SUBSET Rows(ts)
    BY DEF outbound
  <2>2. total(us, outbound(ts, user, first, last)) = total(ts, outbound(ts, user, first, last))
    BY <2>1, TotalSame
  <2> QED
    BY <2>2
<1>2. InLimits(us)
  BY <1>1 DEF Limited, InLimits
<1> QED
  BY <1>2 DEF Limited

(* One more transfer among some, when more than those were counted. *)
LEMMA OneMoreOf ==
  ASSUME NEW ts \in Seq(Transfer), NEW us, NEW n, NEW row \in Transfer,
         Inserted(ts, us, n, row),
         NEW seen \in SUBSET Rows(ts), NEW S \in SUBSET seen, NEW limit \in Nat,
         total(ts, seen) + amountOf(row) <= limit
  PROVE  atMost(total(us, S \cup {n}), limit)
<1>1. S \in SUBSET Rows(ts)
  OBVIOUS
<1>2. isSum(total(us, S \cup {n}), total(ts, S), amountOf(row))
  BY <1>1, TotalInserted
<1>3. total(ts, S) <= total(ts, seen)
  BY TotalOfPart
<1> PICK p \in Nat : p = total(ts, S)
  BY <1>1, TotalTyped
<1> PICK q \in Nat : q = total(ts, seen)
  BY TotalTyped
<1> PICK amount \in Nat : amount = amountOf(row)
  BY AmountIsNat
<1>4. total(us, S \cup {n}) = p + amount
  BY <1>2 DEF isSum
<1>5. p <= q /\ q + amount <= limit
  BY <1>3
<1>6. p + amount <= limit
  BY <1>5
<1> QED
  BY <1>4, <1>6 DEF atMost

(* One more posted transfer on an instant rail, within a limit. *)
LEMMA OneMoreWithin ==
  ASSUME NEW ts \in Seq(Transfer), NEW us, NEW n, NEW row \in Transfer,
         Inserted(ts, us, n, row), InstantIsCounted(ts),
         NEW user, NEW first \in Nat, NEW last \in Nat, NEW since \in Nat,
         NEW limit \in Nat,
         atMost(total(ts, outbound(ts, user, first, last)), limit),
         row.day \in first..last /\ AccountOwner[row.from] = user
           => /\ since <= first
              /\ total(ts, counted(ts, user, since)) + amountOf(row) <= limit
  PROVE  atMost(total(us, outbound(us, user, first, last)), limit)
<1>1. /\ Rows(us) = Rows(ts) \cup {n} /\ n \notin Rows(ts)
      /\ us[n] = row /\ \A t \in Rows(ts) : us[t] = ts[t]
  BY InsertedRows
<1>2. outbound(ts, user, first, last) \in SUBSET Rows(ts)
  BY DEF outbound
<1>3. CASE n \in outbound(us, user, first, last)
  <2>1. outbound(us, user, first, last) = outbound(ts, user, first, last) \cup {n}
    BY <1>1, <1>3 DEF outbound
  <2>2. /\ since <= first
        /\ total(ts, counted(ts, user, since)) + amountOf(row) <= limit
    BY <1>1, <1>3 DEF outbound
  <2>3. outbound(ts, user, first, last) \in SUBSET counted(ts, user, since)
    BY <2>2, OutboundIsCounted
  <2>4. counted(ts, user, since) \in SUBSET Rows(ts)
    BY DEF counted
  <2>5. atMost(total(us, outbound(ts, user, first, last) \cup {n}), limit)
    BY <2>2, <2>3, <2>4, OneMoreOf
  <2> QED
    BY <2>1, <2>5
<1>4. CASE n \notin outbound(us, user, first, last)
  <2>1. outbound(us, user, first, last) = outbound(ts, user, first, last)
    BY <1>1, <1>4 DEF outbound
  <2>2. total(us, outbound(ts, user, first, last)) = total(ts, outbound(ts, user, first, last))
    BY <1>2, TotalInserted
  <2> QED
    BY <2>1, <2>2
<1> QED
  BY <1>3, <1>4

LEMMA ExecuteKeepsLimits ==
  ASSUME IInv, Limited(transfers),
         NEW from \in AccountIds, NEW to \in AccountIds, NEW amount \in Amounts,
         NEW key \in Keys \cup {NoKey}, NEW rail \in InstantRails,
         ExecuteTransfer(from, to, amount, key, rail)
  PROVE  Limited(transfers')
<1>1. /\ transfers \in Seq(Transfer) /\ day \in Nat /\ amount \in Nat
      /\ DailyLimit \in Nat /\ MonthlyLimit \in Nat /\ DaysPerMonth \in Nat \ {0}
      /\ InstantIsCounted(transfers)
  BY PaymentsAssumption DEF IInv, TypeOK, Limited
<1>2. PICK row \in Transfer, n \in Nat :
        /\ Inserted(transfers, transfers', n, row)
        /\ row.from = from /\ amountOf(row) = amount
        /\ row.kind = "transfer" /\ row.status = "posted" /\ row.rail = rail
        /\ row.day = day
  <2>1. insertTransfer(from, to, amount, key, "transfer", "posted", rail,
                       categoryOf(from, to))
    BY DEF ExecuteTransfer, executeTransfer, postTransfer
  <2>2. categoryOf(from, to) \in {"p2p", "self", "bill", "card", "faucet"}
    BY DEF categoryOf
  <2> QED
    BY <2>1, <2>2, InsertedRow DEF IInv
<1>3. /\ total(transfers, counted(transfers, AccountOwner[from], day)) + amount <= DailyLimit
      /\ total(transfers, counted(transfers, AccountOwner[from], monthStart(day))) + amount
           <= MonthlyLimit
  BY DEF ExecuteTransfer, checkAggregateLimits, usedSince, sumAmounts, total, counted,
         monthStart, TransferIds, Rows
<1>4. ASSUME NEW user \in KycApproved, NEW d \in 0..MaxDay
      PROVE  /\ atMost(total(transfers', outbound(transfers', user, d, d)), DailyLimit)
             /\ atMost(total(transfers', outbound(transfers', user, monthStart(d), d)),
                       MonthlyLimit)
  <2>1. d \in Nat /\ monthStart(d) \in Nat /\ monthStart(day) \in Nat
    BY <1>1, MonthStartIs DEF monthStart
  <2>2. atMost(total(transfers, outbound(transfers, user, d, d)), DailyLimit)
    BY DEF Limited, InLimits
  <2>3. atMost(total(transfers, outbound(transfers, user, monthStart(d), d)), MonthlyLimit)
    BY DEF Limited, InLimits
  <2>4. row.day \in d..d /\ AccountOwner[row.from] = user
          => /\ day <= d
             /\ total(transfers, counted(transfers, user, day)) + amountOf(row) <= DailyLimit
    BY <1>1, <1>2, <1>3, <2>1
  <2>5. row.day \in monthStart(d)..d /\ AccountOwner[row.from] = user
          => /\ monthStart(day) <= monthStart(d)
             /\ total(transfers, counted(transfers, user, monthStart(day))) + amountOf(row)
                  <= MonthlyLimit
    <3> SUFFICES ASSUME row.day \in monthStart(d)..d, AccountOwner[row.from] = user
                 PROVE  /\ monthStart(day) <= monthStart(d)
                        /\ total(transfers, counted(transfers, user, monthStart(day)))
                             + amountOf(row) <= MonthlyLimit
      OBVIOUS
    <3>1. day <= d
      BY <1>1, <1>2, <2>1
    <3>2. monthStart(day) <= monthStart(d)
      BY <1>1, <2>1, <3>1, MonthStarts DEF monthStart
    <3> QED
      BY <1>2, <1>3, <3>2
  <2>6. atMost(total(transfers', outbound(transfers', user, d, d)), DailyLimit)
    BY <1>1, <1>2, <2>1, <2>2, <2>4, OneMoreWithin
  <2>7. atMost(total(transfers', outbound(transfers', user, monthStart(d), d)), MonthlyLimit)
    BY <1>1, <1>2, <2>1, <2>3, <2>5, OneMoreWithin
  <2> QED
    BY <2>6, <2>7
<1>5. InLimits(transfers')
  BY <1>4 DEF InLimits
<1>6. InstantIsCounted(transfers')
  <2>1. /\ Rows(transfers') = Rows(transfers) \cup {n}
        /\ transfers'[n] = row /\ \A t \in Rows(transfers) : transfers'[t] = transfers[t]
    BY <1>1, <1>2, InsertedRows
  <2> QED
    BY <1>1, <1>2, <2>1 DEF InstantIsCounted
<1> QED
  BY <1>5, <1>6 DEF Limited

(* One more row of another kind. *)
LEMMA OtherRowKeepsLimits ==
  ASSUME NEW ts \in Seq(Transfer), NEW us, NEW n, NEW row \in Transfer,
         Inserted(ts, us, n, row), Limited(ts),
         row.kind = "transfer" => row.from \in AccountIds,
         row.rail \in InstantRails => row.status = "posted",
         \/ row.kind # "transfer" \/ row.category \in {"bill", "card"}
         \/ row.rail \notin InstantRails \/ row.key \in InstructionKeys
  PROVE  Limited(us)
<1>1. /\ Rows(us) = Rows(ts) \cup {n} /\ n \notin Rows(ts)
      /\ us[n] = row /\ \A t \in Rows(ts) : us[t] = ts[t]
  BY InsertedRows
<1>2. \A user, first, last : outbound(us, user, first, last) = outbound(ts, user, first, last)
  BY <1>1 DEF outbound
<1>3. row.day \in Nat
  BY PaymentsAssumption DEF Transfer
<1>4. InstantIsCounted(us)
  BY <1>1, <1>3 DEF Limited, InstantIsCounted
<1> QED
  BY <1>1, <1>2, <1>4, SameOutbound

LEMMA BatchIsNotInstant == BatchRails \cap InstantRails = {}
BY PaymentsAssumption DEF BatchRails

LEMMA PayBillKeepsLimits ==
  ASSUME IInv, Limited(transfers),
         NEW from \in AccountIds, NEW to \in AccountIds, NEW amount \in Amounts,
         NEW key \in Keys \cup {NoKey}, PayBill(from, to, amount, key)
  PROVE  Limited(transfers')
<1>1. PICK row \in Transfer, n \in Nat :
        /\ Inserted(transfers, transfers', n, row)
        /\ row.from = from /\ row.status = "posted" /\ row.category = "bill"
  <2>1. insertTransfer(from, to, amount, key, "transfer", "posted", "internal", "bill")
    BY DEF PayBill, postTransfer
  <2> QED
    BY <2>1, InsertedRow DEF IInv
<1> QED
  BY <1>1, OtherRowKeepsLimits DEF IInv, TypeOK

(* The run of an instruction is not checked, and not among what is limited. *)
LEMMA RunKeepsLimits ==
  ASSUME IInv, Limited(transfers),
         NEW from \in AccountIds, NEW to \in AccountIds, NEW amount \in Amounts,
         NEW key \in Keys \cup {NoKey}, RunInstruction(from, to, amount, key)
  PROVE  Limited(transfers')
<1>1. PICK row \in Transfer, n \in Nat :
        /\ Inserted(transfers, transfers', n, row)
        /\ row.from = from /\ row.status = "posted" /\ row.key = key
  <2>1. insertTransfer(from, to, amount, key, "transfer", "posted", "internal",
                       categoryOf(from, to))
    BY DEF RunInstruction, executeTransfer, postTransfer
  <2>2. categoryOf(from, to) \in {"p2p", "self", "bill", "card", "faucet"}
    BY DEF categoryOf
  <2> QED
    BY <2>1, <2>2, InsertedRow DEF IInv
<1>2. key \in InstructionKeys
  BY DEF RunInstruction
<1> QED
  BY <1>1, <1>2, OtherRowKeepsLimits DEF IInv, TypeOK

LEMMA CreatePendingKeepsLimits ==
  ASSUME IInv, Limited(transfers),
         NEW from \in AccountIds, NEW to \in AccountIds,
         NEW amount \in Amounts, NEW key \in Keys \cup {NoKey}, NEW rail \in BatchRails,
         CreatePendingRailTransfer(from, to, amount, key, rail)
  PROVE  Limited(transfers')
<1>1. PICK row \in Transfer, n \in Nat :
        /\ Inserted(transfers, transfers', n, row)
        /\ row.from = from /\ row.to = to /\ amountOf(row) = amount
        /\ row.kind = "transfer" /\ row.status = "pending" /\ row.rail = rail
  BY PendingRow DEF IInv
<1>2. row.rail \notin InstantRails
  BY <1>1, BatchIsNotInstant
<1> QED
  BY <1>1, <1>2, OtherRowKeepsLimits DEF IInv, TypeOK

LEMMA FaucetKeepsLimits ==
  ASSUME IInv, Limited(transfers),
         NEW to \in AccountIds, NEW amount \in Amounts, NEW key \in Keys \cup {NoKey},
         FaucetDeposit(to, amount, key)
  PROVE  Limited(transfers')
<1>1. PICK row \in Transfer, n \in Nat :
        /\ Inserted(transfers, transfers', n, row)
        /\ row.from = NoAccount /\ row.to = to /\ amountOf(row) = amount
        /\ row.kind = "faucet" /\ row.status = "posted" /\ row.rail = "internal"
  BY FaucetRow DEF IInv
<1> QED
  BY <1>1, OtherRowKeepsLimits DEF IInv, TypeOK

(* A settled transfer is on a batch rail: its new day moves no instant one. *)
LEMMA SettlePendingKeepsLimits ==
  ASSUME IInv, Tallied(accounts, transfers, openings), Limited(transfers),
         NEW t \in TransferIds, SettlePending(t)
  PROVE  Limited(transfers')
<1> DEFINE settled == [transfers[t] EXCEPT !.status = "posted", !.day = day]
<1>1. /\ transfers \in Seq(Transfer) /\ transfers[t] \in Transfer /\ t \in Rows(transfers)
      /\ isPending(t) /\ markPosted(t) /\ day \in Nat
  BY PaymentsAssumption DEF IInv, TypeOK, TransferIds, Rows, SettlePending, canSettle
<1>2. /\ settled.status = "posted" /\ settled.day = day
      /\ settled.amount = transfers[t].amount
      /\ settled.from = transfers[t].from
      /\ settled.kind = transfers[t].kind /\ settled.rail = transfers[t].rail
  BY <1>1 DEF Transfer
<1>3. transfers' = [transfers EXCEPT ![t] = settled]
  BY <1>1 DEF markPosted
<1> HIDE DEF settled
<1>4. /\ Rows(transfers') = Rows(transfers) /\ transfers'[t] = settled
      /\ \A u \in Rows(transfers) \ {t} : transfers'[u] = transfers[u]
  BY <1>1, <1>3 DEF Rows
<1>5. transfers[t].rail \notin InstantRails
  BY <1>1, BatchIsNotInstant DEF Tallied, PendingOnBatchRail, isPending
<1>6. \A user, first, last :
        outbound(transfers', user, first, last) = outbound(transfers, user, first, last)
  BY <1>2, <1>4, <1>5 DEF outbound
<1>7. InstantIsCounted(transfers')
  BY <1>1, <1>2, <1>4, <1>5 DEF Limited, InstantIsCounted
<1>8. \A u \in Rows(transfers) : transfers'[u].amount = transfers[u].amount
  BY <1>2, <1>4
<1>9. Rows(transfers) \subseteq Rows(transfers')
  BY <1>4
<1> QED
  BY <1>1, <1>6, <1>7, <1>8, <1>9, SameOutbound

LEMMA StampKeepsLimits ==
  ASSUME IInv, Limited(transfers), StampUtr
  PROVE  Limited(transfers')
<1> DEFINE stamped == [transfers[stamping] EXCEPT !.utr = transfers[stamping].utr + 1]
<1>1. /\ stamping \in Rows(transfers)
      /\ transfers \in Seq(Transfer) /\ transfers[stamping] \in Transfer
  BY DEF IInv, TypeOK, StampUtr, TransferIds, Rows
<1>2. /\ stamped.amount = transfers[stamping].amount
      /\ stamped.status = transfers[stamping].status
      /\ stamped.from = transfers[stamping].from /\ stamped.day = transfers[stamping].day
      /\ stamped.kind = transfers[stamping].kind /\ stamped.rail = transfers[stamping].rail
      /\ stamped.category = transfers[stamping].category
      /\ stamped.key = transfers[stamping].key
  BY <1>1 DEF Transfer
<1>3. transfers' = [transfers EXCEPT ![stamping] = stamped]
  BY <1>1 DEF StampUtr
<1> HIDE DEF stamped
<1>4. /\ Rows(transfers') = Rows(transfers) /\ transfers'[stamping] = stamped
      /\ \A u \in Rows(transfers) \ {stamping} : transfers'[u] = transfers[u]
  BY <1>1, <1>3 DEF Rows
<1>5. \A u \in Rows(transfers) :
        /\ transfers'[u].amount = transfers[u].amount
        /\ transfers'[u].status = transfers[u].status
        /\ transfers'[u].from = transfers[u].from /\ transfers'[u].day = transfers[u].day
        /\ transfers'[u].kind = transfers[u].kind /\ transfers'[u].rail = transfers[u].rail
        /\ transfers'[u].category = transfers[u].category
        /\ transfers'[u].key = transfers[u].key
  BY <1>2, <1>4
<1>6. \A user, first, last :
        outbound(transfers', user, first, last) = outbound(transfers, user, first, last)
  BY <1>4, <1>5 DEF outbound
<1>7. InstantIsCounted(transfers')
  BY <1>4, <1>5 DEF Limited, InstantIsCounted
<1>8. Rows(transfers) \subseteq Rows(transfers')
  BY <1>4
<1> QED
  BY <1>1, <1>5, <1>6, <1>7, <1>8, SameOutbound

LEMMA NextKeepsLimits ==
  ASSUME IInv, Tallied(accounts, transfers, openings), Limited(transfers), [Next]_vars
  PROVE  Limited(transfers')
<1>1. CASE transfers' = transfers
  BY <1>1
<1>2. CASE Request
  <2>1. PICK a \in AccountIds, b \in AccountIds, amount \in Amounts,
             key \in Keys \cup {NoKey} :
          \/ \E rail \in InstantRails :
               \/ ExecuteTransfer(a, b, amount, key, rail)
               \/ RetryTransfer(a, amount, key, rail)
          \/ \E rail \in BatchRails :
               CreatePendingRailTransfer(a, b, amount, key, rail)
          \/ PayBill(a, b, amount, key)
          \/ RunInstruction(a, b, amount, key)
    BY <1>2 DEF Request
  <2>2. ASSUME NEW rail \in InstantRails, RetryTransfer(a, amount, key, rail)
        PROVE  Limited(transfers')
    BY <1>1, <2>2 DEF RetryTransfer
  <2> QED
    BY <2>1, <2>2, ExecuteKeepsLimits, RunKeepsLimits, CreatePendingKeepsLimits,
       PayBillKeepsLimits
<1>3. CASE Administer
  BY <1>1, <1>3, FaucetKeepsLimits
     DEF Administer, FreezeAccount, UnfreezeAccount, CloseAccount
<1>4. CASE SettleStep
  BY <1>1, <1>4, SettlePendingKeepsLimits DEF SettleStep, SettleFails
<1>5. CASE SettleTick \/ Crash \/ NextDay \/ UNCHANGED vars
  BY <1>1, <1>5 DEF SettleTick, Crash, NextDay, vars
<1> QED
  BY <1>2, <1>3, <1>4, <1>5, StampKeepsLimits DEF Next

LEMMA InitLimited ==
  ASSUME Init
  PROVE  Limited(transfers)
<1>1. Rows(transfers) = {}
  BY DEF Init, Rows
<1>2. \A user, first, last : outbound(transfers, user, first, last) = {}
  BY <1>1 DEF outbound
<1>3. total(transfers, {}) = 0
  BY SumEmpty DEF total
<1>4. DailyLimit \in Nat /\ MonthlyLimit \in Nat
  BY PaymentsAssumption
<1>5. \A user, first, last : total(transfers, outbound(transfers, user, first, last)) = 0
  BY <1>2, <1>3
<1>6. InLimits(transfers)
  BY <1>4, <1>5 DEF InLimits, atMost
<1> QED
  BY <1>1, <1>6 DEF Limited, InstantIsCounted

LEMMA LimitedIsWithin ==
  ASSUME Limited(transfers)
  PROVE  InstantWithinLimits
BY DEF Limited, InLimits, InstantWithinLimits, instantOutbound, outbound, atMost,
       monthStart, sumAmounts, total, TransferIds, Rows

THEOREM LimitsKept == Spec => []Limited(transfers)
<1>1. IInv /\ Tallied(accounts, transfers, openings) /\ Limited(transfers) /\ [Next]_vars
        => Limited(transfers)'
  BY NextKeepsLimits DEF Limited, InLimits, InstantIsCounted, outbound, total, Rows
<1>2. Init => Limited(transfers)
  BY InitLimited
<1> QED
  BY <1>1, <1>2, Invariance, TalliesAgree, PTL DEF Spec

(* The transfers a user requests on the instant rails, runs of standing    *)
(* instructions excepted, stay within the daily and the monthly limit, for *)
(* every limit, every length of a month and however many runs come between.*)
THEOREM LimitsHold == Spec => []InstantWithinLimits
BY LimitedIsWithin, LimitsKept, PTL
-----------------------------------------------------------------------------
(* UTRs.  A transfer without one, of a value. *)
withoutUtr(ts) ==
  { t \in Rows(ts) : ts[t].rail \in {"imps", "upi"} /\ ts[t].utr = 0 }

UtrsCounted(ts, t, stops) == Cardinality(withoutUtr(ts) \ {t}) <= stops

LEMMA WithoutUtrFinite ==
  ASSUME NEW ts \in Seq(Transfer), NEW S \in SUBSET withoutUtr(ts)
  PROVE  IsFiniteSet(S) /\ Cardinality(S) \in Nat
<1>1. IsFiniteSet(withoutUtr(ts))
  BY RowsAre, FS_Subset DEF withoutUtr
<1> QED
  BY <1>1, FS_Subset, FS_CardinalityType

(* Fewer are missing. *)
LEMMA FewerUtrsMissing ==
  ASSUME NEW ts \in Seq(Transfer), NEW us, NEW t, NEW u, NEW stops \in Nat,
         UtrsCounted(ts, t, stops),
         withoutUtr(us) \ {u} \subseteq withoutUtr(ts) \ {t}
  PROVE  UtrsCounted(us, u, stops)
<1>1. /\ IsFiniteSet(withoutUtr(ts) \ {t})
      /\ Cardinality(withoutUtr(ts) \ {t}) \in Nat
  BY WithoutUtrFinite
<1>2. Cardinality(withoutUtr(us) \ {u}) <= Cardinality(withoutUtr(ts) \ {t})
  BY <1>1, FS_Subset
<1>3. Cardinality(withoutUtr(us) \ {u}) \in Nat
  BY <1>1, FS_Subset, FS_CardinalityType
<1> QED
  BY <1>1, <1>2, <1>3 DEF UtrsCounted

(* One more is missing, and the process stopped once more. *)
LEMMA StopLosesOneUtr ==
  ASSUME NEW ts \in Seq(Transfer), NEW t, NEW stops \in Nat, UtrsCounted(ts, t, stops)
  PROVE  UtrsCounted(ts, 0, stops + 1)
<1> DEFINE rest == withoutUtr(ts) \ {t}
<1>1. IsFiniteSet(rest) /\ Cardinality(rest) \in Nat
  BY WithoutUtrFinite
<1>2. withoutUtr(ts) \ {0} \subseteq rest \cup {t}
  OBVIOUS
<1>3. t \notin rest
  OBVIOUS
<1>7. Cardinality(rest) <= stops
  BY DEF UtrsCounted
<1> HIDE DEF rest
<1>4. IsFiniteSet(rest \cup {t}) /\ Cardinality(rest \cup {t}) = Cardinality(rest) + 1
  BY <1>1, <1>3, FS_AddElement
<1>5. Cardinality(withoutUtr(ts) \ {0}) <= Cardinality(rest \cup {t})
  BY <1>2, <1>4, FS_Subset
<1>6. Cardinality(withoutUtr(ts) \ {0}) \in Nat
  BY <1>2, <1>4, FS_Subset, FS_CardinalityType
<1> QED
  BY <1>1, <1>4, <1>5, <1>6, <1>7 DEF UtrsCounted

LEMMA WithoutUtrInserted ==
  ASSUME NEW ts \in Seq(Transfer), NEW us, NEW n, NEW row, Inserted(ts, us, n, row)
  PROVE  /\ withoutUtr(us) \ {n} = withoutUtr(ts)
         /\ n \notin withoutUtr(ts)
         /\ row.rail \notin {"imps", "upi"} => withoutUtr(us) = withoutUtr(ts)
         /\ n # 0
<1>1. /\ Rows(us) = Rows(ts) \cup {n} /\ n \notin Rows(ts)
      /\ us[n] = row /\ \A t \in Rows(ts) : us[t] = ts[t]
  BY InsertedRows
<1>2. n # 0
  <2>1. Len(ts) \in Nat /\ n = Len(ts) + 1
    BY DEF Inserted
  <2> QED
    BY <2>1
<1> QED
  BY <1>1, <1>2 DEF withoutUtr

LEMMA NextKeepsUtrs ==
  ASSUME IInv, UtrsCounted(transfers, stamping, crashes), [Next]_vars
  PROVE  UtrsCounted(transfers', stamping', crashes')
<1>1. transfers \in Seq(Transfer) /\ crashes \in Nat /\ 0 \notin withoutUtr(transfers)
  BY PaymentsAssumption DEF IInv, TypeOK, withoutUtr, Rows
<1>2. CASE /\ UNCHANGED <<stamping, crashes>>
           /\ withoutUtr(transfers') = withoutUtr(transfers)
  BY <1>2 DEF UtrsCounted
<1>3. CASE UNCHANGED <<transfers, stamping, crashes>>
  BY <1>3
<1>4. CASE Request
  <2>1. PICK a \in AccountIds, b \in AccountIds, amount \in Amounts,
             key \in Keys \cup {NoKey} :
          \/ \E rail \in InstantRails \cup {"internal"} :
               executeTransfer(a, b, amount, key, rail)
          \/ \E rail \in InstantRails : RetryTransfer(a, amount, key, rail)
          \/ \E rail \in BatchRails :
               CreatePendingRailTransfer(a, b, amount, key, rail)
          \/ PayBill(a, b, amount, key)
    BY <1>4 DEF Request, ExecuteTransfer, RunInstruction
  <2>2. categoryOf(a, b) \in {"p2p", "self", "bill", "card", "faucet"}
    BY DEF categoryOf
  <2>3. ASSUME NEW rail \in InstantRails \cup {"internal"},
               executeTransfer(a, b, amount, key, rail)
        PROVE  UtrsCounted(transfers', stamping', crashes')
    <3>1. PICK row \in Transfer, n \in Nat :
            /\ Inserted(transfers, transfers', n, row)
            /\ row.from = a /\ row.to = b /\ amountOf(row) = amount
            /\ row.kind = "transfer" /\ row.status = "posted" /\ row.rail = rail
      <4>1. insertTransfer(a, b, amount, key, "transfer", "posted", rail, categoryOf(a, b))
        BY <2>3 DEF executeTransfer, postTransfer
      <4> QED
        BY <2>2, <4>1, InsertedRow DEF IInv
    <3>2. /\ stamping = 0 /\ crashes' = crashes
          /\ rail = "internal" => stamping' = 0
          /\ rail # "internal" => stamping' = n
      BY <2>3, <3>1 DEF executeTransfer, idle, Inserted
    <3>3. withoutUtr(transfers') \ {stamping'} \subseteq withoutUtr(transfers) \ {stamping}
      BY <1>1, <3>1, <3>2, WithoutUtrInserted
    <3> QED
      BY <1>1, <3>2, <3>3, FewerUtrsMissing
  <2>4. ASSUME NEW rail \in InstantRails, RetryTransfer(a, amount, key, rail)
        PROVE  UtrsCounted(transfers', stamping', crashes')
    <3>1. stamping = 0 /\ transfers' = transfers /\ crashes' = crashes
      BY <2>4 DEF RetryTransfer, idle
    <3>2. withoutUtr(transfers') \ {stamping'} \subseteq withoutUtr(transfers) \ {stamping}
      BY <1>1, <3>1
    <3> QED
      BY <1>1, <3>1, <3>2, FewerUtrsMissing
  <2>5. ASSUME NEW rail \in BatchRails, CreatePendingRailTransfer(a, b, amount, key, rail)
        PROVE  UtrsCounted(transfers', stamping', crashes')
    <3>1. PICK row \in Transfer, n \in Nat :
            /\ Inserted(transfers, transfers', n, row)
            /\ row.from = a /\ row.to = b /\ amountOf(row) = amount
            /\ row.kind = "transfer" /\ row.status = "pending" /\ row.rail = rail
      <4>1. insertTransfer(a, b, amount, key, "transfer", "pending", rail, categoryOf(a, b))
        BY <2>5 DEF CreatePendingRailTransfer
      <4> QED
        BY <2>2, <4>1, InsertedRow DEF IInv
    <3>2. row.rail \notin {"imps", "upi"}
      BY <3>1 DEF BatchRails
    <3>3. withoutUtr(transfers') = withoutUtr(transfers)
      BY <1>1, <3>1, <3>2, WithoutUtrInserted
    <3> QED
      BY <1>2, <2>5, <3>3 DEF CreatePendingRailTransfer
  <2>6. CASE PayBill(a, b, amount, key)
    <3>1. PICK row \in Transfer, n \in Nat :
            /\ Inserted(transfers, transfers', n, row)
            /\ row.from = a /\ row.to = b /\ amountOf(row) = amount
            /\ row.kind = "transfer" /\ row.status = "posted" /\ row.rail = "internal"
      <4>1. insertTransfer(a, b, amount, key, "transfer", "posted", "internal", "bill")
        BY <2>6 DEF PayBill, postTransfer
      <4> QED
        BY <4>1, InsertedRow DEF IInv
    <3>2. row.rail \notin {"imps", "upi"}
      BY <3>1
    <3>3. withoutUtr(transfers') = withoutUtr(transfers)
      BY <1>1, <3>1, <3>2, WithoutUtrInserted
    <3> QED
      BY <1>2, <2>6, <3>3 DEF PayBill
  <2> QED
    BY <2>1, <2>3, <2>4, <2>5, <2>6
<1>5. ASSUME NEW to \in AccountIds, NEW amount \in Amounts, NEW key \in Keys \cup {NoKey},
             FaucetDeposit(to, amount, key)
      PROVE  UtrsCounted(transfers', stamping', crashes')
  <2>1. PICK row \in Transfer, n \in Nat :
          /\ Inserted(transfers, transfers', n, row)
          /\ row.from = NoAccount /\ row.to = to /\ amountOf(row) = amount
          /\ row.kind = "faucet" /\ row.status = "posted" /\ row.rail = "internal"
    BY <1>5, FaucetRow DEF IInv
  <2>2. row.rail \notin {"imps", "upi"}
    BY <2>1
  <2>3. withoutUtr(transfers') = withoutUtr(transfers)
    BY <1>1, <2>1, <2>2, WithoutUtrInserted
  <2> QED
    BY <1>2, <1>5, <2>3 DEF FaucetDeposit
<1>6. CASE Administer
  BY <1>3, <1>5, <1>6 DEF Administer, FreezeAccount, UnfreezeAccount, CloseAccount
<1>7. ASSUME NEW t \in TransferIds, SettlePending(t)
      PROVE  UtrsCounted(transfers', stamping', crashes')
  <2> DEFINE settled == [transfers[t] EXCEPT !.status = "posted", !.day = day]
  <2>1. transfers[t] \in Transfer /\ t \in Rows(transfers) /\ markPosted(t)
    BY <1>1, <1>7 DEF TransferIds, Rows, SettlePending
  <2>2. settled.rail = transfers[t].rail /\ settled.utr = transfers[t].utr
    BY <2>1 DEF Transfer
  <2>3. transfers' = [transfers EXCEPT ![t] = settled]
    BY <2>1 DEF markPosted
  <2> HIDE DEF settled
  <2>4. /\ Rows(transfers') = Rows(transfers) /\ transfers'[t] = settled
        /\ \A u \in Rows(transfers) \ {t} : transfers'[u] = transfers[u]
    BY <1>1, <2>1, <2>3 DEF Rows
  <2>5. withoutUtr(transfers') = withoutUtr(transfers)
    BY <2>2, <2>4 DEF withoutUtr
  <2> QED
    BY <1>2, <1>7, <2>5 DEF SettlePending
<1>8. CASE SettleStep
  BY <1>3, <1>7, <1>8 DEF SettleStep, SettleFails
<1>9. CASE StampUtr
  <2> DEFINE stamped == [transfers[stamping] EXCEPT !.utr = transfers[stamping].utr + 1]
  <2>1. stamping \in Rows(transfers) /\ transfers[stamping] \in Transfer
    BY <1>9 DEF IInv, TypeOK, StampUtr, TransferIds, Rows
  <2>2. stamped.utr # 0
    BY <2>1 DEF Transfer
  <2>3. /\ transfers' = [transfers EXCEPT ![stamping] = stamped]
        /\ crashes' = crashes
    BY <1>9, <2>1 DEF StampUtr
  <2> HIDE DEF stamped
  <2>4. /\ Rows(transfers') = Rows(transfers) /\ transfers'[stamping] = stamped
        /\ \A u \in Rows(transfers) \ {stamping} : transfers'[u] = transfers[u]
    BY <1>1, <2>1, <2>3 DEF Rows
  <2>5. withoutUtr(transfers') \ {stamping'} \subseteq withoutUtr(transfers) \ {stamping}
    BY <2>2, <2>4 DEF withoutUtr
  <2> QED
    BY <1>1, <2>3, <2>5, FewerUtrsMissing
<1>10. CASE Crash
  <2>1. transfers' = transfers /\ stamping' = 0 /\ crashes' = crashes + 1
    BY <1>10 DEF Crash
  <2> QED
    BY <1>1, <2>1, StopLosesOneUtr
<1>11. CASE SettleTick \/ NextDay \/ UNCHANGED vars
  BY <1>3, <1>11 DEF SettleTick, NextDay, vars
<1> QED
  BY <1>4, <1>6, <1>8, <1>9, <1>10, <1>11 DEF Next

THEOREM UtrsAreCounted == Spec => []UtrsCounted(transfers, stamping, crashes)
<1>1. Init => UtrsCounted(transfers, stamping, crashes)
  <2>1. Init => withoutUtr(transfers) \ {stamping} = {} /\ crashes = 0
    BY DEF Init, withoutUtr, Rows
  <2> QED
    BY <2>1, FS_EmptySet DEF UtrsCounted
<1>2. IInv /\ UtrsCounted(transfers, stamping, crashes) /\ [Next]_vars
        => UtrsCounted(transfers, stamping, crashes)'
  BY NextKeepsUtrs DEF UtrsCounted, withoutUtr, Rows
<1> QED
  BY <1>1, <1>2, Invariance, PTL DEF Spec

(* A transfer is without its UTR while its request runs, or because the    *)
(* process stopped: one at most for every stop.                            *)
THEOREM UtrsMissAfterCrashes == Spec => []UtrsMissingAfterCrash
<1>1. UtrsCounted(transfers, stamping, crashes) => UtrsMissingAfterCrash
  <2>1. { t \in TransferIds \ {stamping} :
            transfers[t].rail \in {"imps", "upi"} /\ transfers[t].utr = 0 }
          = withoutUtr(transfers) \ {stamping}
    BY DEF TransferIds, withoutUtr, Rows
  <2> QED
    BY <2>1 DEF UtrsCounted, UtrsMissingAfterCrash
<1> QED
  BY <1>1, UtrsAreCounted, PTL

(* What is on hold for one pending transfer is on hold. *)
LEMMA HoldCoversPending ==
  ASSUME NEW accs \in [AccountIds -> Account], NEW ts \in Seq(Transfer),
         Accounted(accs, ts), NEW a \in AccountIds, NEW t \in pendingOf(ts, a)
  PROVE  holdOf(accs, a) >= amountOf(ts[t])
<1>1. pendingOf(ts, a) \in SUBSET Rows(ts) /\ keptHolds(ts, a) \in SUBSET Rows(ts)
  BY DEF pendingOf, keptHolds, toSelf
<1>2. isSum(total(ts, pendingOf(ts, a)), total(ts, pendingOf(ts, a) \ {t}), amountOf(ts[t]))
  BY <1>1, TotalWithout
<1> PICK p \in Nat : p = total(ts, pendingOf(ts, a) \ {t})
  BY <1>1, TotalTyped
<1> PICK k \in Nat : k = total(ts, keptHolds(ts, a))
  BY <1>1, TotalTyped
<1> PICK amount \in Nat : amount = amountOf(ts[t])
  BY <1>1, RowsAre, AmountIsNat
<1>3. total(ts, pendingOf(ts, a)) = p + amount
  BY <1>2 DEF isSum
<1>4. holdOf(accs, a) = (p + amount) + k
  BY <1>3 DEF Accounted
<1> QED
  BY <1>4

(* Only the settlement loop changes the status of a pending transfer, and  *)
(* it does not when the destination is closed.                             *)
LEMMA ClosedStaysPending ==
  ASSUME TypeOK, [Next]_vars, NEW t \in TransferIds,
         isPending(t), accounts[transfers[t].to].status = "Closed"
  PROVE  transfers'[t].status = "pending"
<1>1. /\ transfers \in Seq(Transfer) /\ transfers[t] \in Transfer
      /\ t \in DOMAIN transfers /\ transfers[t].status = "pending"
  BY DEF TypeOK, TransferIds, isPending
<1>2. CASE UNCHANGED transfers
  BY <1>1, <1>2
<1>3. CASE Request
  BY <1>1, <1>3, InsertTouchesNoRow
     DEF Request, ExecuteTransfer, RunInstruction, executeTransfer, RetryTransfer, PayBill,
         postTransfer, CreatePendingRailTransfer
<1>4. CASE \E a \in AccountIds, amount \in Amounts, key \in Keys \cup {NoKey} :
             FaucetDeposit(a, amount, key)
  BY <1>1, <1>4, InsertTouchesNoRow DEF FaucetDeposit
<1>5. CASE \E u \in TransferIds : SettlePending(u)
  <2>1. PICK u \in TransferIds : SettlePending(u)
    BY <1>5
  <2>2. transfers' = [transfers EXCEPT ![u].status = "posted", ![u].day = day]
    BY <2>1 DEF SettlePending, markPosted
  <2>3. accounts[transfers[u].to].status = "Active"
    BY <2>1 DEF SettlePending, canSettle, canCredit, isActive
  <2> QED
    BY <1>1, <2>2, <2>3
<1>6. CASE StampUtr
  <2>1. /\ stamping \in TransferIds
        /\ transfers' = [transfers EXCEPT ![stamping].utr = @ + 1]
    BY <1>6 DEF StampUtr, TypeOK
  <2>2. CASE stamping = t
    BY <1>1, <2>1, <2>2 DEF Transfer
  <2>3. CASE stamping # t
    BY <1>1, <2>1, <2>3
  <2> QED
    BY <2>2, <2>3
<1> QED
  BY <1>1, <1>2, <1>3, <1>4, <1>5, <1>6
     DEF Next, Administer, SettleStep, SettleTick, SettleFails, Crash, NextDay,
         FreezeAccount, UnfreezeAccount, CloseAccount, vars

LEMMA StrandedStays ==
  ASSUME IInv, Tallied(accounts, transfers, openings), [Next]_vars, NEW t \in TransferIds,
         isPending(t), accounts[transfers[t].to].status = "Closed"
  PROVE  /\ transfers'[t].status = "pending"
         /\ accounts'[transfers[t].from].hold >= transfers[t].amount
<1>1. transfers'[t].status = "pending"
  BY ClosedStaysPending DEF IInv
<1>2. t \in DOMAIN transfers' /\ transfers'[t] = [transfers[t] EXCEPT !.utr = transfers'[t].utr]
  <2>1. \/ transfers'[t] = [transfers[t] EXCEPT !.utr = transfers'[t].utr]
        \/ transfers'[t] = [transfers[t] EXCEPT !.status = "posted", !.day = day]
    BY NextOnlySettles DEF IInv
  <2>2. t \in DOMAIN transfers'
    BY NextOnlySettles DEF IInv
  <2>3. transfers[t] \in Transfer
    BY DEF IInv, TypeOK, TransferIds
  <2>4. [transfers[t] EXCEPT !.status = "posted", !.day = day].status = "posted"
    BY <2>3 DEF Transfer
  <2> QED
    BY <1>1, <2>1, <2>2, <2>4
<1>3. transfers[t] \in Transfer /\ transfers[t].from \in AccountIds
  BY DEF IInv, TypeOK, TransferIds, PendingHasSource
<1>4. transfers'[t].from = transfers[t].from /\ transfers'[t].amount = transfers[t].amount
  BY <1>2, <1>3 DEF Transfer
<1>5. Accounted(accounts', transfers')
  BY NextKeepsTallies, OpeningsAreInt DEF Tallied, IInv, Tables
<1>6. accounts' \in [AccountIds -> Account] /\ transfers' \in Seq(Transfer)
  BY NextKeepsInv DEF IInv, TypeOK
<1> PICK a \in AccountIds : a = transfers[t].from
  BY <1>3
<1>7. t \in pendingOf(transfers', a)
  BY <1>1, <1>2, <1>4, <1>6 DEF pendingOf, Rows
<1>8. holdOf(accounts', a) >= amountOf(transfers'[t])
  BY <1>5, <1>6, <1>7, HoldCoversPending
<1> QED
  BY <1>1, <1>4, <1>8 DEF holdOf, amountOf

(* A pending transfer into a closed account is stuck: it stays pending and *)
(* its money stays on hold, whatever step is taken.                        *)
THEOREM StrandedForGood == Spec => StrandedStaysStranded
<1>1. IInv /\ Tallied(accounts, transfers, openings) /\ [Next]_vars =>
        [ \A t \in TransferIds :
            isPending(t) /\ accounts[transfers[t].to].status = "Closed"
            => /\ transfers'[t].status = "pending"
               /\ accounts'[transfers[t].from].hold >= transfers[t].amount ]_vars
  BY StrandedStays
<1> QED
  BY <1>1, Invariance, TalliesAgree, PTL DEF Spec, StrandedStaysStranded
=============================================================================
