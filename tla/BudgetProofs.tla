---------------------------- MODULE BudgetProofs ----------------------------
(***************************************************************************)
(* Theorems about the shared byte ledger (module MemoryBudget), for any    *)
(* set of tasks, any sizes and any behaviour of the pressure source.       *)
(*                                                                         *)
(* The first part is about sums over finite sets: a property of them all   *)
(* holds because it cannot first fail for a smallest set.                  *)
(***************************************************************************)
EXTENDS MemoryBudget, Integers, FiniteSetTheorems, WellFoundedInduction, TLAPS

\* A set of naturals that is not empty has a least element: induction, in the
\* form that a proof here can use.
LEMMA Least ==
  ASSUME NEW T \in SUBSET Nat, T # {}
  PROVE  \E n \in T : \A m \in T : n <= m
<1> DEFINE R == OpToRel(<, Nat)
<1>1. IsWellFoundedOn(R, Nat)
  BY NatLessThanWellFounded
<1>2. R = {ss \in Nat \X Nat : ss[1] < ss[2]}
  BY DEF R, OpToRel
<1> HIDE DEF R
<1>3. PICK n \in T : \A m \in T : <<m, n>> \notin R
  BY <1>1, WFMin
<1>4. ASSUME NEW m \in T, m < n PROVE FALSE
  <2>1. <<m, n>> \in Nat \X Nat /\ <<m, n>>[1] < <<m, n>>[2]
    BY <1>4
  <2>2. QED
    BY <1>2, <1>3, <2>1
<1>5. QED
  BY <1>4

\* SumFunctionOnSet (Functions) adds up the elements in some order, one picked
\* element before the rest.
Pick(T) == CHOOSE x \in T : TRUE

IsSum(g, f, S) ==
  g = [T \in SUBSET S |-> IF T = {} THEN 0
                          ELSE f[Pick(T)] + g[T \ {Pick(T)}]]

\* A finite set has such a sum of all its subsets, built from the small ones up.
LEMMA SumExists ==
  ASSUME NEW f, NEW S, IsFiniteSet(S)
  PROVE  \E g : IsSum(g, f, S)
<1> DEFINE Sub(n) == {T \in SUBSET S : Cardinality(T) <= n}
           Up(g, n) == [T \in Sub(n) |-> IF T = {} THEN 0
                          ELSE f[Pick(T)] + g[T \ {Pick(T)}]]
           Bad == {n \in Nat : ~ \E g : g = Up(g, n)}
<1>1. \A T \in SUBSET S : T # {} =>
        /\ Cardinality(T) \in Nat \ {0}
        /\ Pick(T) \in T
        /\ Cardinality(T \ {Pick(T)}) = Cardinality(T) - 1
  <2> TAKE T \in SUBSET S
  <2> SUFFICES ASSUME T # {}
               PROVE  /\ Cardinality(T) \in Nat \ {0}
                      /\ Pick(T) \in T
                      /\ Cardinality(T \ {Pick(T)}) = Cardinality(T) - 1
    OBVIOUS
  <2>1. IsFiniteSet(T)
    BY FS_Subset
  <2>2. Pick(T) \in T
    BY DEF Pick
  <2>3. QED
    BY <2>1, <2>2, FS_CardinalityType, FS_EmptySet, FS_RemoveElement
<1>2. /\ Cardinality({}) = 0
      /\ \A T \in SUBSET S : Cardinality(T) \in Nat
  BY FS_EmptySet, FS_CardinalityType, FS_Subset
<1>3. 0 \notin Bad
  <2> DEFINE g == [T \in Sub(0) |-> 0]
  <2>1. ASSUME NEW T \in Sub(0), T # {} PROVE FALSE
    <3>1. Cardinality(T) <= 0 /\ Cardinality(T) \in Nat \ {0}
      BY <1>1, <2>1
    <3>2. QED
      BY <3>1
  <2>2. g = Up(g, 0)
    BY <2>1
  <2>3. QED
    BY <2>2
<1>4. ASSUME NEW n \in Nat, n \notin Bad PROVE n + 1 \notin Bad
  <2>1. PICK g : g = Up(g, n)
    BY <1>4
  <2> DEFINE h == Up(g, n + 1)
  <2>2. \A T \in Sub(n) : h[T] = g[T]
    <3>1. ASSUME NEW T \in Sub(n) PROVE T \in Sub(n + 1)
      <4>1. Cardinality(T) \in Nat /\ Cardinality(T) <= n
        BY <1>2
      <4>2. QED
        BY <4>1
    <3>2. \A T \in Sub(n) : g[T] = IF T = {} THEN 0
                          ELSE f[Pick(T)] + g[T \ {Pick(T)}]
      BY <2>1, Zenon
    <3>3. QED
      BY <3>1, <3>2
  <2>3. \A T \in Sub(n + 1) : T # {} => T \ {Pick(T)} \in Sub(n)
    BY <1>1
  <2>4. h = Up(h, n + 1)
    <3>1. \A T \in Sub(n + 1) : h[T] = IF T = {} THEN 0
                          ELSE f[Pick(T)] + h[T \ {Pick(T)}]
      BY <2>2, <2>3
    <3> HIDE DEF Sub
    <3>2. h = [T \in Sub(n + 1) |-> h[T]]
      OBVIOUS
    <3> HIDE DEF h
    <3>3. QED
      BY <3>1, <3>2, Zenon
  <2>5. QED
    BY <2>4
<1>5. Bad = {}
  <2> SUFFICES ASSUME Bad # {} PROVE FALSE
    OBVIOUS
  <2> HIDE DEF Bad
  <2>1. Bad \in SUBSET Nat
    BY DEF Bad
  <2>2. PICK n \in Bad : \A m \in Bad : n <= m
    BY <2>1, Least
  <2>3. n # 0 /\ n - 1 \in Nat
    BY <1>3, <2>1
  <2>4. n - 1 \notin Bad
    BY <2>1, <2>2, <2>3
  <2>5. (n - 1) + 1 \notin Bad
    BY <1>4, <2>3, <2>4, Zenon
  <2>6. QED
    BY <2>1, <2>2, <2>5
<1>6. PICK g : g = Up(g, Cardinality(S))
  BY <1>2, <1>5
<1>7. Sub(Cardinality(S)) = SUBSET S
  BY FS_Subset
<1>8. QED
  BY <1>6, <1>7 DEF IsSum

\* A property that fails for a finite set fails for a smallest one.
LEMMA Smallest ==
  ASSUME NEW S, IsFiniteSet(S), NEW B \in SUBSET (SUBSET S), B # {}
  PROVE  \E T \in B : \A x \in T : T \ {x} \notin B
<1> DEFINE Cards == {Cardinality(T) : T \in B}
<1>1. \A T \in SUBSET S : IsFiniteSet(T) /\ Cardinality(T) \in Nat
  BY FS_Subset, FS_CardinalityType
<1>2. Cards \in SUBSET Nat /\ Cards # {}
  BY <1>1
<1>3. PICK n \in Cards : \A m \in Cards : n <= m
  <2> HIDE DEF Cards
  <2> QED
    BY <1>2, Least
<1>4. PICK T \in B : n = Cardinality(T)
  BY <1>3
<1>5. ASSUME NEW x \in T, T \ {x} \in B PROVE FALSE
  <2>1. Cardinality(T \ {x}) = Cardinality(T) - 1
    BY <1>1, FS_RemoveElement
  <2>2. Cardinality(T) <= Cardinality(T \ {x})
    BY <1>3, <1>4, <1>5
  <2>3. Cardinality(T) \in Nat
    BY <1>1
  <2> QED
    BY <2>1, <2>2, <2>3
<1> QED
  BY <1>5

\* SumFunctionOnSet is one of them.
LEMMA SumIs ==
  ASSUME NEW f, NEW S, IsFiniteSet(S)
  PROVE  \E g : IsSum(g, f, S) /\ SumFunctionOnSet(f, S) = g[S]
<1> DEFINE iter == CHOOSE iter :
             iter = [T \in SUBSET S |->
                       IF T = {} THEN 0
                       ELSE f[CHOOSE x \in T : TRUE]
                              + iter[T \ {CHOOSE x \in T : TRUE}]]
<1>1. SumFunctionOnSet(f, S) = iter[S]
  BY Zenon DEF SumFunctionOnSet, FoldFunctionOnSet, MapThenFoldSet
<1>2. IsSum(iter, f, S)
  <2>1. PICK g : IsSum(g, f, S)
    BY SumExists
  <2> QED
    BY <2>1, Zenon DEF IsSum, Pick
<1> QED
  BY <1>1, <1>2

\* What such a sum is: nothing for the empty set, and one element more for the
\* element that is picked.
LEMMA SumStep ==
  ASSUME NEW g, NEW f, NEW S, IsSum(g, f, S), NEW T \in SUBSET S
  PROVE  /\ T = {} => g[T] = 0
         /\ T # {} => /\ Pick(T) \in T
                      /\ g[T] = f[Pick(T)] + g[T \ {Pick(T)}]
<1>1. g[T] = IF T = {} THEN 0 ELSE f[Pick(T)] + g[T \ {Pick(T)}]
  BY Zenon DEF IsSum
<1>2. T # {} => Pick(T) \in T
  BY DEF Pick
<1> QED
  BY <1>1, <1>2

\* It depends on nothing but the summands.
LEMMA SumsAgree ==
  ASSUME NEW g, NEW f, NEW S, IsSum(g, f, S),
         NEW h, NEW e, NEW R, IsSum(h, e, R),
         IsFiniteSet(S), S \in SUBSET R, \A x \in S : f[x] = e[x]
  PROVE  g[S] = h[S]
<1> DEFINE B == {T \in SUBSET S : g[T] # h[T]}
<1>1. SUFFICES B = {}
  OBVIOUS
<1>2. SUFFICES ASSUME B # {} PROVE FALSE
  OBVIOUS
<1>3. B \in SUBSET (SUBSET S)
  OBVIOUS
<1>4. PICK T \in B : \A x \in T : T \ {x} \notin B
  <2> HIDE DEF B
  <2> QED
    BY <1>2, <1>3, Smallest
<1>5. CASE T = {}
  BY <1>5, SumStep
<1>6. CASE T # {}
  <2>1. /\ g[T] = f[Pick(T)] + g[T \ {Pick(T)}]
        /\ h[T] = e[Pick(T)] + h[T \ {Pick(T)}]
        /\ Pick(T) \in T
    BY <1>6, SumStep
  <2>2. g[T \ {Pick(T)}] = h[T \ {Pick(T)}]
    BY <2>1, <1>4
  <2> QED
    BY <2>1, <2>2
<1> QED
  BY <1>5, <1>6

\* Naturals add up to naturals.
LEMMA SumType ==
  ASSUME NEW g, NEW f, NEW S, IsSum(g, f, S), IsFiniteSet(S),
         \A x \in S : f[x] \in Nat
  PROVE  \A T \in SUBSET S : g[T] \in Nat
<1> DEFINE B == {T \in SUBSET S : g[T] \notin Nat}
<1>2. SUFFICES ASSUME B # {} PROVE FALSE
  OBVIOUS
<1>3. B \in SUBSET (SUBSET S)
  OBVIOUS
<1>4. PICK T \in B : \A x \in T : T \ {x} \notin B
  <2> HIDE DEF B
  <2> QED
    BY <1>2, <1>3, Smallest
<1>5. CASE T = {}
  <2>1. T \in SUBSET S /\ g[T] \notin Nat
    BY <1>4
  <2>2. g[T] = 0
    BY <1>5, <2>1, SumStep
  <2> QED
    BY <2>1, <2>2
<1>6. CASE T # {}
  <2>1. g[T] = f[Pick(T)] + g[T \ {Pick(T)}] /\ Pick(T) \in T
    BY <1>6, SumStep
  <2>2. g[T \ {Pick(T)}] \in Nat
    BY <2>1, <1>4
  <2> QED
    BY <2>1, <2>2
<1> QED
  BY <1>5, <1>6

\* Any element may come first.
LEMMA SumMove ==
  ASSUME NEW g, NEW f, NEW S, IsSum(g, f, S), IsFiniteSet(S),
         \A x \in S : f[x] \in Nat
  PROVE  \A T \in SUBSET S : \A x \in T : g[T] = f[x] + g[T \ {x}]
<1> DEFINE B == {T \in SUBSET S : \E x \in T : g[T] # f[x] + g[T \ {x}]}
<1>1. SUFFICES B = {}
  OBVIOUS
<1>2. SUFFICES ASSUME B # {} PROVE FALSE
  OBVIOUS
<1>3. B \in SUBSET (SUBSET S)
  OBVIOUS
<1>4. PICK T \in B : \A x \in T : T \ {x} \notin B
  <2> HIDE DEF B
  <2> QED
    BY <1>2, <1>3, Smallest
<1>5. PICK x \in T : g[T] # f[x] + g[T \ {x}]
  BY <1>4
<1>6. g[T] = f[Pick(T)] + g[T \ {Pick(T)}] /\ Pick(T) \in T
  BY SumStep
<1>7. x # Pick(T)
  BY <1>5, <1>6
<1> DEFINE y == Pick(T)
<1> HIDE DEF y
<1>8. y \in T /\ y # x /\ g[T] = f[y] + g[T \ {y}]
  BY <1>6, <1>7 DEF y
<1>9. g[T \ {y}] = f[x] + g[(T \ {y}) \ {x}]
  BY <1>4, <1>8
<1>10. g[T \ {x}] = f[y] + g[(T \ {x}) \ {y}]
  BY <1>4, <1>8
<1>11. (T \ {y}) \ {x} = (T \ {x}) \ {y}
  OBVIOUS
<1>12. g[(T \ {y}) \ {x}] \in Nat /\ f[x] \in Nat /\ f[y] \in Nat
  <2>1. \A U \in SUBSET S : g[U] \in Nat
    BY SumType
  <2>2. (T \ {y}) \ {x} \in SUBSET S /\ x \in S /\ y \in S
    BY <1>8
  <2> QED
    BY <2>1, <2>2
<1> DEFINE v == g[(T \ {y}) \ {x}]
<1> HIDE DEF v
<1>13. g[T \ {y}] = f[x] + v /\ g[T \ {x}] = f[y] + v
  BY <1>9, <1>10, <1>11, Zenon DEF v
<1>14. v \in Nat
  BY <1>12 DEF v
<1>15. f[y] + (f[x] + v) = f[x] + (f[y] + v)
  BY <1>12, <1>14
<1> QED
  BY <1>5, <1>8, <1>13, <1>15, Zenon

\* A sum loses what a removed element contributed to it.
LEMMA SumRemove ==
  ASSUME NEW f, NEW S, IsFiniteSet(S), \A x \in S : f[x] \in Nat, NEW x \in S
  PROVE  SumFunctionOnSet(f, S) = f[x] + SumFunctionOnSet(f, S \ {x})
<1>1. PICK g : IsSum(g, f, S) /\ SumFunctionOnSet(f, S) = g[S]
  BY SumIs
<1>2. IsFiniteSet(S \ {x})
  BY FS_RemoveElement
<1>3. PICK h : IsSum(h, f, S \ {x}) /\ SumFunctionOnSet(f, S \ {x}) = h[S \ {x}]
  BY <1>2, SumIs
<1>4. h[S \ {x}] = g[S \ {x}]
  BY <1>1, <1>2, <1>3, SumsAgree
<1>5. g[S] = f[x] + g[S \ {x}]
  BY <1>1, SumMove
<1> QED
  BY <1>1, <1>3, <1>4, <1>5

\* A sum of naturals is a natural.
LEMMA SumNat ==
  ASSUME NEW f, NEW S, IsFiniteSet(S), \A x \in S : f[x] \in Nat
  PROVE  SumFunctionOnSet(f, S) \in Nat
BY SumIs, SumType

\* Equal summands have equal sums.
LEMMA SumSame ==
  ASSUME NEW f, NEW e, NEW S, IsFiniteSet(S), \A x \in S : f[x] = e[x]
  PROVE  SumFunctionOnSet(f, S) = SumFunctionOnSet(e, S)
<1>1. PICK g : IsSum(g, f, S) /\ SumFunctionOnSet(f, S) = g[S]
  BY SumIs
<1>2. PICK h : IsSum(h, e, S) /\ SumFunctionOnSet(e, S) = h[S]
  BY SumIs
<1> QED
  BY <1>1, <1>2, SumsAgree

\* The sum of nothing.
LEMMA SumEmpty ==
  ASSUME NEW f PROVE SumFunctionOnSet(f, {}) = 0
BY SumIs, SumStep, FS_EmptySet
-----------------------------------------------------------------------------
(***************************************************************************)
(* The ledger.                                                             *)
(***************************************************************************)
\* The ledger, its recorded peak and the highest value that it ever had. A task
\* between its swap and its fetch_max still owes the recorded peak its share.
PeakInv ==
  /\ used <= highest
  /\ highest <= Limit
  /\ peak <= highest
  /\ \A t \in Tasks : pc[t] = "peak" => previous[t] + want[t] <= highest
  /\ \/ peak = highest
     \/ \E t \in Tasks : pc[t] = "peak" /\ previous[t] + want[t] = highest

\* Only finitely many charges exist at a time, however many tasks there are, and
\* the ledger is their sum.
ChargesInv == IsFiniteSet(Charged) /\ LedgerExact

BudgetInv == TypeOK /\ PeakInv /\ ChargesInv

\* What a task asks for is a number of bytes.
LEMMA WantsNat == TypeOK => \A t \in Tasks : want[t] \in Nat
<1> SUFFICES ASSUME want \in [Tasks -> Sizes \cup {0}], NEW t \in Tasks
             PROVE  want[t] \in Nat
  BY Zenon DEF TypeOK
<1>1. want[t] \in Sizes \cup {0}
  OBVIOUS
<1>2. CASE want[t] \in Sizes
  BY <1>2, SizesAssumption, Zenon
<1>3. CASE want[t] = 0
  BY <1>3, SMT
<1> QED
  BY <1>1, <1>2, <1>3

\* The initial ledger is empty (budget.rs:20-27).
LEMMA InitBudget == Init => BudgetInv
<1> SUFFICES ASSUME Init PROVE BudgetInv
  OBVIOUS
<1>1. Charged = {}
  BY DEF Init, Charged, Holds
<1>2. ChargesInv
  BY <1>1, SumEmpty, FS_EmptySet DEF ChargesInv, LedgerExact, Init
<1>3. TypeOK /\ PeakInv
  BY LimitAssumption, SMT DEF Init, TypeOK, PeakInv, Pcs
<1> QED
  BY <1>2, <1>3 DEF BudgetInv

\* A step that changes neither the ledger nor a charge that exists.
LEMMA ChargesStay ==
  ASSUME ChargesInv, used' = used, Charged' = Charged,
         \A t \in Charged : want'[t] = want[t]
  PROVE  ChargesInv'
<1>1. SumFunctionOnSet(want', Charged) = SumFunctionOnSet(want, Charged)
  <2> DEFINE w == want'
  <2>1. \A t \in Charged : w[t] = want[t]
    OBVIOUS
  <2> HIDE DEF w
  <2>2. SumFunctionOnSet(w, Charged) = SumFunctionOnSet(want, Charged)
    BY <2>1, SumSame DEF ChargesInv
  <2> QED
    BY <2>2 DEF w
<1>2. SumFunctionOnSet(want', Charged') = SumFunctionOnSet(want, Charged)
  BY <1>1
<1> QED
  BY <1>2 DEF ChargesInv, LedgerExact

\* A successful exchange adds a charge, and its bytes to the ledger
\* (budget.rs:83-97).
LEMMA ChargeAdded ==
  ASSUME TypeOK, ChargesInv, NEW t \in Tasks, Swap(t)
  PROVE  ChargesInv'
<1>1. /\ t \notin Charged /\ Charged' = Charged \cup {t}
      /\ want' = want /\ used' = used + want[t]
  BY SMT DEF TypeOK, Charged, Holds, Swap
<1> DEFINE C == Charged \cup {t}
<1>2. IsFiniteSet(C) /\ \A u \in C : want[u] \in Nat
  BY WantsNat, FS_AddElement DEF ChargesInv, Charged
<1>3. C \ {t} = Charged /\ t \in C
  BY <1>1
<1> HIDE DEF C
<1>4. SumFunctionOnSet(want, C) = want[t] + SumFunctionOnSet(want, C \ {t})
  BY <1>2, <1>3, SumRemove
<1>5. SumFunctionOnSet(want, C) = want[t] + used
  BY <1>3, <1>4 DEF ChargesInv, LedgerExact
<1>6. want[t] + used = used + want[t]
  BY WantsNat, SMT DEF TypeOK
<1>7. SumFunctionOnSet(want', Charged') = used'
  BY <1>1, <1>5, <1>6 DEF C
<1> QED
  BY <1>1, <1>2, <1>7 DEF ChargesInv, LedgerExact, C

\* A dropped charge leaves the ledger with the other charges, and with no less
\* than nothing (budget.rs:105-112).
LEMMA ChargeDropped ==
  ASSUME TypeOK, ChargesInv, NEW t \in Tasks, Release(t)
  PROVE  ChargesInv' /\ used' \in Nat
<1>1. t \in Charged /\ Charged' = Charged \ {t}
  BY SMT DEF TypeOK, Charged, Holds, Release
<1> DEFINE C == Charged \ {t}
           w == want'
<1>2. IsFiniteSet(C) /\ \A u \in Charged : want[u] \in Nat
  BY WantsNat, FS_RemoveElement DEF ChargesInv, Charged
<1>3. \A u \in C : w[u] = want[u]
  BY DEF Release, TypeOK, Charged
<1>4. used' = used - want[t]
  BY DEF Release
<1> HIDE DEF C, w
<1>5. used = want[t] + SumFunctionOnSet(want, C)
  BY <1>1, <1>2, SumRemove DEF ChargesInv, LedgerExact, C
<1>6. SumFunctionOnSet(want, C) \in Nat
  BY <1>2, SumNat DEF C
<1>7. used' = SumFunctionOnSet(want, C)
  BY <1>1, <1>2, <1>4, <1>5, <1>6
<1>8. SumFunctionOnSet(w, C) = SumFunctionOnSet(want, C)
  BY <1>2, <1>3, SumSame
<1>9. SumFunctionOnSet(want', Charged') = used'
  BY <1>1, <1>7, <1>8 DEF C, w
<1> QED
  BY <1>1, <1>2, <1>6, <1>7, <1>9 DEF ChargesInv, LedgerExact, C

\* Every step of reserve and of a charge's drop preserves all parts.
LEMMA NextBudget == BudgetInv /\ [Next]_vars => BudgetInv'
<1> SUFFICES ASSUME BudgetInv, [Next]_vars PROVE BudgetInv'
  OBVIOUS
<1>0. TypeOK /\ PeakInv /\ ChargesInv /\ \A t \in Tasks : want[t] \in Nat
  BY WantsNat DEF BudgetInv
<1> USE <1>0, LimitAssumption, SizesAssumption, PressureAssumption
    DEF TypeOK, PeakInv, Pcs
<1>1. ASSUME NEW t \in Tasks, NEW bytes \in Sizes, Reserve(t, bytes)
      PROVE  BudgetInv'
  <2>1. TypeOK' /\ PeakInv'
    BY <1>1, SMT DEF Reserve
  <2>2. /\ used' = used /\ Charged' = Charged
        /\ \A u \in Charged : want'[u] = want[u]
    BY <1>1, SMT DEF Reserve, Charged, Holds
  <2> QED
    BY <2>1, <2>2, ChargesStay, Zenon DEF BudgetInv
<1>2. ASSUME NEW t \in Tasks, NEW target \in Targets, NEW resident \in Resident,
             ReadLimit(t, target, resident)
      PROVE  BudgetInv'
  <2>1. Lower(Limit, Headroom(target, resident)) \in 0 .. Limit
    BY SMT DEF Lower, Headroom
  <2>2. TypeOK' /\ PeakInv'
    BY <1>2, <2>1, SMT DEF ReadLimit
  <2>3. used' = used /\ Charged' = Charged /\ want' = want
    BY <1>2, SMT DEF ReadLimit, Charged, Holds
  <2> QED
    BY <2>2, <2>3, ChargesStay, Zenon DEF BudgetInv
<1>3. ASSUME NEW t \in Tasks, Refuse(t) PROVE BudgetInv'
  <2>1. TypeOK' /\ PeakInv'
    BY <1>3, SMT DEF Refuse
  <2>2. /\ used' = used /\ Charged' = Charged
        /\ \A u \in Charged : want'[u] = want[u]
    BY <1>3, SMT DEF Refuse, Charged, Holds
  <2> QED
    BY <2>1, <2>2, ChargesStay, Zenon DEF BudgetInv
<1>4. ASSUME NEW t \in Tasks, Swap(t) PROVE BudgetInv'
  <2>1. TypeOK' /\ PeakInv'
    BY <1>4, SMT DEF Swap
  <2> QED
    BY <1>4, <2>1, ChargeAdded DEF BudgetInv
<1>5. ASSUME NEW t \in Tasks, SwapFails(t) PROVE BudgetInv'
  <2>1. TypeOK' /\ PeakInv'
    BY <1>5, SMT DEF SwapFails
  <2>2. used' = used /\ Charged' = Charged /\ want' = want
    BY <1>5, SMT DEF SwapFails, Charged, Holds
  <2> QED
    BY <2>1, <2>2, ChargesStay, Zenon DEF BudgetInv
<1>6. ASSUME NEW t \in Tasks, RaisePeak(t) PROVE BudgetInv'
  <2>1. TypeOK' /\ PeakInv'
    BY <1>6, SMT DEF RaisePeak
  <2>2. used' = used /\ Charged' = Charged /\ want' = want
    BY <1>6, SMT DEF RaisePeak, Charged, Holds
  <2> QED
    BY <2>1, <2>2, ChargesStay, Zenon DEF BudgetInv
<1>7. ASSUME NEW t \in Tasks, Release(t) PROVE BudgetInv'
  <2>1. ChargesInv' /\ used' \in Nat
    BY <1>7, ChargeDropped
  <2>2. TypeOK' /\ PeakInv'
    BY <1>7, <2>1, SMT DEF Release
  <2> QED
    BY <2>1, <2>2 DEF BudgetInv
<1>8. CASE UNCHANGED vars
  <2>1. TypeOK' /\ PeakInv'
    BY <1>8, SMT DEF vars
  <2>2. used' = used /\ Charged' = Charged /\ want' = want
    BY <1>8 DEF vars, Charged, Holds
  <2> QED
    BY <2>1, <2>2, ChargesStay, Zenon DEF BudgetInv
<1> QED
  BY <1>1, <1>2, <1>3, <1>4, <1>5, <1>6, <1>7, <1>8 DEF Next

LEMMA BudgetInvariance == Spec => []BudgetInv
  BY InitBudget, NextBudget, PTL DEF Spec

\* The types of the ledger (budget.rs:8-13): it never goes below zero, and a
\* computed limit never above the static one.
THEOREM BudgetTypes == Spec => []TypeOK
  BY BudgetInvariance, PTL DEF BudgetInv

\* The ledger is the sum of the charges that exist (budget.rs:72-112), however
\* reservations and drops interleave: no byte is lost, none is given back twice.
THEOREM LedgerIsExact == Spec => []LedgerExact
  BY BudgetInvariance, PTL DEF BudgetInv, ChargesInv

\* No interleaving of reservations takes the ledger over the static limit
\* (budget.rs:77-88), whatever the pressure source answers.
THEOREM LimitHolds == Spec => []WithinLimit
<1>1. BudgetInv => WithinLimit
  BY LimitAssumption, SMT DEF BudgetInv, TypeOK, PeakInv, WithinLimit
<1> QED
  BY <1>1, BudgetInvariance, PTL

\* When no reservation is between its swap and its fetch_max (budget.rs:89),
\* the recorded peak is the highest value that the ledger ever had.
THEOREM PeakRecorded == Spec => []PeakExact
<1>1. BudgetInv => PeakExact
  BY DEF BudgetInv, PeakInv, PeakExact
<1> QED
  BY <1>1, BudgetInvariance, PTL

-----------------------------------------------------------------------------
(***************************************************************************)
(* The contract of the budget.                                             *)
(***************************************************************************)
\* What limit() may answer.
Answers == {Lower(Limit, Headroom(target, resident)) :
              target \in Targets, resident \in Resident}

\* A task that is about to swap compares with such an answer, to a call that it
\* made since it last saw the ledger (budget.rs:76-93).
CapsInv ==
  \A t \in Tasks : pc[t] = "swap" => cap[t] \in Answers /\ answer[t] = cap[t]

LEMMA NextCaps == BudgetInv /\ CapsInv /\ [Next]_vars => CapsInv'
<1> SUFFICES ASSUME TypeOK, CapsInv, [Next]_vars, NEW u \in Tasks,
                    pc'[u] = "swap"
             PROVE  cap'[u] \in Answers /\ answer'[u] = cap'[u]
  BY DEF BudgetInv, CapsInv
<1> USE DEF TypeOK, Pcs
<1>1. CASE pc[u] = "swap" /\ cap'[u] = cap[u] /\ answer'[u] = answer[u]
  BY <1>1 DEF CapsInv
<1>2. ASSUME NEW t \in Tasks, NEW target \in Targets, NEW resident \in Resident,
             ReadLimit(t, target, resident)
      PROVE  cap'[u] \in Answers /\ answer'[u] = cap'[u]
  <2>1. CASE t = u
    <3>1. /\ cap'[u] = Lower(Limit, Headroom(target, resident))
          /\ answer'[u] = cap'[u]
      BY <1>2, <2>1 DEF ReadLimit
    <3> QED
      BY <3>1 DEF Answers
  <2>2. CASE t # u
    BY <1>1, <1>2, <2>2 DEF ReadLimit
  <2> QED
    BY <2>1, <2>2
<1>3. CASE UNCHANGED vars
  BY <1>1, <1>3 DEF vars
<1>4. ASSUME NEW t \in Tasks,
             \/ \E bytes \in Sizes : Reserve(t, bytes)
             \/ Refuse(t) \/ Swap(t) \/ SwapFails(t) \/ RaisePeak(t) \/ Release(t)
      PROVE  cap'[u] \in Answers /\ answer'[u] = cap'[u]
  <2>1. /\ cap' = cap
        /\ \/ pc'[u] # "swap"
           \/ pc'[u] = pc[u] /\ answer'[u] = answer[u]
    BY <1>4 DEF Reserve, Refuse, Swap, SwapFails, RaisePeak, Release
  <2> QED
    BY <1>1, <2>1
<1> QED
  BY <1>2, <1>3, <1>4 DEF Next

LEMMA CapsInvariance == Spec => []CapsInv
<1>1. Init => CapsInv
  BY DEF Init, CapsInv
<1> QED
  BY <1>1, NextCaps, BudgetInvariance, PTL DEF Spec

\* A reservation that succeeds leaves the ledger within a limit that was
\* computed after the call last saw the ledger (budget.rs:74-93): the exchange
\* proves that nobody moved the ledger since.
THEOREM GrantsFit == Spec => GrantIsFresh
<1>1. BudgetInv /\ CapsInv /\ [Next]_vars =>
        [\A t \in Tasks :
           pc[t] = "swap" /\ pc'[t] = "peak" => used' <= answer[t]]_vars
  <2> SUFFICES ASSUME BudgetInv, CapsInv, Next, NEW t \in Tasks,
                      pc[t] = "swap", pc'[t] = "peak"
               PROVE  used' <= answer[t]
    OBVIOUS
  <2> USE DEF BudgetInv, TypeOK, Pcs
  <2>1. PICK u \in Tasks :
          \/ \E bytes \in Sizes : Reserve(u, bytes)
          \/ \E target \in Targets, resident \in Resident :
               ReadLimit(u, target, resident)
          \/ Refuse(u) \/ Swap(u) \/ SwapFails(u) \/ RaisePeak(u) \/ Release(u)
    BY DEF Next
  <2>2. Swap(t)
    BY <2>1, SMT
    DEF Reserve, ReadLimit, Refuse, Swap, SwapFails, RaisePeak, Release
  <2> QED
    BY <2>2 DEF Swap, CapsInv
<1> QED
  BY <1>1, BudgetInvariance, CapsInvariance, PTL DEF Spec, GrantIsFresh

\* What a task is charged, and what every task is.
Has(t) == IF pc[t] \in Holds THEN want[t] ELSE 0
Charges == [t \in Tasks |-> Has(t)]

\* A step of one task that changes no charge and not the ledger is none of the
\* contract's.
LEMMA NoMove ==
  ASSUME used' = used, \A t \in Tasks : Has(t)' = Has(t)
  PROVE  UNCHANGED (Contract!ledgerVars)
<1>1. Charges' = Charges
  BY DEF Charges
<1> QED
  BY <1>1 DEF Contract!ledgerVars, Charges, Has

\* The charge of one task changes, and the ledger with it.
LEMMA Moves ==
  ASSUME NEW t \in Tasks, Has(t)' \in Nat,
         \A u \in Tasks \ {t} : Has(u)' = Has(u),
         used' = (used - Has(t)) + Has(t)'
  PROVE  Contract!Move(t)
<1>1. Charges' = [Charges EXCEPT ![t] = Charges'[t]]
  BY DEF Charges
<1>2. Charges[t] = Has(t) /\ Charges'[t] = Has(t)'
  BY DEF Charges
<1> QED
  BY <1>1, <1>2 DEF Contract!Move, Charges, Has

\* Only the exchange and the drop are steps of the contract.
LEMMA LedgerMoves ==
  BudgetInv /\ CapsInv /\ [Next]_vars
    => [Contract!LedgerNext]_(Contract!ledgerVars)
<1> SUFFICES ASSUME BudgetInv, CapsInv, [Next]_vars
             PROVE  [Contract!LedgerNext]_(Contract!ledgerVars)
  OBVIOUS
<1>0. TypeOK /\ \A t \in Tasks : want[t] \in Nat
  BY WantsNat DEF BudgetInv
<1>1. ASSUME NEW t \in Tasks, Swap(t)
      PROVE  [Contract!LedgerNext]_(Contract!ledgerVars)
  <2>1. /\ Has(t) = 0 /\ Has(t)' = want[t]
        /\ \A u \in Tasks \ {t} : Has(u)' = Has(u)
        /\ used' = used + want[t] /\ used \in Nat
        /\ used' <= cap[t] /\ cap[t] \in Answers
    BY <1>0, <1>1 DEF Swap, Has, Holds, TypeOK, Pcs, CapsInv
  <2>2. CASE want[t] = 0
    BY <2>1, <2>2, NoMove
  <2>3. CASE want[t] # 0
    <3>1. Contract!Move(t)
      BY <1>0, <2>1, Moves
    <3>2. Has(t) < Has(t)'
      BY <1>0, <2>1, <2>3
    <3>3. Contract!Grant(t)
      BY <2>1, <3>1, <3>2 DEF Contract!Grant, Has, Answers
    <3> QED
      BY <3>3 DEF Contract!LedgerNext
  <2> QED
    BY <2>2, <2>3
<1>2. ASSUME NEW t \in Tasks, Release(t)
      PROVE  [Contract!LedgerNext]_(Contract!ledgerVars)
  <2>1. /\ Has(t) = want[t] /\ Has(t)' = 0
        /\ \A u \in Tasks \ {t} : Has(u)' = Has(u)
        /\ used' = used - want[t] /\ used \in Nat
    BY <1>0, <1>2 DEF Release, Has, Holds, TypeOK, Pcs
  <2>2. CASE want[t] = 0
    BY <2>1, <2>2, NoMove
  <2>3. CASE want[t] # 0
    <3>1. Contract!Move(t)
      BY <1>0, <2>1, Moves
    <3>2. Has(t)' < Has(t)
      BY <1>0, <2>1, <2>3
    <3>3. Contract!Release(t)
      BY <3>1, <3>2 DEF Contract!Release, Has
    <3> QED
      BY <3>3 DEF Contract!LedgerNext
  <2> QED
    BY <2>2, <2>3
<1>3. ASSUME NEW t \in Tasks,
             \/ \E bytes \in Sizes : Reserve(t, bytes)
             \/ \E target \in Targets, resident \in Resident :
                  ReadLimit(t, target, resident)
             \/ Refuse(t) \/ SwapFails(t) \/ RaisePeak(t)
      PROVE  [Contract!LedgerNext]_(Contract!ledgerVars)
  <2>1. used' = used /\ \A u \in Tasks : Has(u)' = Has(u)
    BY <1>0, <1>3
    DEF Reserve, ReadLimit, Refuse, SwapFails, RaisePeak, Has, Holds, TypeOK,
        Pcs
  <2> QED
    BY <2>1, NoMove
<1>4. CASE UNCHANGED vars
  <2>1. used' = used /\ \A u \in Tasks : Has(u)' = Has(u)
    BY <1>4 DEF vars, Has
  <2> QED
    BY <2>1, NoMove
<1> QED
  BY <1>1, <1>2, <1>3, <1>4 DEF Next

\* However the steps of calls and drops interleave, a reservation takes effect
\* at once, at its exchange and within a limit that limit() answered, and a
\* charge is returned at once by its drop (budget.rs:72-113).
THEOREM LedgerKept == Spec => ImplementsLedger
<1>1. Init => Contract!LedgerInit
  BY DEF Init, Contract!LedgerInit, Holds
<1> QED
  BY <1>1, LedgerMoves, CapsInvariance, BudgetInvariance, PTL
  DEF Spec, ImplementsLedger, Contract!LedgerSpec
=============================================================================
