----------------------------- MODULE SortProofs -----------------------------
(***************************************************************************)
(* Theorems about sorts: for a session (module SpillSession) that its      *)
(* frontier of runs keeps every row, older rows in older runs; for a whole *)
(* sort (module SortPipeline) that what its stream yields is sorted; and   *)
(* for a merge of a group of files into one (module GroupMerge) that it    *)
(* loses no row.  The frontier and the group may have any length, rows and *)
(* keys any number.                                                        *)
(*                                                                         *)
(* The first part is induction over naturals, in a form that needs no      *)
(* operator as a parameter: a property that fails for some number fails    *)
(* for a least one.                                                        *)
(***************************************************************************)
EXTENDS SortPipeline, GroupMerge, Integers, SequenceTheorems,
        FiniteSetTheorems, WellFoundedInduction, TLAPS

\* A set of naturals that is not empty has a least element.
LEMMA Least ==
  ASSUME NEW T \in SUBSET Nat, T # {}
  PROVE  \E n \in T : \A m \in T : n <= m
<1> DEFINE R == OpToRel(<, Nat)
<1>1. IsWellFoundedOn(R, Nat)
  BY NatLessThanWellFounded
<1>2. R = {ss \in Nat \X Nat : ss[1] < ss[2]}
  BY DEF R, OpToRel
<1> HIDE DEF R
<1>3. PICK n \in T : \A m \in T : <<m, n>> \notin R
  BY <1>1, WFMin
<1>4. ASSUME NEW m \in T, m < n PROVE FALSE
  <2>1. <<m, n>> \in Nat \X Nat /\ <<m, n>>[1] < <<m, n>>[2]
    BY <1>4
  <2>2. QED
    BY <1>2, <1>3, <2>1
<1>5. QED
  BY <1>4

\* Induction up to a bound, for the set of the numbers with a property.
LEMMA UpTo ==
  ASSUME NEW m \in Nat, NEW B,
         0 \in B, \A n \in 0 .. m - 1 : n \in B => n + 1 \in B
  PROVE  \A n \in 0 .. m : n \in B
<1> DEFINE T == {n \in 0 .. m : n \notin B}
<1> SUFFICES ASSUME T # {} PROVE FALSE
  OBVIOUS
<1>1. T \in SUBSET Nat
  OBVIOUS
<1>2. PICK n \in T : \A k \in T : n <= k
  <2> HIDE DEF T
  <2> QED
    BY <1>1, Least
<1>3. n \in 1 .. m /\ n \notin B
  BY <1>2
<1>4. n - 1 \in 0 .. m - 1 /\ n - 1 \in B
  BY <1>2, <1>3
<1>5. (n - 1) + 1 \in B
  BY <1>4
<1> QED
  BY <1>3, <1>5

\* A recursive function over an interval exists: it starts with b, and R takes
\* it from step to step within a set of values.
Steps(f, m, b, R) == f[0] = b /\ \A n \in 0 .. m - 1 : f[n + 1] = R[n][f[n]]

LEMMA Recursion ==
  ASSUME NEW m \in Nat, NEW D, NEW b \in D, NEW R \in [0 .. m - 1 -> [D -> D]]
  PROVE  \E f \in [0 .. m -> D] : Steps(f, m, b, R)
<1> DEFINE B == {k \in 0 .. m : \E f \in [0 .. m -> D] : Steps(f, k, b, R)}
<1>1. 0 \in B
  <2> DEFINE g == [n \in 0 .. m |-> b]
  <2>1. g \in [0 .. m -> D] /\ g[0] = b
    OBVIOUS
  <2> HIDE DEF g
  <2>2. Steps(g, 0, b, R) /\ 0 \in 0 .. m
    BY <2>1 DEF Steps
  <2> QED
    BY <2>1, <2>2
<1>2. ASSUME NEW k \in 0 .. m - 1, k \in B PROVE k + 1 \in B
  <2>1. PICK f \in [0 .. m -> D] : Steps(f, k, b, R)
    BY <1>2
  <2> DEFINE v == R[k][f[k]]
             g == [n \in 0 .. m |-> IF n = k + 1 THEN v ELSE f[n]]
  <2>2. v \in D
    BY <2>1
  <2>3. g \in [0 .. m -> D]
    BY <2>2
  <2>4. g[0] = b /\ g[k + 1] = v /\ \A n \in 0 .. k : g[n] = f[n]
    BY <2>1 DEF Steps
  <2>5. ASSUME NEW n \in 0 .. k PROVE g[n + 1] = R[n][g[n]]
    <3>1. CASE n = k
      BY <2>4, <3>1
    <3>2. CASE n # k
      <4>1. n \in 0 .. k - 1 /\ n + 1 \in 0 .. k
        BY <3>2
      <4>2. f[n + 1] = R[n][f[n]]
        BY <2>1, <4>1 DEF Steps
      <4> QED
        BY <2>4, <4>1, <4>2
    <3> QED
      BY <3>1, <3>2
  <2> HIDE DEF g
  <2>6. Steps(g, k + 1, b, R)
    BY <2>4, <2>5 DEF Steps
  <2>7. k + 1 \in 0 .. m
    OBVIOUS
  <2> QED
    BY <2>3, <2>6, <2>7
<1>3. m \in B
  <2> HIDE DEF B
  <2>1. \A n \in 0 .. m : n \in B
    BY <1>1, <1>2, UpTo
  <2> QED
    BY <2>1
<1> QED
  BY <1>3

-----------------------------------------------------------------------------
(***************************************************************************)
(* Powers of two, and sequences of runs.                                   *)
(***************************************************************************)
\* A counter of n bits, and the runs merged into one of level n (session.rs:
\* 51-52, 330-342), are powers of two.
LEMMA Powers ==
  /\ Pow2 \in [0 .. Levels -> Nat \ {0}]
  /\ Pow2[0] = 1
  /\ \A n \in 0 .. Levels - 1 : Pow2[n + 1] = 2 * Pow2[n]
<1> USE LevelsAssumption
<1> DEFINE D == Nat \ {0}
           R == [n \in 0 .. Levels - 1 |-> [d \in D |-> 2 * d]]
           P(f) == f = [n \in 0 .. Levels |-> IF n = 0 THEN 1 ELSE 2 * f[n - 1]]
<1>1. \E f : P(f)
  <2>1. Levels \in Nat /\ 1 \in D /\ R \in [0 .. Levels - 1 -> [D -> D]]
    OBVIOUS
  <2>2. \A n \in 0 .. Levels - 1, d \in D : R[n][d] = 2 * d
    OBVIOUS
  <2> HIDE DEF R, D
  <2>3. PICK f \in [0 .. Levels -> D] : Steps(f, Levels, 1, R)
    BY <2>1, Recursion, Zenon
  <2>4. ASSUME NEW n \in 0 .. Levels
        PROVE  f[n] = IF n = 0 THEN 1 ELSE 2 * f[n - 1]
    <3>1. CASE n = 0
      BY <2>3, <3>1 DEF Steps
    <3>2. CASE n # 0
      <4>1. n - 1 \in 0 .. Levels - 1 /\ n - 1 \in 0 .. Levels /\ (n - 1) + 1 = n
        BY <3>2
      <4>2. f[n] = R[n - 1][f[n - 1]]
        BY <2>3, <4>1 DEF Steps
      <4>3. f[n - 1] \in D
        BY <4>1
      <4> QED
        BY <3>2, <2>2, <4>1, <4>2, <4>3
    <3> QED
      BY <3>1, <3>2
  <2>5. P(f)
    BY <2>4, SMT
  <2> QED
    BY <2>5
<1>2. P(Pow2)
  BY <1>1, Zenon DEF Pow2
<1>3. /\ \A n \in 0 .. Levels : Pow2[n] = IF n = 0 THEN 1 ELSE 2 * Pow2[n - 1]
      /\ Pow2 = [n \in 0 .. Levels |-> Pow2[n]]
  <2> DEFINE f == Pow2
  <2>1. P(f)
    BY <1>2
  <2> HIDE DEF f
  <2>2. /\ \A n \in 0 .. Levels : f[n] = IF n = 0 THEN 1 ELSE 2 * f[n - 1]
        /\ f = [n \in 0 .. Levels |-> f[n]]
    BY <2>1
  <2> QED
    BY <2>2 DEF f
<1>4. Pow2[0] = 1 /\ \A n \in 0 .. Levels - 1 : Pow2[n + 1] = 2 * Pow2[n]
  <2>1. Pow2[0] = 1
    <3>1. \A n \in 0 .. Levels : Pow2[n] = IF n = 0 THEN 1 ELSE 2 * Pow2[n - 1]
      BY <1>3
    <3>2. 0 \in 0 .. Levels
      OBVIOUS
    <3> QED
      BY <3>1, <3>2, Zenon
  <2>2. ASSUME NEW n \in 0 .. Levels - 1 PROVE Pow2[n + 1] = 2 * Pow2[n]
    <3>1. n + 1 \in 0 .. Levels /\ n + 1 # 0 /\ (n + 1) - 1 = n
      OBVIOUS
    <3> QED
      BY <1>3, <3>1
  <2> QED
    BY <2>1, <2>2
<1>5. \A n \in 0 .. Levels : Pow2[n] \in D
  <2> DEFINE B == {n \in Nat : Pow2[n] \in D}
  <2>1. 0 \in B
    BY <1>4
  <2>2. \A n \in 0 .. Levels - 1 : n \in B => n + 1 \in B
    BY <1>4
  <2>3. \A n \in 0 .. Levels : n \in B
    <3> HIDE DEF B
    <3> QED
      BY <2>1, <2>2, UpTo
  <2> QED
    BY <2>3
<1> QED
  BY <1>3, <1>4, <1>5

\* A sequence of runs, each of rows older than those of the next.
Lines(s) ==
  /\ s \in Seq(SUBSET Nat)
  /\ \A i, j \in DOMAIN s : i < j => \A x \in s[i], y \in s[j] : x < y

\* One more run, newer than the ones before it.
LEMMA AppendLines ==
  ASSUME NEW s, Lines(s), NEW run \in SUBSET Nat,
         \A i \in DOMAIN s : \A x \in s[i], y \in run : x < y
  PROVE  /\ Lines(Append(s, run))
         /\ DOMAIN s = 1 .. Len(s) /\ Len(s) \in Nat
         /\ DOMAIN Append(s, run) = 1 .. Len(s) + 1
         /\ \A i \in DOMAIN s : Append(s, run)[i] = s[i]
         /\ Append(s, run)[Len(s) + 1] = run
<1> DEFINE t == Append(s, run)
<1>1. /\ s \in Seq(SUBSET Nat) /\ DOMAIN s = 1 .. Len(s) /\ Len(s) \in Nat
      /\ t \in Seq(SUBSET Nat) /\ DOMAIN t = 1 .. Len(s) + 1
      /\ \A i \in DOMAIN s : t[i] = s[i]
      /\ t[Len(s) + 1] = run
  BY DEF Lines
<1> HIDE DEF t
<1>2. Lines(t)
  <2> SUFFICES ASSUME NEW i \in DOMAIN t, NEW j \in DOMAIN t, i < j
               PROVE  \A x \in t[i], y \in t[j] : x < y
    BY <1>1 DEF Lines
  <2>1. i \in DOMAIN s
    BY <1>1
  <2>2. CASE j \in DOMAIN s
    BY <1>1, <2>1, <2>2 DEF Lines
  <2>3. CASE j = Len(s) + 1
    BY <1>1, <2>1, <2>3
  <2> QED
    BY <1>1, <2>2, <2>3
<1> QED
  BY <1>1, <1>2 DEF t

\* The frontier, from its highest level down, is such a sequence (session.rs:233-
\* 241) of all its runs.
LEMMA FrontierRuns ==
  ASSUME spills \in [Slots -> SUBSET Nat],
         \A l, m \in Slots : l < m => \A x \in spills[m], y \in spills[l] : x < y
  PROVE  /\ Lines(Frontier)
         /\ \A i \in DOMAIN Frontier : \E l \in Slots : Frontier[i] = spills[l]
         /\ \A l \in Slots : spills[l] # {} =>
              \E i \in DOMAIN Frontier : Frontier[i] = spills[l]
<1> USE LevelsAssumption
<1> DEFINE D == Seq(SUBSET Nat)
           next(n, s) == IF spills[Levels - n] = {} THEN s
                         ELSE Append(s, spills[Levels - n])
           R == [n \in 0 .. Levels - 1 |-> [s \in D |-> next(n + 1, s)]]
           P(f) == f = [n \in 0 .. Levels |->
                          IF n = 0 THEN <<>>
                          ELSE IF spills[Levels - n] = {} THEN f[n - 1]
                          ELSE Append(f[n - 1], spills[Levels - n])]
           top == CHOOSE f : P(f)
<1>1. \A n \in 1 .. Levels : Levels - n \in Slots
  BY DEF Slots
<1>2. ASSUME NEW n \in 1 .. Levels, NEW s \in D PROVE next(n, s) \in D
  <2>1. spills[Levels - n] \in SUBSET Nat
    BY <1>1
  <2>2. Append(s, spills[Levels - n]) \in D
    BY <2>1, AppendProperties
  <2>3. CASE spills[Levels - n] = {}
    BY <2>3
  <2>4. CASE spills[Levels - n] # {}
    BY <2>2, <2>4
  <2> QED
    BY <2>3, <2>4
<1>3. \E f : P(f)
  <2>1. R \in [0 .. Levels - 1 -> [D -> D]]
    <3>1. \A n \in 0 .. Levels - 1 : n + 1 \in 1 .. Levels
      OBVIOUS
    <3>2. \A n \in 0 .. Levels - 1 : \A s \in D : next(n + 1, s) \in D
      BY <1>2, <3>1
    <3> HIDE DEF next, D
    <3> QED
      BY <3>2
  <2>2. \A n \in 0 .. Levels - 1, s \in D : R[n][s] = next(n + 1, s)
    OBVIOUS
  <2>3. <<>> \in D
    OBVIOUS
  <2> HIDE DEF R, D
  <2>4. PICK f \in [0 .. Levels -> D] : Steps(f, Levels, <<>>, R)
    BY <2>1, <2>3, Recursion, Zenon
  <2>5. ASSUME NEW n \in 0 .. Levels
        PROVE  f[n] = IF n = 0 THEN <<>> ELSE next(n, f[n - 1])
    <3>1. CASE n = 0
      BY <2>4, <3>1 DEF Steps
    <3>2. CASE n # 0
      <4>1. n - 1 \in 0 .. Levels - 1 /\ n - 1 \in 0 .. Levels /\ (n - 1) + 1 = n
        BY <3>2
      <4>2. f[n] = R[n - 1][f[n - 1]]
        BY <2>4, <4>1 DEF Steps
      <4>3. f[n - 1] \in D
        BY <4>1
      <4>4. R[n - 1][f[n - 1]] = next((n - 1) + 1, f[n - 1])
        BY <2>2, <4>1, <4>3
      <4> QED
        BY <3>2, <4>1, <4>2, <4>4, Zenon
    <3> QED
      BY <3>1, <3>2
  <2>6. P(f)
    BY <2>5
  <2> QED
    BY <2>6
<1>4. Frontier = top[Levels]
  BY Zenon DEF Frontier
<1>5. P(top)
  BY <1>3
<1> HIDE DEF top
<1>6. \A n \in 0 .. Levels : top[n] = IF n = 0 THEN <<>> ELSE next(n, top[n - 1])
  BY <1>5
<1> HIDE DEF P, R, next
<1> DEFINE Good(n) ==
             /\ Lines(top[n])
             /\ \A i \in DOMAIN top[n] :
                  \E l \in Slots : l >= Levels - n /\ top[n][i] = spills[l]
             /\ \A l \in Slots : l >= Levels - n /\ spills[l] # {} =>
                  \E i \in DOMAIN top[n] : top[n][i] = spills[l]
           B == {n \in Nat : Good(n)}
<1>7. Good(0)
  <2>1. top[0] = <<>>
    BY <1>6
  <2> QED
    BY <2>1 DEF Lines, Slots
<1>8. ASSUME NEW n \in 0 .. Levels - 1, Good(n) PROVE Good(n + 1)
  <2> DEFINE s == top[n]
             t == top[n + 1]
             m == Levels - (n + 1)
  <2>1. t = IF spills[m] = {} THEN s ELSE Append(s, spills[m])
    <3>1. n + 1 \in 0 .. Levels /\ n + 1 # 0 /\ (n + 1) - 1 = n
      OBVIOUS
    <3>2. t = next(n + 1, s)
      BY <1>6, <3>1
    <3> QED
      BY <3>2 DEF next
  <2>2. m \in Slots /\ \A l \in Slots : l >= m <=> l = m \/ l >= Levels - n
    BY DEF Slots
  <2>3. m < Levels - n
    OBVIOUS
  <2>4. /\ Lines(s)
        /\ \A i \in DOMAIN s : \E l \in Slots : l >= Levels - n /\ s[i] = spills[l]
        /\ \A l \in Slots : l >= Levels - n /\ spills[l] # {} =>
             \E i \in DOMAIN s : s[i] = spills[l]
    BY <1>8
  <2> HIDE DEF s, t, m
  <2>5. CASE spills[m] = {}
    <3>1. t = s
      BY <2>1, <2>5
    <3>2. /\ Lines(t)
          /\ \A i \in DOMAIN t : \E l \in Slots : l >= m /\ t[i] = spills[l]
          /\ \A l \in Slots : l >= m /\ spills[l] # {} =>
               \E i \in DOMAIN t : t[i] = spills[l]
      BY <2>2, <2>4, <2>5, <3>1, Zenon
    <3> QED
      BY <3>2 DEF t, m
  <2>6. CASE spills[m] # {}
    <3>1. t = Append(s, spills[m])
      BY <2>1, <2>6
    <3>2. spills[m] \in SUBSET Nat
      BY <2>2
    <3>3. \A i \in DOMAIN s : \A x \in s[i], y \in spills[m] : x < y
      <4> TAKE i \in DOMAIN s
      <4>1. PICK l \in Slots : l >= Levels - n /\ s[i] = spills[l]
        BY <2>4
      <4>2. m < l
        BY <2>2, <2>3, <4>1 DEF Slots, m
      <4> QED
        BY <2>2, <4>1, <4>2
    <3>4. /\ Lines(t)
          /\ DOMAIN s = 1 .. Len(s) /\ Len(s) \in Nat
          /\ DOMAIN t = 1 .. Len(s) + 1
          /\ \A i \in DOMAIN s : t[i] = s[i]
          /\ t[Len(s) + 1] = spills[m]
      BY <2>4, <3>1, <3>2, <3>3, AppendLines
    <3>5. \A i \in DOMAIN t : \E l \in Slots : l >= m /\ t[i] = spills[l]
      <4> TAKE i \in DOMAIN t
      <4>1. CASE i \in DOMAIN s
        BY <2>2, <2>4, <3>4, <4>1
      <4>2. CASE i = Len(s) + 1
        BY <2>2, <3>4, <4>2
      <4> QED
        BY <3>4, <4>1, <4>2
    <3>6. \A l \in Slots : l >= m /\ spills[l] # {} =>
            \E i \in DOMAIN t : t[i] = spills[l]
      <4> SUFFICES ASSUME NEW l \in Slots, l >= m, spills[l] # {}
                   PROVE  \E i \in DOMAIN t : t[i] = spills[l]
        OBVIOUS
      <4>1. CASE l = m
        <5>1. Len(s) + 1 \in DOMAIN t
          BY <3>4
        <5> QED
          BY <3>4, <4>1, <5>1
      <4>2. CASE l >= Levels - n
        BY <2>4, <3>4, <4>2
      <4> QED
        BY <2>2, <4>1, <4>2
    <3> QED
      BY <3>4, <3>5, <3>6 DEF t, m
  <2> QED
    BY <2>5, <2>6
<1>9. Good(Levels)
  <2>1. 0 \in B
    BY <1>7
  <2>2. \A n \in 0 .. Levels - 1 : n \in B => n + 1 \in B
    BY <1>8
  <2>3. Levels \in B
    <3> HIDE DEF B
    <3>1. \A n \in 0 .. Levels : n \in B
      BY <2>1, <2>2, UpTo
    <3> QED
      BY <3>1
  <2> QED
    BY <2>3
<1>10. \A l \in Slots : l >= Levels - Levels
  BY DEF Slots
<1> QED
  BY <1>4, <1>9, <1>10, Zenon
-----------------------------------------------------------------------------
(***************************************************************************)
(* Where the rows are.                                                     *)
(***************************************************************************)
\* Rows are where the call under way has put them: a run is in hand only during
\* the carry, which starts by releasing the buffer (session.rs:321-324), and
\* the carry leaves only empty levels below it (session.rs:325-344).
PlaceInv ==
  /\ pc \in Pcs /\ resume \in {"idle", "grow", "collect"} /\ failed \in BOOLEAN
  /\ nextRow \in Nat
  /\ level \in Nat
  /\ spills \in [Slots -> SUBSET Nat]
  /\ buffer \subseteq Nat /\ hand \subseteq Nat /\ older \subseteq Nat
  /\ (\A x \in buffer : x < nextRow) /\ (\A x \in hand : x < nextRow)
  /\ \A x \in older : x < nextRow
  /\ \A l \in Slots : \A x \in spills[l] : x < nextRow
  /\ pc \in {"carry", "merge"} =>
       /\ buffer = {}
       /\ \A l \in Slots : l < level => spills[l] = {}
  /\ pc = "merge" => level \in Slots /\ spills[level] = {}
  /\ pc # "merge" => older = {}
  /\ pc \notin {"carry", "merge"} => hand = {}
  /\ pc \in {"write", "carry", "merge"} => failed
  /\ pc \in {"grow", "spill", "collect"} => ~failed

\* Wherever two rows are held, in different places, the older place holds the
\* older row (session.rs:49-50, 334-336).
OrderInv ==
  /\ \A l, m \in Slots : l < m =>
       \A x \in spills[m], y \in spills[l] : x < y
  /\ \A l \in Slots :
       \A x \in spills[l] :
         /\ \A y \in older : x < y
         /\ \A y \in hand : x < y
         /\ \A y \in buffer : x < y
  /\ \A x \in older, y \in hand : x < y

\* While nothing has failed, the places hold every row accepted so far.
KeptInv ==
  pc \in {"idle", "grow", "spill", "write", "carry", "merge", "collect"}
    /\ (failed => pc # "idle") =>
      \A x \in 0 .. nextRow - 1 :
        x \in buffer \/ x \in hand \/ x \in older \/ \E l \in Slots : x \in spills[l]

SessionInv == PlaceInv /\ OrderInv /\ KeptInv

\* The new session (session.rs:70-94) is empty.
LEMMA InitSession == Init => SessionInv
  BY LevelsAssumption, SMT
  DEF Init, SessionInv, PlaceInv, OrderInv, KeptInv, Slots, Pcs

\* Every step puts rows where the next one looks for them.
LEMMA PlaceStep == SessionInv /\ [Next]_vars => PlaceInv'
<1> SUFFICES ASSUME SessionInv, [Next]_vars PROVE PlaceInv'
  OBVIOUS
<1> USE LevelsAssumption
    DEF SessionInv, PlaceInv, Pcs, Slots
<1>1. CASE Push
  BY <1>1, SMT DEF Push, frontierVars
<1>2. CASE GrowRefused
  BY <1>2, SMT DEF GrowRefused, frontierVars
<1>3. CASE PushRow
  BY <1>3, SMT DEF PushRow, frontierVars
<1>4. CASE Spill
  BY <1>4, SMT DEF Spill, frontierVars
<1>5. CASE WriteRun
  BY <1>5, SMT DEF WriteRun
<1>6. CASE TakeOlder
  BY <1>6, SMT DEF TakeOlder
<1>7. CASE MergeOlder
  BY <1>7, SMT DEF MergeOlder
<1>8. CASE Store
  <2>1. level \in Slots
    BY <1>8, SMT DEF Store
  <2>2. spills' \in [Slots -> SUBSET Nat]
    BY <1>8, SMT DEF Store
  <2>3. \A l \in Slots : spills'[l] = IF l = level THEN hand ELSE spills[l]
    BY <1>8, SMT DEF Store
  <2>4. \A l \in Slots : \A x \in spills'[l] : x < nextRow
    <3> SUFFICES ASSUME NEW l \in Slots, NEW x \in spills'[l] PROVE x < nextRow
      OBVIOUS
    <3>1. CASE l = level
      BY <2>3, <3>1
    <3>2. CASE l # level
      BY <2>3, <3>2
    <3> QED
      BY <3>1, <3>2
  <2>5. /\ pc' \in {"idle", "grow", "collect"} /\ failed' = FALSE
        /\ hand' = {} /\ older' = {}
        /\ UNCHANGED <<nextRow, buffer, level, resume>>
    BY <1>8, SMT DEF Store
  <2>6. (/\ pc \in {"carry", "merge"} =>
             /\ buffer = {}
             /\ \A l \in Slots : l < level => spills[l] = {}
         /\ pc = "merge" => level \in Slots /\ spills[level] = {}
         /\ pc \in {"write", "carry", "merge"} => failed
         /\ pc \in {"grow", "spill", "collect"} => ~failed)'
    BY <2>5
  <2>7. (/\ \A x \in buffer : x < nextRow
         /\ \A x \in hand : x < nextRow
         /\ \A x \in older : x < nextRow)'
    BY <2>5
  <2>8. (/\ pc \in Pcs /\ resume \in {"idle", "grow", "collect"}
         /\ failed \in BOOLEAN /\ nextRow \in Nat /\ level \in Nat
         /\ buffer \subseteq Nat /\ hand \subseteq Nat /\ older \subseteq Nat
         /\ pc # "merge" => older = {}
         /\ pc \notin {"carry", "merge"} => hand = {})'
    BY <2>5
  <2> QED
    BY <2>2, <2>4, <2>5, <2>6, <2>7, <2>8, Zenon
<1>9. CASE SpillFails
  BY <1>9, SMT DEF SpillFails
<1>10. CASE FinishRefused
  BY <1>10, SMT DEF FinishRefused, frontierVars
<1>11. CASE FinishInMemory
  BY <1>11, SMT DEF FinishInMemory, frontierVars
<1>12. CASE Finish
  BY <1>12, SMT DEF Finish, frontierVars
<1>13. CASE Collect
  BY <1>13, SMT DEF Collect
<1>14. CASE MergeGroup
  BY <1>14, SMT DEF MergeGroup, frontierVars
<1>15. CASE NextPass
  BY <1>15, SMT DEF NextPass, frontierVars
<1>16. CASE OpenStream
  BY <1>16, SMT DEF OpenStream, frontierVars
<1>17. CASE CascadeFails
  BY <1>17, SMT DEF CascadeFails, frontierVars
<1>18. CASE DropSession
  BY <1>18, SMT DEF DropSession, frontierVars
<1>19. CASE UNCHANGED vars
  BY <1>19, SMT DEF vars, frontierVars
<1> QED
  BY <1>1, <1>2, <1>3, <1>4, <1>5, <1>6, <1>7, <1>8, <1>9, <1>10, <1>11, <1>12,
     <1>13, <1>14, <1>15, <1>16, <1>17, <1>18, <1>19
  DEF Next, SpillNext, CascadeNext

\* No step brings a later row in front of an earlier one.
LEMMA OrderStep == SessionInv /\ [Next]_vars => OrderInv'
<1> SUFFICES ASSUME SessionInv, [Next]_vars PROVE OrderInv'
  OBVIOUS
<1> USE LevelsAssumption
    DEF SessionInv, PlaceInv, OrderInv, Pcs, Slots
<1>1. CASE Push
  BY <1>1, SMT DEF Push, frontierVars
<1>2. CASE GrowRefused
  BY <1>2, SMT DEF GrowRefused, frontierVars
<1>3. CASE PushRow
  BY <1>3, SMT DEF PushRow, frontierVars
<1>4. CASE Spill
  BY <1>4, SMT DEF Spill, frontierVars
<1>5. CASE WriteRun
  BY <1>5, SMT DEF WriteRun
<1>6. CASE TakeOlder
  BY <1>6, SMT DEF TakeOlder
<1>7. CASE MergeOlder
  BY <1>7, SMT DEF MergeOlder
<1>8. CASE Store
  BY <1>8, SMT DEF Store
<1>9. CASE SpillFails
  BY <1>9, SMT DEF SpillFails
<1>10. CASE FinishRefused
  BY <1>10, SMT DEF FinishRefused, frontierVars
<1>11. CASE FinishInMemory
  BY <1>11, SMT DEF FinishInMemory, frontierVars
<1>12. CASE Finish
  BY <1>12, SMT DEF Finish, frontierVars
<1>13. CASE Collect
  BY <1>13, SMT DEF Collect
<1>14. CASE MergeGroup
  BY <1>14, SMT DEF MergeGroup, frontierVars
<1>15. CASE NextPass
  BY <1>15, SMT DEF NextPass, frontierVars
<1>16. CASE OpenStream
  BY <1>16, SMT DEF OpenStream, frontierVars
<1>17. CASE CascadeFails
  BY <1>17, SMT DEF CascadeFails, frontierVars
<1>18. CASE DropSession
  BY <1>18, SMT DEF DropSession, frontierVars
<1>19. CASE UNCHANGED vars
  BY <1>19, SMT DEF vars, frontierVars
<1> QED
  BY <1>1, <1>2, <1>3, <1>4, <1>5, <1>6, <1>7, <1>8, <1>9, <1>10, <1>11, <1>12,
     <1>13, <1>14, <1>15, <1>16, <1>17, <1>18, <1>19
  DEF Next, SpillNext, CascadeNext

\* No step of a session that stays usable drops a row.
LEMMA KeptStep == SessionInv /\ [Next]_vars => KeptInv'
<1> SUFFICES ASSUME SessionInv, [Next]_vars PROVE KeptInv'
  OBVIOUS
<1> USE LevelsAssumption
    DEF SessionInv, PlaceInv, KeptInv, Pcs, Slots
<1>1. CASE Push
  BY <1>1, SMT DEF Push, frontierVars
<1>2. CASE GrowRefused
  BY <1>2, SMT DEF GrowRefused, frontierVars
<1>3. CASE PushRow
  BY <1>3, SMT DEF PushRow, frontierVars
<1>4. CASE Spill
  BY <1>4, SMT DEF Spill, frontierVars
<1>5. CASE WriteRun
  BY <1>5, SMT DEF WriteRun
<1>6. CASE TakeOlder
  BY <1>6, SMT DEF TakeOlder
<1>7. CASE MergeOlder
  BY <1>7, SMT DEF MergeOlder
<1>8. CASE Store
  BY <1>8, SMT DEF Store
<1>9. CASE SpillFails
  BY <1>9, SMT DEF SpillFails
<1>10. CASE FinishRefused
  BY <1>10, SMT DEF FinishRefused, frontierVars
<1>11. CASE FinishInMemory
  BY <1>11, SMT DEF FinishInMemory, frontierVars
<1>12. CASE Finish
  BY <1>12, SMT DEF Finish, frontierVars
<1>13. CASE Collect
  BY <1>13, SMT DEF Collect
<1>14. CASE MergeGroup
  BY <1>14, SMT DEF MergeGroup, frontierVars
<1>15. CASE NextPass
  BY <1>15, SMT DEF NextPass, frontierVars
<1>16. CASE OpenStream
  BY <1>16, SMT DEF OpenStream, frontierVars
<1>17. CASE CascadeFails
  BY <1>17, SMT DEF CascadeFails, frontierVars
<1>18. CASE DropSession
  BY <1>18, SMT DEF DropSession, frontierVars
<1>19. CASE UNCHANGED vars
  BY <1>19, SMT DEF vars, frontierVars
<1> QED
  BY <1>1, <1>2, <1>3, <1>4, <1>5, <1>6, <1>7, <1>8, <1>9, <1>10, <1>11, <1>12,
     <1>13, <1>14, <1>15, <1>16, <1>17, <1>18, <1>19
  DEF Next, SpillNext, CascadeNext

LEMMA SessionInvariance == Spec => []SessionInv
<1>1. SessionInv /\ [Next]_vars => SessionInv'
  BY PlaceStep, OrderStep, KeptStep DEF SessionInv
<1> QED
  BY <1>1, InitSession, PTL DEF Spec
-----------------------------------------------------------------------------
(***************************************************************************)
(* How many runs there are, and what the cascade does with them.           *)
(***************************************************************************)
\* The bounds of the counters.  A spill has rows to write, and so has what it
\* carries; a push that spilled first still has its row to accept.  Before the
\* first spill the frontier is empty.
LimitsInv ==
  /\ nextRow <= MaxRows /\ level <= Levels
  /\ pc = "grow" => nextRow < MaxRows
  /\ pc \in {"spill", "write", "carry", "merge"} /\ resume = "grow" =>
       nextRow < MaxRows
  /\ pc \in {"spill", "write"} => buffer # {}
  /\ pc \in {"carry", "merge"} => hand # {}
  /\ pc = "collect" => buffer = {}
  /\ nextRun \in Nat
  /\ pc \in {"write", "carry", "merge"} => nextRun > 0
  /\ nextRun = 0 => \A l \in Slots : spills[l] = {}

\* A run at level l holds 2^l spilled buffers, and the levels below l of the
\* frontier s hold w[l] of them.
Weight(run, l) == IF run = {} THEN 0 ELSE Pow2[l]

Weighs(w, s) ==
  /\ w \in [0 .. Levels -> Int] /\ w[0] = 0
  /\ \A l \in Slots : w[l + 1] = w[l] + Weight(s[l], l)

\* All spills are in the frontier, but for n of them which are on their way.
Counted(n) ==
  \E w : /\ Weighs(w, spills)
         /\ pc \in {"carry", "merge"} => \A l \in 0 .. level : w[l] = 0
         /\ nextRun = w[Levels] + n

\* The frontier counts the spills in binary (session.rs:50-52, 325-344).
CountInv ==
  /\ nextRun \in Nat /\ nextRun < Pow2[Levels]
  /\ pc \in {"idle", "grow", "spill", "collect"} /\ (failed => pc # "idle") =>
       Counted(0)
  /\ pc = "write" => Counted(1)
  /\ pc = "carry" => Counted(Pow2[level])
  /\ pc = "merge" => Counted(Pow2[level + 1])

Recount(v, w, t, k, d) ==
  /\ Weighs(v, t)
  /\ \A l \in 0 .. k : v[l] = w[l]
  /\ v[Levels] = w[Levels] + d

\* When one level takes or loses a run, all levels above it count d spills more.
LEMMA Recounted ==
  ASSUME NEW w, NEW s, Weighs(w, s), NEW t, NEW k \in Slots, NEW d \in Int,
         \A l \in Slots : l # k => t[l] = s[l],
         Weight(t[k], k) = Weight(s[k], k) + d
  PROVE  \E v : Recount(v, w, t, k, d)
<1> USE LevelsAssumption
<1> DEFINE v == [l \in 0 .. Levels |-> IF l <= k THEN w[l] ELSE w[l] + d]
<1>1. k \in 0 .. Levels - 1 /\ \A l \in Slots : l \in 0 .. Levels - 1
  BY DEF Slots
<1>2. w \in [0 .. Levels -> Int]
  BY DEF Weighs
<1>3. v \in [0 .. Levels -> Int]
  BY <1>1, <1>2
<1>4. /\ \A l \in 0 .. k : v[l] = w[l]
      /\ \A l \in k + 1 .. Levels : v[l] = w[l] + d
  BY <1>1
<1> HIDE DEF v
<1>5. ASSUME NEW l \in Slots PROVE v[l + 1] = v[l] + Weight(t[l], l)
  <2>1. /\ l \in 0 .. Levels - 1 /\ w[l] \in Int /\ w[l + 1] \in Int
    BY <1>1, <1>2
  <2>2. w[l + 1] = w[l] + Weight(s[l], l)
    BY DEF Weighs
  <2>3. Weight(s[l], l) \in Int
    BY <2>1, Powers DEF Weight
  <2>4. CASE l < k
    <3>1. v[l] = w[l] /\ v[l + 1] = w[l + 1] /\ t[l] = s[l]
      BY <1>1, <1>4, <2>1, <2>4
    <3> QED
      BY <2>2, <3>1
  <2>5. CASE l = k
    <3>1. v[l] = w[l] /\ v[l + 1] = w[l + 1] + d
      BY <1>1, <1>4, <2>1, <2>5
    <3> QED
      BY <2>1, <2>2, <2>3, <2>5, <3>1
  <2>6. CASE l > k
    <3>1. v[l] = w[l] + d /\ v[l + 1] = w[l + 1] + d /\ t[l] = s[l]
      BY <1>1, <1>4, <2>1, <2>6
    <3> QED
      BY <2>1, <2>2, <2>3, <3>1
  <2> QED
    BY <1>1, <2>1, <2>4, <2>5, <2>6
<1>6. v[0] = 0
  BY <1>1, <1>4 DEF Weighs
<1>7. Weighs(v, t)
  BY <1>3, <1>5, <1>6 DEF Weighs
<1>8. v[Levels] = w[Levels] + d
  BY <1>1, <1>4
<1> QED
  BY <1>4, <1>7, <1>8 DEF Recount

\* What a step that leaves the frontier alone does to the count.
LEMMA SameCount ==
  ASSUME NEW n \in Int, NEW k \in Int, Counted(n), UNCHANGED spills,
         nextRun' = nextRun + k, pc' \notin {"carry", "merge"}
  PROVE  Counted(n + k)'
<1>1. PICK w : Weighs(w, spills) /\ nextRun = w[Levels] + n
  BY DEF Counted
<1>2. w[Levels] \in Int
  BY <1>1, LevelsAssumption DEF Weighs
<1>3. nextRun' = w[Levels] + (n + k)
  BY <1>1, <1>2
<1>4. Weighs(w, spills')
  BY <1>1
<1> QED
  BY <1>3, <1>4, Zenon DEF Counted

\* The carry finds an empty level as long as the counter has not run out: with
\* nothing in the frontier, the run in hand holds all spills.
LEMMA LevelFound ==
  ASSUME CountInv, LimitsInv, level \in Nat, pc = "carry"
  PROVE  level \in Slots
<1>1. PICK w : /\ Weighs(w, spills) /\ \A l \in 0 .. level : w[l] = 0
               /\ nextRun = w[Levels] + Pow2[level]
  BY DEF CountInv, Counted
<1>2. Pow2[Levels] \in Nat
  BY Powers, LevelsAssumption
<1>3. level # Levels
  BY <1>1, <1>2 DEF CountInv
<1> QED
  BY <1>3, LevelsAssumption DEF LimitsInv, Slots

\* Every step keeps the counters within their bounds.
LEMMA LimitsStep == SessionInv /\ LimitsInv /\ [Next]_vars => LimitsInv'
<1> SUFFICES ASSUME SessionInv, LimitsInv, [Next]_vars PROVE LimitsInv'
  OBVIOUS
<1> USE LevelsAssumption, BoundsAssumption
    DEF SessionInv, PlaceInv, LimitsInv, Pcs, Slots
<1>1. CASE Push
  BY <1>1, SMT DEF Push, frontierVars
<1>2. CASE GrowRefused
  BY <1>2, SMT DEF GrowRefused, frontierVars
<1>3. CASE PushRow
  BY <1>3, SMT DEF PushRow, frontierVars
<1>4. CASE Spill
  BY <1>4, SMT DEF Spill, frontierVars
<1>5. CASE WriteRun
  BY <1>5, SMT DEF WriteRun, frontierVars
<1>6. CASE TakeOlder
  BY <1>6, SMT DEF TakeOlder, frontierVars
<1>7. CASE MergeOlder
  BY <1>7, SMT DEF MergeOlder, frontierVars
<1>8. CASE Store
  BY <1>8, SMT DEF Store, frontierVars
<1>9. CASE SpillFails
  BY <1>9, SMT DEF SpillFails, frontierVars
<1>10. CASE FinishRefused
  BY <1>10, SMT DEF FinishRefused, frontierVars
<1>11. CASE FinishInMemory
  BY <1>11, SMT DEF FinishInMemory, frontierVars
<1>12. CASE Finish
  BY <1>12, SMT DEF Finish, frontierVars
<1>13. CASE Collect
  BY <1>13, SMT DEF Collect, frontierVars
<1>14. CASE MergeGroup
  BY <1>14, SMT DEF MergeGroup, frontierVars
<1>15. CASE NextPass
  BY <1>15, SMT DEF NextPass, frontierVars
<1>16. CASE OpenStream
  BY <1>16, SMT DEF OpenStream, frontierVars
<1>17. CASE CascadeFails
  BY <1>17, SMT DEF CascadeFails, frontierVars
<1>18. CASE DropSession
  BY <1>18, SMT DEF DropSession, frontierVars
<1>19. CASE UNCHANGED vars
  BY <1>19, SMT DEF vars, frontierVars
<1> QED
  BY <1>1, <1>2, <1>3, <1>4, <1>5, <1>6, <1>7, <1>8, <1>9, <1>10, <1>11, <1>12,
     <1>13, <1>14, <1>15, <1>16, <1>17, <1>18, <1>19
  DEF Next, SpillNext, CascadeNext

\* A step that neither spills nor touches the frontier.
LEMMA CountStays ==
  ASSUME CountInv, UNCHANGED <<spills, nextRun>>,
         pc' \notin {"write", "carry", "merge"},
         pc' \in {"idle", "grow", "spill", "collect"} /\ (failed' => pc' # "idle") =>
           Counted(0)
  PROVE  CountInv'
<1>1. nextRun' = nextRun
  OBVIOUS
<1>2. ASSUME Counted(0) PROVE Counted(0)'
  <2>1. PICK w : Weighs(w, spills) /\ nextRun = w[Levels] + 0
    BY <1>2 DEF Counted
  <2>2. Weighs(w, spills')
    BY <2>1
  <2> QED
    BY <1>1, <2>1, <2>2, Zenon DEF Counted
<1>3. nextRun' \in Nat /\ nextRun' < Pow2[Levels]
  BY <1>1 DEF CountInv
<1> QED
  BY <1>2, <1>3, Zenon DEF CountInv

\* Every step keeps the count.
LEMMA CountStep ==
  SessionInv /\ LimitsInv /\ CountInv /\ [Next]_vars => CountInv'
<1> SUFFICES ASSUME SessionInv, LimitsInv, CountInv, [Next]_vars PROVE CountInv'
  OBVIOUS
<1>1. CASE Push
  <2>1. UNCHANGED <<spills, nextRun>> /\ pc' \notin {"write", "carry", "merge"}
    BY <1>1, SMT DEF Push, frontierVars
  <2>2. pc' \in {"idle", "grow", "spill", "collect"}
            /\ (failed' => pc' # "idle") => Counted(0)
    BY <1>1, SMT DEF Push, frontierVars, CountInv
  <2> QED
    BY <2>1, <2>2, CountStays
<1>2. CASE GrowRefused
  <2>1. UNCHANGED <<spills, nextRun>> /\ pc' \notin {"write", "carry", "merge"}
    BY <1>2, SMT DEF GrowRefused, frontierVars
  <2>2. pc' \in {"idle", "grow", "spill", "collect"}
            /\ (failed' => pc' # "idle") => Counted(0)
    BY <1>2, SMT DEF GrowRefused, frontierVars, CountInv
  <2> QED
    BY <2>1, <2>2, CountStays
<1>3. CASE PushRow
  <2>1. UNCHANGED <<spills, nextRun>> /\ pc' \notin {"write", "carry", "merge"}
    BY <1>3, SMT DEF PushRow, frontierVars
  <2>2. pc' \in {"idle", "grow", "spill", "collect"}
            /\ (failed' => pc' # "idle") => Counted(0)
    BY <1>3, SMT DEF PushRow, frontierVars, CountInv
  <2> QED
    BY <2>1, <2>2, CountStays
<1>4. CASE Spill
  <2>1. CASE nextRun < Pow2[Levels] - 1
    <3>1. nextRun' = nextRun + 1 /\ pc' = "write" /\ UNCHANGED spills
      BY <1>4, <2>1 DEF Spill, frontierVars
    <3>2. Counted(0)
      BY <1>4, SMT DEF CountInv, Spill
    <3>3. Counted(1)'
      <4>1. pc' \notin {"carry", "merge"}
        BY <3>1
      <4>2. Counted(0 + 1)'
        BY <3>1, <3>2, <4>1, SameCount
      <4> QED
        BY <4>2
    <3>4. nextRun' \in Nat /\ nextRun' < Pow2[Levels]
      <4>1. nextRun \in Nat /\ Pow2[Levels] \in Nat
        BY Powers, LevelsAssumption DEF CountInv
      <4> QED
        BY <2>1, <3>1, <4>1
    <3> QED
      BY <3>1, <3>3, <3>4, SMT DEF CountInv
  <2>2. CASE ~(nextRun < Pow2[Levels] - 1)
    <3>1. UNCHANGED <<spills, nextRun>> /\ pc' \in {"gone", "idle"} /\ failed'
      BY <1>4, <2>2 DEF Spill, frontierVars
    <3> QED
      BY <3>1, CountStays
  <2> QED
    BY <2>1, <2>2
<1>5. CASE WriteRun
  <2>1. pc = "write" /\ pc' = "carry" /\ level' = 0 /\ UNCHANGED <<spills, nextRun>>
    BY <1>5 DEF WriteRun
  <2>2. PICK w : Weighs(w, spills) /\ nextRun = w[Levels] + 1
    BY <2>1 DEF CountInv, Counted
  <2>3. Weighs(w, spills')
    BY <2>1, <2>2
  <2>4. (\A l \in 0 .. level : w[l] = 0)'
    <3>1. w[0] = 0
      BY <2>2 DEF Weighs
    <3> QED
      BY <2>1, <3>1
  <2>5. (nextRun = w[Levels] + Pow2[level])'
    BY <2>1, <2>2, Powers
  <2>6. Counted(Pow2[level])'
    BY <2>3, <2>4, <2>5, Zenon DEF Counted
  <2> QED
    BY <2>1, <2>6, SMT DEF CountInv
<1>6. CASE TakeOlder
  <2>1. /\ pc = "carry" /\ pc' = "merge" /\ UNCHANGED <<level, nextRun>>
        /\ level \in Nat /\ level < Levels /\ spills[level] # {}
        /\ spills' = [spills EXCEPT ![level] = {}]
    BY <1>6 DEF TakeOlder, SessionInv, PlaceInv
  <2>2. level \in Slots
    BY <2>1, LevelsAssumption DEF Slots
  <2>3. PICK w : /\ Weighs(w, spills) /\ \A l \in 0 .. level : w[l] = 0
                 /\ nextRun = w[Levels] + Pow2[level]
    BY <2>1 DEF CountInv, Counted
  <2> DEFINE p == Pow2[level]
             q == 0 - p
  <2>4. p \in Int /\ Pow2[level + 1] = p + p /\ w[Levels] \in Int
    BY <2>2, <2>3, Powers, LevelsAssumption DEF Slots, Weighs
  <2>5. /\ spills'[level] = {} /\ \A l \in Slots : l # level => spills'[l] = spills[l]
        /\ Weight(spills'[level], level) = Weight(spills[level], level) + q
    <3>1. spills'[level] = {} /\ \A l \in Slots : l # level => spills'[l] = spills[l]
      BY <2>1, <2>2 DEF SessionInv, PlaceInv
    <3> QED
      BY <2>1, <2>4, <3>1 DEF Weight
  <2>6. PICK v : Recount(v, w, spills', level, q)
    <3>1. q \in Int
      BY <2>4
    <3> HIDE DEF p, q
    <3> QED
      BY <2>2, <2>3, <2>5, <3>1, Recounted
  <2>7. \A l \in 0 .. level : v[l] = 0
    BY <2>3, <2>6 DEF Recount
  <2>8. nextRun = v[Levels] + Pow2[level + 1]
    BY <2>3, <2>4, <2>6 DEF Recount
  <2>9. (\A l \in 0 .. level : v[l] = 0)' /\ (nextRun = v[Levels] + Pow2[level + 1])'
    BY <2>1, <2>7, <2>8, Zenon
  <2>10. Counted(Pow2[level + 1])'
    BY <2>6, <2>9, Zenon DEF Counted, Recount
  <2> QED
    BY <2>1, <2>10, SMT DEF CountInv
<1>7. CASE MergeOlder
  <2>1. /\ pc = "merge" /\ pc' = "carry" /\ level' = level + 1
        /\ UNCHANGED <<spills, nextRun>> /\ level \in Slots /\ spills[level] = {}
    BY <1>7 DEF MergeOlder, SessionInv, PlaceInv
  <2>2. PICK w : /\ Weighs(w, spills) /\ \A l \in 0 .. level : w[l] = 0
                 /\ nextRun = w[Levels] + Pow2[level + 1]
    BY <2>1 DEF CountInv, Counted
  <2>3. w[level + 1] = 0
    <3>1. w[level] = 0
      BY <2>1, <2>2, LevelsAssumption DEF Slots
    <3>2. w[level + 1] = w[level] + Weight(spills[level], level)
      BY <2>1, <2>2 DEF Weighs
    <3>3. Weight(spills[level], level) = 0
      BY <2>1 DEF Weight
    <3> QED
      BY <3>1, <3>2, <3>3
  <2>4. (\A l \in 0 .. level : w[l] = 0)'
    BY <2>1, <2>2, <2>3, LevelsAssumption DEF Slots
  <2>5. Weighs(w, spills')
    BY <2>1, <2>2
  <2>6. (nextRun = w[Levels] + Pow2[level])'
    BY <2>1, <2>2
  <2>7. Counted(Pow2[level])'
    BY <2>4, <2>5, <2>6, Zenon DEF Counted
  <2> QED
    BY <2>1, <2>7, SMT DEF CountInv
<1>8. CASE Store
  <2>1. /\ pc = "carry" /\ pc' = resume /\ UNCHANGED <<level, nextRun>>
        /\ level \in Nat /\ level < Levels /\ spills[level] = {} /\ hand # {}
        /\ spills' = [spills EXCEPT ![level] = hand]
        /\ resume \in {"idle", "grow", "collect"}
    BY <1>8 DEF Store, SessionInv, PlaceInv, LimitsInv
  <2>2. level \in Slots
    BY <2>1, LevelsAssumption DEF Slots
  <2>3. PICK w : /\ Weighs(w, spills) /\ \A l \in 0 .. level : w[l] = 0
                 /\ nextRun = w[Levels] + Pow2[level]
    BY <2>1 DEF CountInv, Counted
  <2> DEFINE p == Pow2[level]
  <2>4. p \in Int /\ w[Levels] \in Int
    BY <2>2, <2>3, Powers, LevelsAssumption DEF Slots, Weighs
  <2>5. /\ spills'[level] = hand /\ \A l \in Slots : l # level => spills'[l] = spills[l]
        /\ Weight(spills'[level], level) = Weight(spills[level], level) + p
    <3>1. spills'[level] = hand /\ \A l \in Slots : l # level => spills'[l] = spills[l]
      BY <2>1, <2>2 DEF SessionInv, PlaceInv
    <3> QED
      BY <2>1, <2>4, <3>1 DEF Weight
  <2>6. PICK v : Recount(v, w, spills', level, p)
    <3> HIDE DEF p
    <3> QED
      BY <2>2, <2>3, <2>4, <2>5, Recounted
  <2>7. nextRun' = v[Levels] + 0
    BY <2>1, <2>3, <2>4, <2>6 DEF Recount
  <2>8. Counted(0)'
    <3>1. pc' \notin {"carry", "merge"}
      BY <2>1
    <3> QED
      BY <2>6, <2>7, <3>1, Zenon DEF Counted, Recount
  <2> QED
    BY <2>1, <2>8, SMT DEF CountInv
<1>9. CASE SpillFails
  <2>1. /\ UNCHANGED <<spills, nextRun, failed>> /\ failed
        /\ pc' \in {"idle", "gone"}
    BY <1>9 DEF SpillFails, SessionInv, PlaceInv
  <2> QED
    BY <2>1, CountStays
<1>10. CASE FinishRefused
  <2>1. UNCHANGED <<spills, nextRun>> /\ pc' \notin {"write", "carry", "merge"}
    BY <1>10, SMT DEF FinishRefused, frontierVars
  <2>2. pc' \in {"idle", "grow", "spill", "collect"}
            /\ (failed' => pc' # "idle") => Counted(0)
    BY <1>10, SMT DEF FinishRefused, frontierVars, CountInv
  <2> QED
    BY <2>1, <2>2, CountStays
<1>11. CASE FinishInMemory
  <2>1. UNCHANGED <<spills, nextRun>> /\ pc' \notin {"write", "carry", "merge"}
    BY <1>11, SMT DEF FinishInMemory, frontierVars
  <2>2. pc' \in {"idle", "grow", "spill", "collect"}
            /\ (failed' => pc' # "idle") => Counted(0)
    BY <1>11, SMT DEF FinishInMemory, frontierVars, CountInv
  <2> QED
    BY <2>1, <2>2, CountStays
<1>12. CASE Finish
  <2>1. UNCHANGED <<spills, nextRun>> /\ pc' \notin {"write", "carry", "merge"}
    BY <1>12, SMT DEF Finish, frontierVars
  <2>2. pc' \in {"idle", "grow", "spill", "collect"}
            /\ (failed' => pc' # "idle") => Counted(0)
    BY <1>12, SMT DEF Finish, frontierVars, CountInv
  <2> QED
    BY <2>1, <2>2, CountStays
<1>13. CASE Collect
  <2>1. nextRun' = nextRun /\ pc' = "cascade"
    BY <1>13 DEF Collect
  <2> QED
    BY <2>1, SMT DEF CountInv
<1>14. CASE MergeGroup
  <2>1. UNCHANGED <<spills, nextRun>> /\ pc' \notin {"write", "carry", "merge"}
    BY <1>14, SMT DEF MergeGroup, frontierVars
  <2>2. pc' \in {"idle", "grow", "spill", "collect"}
            /\ (failed' => pc' # "idle") => Counted(0)
    BY <1>14, SMT DEF MergeGroup, frontierVars, CountInv
  <2> QED
    BY <2>1, <2>2, CountStays
<1>15. CASE NextPass
  <2>1. UNCHANGED <<spills, nextRun>> /\ pc' \notin {"write", "carry", "merge"}
    BY <1>15, SMT DEF NextPass, frontierVars
  <2>2. pc' \in {"idle", "grow", "spill", "collect"}
            /\ (failed' => pc' # "idle") => Counted(0)
    BY <1>15, SMT DEF NextPass, frontierVars, CountInv
  <2> QED
    BY <2>1, <2>2, CountStays
<1>16. CASE OpenStream
  <2>1. UNCHANGED <<spills, nextRun>> /\ pc' \notin {"write", "carry", "merge"}
    BY <1>16, SMT DEF OpenStream, frontierVars
  <2>2. pc' \in {"idle", "grow", "spill", "collect"}
            /\ (failed' => pc' # "idle") => Counted(0)
    BY <1>16, SMT DEF OpenStream, frontierVars, CountInv
  <2> QED
    BY <2>1, <2>2, CountStays
<1>17. CASE CascadeFails
  <2>1. UNCHANGED <<spills, nextRun>> /\ pc' \notin {"write", "carry", "merge"}
    BY <1>17, SMT DEF CascadeFails, frontierVars
  <2>2. pc' \in {"idle", "grow", "spill", "collect"}
            /\ (failed' => pc' # "idle") => Counted(0)
    BY <1>17, SMT DEF CascadeFails, frontierVars, CountInv
  <2> QED
    BY <2>1, <2>2, CountStays
<1>18. CASE DropSession
  <2>1. UNCHANGED <<spills, nextRun>> /\ pc' \notin {"write", "carry", "merge"}
    BY <1>18, SMT DEF DropSession, frontierVars
  <2>2. pc' \in {"idle", "grow", "spill", "collect"}
            /\ (failed' => pc' # "idle") => Counted(0)
    BY <1>18, SMT DEF DropSession, frontierVars, CountInv
  <2> QED
    BY <2>1, <2>2, CountStays
<1>19. CASE UNCHANGED vars
  <2>1. UNCHANGED <<spills, nextRun, pc, failed, level>>
    BY <1>19 DEF vars, frontierVars
  <2>2. ASSUME NEW n PROVE Counted(n)' <=> Counted(n)
    BY <2>1, Zenon DEF Counted
  <2> QED
    BY <2>1, <2>2, Zenon DEF CountInv
<1> QED
  BY <1>1, <1>2, <1>3, <1>4, <1>5, <1>6, <1>7, <1>8, <1>9, <1>10, <1>11, <1>12,
     <1>13, <1>14, <1>15, <1>16, <1>17, <1>18, <1>19
  DEF Next, SpillNext, CascadeNext

\* The runs of the cascade: those of the next pass so far hold older rows than
\* those still to be grouped, and until the stream takes them, or if it never
\* does, they hold all rows accepted (merge.rs:264-287).
Joined(a, b) ==
  \A i \in DOMAIN a, j \in DOMAIN b : \A x \in a[i], y \in b[j] : x < y

Within(s) == \A i \in DOMAIN s : \A x \in s[i] : x < nextRow

InRun(s, x) == \E i \in DOMAIN s : x \in s[i]

CascadeInv ==
  /\ Lines(merged) /\ Lines(runs) /\ Joined(merged, runs)
  /\ Within(merged) /\ Within(runs)
  /\ pc \notin {"cascade", "stream", "gone"} => runs = <<>>
  /\ pc \notin {"cascade", "gone"} => merged = <<>>
  /\ pc \in {"cascade", "stream"} =>
       \A x \in 0 .. nextRow - 1 : InRun(merged, x) \/ InRun(runs, x)

\* No runs at all.
LEMMA NoLines == Lines(<<>>) /\ DOMAIN <<>> = {}
  BY DEF Lines

\* A group of runs, merged into one, and the runs after it.
LEMMA GroupLines ==
  ASSUME NEW s, Lines(s), NEW size \in 0 .. Len(s)
  PROVE  LET rest == SubSeq(s, size + 1, Len(s))
             group == UNION Range(SubSeq(s, 1, size))
         IN  /\ Lines(rest)
             /\ group \in SUBSET Nat
             /\ \A x : x \in group <=> \E i \in 1 .. size : x \in s[i]
             /\ DOMAIN s = 1 .. Len(s)
             /\ DOMAIN rest = 1 .. Len(s) - size
             /\ \A i \in DOMAIN rest : rest[i] = s[size + i]
<1> DEFINE rest == SubSeq(s, size + 1, Len(s))
           first == SubSeq(s, 1, size)
           group == UNION Range(first)
<1>1. s \in Seq(SUBSET Nat) /\ Len(s) \in Nat /\ DOMAIN s = 1 .. Len(s)
  BY LenProperties DEF Lines
<1>2. \A i \in 1 .. Len(s) : s[i] \in SUBSET Nat
  BY <1>1, ElementOfSeq
<1>3. /\ rest \in Seq(SUBSET Nat) /\ Len(rest) = Len(s) - size
      /\ \A i \in 1 .. Len(s) - size : rest[i] = s[size + i]
  <2>1. /\ size + 1 \in Int /\ Len(s) \in Int
        /\ \A i \in size + 1 .. Len(s) : s[i] \in SUBSET Nat
    BY <1>1, <1>2
  <2>2. /\ rest \in Seq(SUBSET Nat)
        /\ Len(rest) = IF size + 1 <= Len(s) THEN Len(s) - (size + 1) + 1 ELSE 0
        /\ \A i \in 1 .. Len(s) - (size + 1) + 1 : rest[i] = s[(size + 1) + i - 1]
    BY <2>1, SubSeqProperties
  <2> HIDE DEF rest
  <2>3. Len(rest) = Len(s) - size
    BY <1>1, <2>2
  <2>4. ASSUME NEW i \in 1 .. Len(s) - size PROVE rest[i] = s[size + i]
    <3>1. i \in 1 .. Len(s) - (size + 1) + 1 /\ (size + 1) + i - 1 = size + i
      BY <1>1
    <3> QED
      BY <2>2, <3>1
  <2> QED
    BY <2>2, <2>3, <2>4
<1>4. /\ first \in Seq(SUBSET Nat) /\ Len(first) = size
      /\ \A i \in 1 .. size : first[i] = s[i]
  <2>1. /\ 1 \in Int /\ size \in Int
        /\ \A i \in 1 .. size : s[i] \in SUBSET Nat
    BY <1>1, <1>2
  <2>2. /\ first \in Seq(SUBSET Nat)
        /\ Len(first) = IF 1 <= size THEN size - 1 + 1 ELSE 0
        /\ \A i \in 1 .. size - 1 + 1 : first[i] = s[1 + i - 1]
    BY <2>1, SubSeqProperties
  <2> HIDE DEF first
  <2>3. Len(first) = size
    BY <1>1, <2>2
  <2>4. ASSUME NEW i \in 1 .. size PROVE first[i] = s[i]
    <3>1. i \in 1 .. size - 1 + 1 /\ 1 + i - 1 = i
      BY <1>1
    <3> QED
      BY <2>2, <3>1
  <2> QED
    BY <2>2, <2>3, <2>4
<1> HIDE DEF rest, first
<1>5. Range(first) = {first[i] : i \in 1 .. size}
  BY <1>4, RangeEquality
<1>6. \A x : x \in group <=> \E i \in 1 .. size : x \in s[i]
  BY <1>4, <1>5
<1>7. group \in SUBSET Nat
  BY <1>1, <1>2, <1>6
<1>8. DOMAIN rest = 1 .. Len(s) - size
  BY <1>3, LenProperties
<1>9. Lines(rest)
  <2> SUFFICES ASSUME NEW i \in DOMAIN rest, NEW j \in DOMAIN rest, i < j
               PROVE  \A x \in rest[i], y \in rest[j] : x < y
    BY <1>3 DEF Lines
  <2>1. /\ size + i \in DOMAIN s /\ size + j \in DOMAIN s /\ size + i < size + j
        /\ rest[i] = s[size + i] /\ rest[j] = s[size + j]
    BY <1>1, <1>3, <1>8
  <2> QED
    BY <2>1 DEF Lines
<1>10. \A i \in DOMAIN rest : rest[i] = s[size + i]
  BY <1>3, <1>8
<1> HIDE DEF group
<1>11. /\ Lines(rest)
       /\ group \in SUBSET Nat
       /\ \A x : x \in group <=> \E i \in 1 .. size : x \in s[i]
       /\ DOMAIN s = 1 .. Len(s)
       /\ DOMAIN rest = 1 .. Len(s) - size
       /\ \A i \in DOMAIN rest : rest[i] = s[size + i]
  BY <1>1, <1>6, <1>7, <1>8, <1>9, <1>10
<1> QED
  BY <1>11 DEF rest, group, first

\* Before the cascade there are no such runs.
LEMMA NoneStays ==
  ASSUME UNCHANGED <<runs, merged>>, runs = <<>>, merged = <<>>,
         pc' \notin {"cascade", "stream"}
  PROVE  CascadeInv'
  BY NoLines DEF CascadeInv, Joined, Within

\* Every step of the cascade keeps the rows and their order.
LEMMA CascadeStep ==
  SessionInv /\ LimitsInv /\ CascadeInv /\ [Next]_vars => CascadeInv'
<1> SUFFICES ASSUME SessionInv, LimitsInv, CascadeInv, [Next]_vars
             PROVE  CascadeInv'
  OBVIOUS
<1>1. CASE Push
  <2>1. /\ UNCHANGED <<runs, merged>> /\ runs = <<>> /\ merged = <<>>
        /\ pc' \notin {"cascade", "stream"}
    BY <1>1, SMT DEF Push, frontierVars, CascadeInv, SessionInv, PlaceInv
  <2> QED
    BY <2>1, NoneStays
<1>2. CASE GrowRefused
  <2>1. /\ UNCHANGED <<runs, merged>> /\ runs = <<>> /\ merged = <<>>
        /\ pc' \notin {"cascade", "stream"}
    BY <1>2, SMT DEF GrowRefused, frontierVars, CascadeInv, SessionInv, PlaceInv
  <2> QED
    BY <2>1, NoneStays
<1>3. CASE PushRow
  <2>1. /\ UNCHANGED <<runs, merged>> /\ runs = <<>> /\ merged = <<>>
        /\ pc' \notin {"cascade", "stream"}
    BY <1>3, SMT DEF PushRow, frontierVars, CascadeInv, SessionInv, PlaceInv
  <2> QED
    BY <2>1, NoneStays
<1>4. CASE Spill
  <2>1. /\ UNCHANGED <<runs, merged>> /\ runs = <<>> /\ merged = <<>>
        /\ pc' \notin {"cascade", "stream"}
    BY <1>4, SMT DEF Spill, frontierVars, CascadeInv, SessionInv, PlaceInv
  <2> QED
    BY <2>1, NoneStays
<1>5. CASE WriteRun
  <2>1. /\ UNCHANGED <<runs, merged>> /\ runs = <<>> /\ merged = <<>>
        /\ pc' \notin {"cascade", "stream"}
    BY <1>5, SMT DEF WriteRun, frontierVars, CascadeInv, SessionInv, PlaceInv
  <2> QED
    BY <2>1, NoneStays
<1>6. CASE TakeOlder
  <2>1. /\ UNCHANGED <<runs, merged>> /\ runs = <<>> /\ merged = <<>>
        /\ pc' \notin {"cascade", "stream"}
    BY <1>6, SMT DEF TakeOlder, frontierVars, CascadeInv, SessionInv, PlaceInv
  <2> QED
    BY <2>1, NoneStays
<1>7. CASE MergeOlder
  <2>1. /\ UNCHANGED <<runs, merged>> /\ runs = <<>> /\ merged = <<>>
        /\ pc' \notin {"cascade", "stream"}
    BY <1>7, SMT DEF MergeOlder, frontierVars, CascadeInv, SessionInv, PlaceInv
  <2> QED
    BY <2>1, NoneStays
<1>8. CASE Store
  <2>1. /\ UNCHANGED <<runs, merged>> /\ runs = <<>> /\ merged = <<>>
        /\ pc' \notin {"cascade", "stream"}
    BY <1>8, SMT DEF Store, frontierVars, CascadeInv, SessionInv, PlaceInv
  <2> QED
    BY <2>1, NoneStays
<1>9. CASE SpillFails
  <2>1. /\ UNCHANGED <<runs, merged>> /\ runs = <<>> /\ merged = <<>>
        /\ pc' \notin {"cascade", "stream"}
    BY <1>9, SMT DEF SpillFails, frontierVars, CascadeInv, SessionInv, PlaceInv
  <2> QED
    BY <2>1, NoneStays
<1>10. CASE FinishRefused
  <2>1. /\ UNCHANGED <<runs, merged>> /\ runs = <<>> /\ merged = <<>>
        /\ pc' \notin {"cascade", "stream"}
    BY <1>10, SMT DEF FinishRefused, frontierVars, CascadeInv, SessionInv, PlaceInv
  <2> QED
    BY <2>1, NoneStays
<1>11. CASE FinishInMemory
  <2>1. /\ runs' = <<buffer>> /\ merged' = <<>> /\ pc' = "stream"
        /\ nextRow' = nextRow /\ nextRun = 0 /\ pc = "idle" /\ ~failed
    BY <1>11, SMT DEF FinishInMemory, CascadeInv
  <2>2. /\ buffer \in SUBSET Nat /\ \A x \in buffer : x < nextRow
        /\ \A x \in 0 .. nextRow - 1 : x \in buffer
    BY <2>1, SMT DEF SessionInv, PlaceInv, KeptInv, LimitsInv
  <2> DEFINE s == <<buffer>>
  <2>3. s \in Seq(SUBSET Nat) /\ DOMAIN s = {1} /\ s[1] = buffer
    BY <2>2
  <2> HIDE DEF s
  <2>4. Lines(s)
    BY <2>3 DEF Lines
  <2>5. runs' = s
    BY <2>1 DEF s
  <2> QED
    BY <2>1, <2>2, <2>3, <2>4, <2>5, NoLines
    DEF CascadeInv, Joined, Within, InRun
<1>12. CASE Finish
  <2>1. /\ UNCHANGED <<runs, merged>> /\ runs = <<>> /\ merged = <<>>
        /\ pc' \notin {"cascade", "stream"}
    BY <1>12, SMT DEF Finish, frontierVars, CascadeInv, SessionInv, PlaceInv
  <2> QED
    BY <2>1, NoneStays
<1>13. CASE Collect
  <2>1. /\ runs' = Frontier /\ merged' = <<>> /\ pc' = "cascade"
        /\ nextRow' = nextRow /\ pc = "collect"
    BY <1>13, SMT DEF Collect, CascadeInv
  <2> DEFINE f == Frontier
  <2>2. /\ Lines(f)
        /\ \A i \in DOMAIN f : \E l \in Slots : f[i] = spills[l]
        /\ \A l \in Slots : spills[l] # {} => \E i \in DOMAIN f : f[i] = spills[l]
    BY FrontierRuns DEF SessionInv, PlaceInv, OrderInv
  <2> HIDE DEF f
  <2>3. \A l \in Slots : \A x \in spills[l] : x < nextRow
    BY DEF SessionInv, PlaceInv
  <2>4. \A x \in 0 .. nextRow - 1 : \E l \in Slots : x \in spills[l]
    <3>1. buffer = {} /\ hand = {} /\ older = {} /\ ~failed
      BY <2>1 DEF SessionInv, PlaceInv, LimitsInv
    <3> QED
      BY <2>1, <3>1 DEF SessionInv, KeptInv
  <2>5. \A i \in DOMAIN f : \A x \in f[i] : x < nextRow
    BY <2>2, <2>3
  <2>6. \A x \in 0 .. nextRow - 1 : InRun(f, x)
    <3> TAKE x \in 0 .. nextRow - 1
    <3>1. PICK l \in Slots : x \in spills[l]
      BY <2>4
    <3>2. PICK i \in DOMAIN f : f[i] = spills[l]
      BY <2>2, <3>1
    <3> QED
      BY <3>1, <3>2 DEF InRun
  <2>7. runs' = f
    BY <2>1 DEF f
  <2> QED
    BY <2>1, <2>2, <2>5, <2>6, <2>7, NoLines DEF CascadeInv, Joined, Within
<1>14. CASE MergeGroup
  <2> DEFINE size == IF Len(runs) < FanIn THEN Len(runs) ELSE FanIn
             group == UNION Range(SubSeq(runs, 1, size))
             rest == SubSeq(runs, size + 1, Len(runs))
             next == Append(merged, group)
  <2>1. /\ pc = "cascade" /\ pc' = pc /\ nextRow' = nextRow
        /\ runs' = rest /\ merged' = next
    BY <1>14 DEF MergeGroup
  <2>2. size \in 0 .. Len(runs)
    <3>1. Len(runs) \in Nat /\ FanIn \in Nat
      BY BoundsAssumption DEF CascadeInv, Lines, FanIn
    <3> QED
      BY <3>1
  <2>3. Lines(runs) /\ Lines(merged) /\ Joined(merged, runs) /\ Within(runs) /\ Within(merged)
    BY DEF CascadeInv
  <2>4. /\ Lines(rest)
        /\ group \in SUBSET Nat
        /\ \A x : x \in group <=> \E i \in 1 .. size : x \in runs[i]
        /\ DOMAIN runs = 1 .. Len(runs)
        /\ DOMAIN rest = 1 .. Len(runs) - size
        /\ \A i \in DOMAIN rest : rest[i] = runs[size + i]
    <3> HIDE DEF size
    <3> QED
      BY <2>2, <2>3, GroupLines
  <2> HIDE DEF group, rest, size
  <2>5. \A i \in DOMAIN merged : \A x \in merged[i], y \in group : x < y
    <3> SUFFICES ASSUME NEW i \in DOMAIN merged, NEW x \in merged[i], NEW y \in group
                 PROVE  x < y
      OBVIOUS
    <3>1. PICK j \in 1 .. size : y \in runs[j]
      BY <2>4
    <3>2. j \in DOMAIN runs
      BY <2>2, <2>4, <3>1
    <3> QED
      BY <2>3, <3>1, <3>2 DEF Joined
  <2>6. /\ Lines(next)
        /\ DOMAIN merged = 1 .. Len(merged) /\ Len(merged) \in Nat
        /\ DOMAIN next = 1 .. Len(merged) + 1
        /\ \A i \in DOMAIN merged : next[i] = merged[i]
        /\ next[Len(merged) + 1] = group
    BY <2>3, <2>4, <2>5, AppendLines
  <2> HIDE DEF next
  <2>7. Joined(next, rest)
    <3> SUFFICES ASSUME NEW i \in DOMAIN next, NEW j \in DOMAIN rest,
                        NEW x \in next[i], NEW y \in rest[j]
                 PROVE  x < y
      BY DEF Joined
    <3>1. size + j \in DOMAIN runs /\ y \in runs[size + j]
      BY <2>2, <2>4
    <3>2. CASE i \in DOMAIN merged
      BY <2>3, <2>6, <3>1, <3>2 DEF Joined
    <3>3. CASE i = Len(merged) + 1
      <4>1. PICK k \in 1 .. size : x \in runs[k]
        BY <2>4, <2>6, <3>3
      <4>2. k \in DOMAIN runs /\ k < size + j
        BY <2>2, <2>4, <4>1
      <4> QED
        BY <2>3, <3>1, <4>1, <4>2 DEF Lines
    <3> QED
      BY <2>6, <3>2, <3>3
  <2>8. /\ \A i \in DOMAIN next : \A x \in next[i] : x < nextRow
        /\ \A i \in DOMAIN rest : \A x \in rest[i] : x < nextRow
    <3>1. ASSUME NEW i \in DOMAIN rest, NEW x \in rest[i] PROVE x < nextRow
      <4>1. size + i \in DOMAIN runs /\ x \in runs[size + i]
        BY <2>2, <2>4, <3>1
      <4> QED
        BY <2>3, <4>1 DEF Within
    <3>2. ASSUME NEW i \in DOMAIN next, NEW x \in next[i] PROVE x < nextRow
      <4>1. CASE i \in DOMAIN merged
        BY <2>3, <2>6, <3>2, <4>1 DEF Within
      <4>2. CASE i = Len(merged) + 1
        <5>1. PICK k \in 1 .. size : x \in runs[k]
          BY <2>4, <2>6, <3>2, <4>2
        <5>2. k \in DOMAIN runs
          BY <2>2, <2>4
        <5> QED
          BY <2>3, <5>1, <5>2 DEF Within
      <4> QED
        BY <2>6, <4>1, <4>2
    <3> QED
      BY <3>1, <3>2
  <2>9. ASSUME NEW x, InRun(merged, x) \/ InRun(runs, x)
        PROVE  InRun(next, x) \/ InRun(rest, x)
    <3>1. CASE InRun(merged, x)
      BY <2>6, <3>1 DEF InRun
    <3>2. CASE InRun(runs, x)
      <4>1. PICK i \in DOMAIN runs : x \in runs[i]
        BY <3>2 DEF InRun
      <4>2. CASE i <= size
        <5>1. i \in 1 .. size
          BY <2>4, <4>1, <4>2
        <5>2. x \in group
          BY <2>4, <4>1, <5>1
        <5>3. Len(merged) + 1 \in DOMAIN next
          BY <2>6
        <5> QED
          BY <2>6, <5>2, <5>3 DEF InRun
      <4>3. CASE i > size
        <5>1. i - size \in DOMAIN rest /\ size + (i - size) = i
          BY <2>2, <2>4, <4>1, <4>3
        <5>2. x \in rest[i - size]
          BY <2>4, <4>1, <5>1
        <5> QED
          BY <5>1, <5>2 DEF InRun
      <4> QED
        BY <2>2, <2>4, <4>1, <4>2, <4>3
    <3> QED
      BY <2>9, <3>1, <3>2
  <2>10. \A x \in 0 .. nextRow - 1 : InRun(next, x) \/ InRun(rest, x)
    BY <2>1, <2>9 DEF CascadeInv
  <2> QED
    BY <2>1, <2>4, <2>6, <2>7, <2>8, <2>10 DEF CascadeInv, Within
<1>15. CASE NextPass
  <2>1. /\ pc = "cascade" /\ pc' = pc /\ nextRow' = nextRow
        /\ runs = <<>> /\ runs' = merged /\ merged' = <<>>
    BY <1>15 DEF NextPass
  <2>2. \A x \in 0 .. nextRow - 1 : InRun(merged, x)
    BY <2>1, NoLines DEF CascadeInv, InRun
  <2> QED
    BY <2>1, <2>2, NoLines DEF CascadeInv, Joined, Within, InRun
<1>16. CASE OpenStream
  <2>1. /\ pc = "cascade" /\ pc' = "stream" /\ nextRow' = nextRow
        /\ UNCHANGED <<runs, merged>> /\ merged = <<>>
    BY <1>16 DEF OpenStream
  <2> QED
    BY <2>1 DEF CascadeInv, Joined, Within, InRun
<1>17. CASE CascadeFails
  <2>1. pc' = "gone" /\ nextRow' = nextRow /\ UNCHANGED <<runs, merged>>
    BY <1>17 DEF CascadeFails
  <2> QED
    BY <2>1 DEF CascadeInv, Joined, Within
<1>18. CASE DropSession
  <2>1. /\ UNCHANGED <<runs, merged>> /\ runs = <<>> /\ merged = <<>>
        /\ pc' \notin {"cascade", "stream"}
    BY <1>18, SMT DEF DropSession, frontierVars, CascadeInv, SessionInv, PlaceInv
  <2> QED
    BY <2>1, NoneStays
<1>19. CASE UNCHANGED vars
  <2>1. UNCHANGED <<runs, merged, pc, nextRow>>
    BY <1>19 DEF vars
  <2> QED
    BY <2>1 DEF CascadeInv, Joined, Within, InRun
<1> QED
  BY <1>1, <1>2, <1>3, <1>4, <1>5, <1>6, <1>7, <1>8, <1>9, <1>10, <1>11, <1>12,
     <1>13, <1>14, <1>15, <1>16, <1>17, <1>18, <1>19
  DEF Next, SpillNext, CascadeNext

-----------------------------------------------------------------------------
(***************************************************************************)
(* Theorems.                                                               *)
(***************************************************************************)
SpillInv == SessionInv /\ LimitsInv /\ CountInv /\ CascadeInv

\* The new session has spilled nothing.
LEMMA InitSpill == Init => SpillInv
<1> SUFFICES ASSUME Init PROVE SpillInv
  OBVIOUS
<1>1. SessionInv
  BY InitSession
<1>2. LimitsInv
  BY LevelsAssumption, BoundsAssumption, SMT DEF Init, LimitsInv, Slots
<1>3. CountInv
  <2> DEFINE w == [l \in 0 .. Levels |-> 0]
  <2>1. Weighs(w, spills) /\ w[Levels] = 0
    <3>1. \A l \in Slots : Weight(spills[l], l) = 0
      BY DEF Init, Weight
    <3>2. \A l \in 0 .. Levels : w[l] = 0
      OBVIOUS
    <3>3. \A l \in Slots : l \in 0 .. Levels /\ l + 1 \in 0 .. Levels
      BY LevelsAssumption DEF Slots
    <3> QED
      BY <3>1, <3>2, <3>3, LevelsAssumption DEF Weighs
  <2> HIDE DEF w
  <2>2. nextRun = w[Levels] + 0 /\ pc = "idle"
    BY <2>1 DEF Init
  <2>3. Counted(0)
    BY <2>1, <2>2 DEF Counted
  <2>4. nextRun = 0 /\ 0 < Pow2[Levels]
    BY Powers, LevelsAssumption DEF Init
  <2> QED
    BY <2>2, <2>3, <2>4, SMT DEF CountInv
<1>4. CascadeInv
  BY NoLines DEF Init, CascadeInv, Joined, Within
<1> QED
  BY <1>1, <1>2, <1>3, <1>4 DEF SpillInv

\* The whole invariant holds step by step.
LEMMA NextSpill == SpillInv /\ [Next]_vars => SpillInv'
  BY PlaceStep, OrderStep, KeptStep, LimitsStep, CountStep, CascadeStep
  DEF SpillInv, SessionInv

LEMMA SpillInvariance == Spec => []SpillInv
  BY InitSpill, NextSpill, PTL DEF Spec

\* The types of a session: among them, rows below their bound, a counter of
\* spills that never overflows (session.rs:291), and sequences of runs.
THEOREM SessionTypes == Spec => []TypeOK
<1>1. SpillInv => TypeOK
  <2> SUFFICES ASSUME SpillInv PROVE TypeOK
    OBVIOUS
  <2> USE LevelsAssumption, BoundsAssumption DEF SpillInv, SessionInv, PlaceInv
  <2>1. nextRow \in 0 .. MaxRows /\ level \in 0 .. Levels
    BY DEF LimitsInv
  <2>2. \A x \in Nat : x < nextRow => x \in Rows
    BY <2>1 DEF Rows
  <2>3. buffer \subseteq Rows /\ hand \subseteq Rows /\ older \subseteq Rows
    BY <2>2
  <2>4. spills \in [Slots -> SUBSET Rows]
    BY <2>2
  <2>5. nextRun \in 0 .. Pow2[Levels] - 1
    BY Powers DEF CountInv
  <2>6. ASSUME NEW s, Lines(s), Within(s) PROVE s \in Seq(SUBSET Rows)
    <3>1. s \in [1 .. Len(s) -> SUBSET Nat] /\ Len(s) \in Nat /\ DOMAIN s = 1 .. Len(s)
      BY <2>6, LenProperties DEF Lines
    <3>2. \A i \in 1 .. Len(s) : s[i] \in SUBSET Rows
      BY <2>2, <2>6, <3>1 DEF Within
    <3>3. s \in [1 .. Len(s) -> SUBSET Rows]
      BY <3>1, <3>2
    <3> QED
      BY <3>1, <3>3, SeqDef
  <2>7. runs \in Seq(SUBSET Rows) /\ merged \in Seq(SUBSET Rows)
    BY <2>6 DEF CascadeInv
  <2> QED
    BY <2>1, <2>3, <2>4, <2>5, <2>7 DEF TypeOK
<1> QED
  BY <1>1, SpillInvariance, PTL

\* unreachable!() (session.rs:345) is not reached: a carry always finds an
\* empty level, up to the last spill that the counter admits.
THEOREM CarryFindsLevel == Spec => []CarryEnds
<1>1. SpillInv => CarryEnds
  <2> SUFFICES ASSUME SpillInv, pc = "carry" PROVE level < Levels
    BY DEF CarryEnds
  <2>1. level \in Slots
    BY LevelFound DEF SpillInv, SessionInv, PlaceInv
  <2> QED
    BY <2>1, LevelsAssumption DEF Slots
<1> QED
  BY <1>1, SpillInvariance, PTL

\* As long as the session is usable, or a spill is under way (session.rs:
\* 283-343), every row accepted is held, and nothing else.
THEOREM RowsKept == Spec => []NothingLost
<1>1. SessionInv => NothingLost
  <2> SUFFICES ASSUME SessionInv,
                      pc \in {"idle", "grow", "spill", "write", "carry",
                              "merge", "collect"},
                      failed => pc \notin {"idle", "grow", "collect"}
               PROVE  Held = 0 .. nextRow - 1
    BY DEF NothingLost
  <2>1. ASSUME NEW x \in 0 .. nextRow - 1 PROVE x \in Held
    BY <2>1, SMT DEF SessionInv, PlaceInv, KeptInv, Held
  <2>2. ASSUME NEW x \in Held PROVE x \in 0 .. nextRow - 1
    BY <2>2, SMT DEF SessionInv, PlaceInv, Held
  <2> QED
    BY <2>1, <2>2
<1> QED
  BY <1>1, SessionInvariance, PTL

\* "higher levels are older" (session.rs:50), and what is carried up is newer
\* than all of them: older runs come first in every merge (session.rs:334-336).
THEOREM LevelsOrdered == Spec => []HigherIsOlder
<1>1. SessionInv => HigherIsOlder
  BY SMT DEF SessionInv, PlaceInv, OrderInv, HigherIsOlder, Before, Slots
<1> QED
  BY <1>1, SessionInvariance, PTL

\* A failed session (session.rs:289, 348-353) accepts no row ever after, and
\* nothing but the end of the very spill that set the flag clears it.
THEOREM StaysFailed == Spec => FailedIsForever
<1>1. SessionInv /\ [Next]_vars =>
        [failed => nextRow' = nextRow /\ (failed' \/ pc = "carry")]_vars
  <2> SUFFICES ASSUME SessionInv, Next, failed
               PROVE  nextRow' = nextRow /\ (failed' \/ pc = "carry")
    OBVIOUS
  <2>1. ~Push
    BY DEF Push
  <2>2. ~PushRow
    BY DEF PushRow, SessionInv, PlaceInv
  <2>3. CASE GrowRefused \/ SpillFails \/ FinishRefused \/ FinishInMemory
               \/ Finish \/ DropSession \/ CascadeNext
    BY <2>3
    DEF GrowRefused, SpillFails, FinishRefused, FinishInMemory, Finish,
        DropSession, CascadeNext, Collect, MergeGroup, NextPass, OpenStream,
        CascadeFails
  <2>4. CASE Spill \/ WriteRun \/ TakeOlder \/ MergeOlder
    BY <2>4 DEF Spill, WriteRun, TakeOlder, MergeOlder
  <2>5. CASE Store
    BY <2>5 DEF Store
  <2> QED
    BY <2>1, <2>2, <2>3, <2>4, <2>5 DEF Next, SpillNext
<1> QED
  BY <1>1, SessionInvariance, PTL DEF Spec, FailedIsForever

-----------------------------------------------------------------------------
(***************************************************************************)
(* The order of rows (module SortOrder).                                   *)
(***************************************************************************)
\* Rows are totally ordered, by key and then by ordinal.
LEMMA RowOrder ==
  ASSUME NEW key \in Seq(Nat), NEW r \in DOMAIN key, NEW s \in DOMAIN key,
         NEW t \in DOMAIN key
  PROVE  /\ ~RowBefore(key, r, r)
         /\ RowBefore(key, r, s) \/ r = s \/ RowBefore(key, s, r)
         /\ RowBefore(key, r, s) => ~RowBefore(key, s, r)
         /\ RowBefore(key, r, s) /\ RowBefore(key, s, t) => RowBefore(key, r, t)
<1>1. /\ r \in Nat /\ s \in Nat /\ t \in Nat
      /\ key[r] \in Nat /\ key[s] \in Nat /\ key[t] \in Nat
  BY ElementOfSeq, LenProperties
<1> QED
  BY <1>1 DEF RowBefore

\* Rows are finitely many.
LEMMA RowsFinite ==
  ASSUME NEW key \in Seq(Nat), NEW S \in SUBSET DOMAIN key
  PROVE  /\ IsFiniteSet(S) /\ Cardinality(S) \in Nat
         /\ \A T \in SUBSET S : IsFiniteSet(T) /\ Cardinality(T) \in Nat
<1>1. IsFiniteSet(DOMAIN key)
  BY FS_Interval, LenProperties
<1>2. IsFiniteSet(S)
  BY <1>1, FS_Subset
<1> QED
  BY <1>2, FS_Subset, FS_CardinalityType

\* How many rows of S come before row r.
Rank(key, S, r) == Cardinality({s \in S : RowBefore(key, s, r)})

LEMMA RankType ==
  ASSUME NEW key \in Seq(Nat), NEW S \in SUBSET DOMAIN key, NEW r \in S
  PROVE  /\ Rank(key, S, r) \in Nat /\ Cardinality(S) \in Nat
         /\ Rank(key, S, r) < Cardinality(S)
<1> DEFINE T == {s \in S : RowBefore(key, s, r)}
<1>1. T \in SUBSET S /\ r \notin T
  BY RowOrder
<1> HIDE DEF T
<1>2. IsFiniteSet(S) /\ Cardinality(S) \in Nat /\ Cardinality(T) \in Nat
  BY <1>1, RowsFinite
<1>3. /\ Cardinality(T) <= Cardinality(S)
      /\ Cardinality(S) = Cardinality(T) => S = T
  BY <1>1, <1>2, FS_Subset
<1> QED
  BY <1>1, <1>2, <1>3 DEF Rank, T

\* A later row has a higher rank.
LEMMA RankGrows ==
  ASSUME NEW key \in Seq(Nat), NEW S \in SUBSET DOMAIN key,
         NEW r \in S, NEW t \in S, RowBefore(key, r, t)
  PROVE  Rank(key, S, r) < Rank(key, S, t)
<1> DEFINE R == {s \in S : RowBefore(key, s, r)}
           T == {s \in S : RowBefore(key, s, t)}
<1>1. R \in SUBSET T /\ T \in SUBSET S /\ r \in T /\ r \notin R
  BY RowOrder
<1> HIDE DEF R, T
<1>2. IsFiniteSet(T) /\ Cardinality(T) \in Nat /\ Cardinality(R) \in Nat
  BY <1>1, RowsFinite
<1>3. /\ Cardinality(R) <= Cardinality(T)
      /\ Cardinality(T) = Cardinality(R) => T = R
  BY <1>1, <1>2, FS_Subset
<1> QED
  BY <1>1, <1>2, <1>3 DEF Rank, R, T

\* So rows of the same rank are the same.
LEMMA RankIsOwn ==
  ASSUME NEW key \in Seq(Nat), NEW S \in SUBSET DOMAIN key,
         NEW r \in S, NEW t \in S, Rank(key, S, r) = Rank(key, S, t)
  PROVE  r = t
<1>0. Rank(key, S, r) \in Nat /\ Rank(key, S, t) \in Nat
  BY RankType
<1>1. ASSUME RowBefore(key, r, t) PROVE FALSE
  <2>1. Rank(key, S, r) < Rank(key, S, t)
    BY <1>1, RankGrows
  <2> QED
    BY <1>0, <2>1
<1>2. ASSUME RowBefore(key, t, r) PROVE FALSE
  <2>1. Rank(key, S, t) < Rank(key, S, r)
    BY <1>2, RankGrows
  <2> QED
    BY <1>0, <2>1
<1> QED
  BY <1>1, <1>2, RowOrder

\* Every rank below the number of rows is some row's.
LEMMA RankFound ==
  ASSUME NEW key \in Seq(Nat), NEW S \in SUBSET DOMAIN key,
         NEW i \in 1 .. Cardinality(S)
  PROVE  \E r \in S : Rank(key, S, r) = i - 1
<1> DEFINE n == Cardinality(S)
           T == 0 .. n - 1
           f == [r \in S |-> Rank(key, S, r)]
<1>1. n \in Nat /\ IsFiniteSet(S)
  BY RowsFinite
<1>2. IsFiniteSet(T) /\ Cardinality(T) = n
  <2> HIDE DEF n
  <2>1. 0 \in Int /\ n - 1 \in Int
    BY <1>1
  <2>2. Cardinality(T) = IF 0 > n - 1 THEN 0 ELSE (n - 1) - 0 + 1
    BY <2>1, FS_Interval
  <2> QED
    BY <1>1, <2>1, <2>2, FS_Interval
<1>3. f \in Injection(S, T)
  <2>1. f \in [S -> T]
    <3>1. \A r \in S : Rank(key, S, r) \in T
      BY <1>1, RankType
    <3> QED
      BY <3>1
  <2>2. \A r, t \in S : f[r] = f[t] => r = t
    BY RankIsOwn
  <2> QED
    BY <2>1, <2>2 DEF Injection, IsInjective
<1>4. f \in Surjection(S, T)
  BY <1>2, <1>3, FS_Injection
<1>5. i - 1 \in T
  BY <1>1
<1>6. \E r \in S : f[r] = i - 1
  BY <1>4, <1>5 DEF Surjection
<1> QED
  BY <1>6

\* The row at each place of the sorted rows is the one with that rank.
LEMMA SortedAt ==
  ASSUME NEW key \in Seq(Nat), NEW S \in SUBSET DOMAIN key, NEW r \in S
  PROVE  /\ Rank(key, S, r) + 1 \in 1 .. Cardinality(S)
         /\ Sorted(key, S)[Rank(key, S, r) + 1] = r
<1> DEFINE i == Rank(key, S, r) + 1
<1>1. i \in 1 .. Cardinality(S) /\ Rank(key, S, r) = i - 1
  <2>1. /\ Rank(key, S, r) \in Nat /\ Cardinality(S) \in Nat
        /\ Rank(key, S, r) < Cardinality(S)
    BY RankType
  <2> QED
    BY <2>1
<1> HIDE DEF i
<1>2. Sorted(key, S)[i] = CHOOSE t \in S : Rank(key, S, t) = i - 1
  BY <1>1 DEF Sorted, Rank
<1>3. \A t \in S : Rank(key, S, t) = i - 1 => t = r
  BY <1>1, RankIsOwn
<1>4. (CHOOSE t \in S : Rank(key, S, t) = i - 1) = r
  BY <1>1, <1>3
<1> QED
  BY <1>1, <1>2, <1>4 DEF i

\* Rows sorted are those rows, each once, in order.
LEMMA SortedRows ==
  ASSUME NEW key \in Seq(Nat), NEW S \in SUBSET DOMAIN key
  PROVE  /\ Sorted(key, S) \in Seq(S) /\ Len(Sorted(key, S)) = Cardinality(S)
         /\ \A i, j \in DOMAIN Sorted(key, S) :
              i < j => RowBefore(key, Sorted(key, S)[i], Sorted(key, S)[j])
         /\ \A r \in S : \E i \in DOMAIN Sorted(key, S) : Sorted(key, S)[i] = r
<1> DEFINE n == Cardinality(S)
           F == Sorted(key, S)
<1>1. n \in Nat
  BY RowsFinite
<1>2. \A i \in 1 .. n : F[i] \in S /\ Rank(key, S, F[i]) = i - 1
  <2> SUFFICES ASSUME NEW i \in 1 .. n
               PROVE  F[i] \in S /\ Rank(key, S, F[i]) = i - 1
    OBVIOUS
  <2>1. F[i] = CHOOSE t \in S : Rank(key, S, t) = i - 1
    BY DEF Sorted, Rank
  <2>2. \E t \in S : Rank(key, S, t) = i - 1
    BY RankFound
  <2> HIDE DEF F
  <2> QED
    BY <2>1, <2>2, Zenon
<1>3. DOMAIN F = 1 .. n /\ F = [i \in 1 .. n |-> F[i]]
  <2> DEFINE row(i) ==
        CHOOSE r \in S : Cardinality({s \in S : RowBefore(key, s, r)}) = i - 1
  <2>1. F = [i \in 1 .. n |-> row(i)]
    BY DEF Sorted
  <2> HIDE DEF F, n, row
  <2> QED
    BY <2>1
<1> HIDE DEF n, F
<1>4. F \in [1 .. n -> S]
  BY <1>2, <1>3
<1>5. F \in Seq(S) /\ Len(F) = n
  BY <1>1, <1>3, <1>4, SeqDef, LenProperties
<1>6. ASSUME NEW i \in 1 .. n, NEW j \in 1 .. n, i < j
      PROVE  RowBefore(key, F[i], F[j])
  <2>1. F[i] \in S /\ F[j] \in S /\ F[i] # F[j]
        /\ ~RowBefore(key, F[j], F[i])
    <3>1. F[i] \in S /\ F[j] \in S
      BY <1>2
    <3>2. ~(Rank(key, S, F[j]) < Rank(key, S, F[i]))
          /\ Rank(key, S, F[j]) # Rank(key, S, F[i])
      BY <1>1, <1>2, <1>6
    <3> QED
      BY <3>1, <3>2, RankGrows
  <2> QED
    BY <2>1, RowOrder
<1>7. ASSUME NEW r \in S PROVE \E i \in 1 .. n : F[i] = r
  BY SortedAt DEF F, n
<1> QED
  BY <1>3, <1>5, <1>6, <1>7 DEF F, n

\* Of pairs of numbers, one comes first.
LEMMA LeastPair ==
  ASSUME NEW H \in SUBSET (Nat \X Nat), H # {}
  PROVE  \E e \in H : \A f \in H : e[1] < f[1] \/ (e[1] = f[1] /\ e[2] <= f[2])
<1> DEFINE A == {e[1] : e \in H}
<1>1. A \in SUBSET Nat /\ A # {}
  OBVIOUS
<1>2. PICK a \in A : \A n \in A : a <= n
  <2> HIDE DEF A
  <2> QED
    BY <1>1, Least
<1> DEFINE B == {e[2] : e \in {f \in H : f[1] = a}}
<1>3. B \in SUBSET Nat /\ B # {}
  BY <1>2
<1>4. PICK b \in B : \A n \in B : b <= n
  <2> HIDE DEF A, B
  <2> QED
    BY <1>3, Least
<1>5. PICK e \in H : e[1] = a /\ e[2] = b
  BY <1>4
<1>6. ASSUME NEW f \in H PROVE e[1] < f[1] \/ (e[1] = f[1] /\ e[2] <= f[2])
  <2>1. a \in Nat /\ f[1] \in Nat /\ a <= f[1]
    BY <1>1, <1>2
  <2>2. f[1] = a => b <= f[2]
    BY <1>4
  <2> QED
    BY <1>5, <2>1, <2>2
<1> QED
  BY <1>5, <1>6

-----------------------------------------------------------------------------
(***************************************************************************)
(* Yielding rows in order.  P is the set of rows that were taken so far.   *)
(***************************************************************************)
Target(key, dd) == IF dd THEN Firsts(key, DOMAIN key) ELSE DOMAIN key

\* The rows that were taken come before all others.
Taken(key, P) ==
  /\ P \subseteq DOMAIN key
  /\ \A t \in P, r \in DOMAIN key \ P : RowBefore(key, t, r)

\* The first of the others.
Foremost(key, P, p) ==
  /\ p \in DOMAIN key \ P
  /\ \A r \in DOMAIN key \ P : r = p \/ RowBefore(key, p, r)

\* What was yielded is as much of the reference as they allow.
Yielded(key, dd, P, out) ==
  /\ out \in Seq(Nat)
  /\ Len(out) = Cardinality(Target(key, dd) \cap P)
  /\ \A i \in 1 .. Len(out) : out[i] = Reference(key, dd)[i]

\* The last row that was kept has the highest of their keys, zero for none.
LastKept(key, dd, P, l) ==
  dd => /\ l = 0 <=> P = {}
        /\ l # 0 => l \in P /\ \A t \in P : key[t] <= key[l]

\* The rows that a sort yields are rows.
LEMMA TargetRows ==
  ASSUME NEW key \in Seq(Nat), NEW dd \in BOOLEAN
  PROVE  /\ Target(key, dd) \in SUBSET DOMAIN key
         /\ Reference(key, dd) = Sorted(key, Target(key, dd))
BY DEF Target, Firsts, Reference

\* The next row is dropped as a duplicate just when it is not the first of its
\* key (merge.rs:190-201).
LEMMA DuplicateIsLater ==
  ASSUME NEW key \in Seq(Nat), NEW P, Taken(key, P),
         NEW l, LastKept(key, TRUE, P, l), NEW p, Foremost(key, P, p)
  PROVE  (l # 0 /\ key[l] = key[p]) <=> p \notin Firsts(key, DOMAIN key)
<1> USE DEF Foremost
<1>1. \A r \in DOMAIN key : r \in Nat /\ key[r] \in Nat
  BY ElementOfSeq, LenProperties
<1>2. ASSUME l # 0, key[l] = key[p] PROVE p \notin Firsts(key, DOMAIN key)
  <2>1. l \in P /\ l \in DOMAIN key /\ RowBefore(key, l, p)
    BY <1>2 DEF LastKept, Taken
  <2>2. l < p
    BY <1>1, <1>2, <2>1 DEF RowBefore
  <2> QED
    BY <1>1, <1>2, <2>1, <2>2 DEF Firsts
<1>3. ASSUME p \notin Firsts(key, DOMAIN key) PROVE l # 0 /\ key[l] = key[p]
  <2>1. PICK s \in DOMAIN key : key[s] = key[p] /\ ~(p <= s)
    BY <1>3 DEF Firsts
  <2>2. s \in P
    <3>1. s # p /\ ~RowBefore(key, p, s)
      BY <1>1, <2>1 DEF RowBefore
    <3> QED
      BY <3>1
  <2>3. l # 0 /\ l \in P /\ key[s] <= key[l]
    BY <2>2 DEF LastKept
  <2>4. l \in DOMAIN key /\ RowBefore(key, l, p)
    BY <2>3 DEF Taken
  <2> QED
    BY <1>1, <2>1, <2>3, <2>4 DEF RowBefore
<1> QED
  BY <1>2, <1>3

\* The next of the remaining rows joins those that were taken,
LEMMA TakenNext ==
  ASSUME NEW key \in Seq(Nat), NEW P, Taken(key, P), NEW p, Foremost(key, P, p)
  PROVE  Taken(key, P \cup {p})
BY DEF Taken, Foremost

\* and is either a duplicate, after which nothing else has changed,
LEMMA SkipNext ==
  ASSUME NEW key \in Seq(Nat), NEW dd \in BOOLEAN, NEW P, Taken(key, P),
         NEW out, Yielded(key, dd, P, out), NEW l, LastKept(key, dd, P, l),
         NEW p, Foremost(key, P, p),
         dd, l # 0, key[l] = key[p]
  PROVE  /\ Yielded(key, dd, P \cup {p}, out)
         /\ LastKept(key, dd, P \cup {p}, l)
<1>1. p \notin Target(key, dd)
  <2>1. LastKept(key, TRUE, P, l)
    BY DEF LastKept
  <2>2. p \notin Firsts(key, DOMAIN key)
    BY <2>1, DuplicateIsLater
  <2> QED
    BY <2>2 DEF Target, Foremost
<1>2. Target(key, dd) \cap (P \cup {p}) = Target(key, dd) \cap P
  BY <1>1
<1>3. Yielded(key, dd, P \cup {p}, out)
  BY <1>2 DEF Yielded
<1>4. key[p] \in Nat
  BY ElementOfSeq, LenProperties DEF Foremost
<1>5. LastKept(key, dd, P \cup {p}, l)
  BY <1>4 DEF LastKept
<1> QED
  BY <1>3, <1>5

\* or the next row of the reference.
LEMMA YieldNext ==
  ASSUME NEW key \in Seq(Nat), NEW dd \in BOOLEAN, NEW P, Taken(key, P),
         NEW out, Yielded(key, dd, P, out), NEW l, LastKept(key, dd, P, l),
         NEW p, Foremost(key, P, p),
         ~(dd /\ l # 0 /\ key[l] = key[p])
  PROVE  /\ Len(out) < Len(Reference(key, dd))
         /\ p = Reference(key, dd)[Len(out) + 1]
         /\ Yielded(key, dd, P \cup {p}, Append(out, p))
         /\ LastKept(key, dd, P \cup {p}, p)
<1> DEFINE T == Target(key, dd)
           R == Reference(key, dd)
<1>1. T \in SUBSET DOMAIN key /\ R = Sorted(key, T)
  BY TargetRows
<1>2. p \in T
  <2>1. CASE dd
    <3>1. LastKept(key, TRUE, P, l) /\ ~(l # 0 /\ key[l] = key[p])
      BY <2>1 DEF LastKept
    <3>2. p \in Firsts(key, DOMAIN key)
      BY <3>1, DuplicateIsLater
    <3> QED
      BY <2>1, <3>2 DEF Target
  <2>2. CASE ~dd
    BY <2>2 DEF Target, Foremost
  <2> QED
    BY <2>1, <2>2
<1>3. {s \in T : RowBefore(key, s, p)} = T \cap P
  <2>1. ASSUME NEW s \in T, RowBefore(key, s, p) PROVE s \in P
    BY <1>1, <2>1, RowOrder DEF Foremost
  <2>2. ASSUME NEW s \in T, s \in P PROVE RowBefore(key, s, p)
    BY <2>2 DEF Taken, Foremost
  <2> QED
    BY <2>1, <2>2
<1>4. Rank(key, T, p) = Len(out)
  BY <1>3 DEF Rank, Yielded
<1>5. Len(out) + 1 \in 1 .. Cardinality(T) /\ R[Len(out) + 1] = p
  BY <1>1, <1>2, <1>4, SortedAt
<1>6. Len(R) = Cardinality(T) /\ Cardinality(T) \in Nat /\ Len(out) \in Nat
  BY <1>1, SortedRows, RowsFinite, LenProperties DEF Yielded
<1>7. Len(out) < Len(R)
  BY <1>5, <1>6
<1>8. Cardinality(T \cap (P \cup {p})) = Len(out) + 1
  <2>1. T \cap (P \cup {p}) = (T \cap P) \cup {p} /\ p \notin T \cap P
    BY <1>2 DEF Foremost
  <2>2. IsFiniteSet(T \cap P)
    BY <1>1, RowsFinite
  <2> QED
    BY <2>1, <2>2, FS_AddElement, ZenonT(60) DEF Yielded
<1>9. p \in Nat /\ 0 < p /\ key[p] \in Nat
  BY ElementOfSeq, LenProperties DEF Foremost
<1>10. Yielded(key, dd, P \cup {p}, Append(out, p))
  <2> DEFINE n == Len(out)
             o == Append(out, p)
  <2>1. o \in Seq(Nat) /\ Len(o) = n + 1 /\ o[n + 1] = p
        /\ \A i \in 1 .. n : o[i] = out[i]
    <3>1. out \in Seq(Nat)
      BY DEF Yielded
    <3> QED
      BY <1>9, <3>1, AppendProperties
  <2> HIDE DEF n, o
  <2>2. ASSUME NEW i \in 1 .. n + 1 PROVE o[i] = R[i]
    <3>1. CASE i = n + 1
      BY <1>5, <2>1, <3>1 DEF n
    <3>2. CASE i # n + 1
      <4>1. i \in 1 .. n
        BY <1>6, <3>2 DEF n
      <4> QED
        BY <2>1, <4>1 DEF Yielded, n
    <3> QED
      BY <3>1, <3>2
  <2>3. Len(o) = Cardinality(T \cap (P \cup {p}))
    BY <1>8, <2>1 DEF n
  <2>4. \A i \in 1 .. Len(o) : o[i] = R[i]
    BY <2>1, <2>2
  <2> QED
    BY <2>1, <2>3, <2>4 DEF Yielded, o
<1>11. LastKept(key, dd, P \cup {p}, p)
  <2>1. ASSUME NEW t \in P PROVE key[t] <= key[p]
    <3>1. RowBefore(key, t, p) /\ t \in DOMAIN key
      BY DEF Taken, Foremost
    <3>2. key[t] \in Nat
      BY <3>1, ElementOfSeq, LenProperties
    <3> QED
      BY <1>9, <3>1, <3>2 DEF RowBefore
  <2> QED
    BY <1>9, <2>1 DEF LastKept
<1> QED
  BY <1>5, <1>7, <1>10, <1>11

\* When all rows were taken, everything was yielded.
LEMMA YieldedAll ==
  ASSUME NEW key \in Seq(Nat), NEW dd \in BOOLEAN, NEW out,
         Yielded(key, dd, DOMAIN key, out)
  PROVE  out = Reference(key, dd)
<1> DEFINE T == Target(key, dd)
           R == Reference(key, dd)
<1>1. T \in SUBSET DOMAIN key /\ R = Sorted(key, T)
  BY TargetRows
<1>2. T \cap DOMAIN key = T
  BY <1>1
<1>3. R \in Seq(T) /\ Len(R) = Cardinality(T)
  BY <1>1, SortedRows
<1>4. /\ Len(out) = Len(R) /\ out \in Seq(Nat)
      /\ \A i \in 1 .. Len(out) : out[i] = R[i]
  BY <1>2, <1>3 DEF Yielded
<1> HIDE DEF R, T
<1>5. DOMAIN out = 1 .. Len(out) /\ DOMAIN R = 1 .. Len(R)
      /\ out = [i \in DOMAIN out |-> out[i]] /\ R = [i \in DOMAIN R |-> R[i]]
  BY <1>3, <1>4, LenProperties
<1> QED
  BY <1>4, <1>5 DEF R

\* At first nothing was taken.
LEMMA YieldedNone ==
  ASSUME NEW key \in Seq(Nat), NEW dd \in BOOLEAN
  PROVE  /\ Taken(key, {}) /\ Yielded(key, dd, {}, <<>>)
         /\ LastKept(key, dd, {}, 0)
<1>1. Target(key, dd) \cap {} = {}
  OBVIOUS
<1>2. Cardinality({}) = 0
  BY FS_EmptySet
<1> QED
  BY <1>1, <1>2 DEF Taken, Yielded, LastKept

-----------------------------------------------------------------------------
(***************************************************************************)
(* Runs of rows in order, older runs first, and the heap of their heads.   *)
(***************************************************************************)
Ascending(key, s) ==
  /\ s \in Seq(DOMAIN key)
  /\ \A i, j \in DOMAIN s : i < j => RowBefore(key, s[i], s[j])

\* No row of a run was pushed after one of the runs behind it.
Older(s, t) == \A x \in Range(s), y \in Range(t) : x < y

Queues(key, left) ==
  /\ left \in Seq(Seq(DOMAIN key))
  /\ \A k \in DOMAIN left : Ascending(key, left[k])
  /\ \A j, k \in DOMAIN left : j < k => Older(left[j], left[k])

RowsIn(left) == UNION {Range(left[k]) : k \in DOMAIN left}

\* The entry of run s at index k.
HeadOf(key, s, k) == IF s = <<>> THEN {} ELSE {<<key[s[1]], k>>}

Heads(key, left) == UNION {HeadOf(key, left[k], k) : k \in DOMAIN left}

Topmost(H, e) ==
  e \in H /\ \A f \in H : e[1] < f[1] \/ (e[1] = f[1] /\ e[2] <= f[2])

\* The head of a run comes before the others in it,
LEMMA HeadFirst ==
  ASSUME NEW key \in Seq(Nat), NEW s, Ascending(key, s), s # <<>>
  PROVE  /\ s[1] \in DOMAIN key /\ s[1] \in Range(s)
         /\ Range(s) \subseteq DOMAIN key
         /\ \A x \in Range(s) : x = s[1] \/ RowBefore(key, s[1], x)
<1>1. s \in Seq(DOMAIN key) /\ DOMAIN s = 1 .. Len(s) /\ Len(s) \in Nat \ {0}
  BY EmptySeq, LenProperties DEF Ascending
<1>2. 1 \in DOMAIN s /\ s[1] \in DOMAIN key
  BY <1>1, ElementOfSeq
<1>3. ASSUME NEW i \in DOMAIN s
      PROVE  s[i] \in DOMAIN key /\ (i = 1 \/ RowBefore(key, s[1], s[i]))
  <2>1. s[i] \in DOMAIN key
    BY <1>1, ElementOfSeq
  <2>2. i = 1 \/ 1 < i
    BY <1>1
  <2> QED
    BY <1>2, <2>1, <2>2 DEF Ascending
<1> QED
  BY <1>2, <1>3 DEF Range

\* and is not among the rows behind it.
LEMMA TailAscending ==
  ASSUME NEW key \in Seq(Nat), NEW s, Ascending(key, s), s # <<>>
  PROVE  /\ Tail(s) \in Seq(DOMAIN key) /\ Ascending(key, Tail(s))
         /\ Range(Tail(s)) = Range(s) \ {s[1]}
<1> DEFINE t == Tail(s)
           n == Len(t)
<1>1. /\ s \in Seq(DOMAIN key) /\ t \in Seq(DOMAIN key) /\ n \in Nat
      /\ DOMAIN s = 1 .. n + 1 /\ DOMAIN t = 1 .. n
      /\ \A i \in 1 .. n : t[i] = s[i + 1]
  <2>1. s \in Seq(DOMAIN key)
    BY DEF Ascending
  <2> QED
    BY <2>1, HeadTailProperties, LenProperties, EmptySeq
<1> HIDE DEF t, n
<1>2. \A i \in 1 .. n : i + 1 \in 1 .. n + 1
  BY <1>1
<1>3. Ascending(key, t)
  <2> SUFFICES ASSUME NEW i \in 1 .. n, NEW j \in 1 .. n, i < j
               PROVE  RowBefore(key, t[i], t[j])
    BY <1>1 DEF Ascending
  <2>1. i + 1 \in DOMAIN s /\ j + 1 \in DOMAIN s /\ i + 1 < j + 1
    BY <1>1
  <2>2. RowBefore(key, s[i + 1], s[j + 1])
    BY <2>1 DEF Ascending
  <2> QED
    BY <1>1, <2>2
<1>4. ASSUME NEW i \in 2 .. n + 1 PROVE s[i] # s[1]
  <2>1. i \in DOMAIN s /\ 1 \in DOMAIN s /\ 1 < i
    BY <1>1
  <2>2. RowBefore(key, s[1], s[i])
    BY <2>1 DEF Ascending
  <2>3. s[1] \in DOMAIN key
    BY <1>1, ElementOfSeq
  <2> QED
    BY <2>2, <2>3, RowOrder
<1>5. \A i \in 2 .. n + 1 : \E k \in 1 .. n : t[k] = s[i]
  <2> SUFFICES ASSUME NEW i \in 2 .. n + 1 PROVE \E k \in 1 .. n : t[k] = s[i]
    OBVIOUS
  <2>1. i - 1 \in 1 .. n /\ (i - 1) + 1 = i
    BY <1>1
  <2> QED
    BY <1>1, <2>1
<1>6. \A i \in 1 .. n : i + 1 \in 2 .. n + 1
  BY <1>1
<1>7. \A i \in 1 .. n + 1 : i = 1 \/ i \in 2 .. n + 1
  BY <1>1
<1>8. Range(t) = Range(s) \ {s[1]}
  <2>1. ASSUME NEW x \in Range(t) PROVE x \in Range(s) /\ x # s[1]
    <3>1. PICK i \in 1 .. n : x = t[i]
      BY <1>1 DEF Range
    <3> QED
      BY <1>1, <1>2, <1>4, <1>6, <3>1 DEF Range
  <2>2. ASSUME NEW x \in Range(s), x # s[1] PROVE x \in Range(t)
    <3>1. PICK i \in 1 .. n + 1 : x = s[i]
      BY <1>1 DEF Range
    <3> QED
      BY <1>1, <1>5, <1>7, <2>2, <3>1 DEF Range
  <2> QED
    BY <2>1, <2>2
<1> QED
  BY <1>1, <1>3, <1>8 DEF t

\* The least entry of the heap belongs to the first of the rows that are left
\* (merge.rs:86-93).
LEMMA LeastHead ==
  ASSUME NEW key \in Seq(Nat), NEW left, Queues(key, left),
         NEW e, Topmost(Heads(key, left), e)
  PROVE  /\ e[2] \in DOMAIN left /\ left[e[2]] # <<>>
         /\ e = <<key[left[e[2]][1]], e[2]>>
         /\ RowsIn(left) \subseteq DOMAIN key
         /\ Foremost(key, DOMAIN key \ RowsIn(left), left[e[2]][1])
<1>1. PICK j \in DOMAIN left : e \in HeadOf(key, left[j], j)
  BY DEF Topmost, Heads
<1> DEFINE p == left[j][1]
<1>2. left[j] # <<>> /\ e = <<key[p], j>>
  BY <1>1 DEF HeadOf
<1>3. p \in DOMAIN key /\ p \in Range(left[j])
  BY <1>2, HeadFirst DEF Queues
<1>4. RowsIn(left) \subseteq DOMAIN key
  <2> SUFFICES ASSUME NEW k \in DOMAIN left
               PROVE  Range(left[k]) \subseteq DOMAIN key
    BY DEF RowsIn
  <2>1. left[k] \in Seq(DOMAIN key)
    BY DEF Queues, Ascending
  <2>2. \A i \in DOMAIN left[k] : left[k][i] \in DOMAIN key
    BY <2>1, ElementOfSeq, LenProperties
  <2> QED
    BY <2>2 DEF Range
<1>5. p \in RowsIn(left)
  BY <1>3 DEF RowsIn
<1>6. DOMAIN left \subseteq Nat
  BY LenProperties DEF Queues
<1>7. ASSUME NEW r \in RowsIn(left) PROVE r = p \/ RowBefore(key, p, r)
  <2>1. PICK k \in DOMAIN left : r \in Range(left[k])
    BY <1>7 DEF RowsIn
  <2> DEFINE h == left[k][1]
  <2>2. left[k] # <<>>
    BY <2>1 DEF Range
  <2>3. /\ h \in DOMAIN key /\ h \in Range(left[k])
        /\ r = h \/ RowBefore(key, h, r)
    BY <2>1, <2>2, HeadFirst DEF Queues
  <2>4. <<key[h], k>> \in Heads(key, left)
    BY <2>2 DEF Heads, HeadOf
  <2>5. key[p] < key[h] \/ (key[p] = key[h] /\ j <= k)
    BY <1>2, <2>4 DEF Topmost
  <2>6. p = h \/ RowBefore(key, p, h)
    <3>1. CASE j = k
      BY <3>1
    <3>2. CASE j < k
      <4>1. p < h
        BY <1>3, <2>3, <3>2 DEF Queues, Older
      <4> QED
        BY <2>5, <4>1 DEF RowBefore
    <3>3. CASE ~(j <= k)
      BY <2>5, <3>3 DEF RowBefore
    <3> QED
      BY <1>6, <3>1, <3>2, <3>3
  <2>7. r \in DOMAIN key
    BY <1>4
  <2> QED
    BY <1>3, <2>3, <2>6, <2>7, RowOrder
<1>8. Foremost(key, DOMAIN key \ RowsIn(left), p)
  BY <1>3, <1>4, <1>5, <1>7 DEF Foremost
<1> QED
  BY <1>2, <1>4, <1>8

\* Once the head of run j was taken, and its next row took its place, the rows
\* left are the others (merge.rs:172-189).
LEMMA HeadTaken ==
  ASSUME NEW key \in Seq(Nat), NEW left, Queues(key, left),
         NEW j \in DOMAIN left, left[j] # <<>>
  PROVE  LET p == left[j][1]
             next == [left EXCEPT ![j] = Tail(left[j])]
         IN  /\ Queues(key, next)
             /\ DOMAIN next = DOMAIN left
             /\ RowsIn(next) = RowsIn(left) \ {p}
             /\ Heads(key, next) = (Heads(key, left) \ {<<key[p], j>>})
                                     \cup HeadOf(key, Tail(left[j]), j)
<1> DEFINE p == left[j][1]
           t == Tail(left[j])
           next == [left EXCEPT ![j] = t]
<1>1. /\ p \in Range(left[j]) /\ p \in DOMAIN key
      /\ t \in Seq(DOMAIN key) /\ Ascending(key, t)
      /\ Range(t) = Range(left[j]) \ {p}
  BY HeadFirst, TailAscending DEF Queues
<1>2. /\ left \in Seq(Seq(DOMAIN key)) /\ DOMAIN left = 1 .. Len(left)
      /\ Len(left) \in Nat
  BY LenProperties DEF Queues
<1> HIDE DEF p, t
<1>3. /\ DOMAIN next = DOMAIN left /\ next[j] = t
      /\ \A k \in DOMAIN left : k # j => next[k] = left[k]
  OBVIOUS
<1>4. next \in Seq(Seq(DOMAIN key))
  BY <1>1, <1>2, ExceptSeq
<1> HIDE DEF next
<1>5. \A k \in DOMAIN left : Range(next[k]) \subseteq Range(left[k])
  BY <1>1, <1>3
<1>6. Queues(key, next)
  <2>1. \A k \in DOMAIN next : Ascending(key, next[k])
    BY <1>1, <1>3 DEF Queues
  <2>2. ASSUME NEW i \in DOMAIN next, NEW k \in DOMAIN next, i < k
        PROVE  Older(next[i], next[k])
    <3>1. Older(left[i], left[k])
      BY <1>3, <2>2 DEF Queues
    <3> QED
      BY <1>3, <1>5, <3>1 DEF Older
  <2> QED
    BY <1>4, <2>1, <2>2 DEF Queues
<1>7. ASSUME NEW k \in DOMAIN left, k # j PROVE p \notin Range(left[k])
  <2>1. k < j \/ j < k
    BY <1>2, <1>7
  <2>2. Older(left[k], left[j]) \/ Older(left[j], left[k])
    BY <2>1 DEF Queues
  <2>3. ~(p < p)
    BY <1>1, LenProperties
  <2> QED
    BY <1>1, <2>2, <2>3 DEF Older
<1>8. RowsIn(next) = RowsIn(left) \ {p}
  <2>1. ASSUME NEW x \in RowsIn(next) PROVE x \in RowsIn(left) /\ x # p
    <3>1. PICK k \in DOMAIN left : x \in Range(next[k])
      BY <1>3 DEF RowsIn
    <3>2. x \in Range(left[k])
      BY <1>5, <3>1
    <3>3. x # p
      BY <1>1, <1>3, <1>7, <3>1
    <3> QED
      BY <3>2, <3>3 DEF RowsIn
  <2>2. ASSUME NEW x \in RowsIn(left), x # p PROVE x \in RowsIn(next)
    <3>1. PICK k \in DOMAIN left : x \in Range(left[k])
      BY DEF RowsIn
    <3>2. x \in Range(next[k])
      BY <1>1, <1>3, <2>2, <3>1
    <3> QED
      BY <1>3, <3>2 DEF RowsIn
  <2> QED
    BY <2>1, <2>2
<1>9. Heads(key, next) = (Heads(key, left) \ {<<key[p], j>>})
                           \cup HeadOf(key, t, j)
  <2>1. /\ HeadOf(key, left[j], j) = {<<key[p], j>>}
        /\ HeadOf(key, next[j], j) = HeadOf(key, t, j)
    BY <1>3 DEF HeadOf, p
  <2>2. ASSUME NEW k \in DOMAIN left, k # j
        PROVE  /\ HeadOf(key, next[k], k) = HeadOf(key, left[k], k)
               /\ <<key[p], j>> \notin HeadOf(key, left[k], k)
    BY <1>3, <2>2 DEF HeadOf
  <2>3. ASSUME NEW f \in Heads(key, next)
        PROVE  f \in (Heads(key, left) \ {<<key[p], j>>}) \cup HeadOf(key, t, j)
    <3>1. PICK k \in DOMAIN left : f \in HeadOf(key, next[k], k)
      BY <1>3 DEF Heads
    <3>2. CASE k = j
      BY <2>1, <3>1, <3>2
    <3>3. CASE k # j
      <4>1. f \in HeadOf(key, left[k], k) /\ f # <<key[p], j>>
        BY <2>2, <3>1, <3>3
      <4> QED
        BY <4>1 DEF Heads
    <3> QED
      BY <3>2, <3>3
  <2>4. ASSUME NEW f \in Heads(key, left), f # <<key[p], j>>
        PROVE  f \in Heads(key, next)
    <3>1. PICK k \in DOMAIN left : f \in HeadOf(key, left[k], k)
      BY DEF Heads
    <3>2. k # j
      BY <2>1, <2>4, <3>1
    <3>3. f \in HeadOf(key, next[k], k)
      BY <2>2, <3>1, <3>2
    <3> QED
      BY <1>3, <3>3 DEF Heads
  <2>5. HeadOf(key, t, j) \subseteq Heads(key, next)
    BY <1>3, <2>1 DEF Heads
  <2> QED
    BY <2>3, <2>4, <2>5
<1> QED
  BY <1>3, <1>6, <1>8, <1>9 DEF p, t, next

\* A run that is opened joins the others, behind them (merge.rs:148-168).
LEMMA RunOpened ==
  ASSUME NEW key \in Seq(Nat), NEW left, Queues(key, left),
         NEW s, Ascending(key, s),
         \A x \in RowsIn(left), y \in Range(s) : x < y
  PROVE  LET next == Append(left, s)
         IN  /\ Queues(key, next)
             /\ Len(next) = Len(left) + 1
             /\ RowsIn(next) = RowsIn(left) \cup Range(s)
             /\ Heads(key, next) = Heads(key, left)
                                     \cup HeadOf(key, s, Len(left) + 1)
<1> DEFINE next == Append(left, s)
           n == Len(left)
<1>1. /\ left \in Seq(Seq(DOMAIN key)) /\ n \in Nat /\ DOMAIN left = 1 .. n
      /\ s \in Seq(DOMAIN key)
  BY LenProperties DEF Queues, Ascending
<1>2. /\ next \in Seq(Seq(DOMAIN key)) /\ Len(next) = n + 1
      /\ DOMAIN next = 1 .. n + 1 /\ next[n + 1] = s
      /\ \A k \in 1 .. n : next[k] = left[k]
  BY <1>1, AppendProperties, LenProperties
<1>3. \A k \in 1 .. n + 1 : k \in 1 .. n \/ k = n + 1
  BY <1>1
<1>4. n + 1 \in 1 .. n + 1 /\ 1 .. n \subseteq 1 .. n + 1
  BY <1>1
<1> HIDE DEF next, n
<1>5. Queues(key, next)
  <2>1. \A k \in DOMAIN next : Ascending(key, next[k])
    BY <1>1, <1>2, <1>3 DEF Queues
  <2>2. ASSUME NEW i \in DOMAIN next, NEW k \in DOMAIN next, i < k
        PROVE  Older(next[i], next[k])
    <3>1. i \in 1 .. n
      BY <1>1, <1>2, <2>2
    <3>2. CASE k \in 1 .. n
      BY <1>1, <1>2, <2>2, <3>1, <3>2 DEF Queues
    <3>3. CASE k = n + 1
      <4>1. Range(left[i]) \subseteq RowsIn(left)
        BY <1>1, <3>1 DEF RowsIn
      <4> QED
        BY <1>2, <3>1, <3>3, <4>1 DEF Older
    <3> QED
      BY <1>2, <1>3, <3>2, <3>3
  <2> QED
    BY <1>2, <2>1, <2>2 DEF Queues
<1>6. RowsIn(next) = RowsIn(left) \cup Range(s)
  <2>1. ASSUME NEW x \in RowsIn(next) PROVE x \in RowsIn(left) \cup Range(s)
    <3>1. PICK k \in 1 .. n + 1 : x \in Range(next[k])
      BY <1>2 DEF RowsIn
    <3> QED
      BY <1>1, <1>2, <1>3, <3>1 DEF RowsIn
  <2>2. ASSUME NEW x \in RowsIn(left) PROVE x \in RowsIn(next)
    <3>1. PICK k \in 1 .. n : x \in Range(left[k])
      BY <1>1 DEF RowsIn
    <3> QED
      BY <1>2, <1>4, <3>1 DEF RowsIn
  <2>3. Range(s) \subseteq RowsIn(next)
    BY <1>2, <1>4 DEF RowsIn
  <2> QED
    BY <2>1, <2>2, <2>3
<1>7. Heads(key, next) = Heads(key, left) \cup HeadOf(key, s, n + 1)
  <2>1. ASSUME NEW x \in Heads(key, next)
        PROVE  x \in Heads(key, left) \cup HeadOf(key, s, n + 1)
    <3>1. PICK k \in 1 .. n + 1 : x \in HeadOf(key, next[k], k)
      BY <1>2 DEF Heads
    <3> QED
      BY <1>1, <1>2, <1>3, <3>1 DEF Heads
  <2>2. ASSUME NEW x \in Heads(key, left) PROVE x \in Heads(key, next)
    <3>1. PICK k \in 1 .. n : x \in HeadOf(key, left[k], k)
      BY <1>1 DEF Heads
    <3> QED
      BY <1>2, <1>4, <3>1 DEF Heads
  <2>3. HeadOf(key, s, n + 1) \subseteq Heads(key, next)
    BY <1>2, <1>4 DEF Heads
  <2> QED
    BY <2>1, <2>2, <2>3
<1> QED
  BY <1>2, <1>5, <1>6, <1>7 DEF next, n

-----------------------------------------------------------------------------
(***************************************************************************)
(* The stream of a buffer.                                                 *)
(***************************************************************************)
\* The first n rows of a sequence.
First(s, n) == {s[i] : i \in 1 .. n}

\* A row of a sequence of all rows in order is the foremost of those behind.
LEMMA NextInOrder ==
  ASSUME NEW key \in Seq(Nat), NEW s, Ascending(key, s), Range(s) = DOMAIN key,
         NEW n \in Nat, n < Len(s)
  PROVE  /\ Foremost(key, First(s, n), s[n + 1])
         /\ First(s, n + 1) = First(s, n) \cup {s[n + 1]}
<1>1. s \in Seq(DOMAIN key) /\ Len(s) \in Nat /\ DOMAIN s = 1 .. Len(s)
  BY LenProperties DEF Ascending
<1>2. \A i \in 1 .. Len(s) : s[i] \in DOMAIN key
  BY <1>1, ElementOfSeq
<1>3. \A i, j \in 1 .. Len(s) : i < j => RowBefore(key, s[i], s[j])
  BY <1>1 DEF Ascending
<1>4. n + 1 \in 1 .. Len(s) /\ \A i \in 1 .. n : i \in 1 .. Len(s) /\ i < n + 1
  BY <1>1
<1>5. s[n + 1] \notin First(s, n)
  <2> SUFFICES ASSUME NEW i \in 1 .. n, s[i] = s[n + 1] PROVE FALSE
    BY DEF First
  <2>1. RowBefore(key, s[n + 1], s[n + 1])
    BY <1>3, <1>4
  <2> QED
    BY <1>2, <1>4, <2>1, RowOrder
<1>6. ASSUME NEW r \in DOMAIN key, r \notin First(s, n)
      PROVE  r = s[n + 1] \/ RowBefore(key, s[n + 1], r)
  <2>1. PICK i \in 1 .. Len(s) : r = s[i]
    BY <1>1 DEF Range
  <2>2. i \notin 1 .. n
    BY <1>6, <2>1 DEF First
  <2>3. i = n + 1 \/ n + 1 < i
    BY <2>2
  <2> QED
    BY <1>3, <1>4, <2>1, <2>3
<1>7. Foremost(key, First(s, n), s[n + 1])
  BY <1>2, <1>4, <1>5, <1>6 DEF Foremost
<1>8. \A i \in 1 .. n + 1 : i \in 1 .. n \/ i = n + 1
  OBVIOUS
<1>9. n + 1 \in 1 .. n + 1 /\ 1 .. n \subseteq 1 .. n + 1
  OBVIOUS
<1>10. First(s, n + 1) = First(s, n) \cup {s[n + 1]}
  BY <1>8, <1>9 DEF First
<1> QED
  BY <1>7, <1>10

\* The reference is one of rows,
LEMMA ReferenceRows ==
  ASSUME NEW key \in Seq(Nat), NEW dd \in BOOLEAN
  PROVE  LET R == Reference(key, dd)
         IN  /\ R \in Seq(Nat) /\ Len(R) \in Nat
             /\ Len(R) = Cardinality(Target(key, dd))
             /\ \A i \in 1 .. Len(R) : R[i] \in Nat /\ R[i] # 0
<1> DEFINE T == Target(key, dd)
           R == Reference(key, dd)
<1>1. T \in SUBSET DOMAIN key /\ R = Sorted(key, T)
  BY TargetRows
<1>2. R \in Seq(T) /\ Len(R) = Cardinality(T)
  BY <1>1, SortedRows
<1> HIDE DEF R, T
<1>3. \A r \in T : r \in Nat /\ r # 0
  BY <1>1, LenProperties
<1>4. Len(R) \in Nat /\ \A i \in 1 .. Len(R) : R[i] \in T
  BY <1>2, LenProperties, ElementOfSeq
<1>5. R = [i \in 1 .. Len(R) |-> R[i]]
  BY <1>2, LenProperties
<1>6. R \in [1 .. Len(R) -> Nat]
  BY <1>3, <1>4, <1>5
<1>7. R \in Seq(Nat)
  BY <1>4, <1>6, SeqDef
<1> QED
  BY <1>2, <1>3, <1>4, <1>7 DEF R, T

\* and so is what was yielded of it.
LEMMA YieldedRows ==
  ASSUME NEW key \in Seq(Nat), NEW dd \in BOOLEAN, NEW P,
         NEW out, Yielded(key, dd, P, out)
  PROVE  /\ Len(out) <= Len(Reference(key, dd))
         /\ \A i \in 1 .. Len(out) : out[i] \in Nat /\ out[i] # 0
<1> DEFINE T == Target(key, dd)
           R == Reference(key, dd)
<1>1. /\ Len(R) \in Nat /\ Len(R) = Cardinality(T)
      /\ \A i \in 1 .. Len(R) : R[i] \in Nat /\ R[i] # 0
  BY ReferenceRows
<1>2. Len(out) \in Nat /\ Len(out) = Cardinality(T \cap P)
  BY LenProperties DEF Yielded
<1>3. IsFiniteSet(T)
  BY TargetRows, RowsFinite
<1>4. Len(out) <= Len(R)
  BY <1>1, <1>2, <1>3, FS_Subset
<1>5. \A i \in 1 .. Len(out) : out[i] = R[i]
  BY DEF Yielded
<1> HIDE DEF R, T
<1>6. \A i \in 1 .. Len(out) : i \in 1 .. Len(R)
  BY <1>1, <1>2, <1>4
<1> QED
  BY <1>1, <1>4, <1>5, <1>6 DEF R

\* What is kept of the first n rows, and the last of it.
Kept(key, dd, s, n, out) ==
  /\ Taken(key, First(s, n))
  /\ Yielded(key, dd, First(s, n), out)
  /\ LastKept(key, dd, First(s, n), IF out = <<>> THEN 0 ELSE Last(out))

\* One turn of the loop of in_memory_stream (session.rs:259-280).
Keep(key, dd, out, r) ==
  IF dd /\ out # <<>> /\ key[Last(out)] = key[r] THEN out
  ELSE Append(out, r)

LEMMA KeepNext ==
  ASSUME NEW key \in Seq(Nat), NEW dd \in BOOLEAN,
         NEW s, Ascending(key, s), Range(s) = DOMAIN key,
         NEW n \in Nat, n < Len(s), NEW out, Kept(key, dd, s, n, out)
  PROVE  Kept(key, dd, s, n + 1, Keep(key, dd, out, s[n + 1]))
<1> DEFINE P == First(s, n)
           p == s[n + 1]
           l == IF out = <<>> THEN 0 ELSE Last(out)
<1>1. Foremost(key, P, p) /\ First(s, n + 1) = P \cup {p}
  BY NextInOrder
<1>2. Taken(key, P) /\ Yielded(key, dd, P, out) /\ LastKept(key, dd, P, l)
  BY DEF Kept
<1>3. out \in Seq(Nat) /\ p \in Nat
  BY <1>1, <1>2, LenProperties DEF Yielded, Foremost
<1>4. out # <<>> => Last(out) # 0
  <2> SUFFICES ASSUME out # <<>> PROVE Last(out) # 0
    OBVIOUS
  <2>1. Len(out) \in 1 .. Len(out) /\ Last(out) = out[Len(out)]
    <3>1. Len(out) \in Nat \ {0}
      BY <1>3, EmptySeq, LenProperties
    <3> QED
      BY <3>1 DEF Last
  <2> QED
    BY <1>2, <2>1, YieldedRows
<1> HIDE DEF P, p
<1>5. Taken(key, P \cup {p})
  BY <1>1, <1>2, TakenNext
<1>6. CASE dd /\ out # <<>> /\ key[Last(out)] = key[p]
  <2>1. dd /\ l # 0 /\ key[l] = key[p]
    BY <1>4, <1>6
  <2> HIDE DEF l
  <2>2. /\ Yielded(key, dd, P \cup {p}, out)
        /\ LastKept(key, dd, P \cup {p}, l)
    BY <1>1, <1>2, <2>1, SkipNext
  <2>3. Keep(key, dd, out, p) = out
    BY <1>6 DEF Keep
  <2> QED
    BY <1>1, <1>5, <2>2, <2>3 DEF Kept, l, P, p
<1>7. CASE ~(dd /\ out # <<>> /\ key[Last(out)] = key[p])
  <2>1. ~(dd /\ l # 0 /\ key[l] = key[p])
    BY <1>7
  <2> HIDE DEF l
  <2>2. /\ Yielded(key, dd, P \cup {p}, Append(out, p))
        /\ LastKept(key, dd, P \cup {p}, p)
    BY <1>1, <1>2, <2>1, YieldNext
  <2>3. Keep(key, dd, out, p) = Append(out, p)
    BY <1>7 DEF Keep
  <2>4. Append(out, p) # <<>> /\ Last(Append(out, p)) = p
    <3> DEFINE o == Append(out, p)
    <3>1. /\ o \in Seq(Nat) /\ Len(o) = Len(out) + 1 /\ Len(out) \in Nat
          /\ o[Len(out) + 1] = p
      BY <1>3, AppendProperties, LenProperties
    <3> HIDE DEF o
    <3>2. Len(o) # 0
      BY <3>1
    <3>3. Last(o) = p
      BY <3>1 DEF Last
    <3> QED
      BY <3>1, <3>2, <3>3, EmptySeq DEF o
  <2>5. LastKept(key, dd, P \cup {p},
                 IF Append(out, p) = <<>> THEN 0 ELSE Last(Append(out, p)))
    BY <2>2, <2>4
  <2> QED
    BY <1>1, <1>5, <2>2, <2>3, <2>5 DEF Kept, P, p
<1> QED
  BY <1>6, <1>7

\* Rows sorted are a run of those rows.
LEMMA SortedRun ==
  ASSUME NEW key \in Seq(Nat), NEW S \in SUBSET DOMAIN key
  PROVE  Ascending(key, Sorted(key, S)) /\ Range(Sorted(key, S)) = S
<1> DEFINE F == Sorted(key, S)
<1>1. /\ F \in Seq(S)
      /\ \A i, j \in DOMAIN F : i < j => RowBefore(key, F[i], F[j])
      /\ \A r \in S : \E i \in DOMAIN F : F[i] = r
  BY SortedRows
<1> HIDE DEF F
<1>2. F \in Seq(DOMAIN key) /\ \A i \in DOMAIN F : F[i] \in S
  <2>1. DOMAIN F = 1 .. Len(F) /\ \A i \in 1 .. Len(F) : F[i] \in S
    BY <1>1, LenProperties, ElementOfSeq
  <2>2. Len(F) \in Nat
    BY <1>1, LenProperties
  <2>3. F \in [1 .. Len(F) -> DOMAIN key]
    <3>1. F = [i \in 1 .. Len(F) |-> F[i]]
      BY <1>1, <2>1, LenProperties
    <3> QED
      BY <2>1, <3>1
  <2> QED
    BY <2>1, <2>2, <2>3, SeqDef
<1> QED
  BY <1>1, <1>2 DEF Ascending, Range, F

\* The stream of a sorted buffer is the reference.
LEMMA BufferStream ==
  ASSUME keyOf \in Seq(Nat), dedup \in BOOLEAN,
         Ascending(keyOf, files[1]), Range(files[1]) = DOMAIN keyOf
  PROVE  InMemoryStream = Reference(keyOf, dedup)
<1> DEFINE rows == files[1]
           m == Len(rows)
           D == Seq(Nat)
           R == [n \in 0 .. m - 1 |->
                   [out \in D |-> Keep(keyOf, dedup, out, rows[n + 1])]]
           P(f) == f = [n \in 0 .. m |->
                          IF n = 0 THEN <<>>
                          ELSE IF /\ dedup /\ f[n - 1] # <<>>
                                  /\ keyOf[Last(f[n - 1])] = keyOf[rows[n]]
                          THEN f[n - 1]
                          ELSE Append(f[n - 1], rows[n])]
           kept == CHOOSE f : P(f)
<1>1. /\ m \in Nat /\ DOMAIN rows = 1 .. m
      /\ \A n \in 1 .. m : rows[n] \in DOMAIN keyOf /\ rows[n] \in Nat
  <2>1. rows \in Seq(DOMAIN keyOf)
    BY DEF Ascending
  <2>2. /\ m \in Nat /\ DOMAIN rows = 1 .. m
        /\ \A n \in 1 .. m : rows[n] \in DOMAIN keyOf
    BY <2>1, LenProperties, ElementOfSeq
  <2>3. DOMAIN keyOf \subseteq Nat
    BY LenProperties
  <2> QED
    BY <2>2, <2>3
<1>2. InMemoryStream = kept[m]
  BY Zenon DEF InMemoryStream
<1>3. \E f : P(f)
  <2>1. R \in [0 .. m - 1 -> [D -> D]]
    <3> SUFFICES ASSUME NEW n \in 0 .. m - 1, NEW out \in D
                 PROVE  Keep(keyOf, dedup, out, rows[n + 1]) \in D
      OBVIOUS
    <3>1. n + 1 \in 1 .. m
      BY <1>1
    <3> HIDE DEF rows, m
    <3>2. rows[n + 1] \in Nat
      BY <1>1, <3>1
    <3> QED
      BY <3>2, AppendProperties DEF Keep
  <2>2. \A n \in 0 .. m - 1, out \in D :
          R[n][out] = Keep(keyOf, dedup, out, rows[n + 1])
    OBVIOUS
  <2>3. <<>> \in D
    OBVIOUS
  <2> HIDE DEF R, D, m, rows
  <2>4. PICK f \in [0 .. m -> D] : Steps(f, m, <<>>, R)
    BY <1>1, <2>1, <2>3, Recursion, Zenon
  <2>5. ASSUME NEW n \in 0 .. m
        PROVE  f[n] = IF n = 0 THEN <<>>
                      ELSE Keep(keyOf, dedup, f[n - 1], rows[n])
    <3>1. CASE n = 0
      BY <2>4, <3>1 DEF Steps
    <3>2. CASE n # 0
      <4>1. /\ n - 1 \in 0 .. m - 1 /\ n - 1 \in 0 .. m /\ (n - 1) + 1 = n
            /\ f[n - 1] \in D
        BY <1>1, <2>4, <3>2
      <4>2. f[n] = R[n - 1][f[n - 1]]
        BY <2>4, <4>1 DEF Steps
      <4> QED
        BY <2>2, <3>2, <4>1, <4>2
    <3> QED
      BY <3>1, <3>2
  <2>6. P(f)
    <3>1. f = [n \in 0 .. m |-> f[n]]
      BY <2>4
    <3> QED
      BY <2>5, <3>1, Zenon DEF Keep
  <2> QED
    BY <2>6
<1>4. P(kept)
  BY <1>3
<1> HIDE DEF kept, rows, m
<1>5. /\ kept[0] = <<>>
      /\ \A n \in 0 .. m - 1 :
           kept[n + 1] = Keep(keyOf, dedup, kept[n], rows[n + 1])
  <2>1. 0 \in 0 .. m
    BY <1>1
  <2>2. kept[0] = <<>>
    BY <1>4, <2>1
  <2>3. ASSUME NEW n \in 0 .. m - 1
        PROVE  kept[n + 1] = Keep(keyOf, dedup, kept[n], rows[n + 1])
    <3>1. n + 1 \in 0 .. m /\ n + 1 # 0 /\ (n + 1) - 1 = n
      BY <1>1
    <3> QED
      BY <1>4, <3>1 DEF Keep
  <2> QED
    BY <2>2, <2>3
<1> DEFINE B == {n \in 0 .. m : Kept(keyOf, dedup, rows, n, kept[n])}
<1>6. 0 \in B
  <2>1. First(rows, 0) = {}
    BY DEF First
  <2>2. Kept(keyOf, dedup, rows, 0, <<>>)
    BY <2>1, YieldedNone DEF Kept
  <2> QED
    BY <1>1, <1>5, <2>2
<1>7. ASSUME NEW n \in 0 .. m - 1, n \in B PROVE n + 1 \in B
  <2>1. n \in Nat /\ n < Len(rows) /\ n + 1 \in 0 .. m
    BY <1>1 DEF m
  <2>2. Ascending(keyOf, rows) /\ Range(rows) = DOMAIN keyOf
    BY DEF rows
  <2>3. Kept(keyOf, dedup, rows, n, kept[n])
    BY <1>7
  <2>4. Kept(keyOf, dedup, rows, n + 1,
             Keep(keyOf, dedup, kept[n], rows[n + 1]))
    BY <2>1, <2>2, <2>3, KeepNext
  <2> QED
    BY <1>5, <2>1, <2>4
<1> HIDE DEF B
<1>8. m \in B
  <2>1. \A n \in 0 .. m : n \in B
    BY <1>1, <1>6, <1>7, UpTo
  <2> QED
    BY <1>1, <2>1
<1>9. First(rows, m) = DOMAIN keyOf
  BY <1>1 DEF First, Range, rows
<1>10. Yielded(keyOf, dedup, DOMAIN keyOf, kept[m])
  BY <1>8, <1>9 DEF B, Kept
<1> QED
  BY <1>2, <1>10, YieldedAll

-----------------------------------------------------------------------------
(***************************************************************************)
(* A step of the merge.                                                    *)
(***************************************************************************)
\* The readers of the runs that are left (merge.rs:46-83), and the heap.
Readers(left) == [k \in DOMAIN left |-> ReadRow(left[k])]

Merging(key, left, srcs, entries) ==
  /\ Queues(key, left)
  /\ srcs = Readers(left)
  /\ entries = Heads(key, left)

\* The heap is one of pairs of numbers, and empty when no rows are left.
LEMMA HeadPairs ==
  ASSUME NEW key \in Seq(Nat), NEW left, Queues(key, left)
  PROVE  /\ Heads(key, left) \in SUBSET (Nat \X Nat)
         /\ Heads(key, left) = {} <=> RowsIn(left) = {}
<1>1. ASSUME NEW k \in DOMAIN left
      PROVE  /\ HeadOf(key, left[k], k) \in SUBSET (Nat \X Nat)
             /\ HeadOf(key, left[k], k) = {} <=> Range(left[k]) = {}
  <2>1. k \in Nat
    BY LenProperties DEF Queues
  <2>2. CASE left[k] = <<>>
    BY <2>2 DEF HeadOf, Range
  <2>3. CASE left[k] # <<>>
    <3>1. left[k][1] \in DOMAIN key /\ left[k][1] \in Range(left[k])
      BY <2>3, HeadFirst DEF Queues
    <3>2. key[left[k][1]] \in Nat
      BY <3>1, ElementOfSeq, LenProperties
    <3> QED
      BY <2>1, <2>3, <3>1, <3>2 DEF HeadOf
  <2> QED
    BY <2>2, <2>3
<1> QED
  BY <1>1 DEF Heads, RowsIn

\* next_row takes the foremost of the rows that are left, and nothing else
\* (merge.rs:171-203).
LEMMA TakeStep ==
  ASSUME keyOf \in Seq(Nat), NEW left, Merging(keyOf, left, sources, heap),
         Take
  PROVE  /\ RowsIn(left) \subseteq DOMAIN keyOf
         /\ Popped \in RowsIn(left)
         /\ Foremost(keyOf, DOMAIN keyOf \ RowsIn(left), Popped)
         /\ \E next : /\ Merging(keyOf, next, sources', heap')
                      /\ RowsIn(next) = RowsIn(left) \ {Popped}
<1> DEFINE e == Smallest
           j == e[2]
           p == left[j][1]
           t == Tail(left[j])
           next == [left EXCEPT ![j] = t]
<1>1. /\ Queues(keyOf, left) /\ sources = Readers(left)
      /\ heap = Heads(keyOf, left)
  BY DEF Merging
<1>2. /\ heap # {}
      /\ sources' = [sources EXCEPT ![j] = Refilled]
      /\ heap' = (heap \ {e}) \cup Entry(Refilled, j)
  BY Zenon DEF Take
<1>3. Topmost(heap, e)
  <2>1. \E f \in heap :
          \A g \in heap : f[1] < g[1] \/ (f[1] = g[1] /\ f[2] <= g[2])
    <3>1. heap \in SUBSET (Nat \X Nat)
      BY <1>1, HeadPairs
    <3> QED
      BY <1>2, <3>1, LeastPair
  <2>2. e = CHOOSE f \in heap :
              \A g \in heap : f[1] < g[1] \/ (f[1] = g[1] /\ f[2] <= g[2])
    BY DEF Smallest
  <2> HIDE DEF e
  <2> QED
    BY <2>1, <2>2, Zenon DEF Topmost
<1> HIDE DEF e
<1>4. /\ j \in DOMAIN left /\ left[j] # <<>> /\ e = <<keyOf[p], j>>
      /\ RowsIn(left) \subseteq DOMAIN keyOf
      /\ Foremost(keyOf, DOMAIN keyOf \ RowsIn(left), p)
  <2>1. Topmost(Heads(keyOf, left), e)
    BY <1>1, <1>3
  <2>2. /\ e[2] \in DOMAIN left /\ left[e[2]] # <<>>
        /\ e = <<keyOf[left[e[2]][1]], e[2]>>
        /\ RowsIn(left) \subseteq DOMAIN keyOf
        /\ Foremost(keyOf, DOMAIN keyOf \ RowsIn(left), left[e[2]][1])
    <3> HIDE DEF j, p, t, next
    <3> QED
      BY <1>1, <2>1, LeastHead, Zenon
  <2> QED
    BY <2>2
<1>5. p \in RowsIn(left)
  <2>1. p \in Range(left[j])
    BY <1>1, <1>4, HeadFirst DEF Queues
  <2> QED
    BY <1>4, <2>1 DEF RowsIn
<1>6. /\ Queues(keyOf, next)
      /\ DOMAIN next = DOMAIN left
      /\ RowsIn(next) = RowsIn(left) \ {p}
      /\ Heads(keyOf, next) = (heap \ {<<keyOf[p], j>>})
                                \cup HeadOf(keyOf, t, j)
  <2>1. /\ Queues(keyOf, [left EXCEPT ![e[2]] = Tail(left[e[2]])])
        /\ DOMAIN [left EXCEPT ![e[2]] = Tail(left[e[2]])] = DOMAIN left
        /\ RowsIn([left EXCEPT ![e[2]] = Tail(left[e[2]])])
             = RowsIn(left) \ {left[e[2]][1]}
        /\ Heads(keyOf, [left EXCEPT ![e[2]] = Tail(left[e[2]])])
             = (Heads(keyOf, left) \ {<<keyOf[left[e[2]][1]], e[2]>>})
                 \cup HeadOf(keyOf, Tail(left[e[2]]), e[2])
    <3>1. e[2] \in DOMAIN left /\ left[e[2]] # <<>>
      BY <1>4
    <3> HIDE DEF j, p, t, next
    <3> QED
      BY <1>1, <3>1, HeadTaken, ZenonT(60)
  <2> QED
    BY <1>1, <2>1
<1>7. sources[j] = ReadRow(left[j]) /\ DOMAIN sources = DOMAIN left
  BY <1>1, <1>4 DEF Readers
<1>8. sources[j].head = p /\ sources[j].rest = t
  BY <1>4, <1>7 DEF ReadRow
<1>9. Popped = p
  BY <1>8 DEF Popped, e
<1>10. Refilled = ReadRow(t)
  BY <1>8 DEF Refilled, e
<1>11. Entry(Refilled, j) = HeadOf(keyOf, t, j)
  <2>1. t \in Seq(DOMAIN keyOf) /\ Ascending(keyOf, t)
    BY <1>1, <1>4, TailAscending DEF Queues
  <2>2. CASE t = <<>>
    BY <1>10, <2>2 DEF Entry, ReadRow, None, HeadOf
  <2>3. CASE t # <<>>
    <3>1. t[1] \in DOMAIN keyOf
      BY <2>1, <2>3, HeadFirst
    <3> HIDE DEF t
    <3>2. t[1] # 0
      BY <3>1, LenProperties
    <3>3. ReadRow(t).head = t[1]
      BY <2>3 DEF ReadRow
    <3> QED
      BY <1>10, <2>3, <3>2, <3>3 DEF Entry, None, HeadOf
  <2> QED
    BY <2>2, <2>3
<1>12. heap' = Heads(keyOf, next)
  BY <1>2, <1>4, <1>6, <1>11
<1>13. sources' = Readers(next)
  <2>1. sources' = [k \in DOMAIN left |-> IF k = j THEN ReadRow(t)
                                          ELSE ReadRow(left[k])]
    BY <1>1, <1>2, <1>10 DEF Readers
  <2>2. \A k \in DOMAIN left : next[k] = IF k = j THEN t ELSE left[k]
    BY <1>4
  <2> HIDE DEF next, t
  <2>3. Readers(next) = [k \in DOMAIN left |-> ReadRow(next[k])]
    BY <1>6 DEF Readers
  <2> QED
    BY <2>1, <2>2, <2>3
<1>14. Merging(keyOf, next, sources', heap')
  BY <1>6, <1>12, <1>13 DEF Merging
<1> HIDE DEF next, p
<1> QED
  BY <1>4, <1>5, <1>6, <1>9, <1>14

\* The first n files are open: their rows are the rows that are left.
RowsUpTo(fs, n) == UNION {Range(fs[i]) : i \in 1 .. n}

Opening(key, fs, n, srcs, entries) ==
  \E left : Merging(key, left, srcs, entries) /\ RowsIn(left) = RowsUpTo(fs, n)

\* One more file is opened, whether or not it has rows (merge.rs:148-168).
LEMMA OpenStep ==
  ASSUME keyOf \in Seq(Nat), Queues(keyOf, files), opened \in Nat,
         Opening(keyOf, files, opened, sources, heap), OpenSource
  PROVE  /\ opened' = opened + 1 /\ opened + 1 \in 0 .. Len(files)
         /\ Opening(keyOf, files, opened + 1, sources', heap')
<1>1. PICK left : /\ Merging(keyOf, left, sources, heap)
                  /\ RowsIn(left) = RowsUpTo(files, opened)
  BY DEF Opening
<1> DEFINE n == opened + 1
           s == files[n]
<1>2. /\ opened < Len(files) /\ opened' = n
      /\ IF ReadRow(s).head = None
         THEN UNCHANGED <<sources, heap>>
         ELSE /\ sources' = Append(sources, ReadRow(s))
              /\ heap' = heap \cup Entry(ReadRow(s), Len(sources) + 1)
  BY DEF OpenSource
<1>3. /\ Queues(keyOf, left) /\ sources = Readers(left)
      /\ heap = Heads(keyOf, left)
  BY <1>1 DEF Merging
<1>4. Len(files) \in Nat /\ DOMAIN files = 1 .. Len(files)
  BY LenProperties DEF Queues
<1>5. n \in 0 .. Len(files) /\ n \in DOMAIN files
  BY <1>2, <1>4
<1>6. \A i \in 1 .. n : i \in 1 .. opened \/ i = n
  OBVIOUS
<1>7. n \in 1 .. n /\ 1 .. opened \subseteq 1 .. n
  OBVIOUS
<1>8. \A i \in 1 .. opened : i \in DOMAIN files /\ i < n
  BY <1>4, <1>5
<1> HIDE DEF n
<1>9. RowsUpTo(files, n) = RowsUpTo(files, opened) \cup Range(s)
  BY <1>6, <1>7 DEF RowsUpTo
<1>10. Ascending(keyOf, s) /\ s \in Seq(DOMAIN keyOf)
  BY <1>5 DEF Queues, Ascending
<1>11. \A x \in RowsIn(left), y \in Range(s) : x < y
  <2> SUFFICES ASSUME NEW x \in RowsUpTo(files, opened), NEW y \in Range(s)
               PROVE  x < y
    BY <1>1
  <2>1. PICK i \in 1 .. opened : x \in Range(files[i])
    BY DEF RowsUpTo
  <2>2. Older(files[i], s)
    BY <1>5, <1>8 DEF Queues
  <2> QED
    BY <2>1, <2>2 DEF Older
<1> HIDE DEF s
<1>12. CASE s = <<>>
  <2>1. ReadRow(s).head = None
    BY <1>12 DEF ReadRow
  <2>2. sources' = sources /\ heap' = heap
    BY <1>2, <2>1
  <2>3. Range(s) = {}
    BY <1>12 DEF Range
  <2>4. RowsIn(left) = RowsUpTo(files, n)
    BY <1>1, <1>9, <2>3
  <2>5. Opening(keyOf, files, n, sources', heap')
    BY <1>1, <2>2, <2>4 DEF Opening
  <2> QED
    BY <1>2, <1>5, <2>5 DEF n
<1>13. CASE s # <<>>
  <2> DEFINE next == Append(left, s)
             m == Len(left)
  <2>1. s[1] \in DOMAIN keyOf /\ ReadRow(s).head = s[1]
    BY <1>10, <1>13, HeadFirst DEF ReadRow
  <2>2. s[1] # 0
    BY <2>1, LenProperties
  <2>3. /\ sources' = Append(sources, ReadRow(s))
        /\ heap' = heap \cup Entry(ReadRow(s), Len(sources) + 1)
    BY <1>2, <2>1, <2>2 DEF None
  <2>4. /\ left \in Seq(Seq(DOMAIN keyOf)) /\ m \in Nat
        /\ DOMAIN left = 1 .. m
    BY <1>3, LenProperties DEF Queues
  <2>5. /\ Queues(keyOf, next)
        /\ Len(next) = m + 1
        /\ RowsIn(next) = RowsIn(left) \cup Range(s)
        /\ Heads(keyOf, next) = Heads(keyOf, left) \cup HeadOf(keyOf, s, m + 1)
    BY <1>3, <1>10, <1>11, RunOpened
  <2>6. DOMAIN next = 1 .. m + 1 /\ next[m + 1] = s
        /\ \A k \in 1 .. m : next[k] = left[k]
    BY <1>10, <2>4, AppendProperties
  <2> HIDE DEF next, m
  <2>7. sources = [k \in 1 .. m |-> ReadRow(left[k])]
    BY <1>3, <2>4 DEF Readers
  <2>8. Len(sources) = m
    BY <2>4, <2>7
  <2>9. heap' = Heads(keyOf, next)
    <3>1. Entry(ReadRow(s), m + 1) = HeadOf(keyOf, s, m + 1)
      BY <1>13, <2>1, <2>2 DEF Entry, None, HeadOf
    <3> QED
      BY <1>3, <2>3, <2>5, <2>8, <3>1
  <2>10. sources' = Readers(next)
    <3> DEFINE q == ReadRow(s)
    <3>1. Append(sources, q) =
            [k \in 1 .. m + 1 |-> IF k = m + 1 THEN q ELSE ReadRow(left[k])]
      <4> HIDE DEF q
      <4> QED
        BY <2>4, <2>7
    <3>2. Readers(next) = [k \in 1 .. m + 1 |-> ReadRow(next[k])]
      BY <2>6 DEF Readers
    <3>3. \A k \in 1 .. m + 1 :
            ReadRow(next[k]) = IF k = m + 1 THEN q ELSE ReadRow(left[k])
      BY <2>4, <2>6
    <3> HIDE DEF q
    <3>4. Append(sources, q) = Readers(next)
      BY <3>1, <3>2, <3>3
    <3> QED
      BY <2>3, <3>4 DEF q
  <2>11. Merging(keyOf, next, sources', heap')
    BY <2>5, <2>9, <2>10 DEF Merging
  <2>12. RowsIn(next) = RowsUpTo(files, n)
    BY <1>1, <1>9, <2>5
  <2>13. Opening(keyOf, files, n, sources', heap')
    BY <2>11, <2>12 DEF Opening
  <2> QED
    BY <1>2, <1>5, <2>13 DEF n
<1> QED
  BY <1>12, <1>13

\* No file is open yet.
LEMMA OpenNone ==
  ASSUME NEW key \in Seq(Nat), NEW fs
  PROVE  Opening(key, fs, 0, <<>>, {})
<1>1. Queues(key, <<>>) /\ RowsIn(<<>>) = {} /\ Heads(key, <<>>) = {}
  BY DEF Queues, RowsIn, Heads
<1>2. Readers(<<>>) = <<>>
  BY DEF Readers
<1>3. RowsUpTo(fs, 0) = {}
  BY DEF RowsUpTo
<1> QED
  BY <1>1, <1>2, <1>3 DEF Opening, Merging

\* The files of runs that hold all rows, older runs first (merge.rs:264-287).
LEMMA RunFiles ==
  ASSUME NEW key \in Seq(Nat), NEW rs, Lines(rs),
         \A i \in DOMAIN rs : \A x \in rs[i] : x < Len(key),
         \A x \in 0 .. Len(key) - 1 : \E i \in DOMAIN rs : x \in rs[i]
  PROVE  LET fs == [i \in DOMAIN rs |-> Sorted(key, {r + 1 : r \in rs[i]})]
         IN  Queues(key, fs) /\ RowsIn(fs) = DOMAIN key
<1> DEFINE S(i) == {r + 1 : r \in rs[i]}
           fs == [i \in DOMAIN rs |-> Sorted(key, S(i))]
<1>1. /\ rs \in Seq(SUBSET Nat) /\ Len(rs) \in Nat /\ DOMAIN rs = 1 .. Len(rs)
      /\ DOMAIN key = 1 .. Len(key) /\ Len(key) \in Nat
      /\ \A i \in DOMAIN rs : rs[i] \in SUBSET Nat
  BY LenProperties, ElementOfSeq DEF Lines
<1>2. \A i \in DOMAIN rs : S(i) \in SUBSET DOMAIN key
  BY <1>1
<1>3. \A i \in DOMAIN rs : Ascending(key, fs[i]) /\ Range(fs[i]) = S(i)
  <2> SUFFICES ASSUME NEW i \in DOMAIN rs
               PROVE  Ascending(key, fs[i]) /\ Range(fs[i]) = S(i)
    OBVIOUS
  <2>1. fs[i] = Sorted(key, S(i)) /\ S(i) \in SUBSET DOMAIN key
    BY <1>2
  <2> HIDE DEF fs, S
  <2> QED
    BY <2>1, SortedRun
<1>4. DOMAIN fs = DOMAIN rs
  OBVIOUS
<1>5. fs \in Seq(Seq(DOMAIN key))
  <2>1. fs \in [1 .. Len(rs) -> Seq(DOMAIN key)]
    BY <1>1, <1>3 DEF Ascending
  <2> QED
    BY <1>1, <2>1, SeqDef
<1> HIDE DEF fs
<1>6. ASSUME NEW i \in DOMAIN fs, NEW j \in DOMAIN fs, i < j
      PROVE  Older(fs[i], fs[j])
  <2> SUFFICES ASSUME NEW x \in S(i), NEW y \in S(j) PROVE x < y
    BY <1>3, <1>4 DEF Older
  <2>1. PICK a \in rs[i], b \in rs[j] : x = a + 1 /\ y = b + 1
    OBVIOUS
  <2>2. a < b /\ a \in Nat /\ b \in Nat
    <3>1. a < b
      BY <1>4, <1>6 DEF Lines
    <3> QED
      BY <1>1, <1>4, <3>1
  <2> QED
    BY <2>1, <2>2
<1>7. Queues(key, fs)
  BY <1>3, <1>4, <1>5, <1>6 DEF Queues
<1>8. RowsIn(fs) = DOMAIN key
  <2>1. ASSUME NEW x \in DOMAIN key PROVE x \in RowsIn(fs)
    <3>1. x - 1 \in 0 .. Len(key) - 1 /\ (x - 1) + 1 = x
      BY <1>1
    <3>2. PICK i \in DOMAIN rs : x - 1 \in rs[i]
      BY <3>1
    <3>3. x \in S(i)
      BY <3>1, <3>2
    <3> QED
      BY <1>3, <1>4, <3>3 DEF RowsIn
  <2>2. ASSUME NEW x \in RowsIn(fs) PROVE x \in DOMAIN key
    <3>1. PICK i \in DOMAIN rs : x \in S(i)
      BY <1>3, <1>4 DEF RowsIn
    <3> QED
      BY <1>2, <3>1
  <2> QED
    BY <2>1, <2>2
<1> QED
  BY <1>7, <1>8 DEF fs

-----------------------------------------------------------------------------
(***************************************************************************)
(* A whole sort (module SortPipeline).                                     *)
(***************************************************************************)
\* What the merge still has to yield, and what it has.
Streaming(key, dd, srcs, entries, l, out) ==
  \E left : /\ Merging(key, left, srcs, entries)
            /\ Taken(key, DOMAIN key \ RowsIn(left))
            /\ Yielded(key, dd, DOMAIN key \ RowsIn(left), out)
            /\ LastKept(key, dd, DOMAIN key \ RowsIn(left), l)

\* A key for each row accepted.
KeyInv == keyOf \in Seq(Keys) /\ Len(keyOf) = nextRow /\ dedup \in BOOLEAN

\* There is a stream, or one to be opened, as soon as finish has disposed of
\* the session, and before that it has nothing.
CallsInv ==
  /\ mpc \in Mpcs
  /\ mpc = "none" <=> pc # "stream"
  /\ mpc = "none" => opened = 0 /\ sources = <<>> /\ heap = {}
  /\ mpc \in {"none", "opening"} => last = None /\ items = <<>>

\* What a stream reads are all rows accepted, in order and the runs older
\* first; it has yielded a part of the reference, or all of it, or an error.
BufferPart ==
  mpc = "memory" =>
    /\ Ascending(keyOf, files[1]) /\ Range(files[1]) = DOMAIN keyOf
    /\ Len(items) <= Len(Reference(keyOf, dedup))
    /\ \A i \in 1 .. Len(items) : items[i] = Reference(keyOf, dedup)[i]

OpeningPart ==
  mpc = "opening" =>
    /\ Queues(keyOf, files) /\ RowsIn(files) = DOMAIN keyOf
    /\ opened \in 0 .. Len(files)
    /\ Opening(keyOf, files, opened, sources, heap)

MergingPart ==
  mpc = "merging" => Streaming(keyOf, dedup, sources, heap, last, items)

EndPart ==
  /\ mpc = "exhausted" => items = Reference(keyOf, dedup)
  /\ mpc \in {"broken", "reported"} => \E i \in DOMAIN items : items[i] = 0

StreamInv ==
  items \in Seq(Nat) /\ BufferPart /\ OpeningPart /\ MergingPart /\ EndPart

PipeInv == SpillInv /\ KeyInv /\ CallsInv /\ StreamInv

\* A step of the pipeline is a step of its session, or none.
LEMMA SessionStep ==
  ASSUME PipeNext \/ UNCHANGED <<vars, pipeVars>>
  PROVE  [Next]_vars
<1>1. CASE AcceptRow
  BY <1>1 DEF AcceptRow, Next
<1>2. CASE StreamBuffer
  BY <1>2 DEF StreamBuffer, Next
<1>3. CASE OpenMerge
  BY <1>3 DEF OpenMerge, Next, CascadeNext
<1>4. CASE InSession
  BY <1>4 DEF InSession, Next, CascadeNext
<1>5. CASE InMerge \/ YieldBuffered \/ BufferEnds
  BY <1>5 DEF InMerge, YieldBuffered, BufferEnds
<1>6. CASE UNCHANGED <<vars, pipeVars>>
  BY <1>6
<1> QED
  BY <1>1, <1>2, <1>3, <1>4, <1>5, <1>6 DEF PipeNext

\* The steps that concern no row and no stream.
LEMMA SessionOnly ==
  ASSUME SessionInv, InSession
  PROVE  /\ pc # "stream" /\ pc' # "stream" /\ nextRow' = nextRow
         /\ pc = "idle" /\ failed => pc' = "gone"
         /\ pc # "gone"
<1>1. resume \in {"idle", "grow", "collect"}
  BY DEF SessionInv, PlaceInv
<1>2. CASE Push \/ GrowRefused \/ FinishRefused \/ Finish \/ DropSession
  BY <1>2 DEF Push, GrowRefused, FinishRefused, Finish, DropSession
<1>3. CASE SpillNext
  BY <1>1, <1>3
  DEF SpillNext, Spill, WriteRun, TakeOlder, MergeOlder, Store, SpillFails
<1>4. CASE Collect \/ MergeGroup \/ NextPass \/ CascadeFails
  BY <1>4 DEF Collect, MergeGroup, NextPass, CascadeFails
<1> QED
  BY <1>2, <1>3, <1>4 DEF InSession

\* Keys are numbers, and rows have their keys.
LEMMA KeysAreNumbers ==
  ASSUME KeyInv
  PROVE  keyOf \in Seq(Nat) /\ DOMAIN keyOf = 1 .. nextRow
<1>1. keyOf \in [1 .. Len(keyOf) -> Keys] /\ Len(keyOf) \in Nat
  BY LenProperties DEF KeyInv
<1>2. keyOf \in [1 .. Len(keyOf) -> Nat]
  BY <1>1, KeysAssumption
<1> QED
  BY <1>1, <1>2, SeqDef DEF KeyInv

LEMMA KeyStep ==
  ASSUME PipeInv, PipeNext \/ UNCHANGED <<vars, pipeVars>>
  PROVE  KeyInv'
<1> USE DEF PipeInv, SpillInv
<1>1. CASE AcceptRow
  <2>1. PICK k \in Keys : keyOf' = Append(keyOf, k)
    BY <1>1 DEF AcceptRow
  <2>2. nextRow' = nextRow + 1 /\ dedup' = dedup
    BY <1>1 DEF AcceptRow, PushRow
  <2>3. keyOf' \in Seq(Keys) /\ Len(keyOf') = Len(keyOf) + 1
    BY <2>1, AppendProperties DEF KeyInv
  <2> QED
    BY <2>2, <2>3 DEF KeyInv
<1>2. CASE StreamBuffer \/ OpenMerge
  BY <1>2
  DEF KeyInv, StreamBuffer, OpenMerge, FinishInMemory, OpenStream
<1>3. CASE InSession
  BY <1>3, SessionOnly DEF KeyInv, InSession, pipeVars, inputVars, mergeVars
<1>4. CASE InMerge
  <2>1. UNCHANGED <<keyOf, dedup, nextRow>>
    BY <1>4
    DEF InMerge, vars, StreamNext, OpenSource, Opened, OpenFails, SkipRow,
        YieldRow, Take, RowFails, AllTaken, CleanupDone,
        CleanupFails, EndReported, inputVars
  <2> QED
    BY <2>1 DEF KeyInv
<1>5. CASE YieldBuffered \/ BufferEnds
  BY <1>5 DEF KeyInv, YieldBuffered, BufferEnds, vars
<1>6. CASE UNCHANGED <<vars, pipeVars>>
  BY <1>6 DEF KeyInv, vars, pipeVars, inputVars, mergeVars
<1> QED
  BY <1>1, <1>2, <1>3, <1>4, <1>5, <1>6 DEF PipeNext

\* Before finish there is no stream, after its end nothing is said of it.
LEMMA NoStream ==
  ASSUME items' \in Seq(Nat), mpc' \in {"none", "refused", "ended"}
  PROVE  StreamInv'
BY DEF StreamInv, BufferPart, OpeningPart, MergingPart, EndPart

LEMMA SameStream ==
  ASSUME StreamInv, UNCHANGED pipeVars
  PROVE  StreamInv'
BY DEF StreamInv, BufferPart, OpeningPart, MergingPart, EndPart,
       pipeVars, inputVars, mergeVars

\* An error is among what was yielded.
LEMMA ErrorYielded ==
  ASSUME items \in Seq(Nat)
  PROVE  LET next == Append(items, 0)
         IN  next \in Seq(Nat) /\ \E i \in DOMAIN next : next[i] = 0
<1> DEFINE next == Append(items, 0)
<1>1. /\ next \in Seq(Nat) /\ Len(next) = Len(items) + 1 /\ Len(items) \in Nat
      /\ next[Len(items) + 1] = 0 /\ DOMAIN next = 1 .. Len(next)
  BY AppendProperties, LenProperties
<1> HIDE DEF next
<1>2. Len(items) + 1 \in DOMAIN next
  BY <1>1
<1> QED
  BY <1>1, <1>2 DEF next

\* finish without a spill: the buffer has all rows (session.rs:213-227).
LEMMA StreamBufferStep ==
  ASSUME PipeInv, StreamBuffer
  PROVE  StreamInv'
<1> USE DEF PipeInv
<1>1. /\ pc = "idle" /\ ~failed /\ nextRun = 0 /\ mpc' = "memory"
      /\ files' = <<Sorted(keyOf, {r + 1 : r \in buffer})>>
      /\ keyOf' = keyOf /\ dedup' = dedup /\ items' = items
  BY DEF StreamBuffer, FinishInMemory, streamVars, mergeVars
<1>2. buffer = 0 .. nextRow - 1
  <2>1. \A l \in Slots : spills[l] = {}
    BY <1>1 DEF SpillInv, LimitsInv
  <2>2. hand = {} /\ older = {} /\ nextRow \in Nat
        /\ buffer \subseteq Nat /\ \A x \in buffer : x < nextRow
    BY <1>1 DEF SpillInv, SessionInv, PlaceInv
  <2>3. \A x \in 0 .. nextRow - 1 : x \in buffer
    <3>1. KeptInv
      BY DEF SpillInv, SessionInv
    <3>2. \A x \in 0 .. nextRow - 1 :
            x \in buffer \/ x \in hand \/ x \in older
              \/ \E l \in Slots : x \in spills[l]
      BY <1>1, <3>1 DEF KeptInv
    <3> QED
      BY <2>1, <2>2, <3>2
  <2>4. \A x \in buffer : x \in 0 .. nextRow - 1
    BY <2>2
  <2> QED
    BY <2>3, <2>4, Zenon
<1>3. keyOf \in Seq(Nat) /\ DOMAIN keyOf = 1 .. nextRow /\ nextRow \in Nat
  BY KeysAreNumbers DEF SpillInv, SessionInv, PlaceInv
<1> DEFINE S == {r + 1 : r \in buffer}
<1>4. S = DOMAIN keyOf
  <2>1. ASSUME NEW x \in 1 .. nextRow PROVE x \in S
    <3>1. x - 1 \in buffer /\ (x - 1) + 1 = x
      BY <1>2, <1>3
    <3> QED
      BY <3>1
  <2>2. ASSUME NEW r \in buffer PROVE r + 1 \in 1 .. nextRow
    BY <1>2, <1>3
  <2> QED
    BY <1>3, <2>1, <2>2
<1>5. files'[1] = Sorted(keyOf, DOMAIN keyOf)
  BY <1>1, <1>4
<1>6. Ascending(keyOf, files'[1]) /\ Range(files'[1]) = DOMAIN keyOf
  BY <1>3, <1>5, SortedRun
<1>7. items = <<>>
  BY <1>1 DEF CallsInv
<1>8. Len(Reference(keyOf, dedup)) \in Nat
  BY <1>3, ReferenceRows DEF KeyInv
<1>9. BufferPart'
  BY <1>1, <1>6, <1>7, <1>8 DEF BufferPart
<1> QED
  BY <1>1, <1>7, <1>9 DEF StreamInv, OpeningPart, MergingPart, EndPart

\* The final merge is opened on the runs that the cascade has left.
LEMMA OpenMergeStep ==
  ASSUME PipeInv, OpenMerge
  PROVE  StreamInv'
<1> USE DEF PipeInv
<1>1. /\ pc = "cascade" /\ merged = <<>> /\ mpc' = "opening"
      /\ files' = [i \in DOMAIN runs |-> Sorted(keyOf, {r + 1 : r \in runs[i]})]
      /\ keyOf' = keyOf /\ UNCHANGED streamVars
  BY DEF OpenMerge, OpenStream
<1>2. /\ Lines(runs) /\ Within(runs)
      /\ \A x \in 0 .. nextRow - 1 : InRun(runs, x)
  <2>1. \A x \in 0 .. nextRow - 1 : ~InRun(merged, x)
    BY <1>1 DEF InRun
  <2> QED
    BY <1>1, <2>1 DEF SpillInv, CascadeInv
<1>3. keyOf \in Seq(Nat) /\ Len(keyOf) = nextRow
  BY KeysAreNumbers DEF KeyInv
<1>4. Queues(keyOf, files') /\ RowsIn(files') = DOMAIN keyOf
  <2>1. \A i \in DOMAIN runs : \A x \in runs[i] : x < Len(keyOf)
    BY <1>2, <1>3 DEF Within
  <2>2. \A x \in 0 .. Len(keyOf) - 1 : \E i \in DOMAIN runs : x \in runs[i]
    BY <1>2, <1>3 DEF InRun
  <2>3. LET fs == [i \in DOMAIN runs |-> Sorted(keyOf, {r + 1 : r \in runs[i]})]
        IN  Queues(keyOf, fs) /\ RowsIn(fs) = DOMAIN keyOf
    BY <1>2, <1>3, <2>1, <2>2, RunFiles
  <2> QED
    BY <1>1, <2>3
<1>5. /\ opened' = 0 /\ sources' = <<>> /\ heap' = {} /\ items' = <<>>
  BY <1>1 DEF CallsInv, streamVars, mergeVars
<1>6. Opening(keyOf, files', 0, <<>>, {})
  BY <1>3, OpenNone
<1>7. OpeningPart'
  <2>1. Len(files') \in Nat /\ 0 \in 0 .. Len(files')
    BY <1>4, LenProperties DEF Queues
  <2> QED
    BY <1>1, <1>4, <1>5, <1>6, <2>1 DEF OpeningPart
<1>8. items' \in Seq(Nat)
  BY <1>5
<1> QED
  BY <1>1, <1>7, <1>8 DEF StreamInv, BufferPart, MergingPart, EndPart

\* The last file was opened: all rows are left (merge.rs:148-168).
LEMMA OpenedStep ==
  ASSUME PipeInv, Opened
  PROVE  StreamInv'
<1> USE DEF PipeInv
<1>1. /\ mpc = "opening" /\ opened = Len(files) /\ mpc' = "merging"
      /\ UNCHANGED <<keyOf, dedup, sources, heap, last, items>>
  BY DEF Opened, inputVars, mergeVars
<1>2. keyOf \in Seq(Nat) /\ dedup \in BOOLEAN
  BY KeysAreNumbers DEF KeyInv
<1>3. /\ Queues(keyOf, files) /\ RowsIn(files) = DOMAIN keyOf
      /\ Opening(keyOf, files, opened, sources, heap)
  BY <1>1 DEF StreamInv, OpeningPart
<1>4. PICK left : /\ Merging(keyOf, left, sources, heap)
                  /\ RowsIn(left) = RowsUpTo(files, opened)
  BY <1>3 DEF Opening
<1>5. RowsUpTo(files, opened) = RowsIn(files)
  BY <1>1, <1>3, LenProperties DEF RowsUpTo, RowsIn, Queues
<1>6. DOMAIN keyOf \ RowsIn(left) = {}
  BY <1>3, <1>4, <1>5
<1>7. last = 0 /\ items = <<>>
  BY <1>1 DEF CallsInv, None
<1>8. Streaming(keyOf, dedup, sources, heap, last, items)
  BY <1>2, <1>4, <1>6, <1>7, YieldedNone DEF Streaming
<1> QED
  BY <1>1, <1>8
  DEF StreamInv, BufferPart, OpeningPart, MergingPart, EndPart

\* One more file.
LEMMA OpenSourceStep ==
  ASSUME PipeInv, OpenSource
  PROVE  StreamInv'
<1> USE DEF PipeInv
<1>1. /\ mpc = "opening" /\ mpc' = "opening"
      /\ UNCHANGED <<keyOf, dedup, files, items>>
  BY DEF OpenSource, inputVars
<1>2. keyOf \in Seq(Nat)
  BY KeysAreNumbers
<1>3. /\ Queues(keyOf, files) /\ RowsIn(files) = DOMAIN keyOf
      /\ opened \in Nat /\ Opening(keyOf, files, opened, sources, heap)
  BY <1>1 DEF StreamInv, OpeningPart
<1>4. /\ opened' = opened + 1 /\ opened + 1 \in 0 .. Len(files)
      /\ Opening(keyOf, files, opened + 1, sources', heap')
  BY <1>2, <1>3, OpenStep
<1> QED
  BY <1>1, <1>3, <1>4
  DEF StreamInv, BufferPart, OpeningPart, MergingPart, EndPart

\* A row is taken from the rows that are left, and dropped or yielded as the
\* next of the reference (merge.rs:171-203).
LEMMA RowStep ==
  ASSUME PipeInv, SkipRow \/ YieldRow
  PROVE  /\ StreamInv'
         /\ YieldRow =>
              /\ Len(items) < Len(Reference(keyOf, dedup))
              /\ items' = Append(items, Reference(keyOf, dedup)[Len(items) + 1])
<1> USE DEF PipeInv
<1>1. /\ mpc = "merging" /\ mpc' = "merging" /\ Take
      /\ UNCHANGED <<keyOf, dedup>>
  BY DEF SkipRow, YieldRow, Take, inputVars
<1>2. keyOf \in Seq(Nat) /\ dedup \in BOOLEAN
  BY KeysAreNumbers DEF KeyInv
<1>3. Streaming(keyOf, dedup, sources, heap, last, items)
  BY <1>1 DEF StreamInv, MergingPart
<1>4. PICK left : /\ Merging(keyOf, left, sources, heap)
                  /\ Taken(keyOf, DOMAIN keyOf \ RowsIn(left))
                  /\ Yielded(keyOf, dedup, DOMAIN keyOf \ RowsIn(left), items)
                  /\ LastKept(keyOf, dedup, DOMAIN keyOf \ RowsIn(left), last)
  BY <1>3 DEF Streaming
<1> DEFINE P == DOMAIN keyOf \ RowsIn(left)
           p == Popped
<1>5. /\ RowsIn(left) \subseteq DOMAIN keyOf /\ p \in RowsIn(left)
      /\ Foremost(keyOf, P, p)
  BY <1>1, <1>2, <1>4, TakeStep
<1>6. PICK next : /\ Merging(keyOf, next, sources', heap')
                  /\ RowsIn(next) = RowsIn(left) \ {p}
  BY <1>1, <1>2, <1>4, TakeStep
<1>7. DOMAIN keyOf \ RowsIn(next) = P \cup {p}
  BY <1>5, <1>6
<1>8. Duplicate <=> dedup /\ last # 0 /\ keyOf[last] = keyOf[p]
  BY DEF Duplicate, None
<1> HIDE DEF P, p
<1>9. Taken(keyOf, P \cup {p})
  BY <1>2, <1>4, <1>5, TakenNext DEF P
<1>10. CASE SkipRow
  <2>1. /\ dedup /\ last # 0 /\ keyOf[last] = keyOf[p]
        /\ last' = last /\ items' = items /\ ~YieldRow
    BY <1>8, <1>10 DEF SkipRow, YieldRow
  <2>2. /\ Yielded(keyOf, dedup, P \cup {p}, items)
        /\ LastKept(keyOf, dedup, P \cup {p}, last)
    BY <1>2, <1>4, <1>5, <2>1, SkipNext DEF P
  <2>3. Streaming(keyOf, dedup, sources', heap', last, items)
    BY <1>6, <1>7, <1>9, <2>2 DEF Streaming
  <2> QED
    BY <1>1, <2>1, <2>3
    DEF StreamInv, BufferPart, OpeningPart, MergingPart, EndPart
<1>11. CASE YieldRow
  <2>1. /\ ~(dedup /\ last # 0 /\ keyOf[last] = keyOf[p])
        /\ last' = IF dedup THEN p ELSE last
        /\ items' = Append(items, p)
    BY <1>8, <1>11 DEF YieldRow, p
  <2>2. /\ Len(items) < Len(Reference(keyOf, dedup))
        /\ p = Reference(keyOf, dedup)[Len(items) + 1]
        /\ Yielded(keyOf, dedup, P \cup {p}, Append(items, p))
        /\ LastKept(keyOf, dedup, P \cup {p}, p)
    BY <1>2, <1>4, <1>5, <2>1, YieldNext DEF P
  <2>3. LastKept(keyOf, dedup, P \cup {p}, last')
    BY <2>1, <2>2 DEF LastKept
  <2>4. Streaming(keyOf, dedup, sources', heap', last', items')
    BY <1>6, <1>7, <1>9, <2>1, <2>2, <2>3 DEF Streaming
  <2>5. items' \in Seq(Nat)
    BY <2>1, <2>2 DEF Yielded
  <2> QED
    BY <1>1, <2>1, <2>2, <2>4, <2>5
    DEF StreamInv, BufferPart, OpeningPart, MergingPart, EndPart
<1> QED
  BY <1>10, <1>11

\* The heap is empty: everything was yielded.
LEMMA AllTakenStep ==
  ASSUME PipeInv, AllTaken
  PROVE  StreamInv'
<1> USE DEF PipeInv
<1>1. /\ mpc = "merging" /\ heap = {} /\ mpc' = "exhausted"
      /\ UNCHANGED <<keyOf, dedup, items>>
  BY DEF AllTaken, inputVars, mergeVars
<1>2. keyOf \in Seq(Nat) /\ dedup \in BOOLEAN
  BY KeysAreNumbers DEF KeyInv
<1>3. Streaming(keyOf, dedup, sources, heap, last, items)
  BY <1>1 DEF StreamInv, MergingPart
<1>4. PICK left : /\ Merging(keyOf, left, sources, heap)
                  /\ Yielded(keyOf, dedup, DOMAIN keyOf \ RowsIn(left), items)
  BY <1>3 DEF Streaming
<1>5. RowsIn(left) = {}
  BY <1>1, <1>2, <1>4, HeadPairs DEF Merging
<1>6. DOMAIN keyOf \ RowsIn(left) = DOMAIN keyOf
  BY <1>5
<1>7. items = Reference(keyOf, dedup)
  BY <1>2, <1>4, <1>6, YieldedAll
<1> QED
  BY <1>1, <1>7
  DEF StreamInv, BufferPart, OpeningPart, MergingPart, EndPart

\* A row of the buffer is the next of the reference (session.rs:259-280).
LEMMA BufferStep ==
  ASSUME PipeInv, YieldBuffered
  PROVE  /\ StreamInv'
         /\ Len(items) < Len(Reference(keyOf, dedup))
         /\ items' = Append(items, Reference(keyOf, dedup)[Len(items) + 1])
<1> USE DEF PipeInv
<1> DEFINE R == Reference(keyOf, dedup)
           n == Len(items)
<1>1. keyOf \in Seq(Nat) /\ dedup \in BOOLEAN
  BY KeysAreNumbers DEF KeyInv
<1>2. mpc = "memory"
  BY DEF YieldBuffered
<1>3. InMemoryStream = R
  BY <1>1, <1>2, BufferStream DEF StreamInv, BufferPart
<1>4. /\ n < Len(R) /\ items' = Append(items, R[n + 1])
      /\ UNCHANGED <<keyOf, dedup, files, mpc>>
  BY <1>3 DEF YieldBuffered
<1>5. /\ Len(R) \in Nat /\ \A i \in 1 .. Len(R) : R[i] \in Nat
      /\ n \in Nat /\ items \in Seq(Nat)
      /\ \A i \in 1 .. n : items[i] = R[i]
  BY <1>1, <1>2, ReferenceRows, LenProperties DEF StreamInv, BufferPart
<1> HIDE DEF R, n
<1>6. R[n + 1] \in Nat
  BY <1>4, <1>5
<1>7. /\ items' \in Seq(Nat) /\ Len(items') = n + 1
      /\ items'[n + 1] = R[n + 1] /\ \A i \in 1 .. n : items'[i] = items[i]
  BY <1>4, <1>5, <1>6, AppendProperties DEF n
<1>8. \A i \in 1 .. n + 1 : items'[i] = R[i]
  <2> SUFFICES ASSUME NEW i \in 1 .. n + 1 PROVE items'[i] = R[i]
    OBVIOUS
  <2>1. i \in 1 .. n \/ i = n + 1
    BY <1>5
  <2> QED
    BY <1>5, <1>7, <2>1
<1>9. Len(items') <= Len(R)
  BY <1>4, <1>5, <1>7
<1>10. BufferPart'
  BY <1>2, <1>4, <1>7, <1>8, <1>9 DEF BufferPart, StreamInv, R
<1> QED
  BY <1>2, <1>4, <1>7, <1>10
  DEF StreamInv, OpeningPart, MergingPart, EndPart, R, n

\* Every step keeps the stream to what it has promised.
LEMMA StreamStep ==
  ASSUME PipeInv, PipeNext \/ UNCHANGED <<vars, pipeVars>>
  PROVE  CallsInv' /\ StreamInv'
<1> USE DEF PipeInv
<1>a. items \in Seq(Nat)
  BY DEF StreamInv
<1>1. CASE AcceptRow
  <2>1. /\ pc = "grow" /\ pc' # "stream"
        /\ UNCHANGED <<dedup, files, opened, sources, heap, last, items, mpc>>
    BY <1>1 DEF AcceptRow, PushRow, streamVars, mergeVars
  <2>2. mpc = "none"
    BY <2>1 DEF CallsInv
  <2>3. CallsInv'
    BY <2>1, <2>2 DEF CallsInv
  <2> QED
    BY <1>a, <2>1, <2>2, <2>3, NoStream
<1>2. CASE StreamBuffer
  <2>1. pc' = "stream" /\ mpc' = "memory"
    BY <1>2 DEF StreamBuffer, FinishInMemory
  <2> QED
    BY <1>2, <2>1, StreamBufferStep DEF CallsInv, Mpcs
<1>3. CASE OpenMerge
  <2>1. /\ pc = "cascade" /\ pc' = "stream" /\ mpc' = "opening"
        /\ last' = last /\ items' = items
    BY <1>3 DEF OpenMerge, OpenStream, streamVars, mergeVars
  <2>2. CallsInv'
    BY <2>1 DEF CallsInv, Mpcs
  <2> QED
    BY <1>3, <2>2, OpenMergeStep
<1>4. CASE InSession
  <2>1. pc # "stream" /\ pc' # "stream" /\ UNCHANGED pipeVars
    BY <1>4, SessionOnly DEF InSession, SpillInv
  <2>2. CallsInv'
    BY <2>1 DEF CallsInv, pipeVars, inputVars, mergeVars
  <2> QED
    BY <2>1, <2>2, SameStream
<1>5. CASE InMerge
  <2>0. pc = "stream" /\ pc' = "stream" /\ StreamNext
    BY <1>5 DEF InMerge, vars
  <2>1. CASE OpenSource
    <3>1. mpc' = "opening" /\ mpc = "opening" /\ last' = last /\ items' = items
      BY <2>1 DEF OpenSource
    <3>2. CallsInv'
      BY <2>0, <3>1 DEF CallsInv
    <3> QED
      BY <2>1, <3>2, OpenSourceStep
  <2>2. CASE Opened
    <3>1. mpc' = "merging"
      BY <2>2 DEF Opened
    <3>2. CallsInv'
      BY <2>0, <3>1 DEF CallsInv, Mpcs
    <3> QED
      BY <2>2, <3>2, OpenedStep
  <2>3. CASE SkipRow \/ YieldRow
    <3>1. mpc' = "merging"
      BY <2>3 DEF SkipRow, YieldRow, Take
    <3>2. CallsInv'
      BY <2>0, <3>1 DEF CallsInv, Mpcs
    <3> QED
      BY <2>3, <3>2, RowStep
  <2>4. CASE AllTaken
    <3>1. mpc' = "exhausted"
      BY <2>4 DEF AllTaken
    <3>2. CallsInv'
      BY <2>0, <3>1 DEF CallsInv, Mpcs
    <3> QED
      BY <2>4, <3>2, AllTakenStep
  <2>5. CASE RowFails \/ CleanupFails
    <3>1. mpc' \in {"broken", "reported"} /\ items' = Append(items, 0)
      BY <2>5 DEF RowFails, CleanupFails, Error
    <3>2. CallsInv'
      BY <2>0, <3>1 DEF CallsInv, Mpcs
    <3>3. items' \in Seq(Nat) /\ \E i \in DOMAIN items' : items'[i] = 0
      BY <1>a, <3>1, ErrorYielded
    <3>4. StreamInv'
      BY <3>1, <3>3
      DEF StreamInv, BufferPart, OpeningPart, MergingPart, EndPart
    <3> QED
      BY <3>2, <3>4
  <2>6. CASE OpenFails \/ CleanupDone \/ EndReported
    <3>1. mpc' \in {"refused", "ended"} /\ items' = items
      BY <2>6 DEF OpenFails, CleanupDone, EndReported
    <3>2. CallsInv'
      BY <2>0, <3>1 DEF CallsInv, Mpcs
    <3> QED
      BY <1>a, <3>1, <3>2, NoStream
  <2> QED
    BY <2>0, <2>1, <2>2, <2>3, <2>4, <2>5, <2>6 DEF StreamNext
<1>6. CASE YieldBuffered
  <2>1. mpc' = "memory" /\ pc' = pc /\ mpc = "memory"
    BY <1>6 DEF YieldBuffered, vars
  <2>2. CallsInv'
    BY <2>1 DEF CallsInv
  <2> QED
    BY <1>6, <2>2, BufferStep
<1>7. CASE BufferEnds
  <2>1. mpc = "memory" /\ mpc' = "ended" /\ pc' = pc /\ items' = items
    BY <1>7 DEF BufferEnds, vars, streamVars, mergeVars
  <2>2. CallsInv'
    BY <2>1 DEF CallsInv, Mpcs
  <2> QED
    BY <1>a, <2>1, <2>2, NoStream
<1>8. CASE UNCHANGED <<vars, pipeVars>>
  <2>1. pc' = pc /\ UNCHANGED pipeVars
    BY <1>8 DEF vars
  <2>2. CallsInv'
    BY <2>1 DEF CallsInv, pipeVars, inputVars, mergeVars
  <2> QED
    BY <2>1, <2>2, SameStream
<1> QED
  BY <1>1, <1>2, <1>3, <1>4, <1>5, <1>6, <1>7, <1>8 DEF PipeNext

LEMMA PipeInvariance == PipeSpec => []PipeInv
<1>1. PipeInit => PipeInv
  <2> SUFFICES ASSUME PipeInit PROVE PipeInv
    OBVIOUS
  <2>1. SpillInv
    BY InitSpill DEF PipeInit
  <2>2. /\ keyOf = <<>> /\ dedup \in BOOLEAN /\ nextRow = 0 /\ pc = "idle"
        /\ opened = 0 /\ sources = <<>> /\ heap = {} /\ last = None
        /\ items = <<>> /\ mpc = "none"
    BY DEF PipeInit, Init
  <2>3. KeyInv /\ CallsInv
    BY <2>2 DEF KeyInv, CallsInv, Mpcs
  <2>4. StreamInv
    BY <2>2 DEF StreamInv, BufferPart, OpeningPart, MergingPart, EndPart
  <2> QED
    BY <2>1, <2>3, <2>4 DEF PipeInv
<1>2. PipeInv /\ [PipeNext]_<<vars, pipeVars>> => PipeInv'
  <2> SUFFICES ASSUME PipeInv, PipeNext \/ UNCHANGED <<vars, pipeVars>>
               PROVE  PipeInv'
    OBVIOUS
  <2>1. SpillInv'
    BY SessionStep, NextSpill DEF PipeInv
  <2> QED
    BY <2>1, KeyStep, StreamStep DEF PipeInv
<1> QED
  BY <1>1, <1>2, PTL DEF PipeSpec

-----------------------------------------------------------------------------
(***************************************************************************)
(* A sort implements its contract.                                         *)
(***************************************************************************)
\* The contract's reference is the one above.
LEMMA SameReference == Contract!Expected = Reference(keyOf, dedup)
<1>1. \A r, s : Contract!RowBefore(keyOf, r, s) = RowBefore(keyOf, r, s)
  BY Zenon DEF Contract!RowBefore, RowBefore
<1>2. ASSUME NEW S PROVE Contract!Firsts(keyOf, S) = Firsts(keyOf, S)
  BY Zenon DEF Contract!Firsts, Firsts
<1>3. ASSUME NEW S PROVE Contract!Sorted(keyOf, S) = Sorted(keyOf, S)
  BY DEF Contract!Sorted, Sorted, Contract!RowBefore, RowBefore,
         Contract!Cardinality, Cardinality
<1> QED
  BY <1>2, <1>3 DEF Contract!Expected, Contract!Reference, Reference

\* What the phase is before finish, at its end and while it streams.
LEMMA Phases ==
  ASSUME CallsInv
  PROVE  /\ mpc = "none" =>
              Phase = IF pc = "gone" \/ (pc = "idle" /\ failed) THEN "void"
                      ELSE "open"
         /\ mpc = "opening" => Phase = "open"
         /\ mpc = "refused" => Phase = "void"
         /\ mpc = "ended" => Phase = "ended"
         /\ mpc \in {"memory", "merging", "broken", "exhausted", "reported"} =>
              Phase = "streaming"
BY DEF CallsInv, Phase

LEMMA PhasesNext ==
  ASSUME CallsInv'
  PROVE  /\ mpc' = "none" =>
              Phase' = IF pc' = "gone" \/ (pc' = "idle" /\ failed') THEN "void"
                       ELSE "open"
         /\ mpc' = "opening" => Phase' = "open"
         /\ mpc' = "refused" => Phase' = "void"
         /\ mpc' = "ended" => Phase' = "ended"
         /\ mpc' \in {"memory", "merging", "broken", "exhausted", "reported"} =>
              Phase' = "streaming"
BY DEF CallsInv, Phase

\* Each step of the pipeline is a step of the contract, or none.
LEMMA SortStep ==
  ASSUME PipeInv, PipeInv', PipeNext \/ UNCHANGED <<vars, pipeVars>>
  PROVE  [Contract!SortNext]_<<keyOf, dedup, Phase, items>>
<1> USE DEF PipeInv
<1>1. CASE AcceptRow
  <2>1. /\ pc = "grow" /\ pc' \in {"idle", "spill"} /\ failed' = failed
        /\ UNCHANGED <<dedup, items, mpc>>
        /\ \E k \in Keys : keyOf' = Append(keyOf, k)
    BY <1>1 DEF AcceptRow, PushRow, streamVars, mergeVars
  <2>2. ~failed /\ mpc = "none"
    BY <2>1 DEF SpillInv, SessionInv, PlaceInv, CallsInv
  <2>3. Phase = "open" /\ Phase' = "open"
    BY <2>1, <2>2, Phases, PhasesNext
  <2>4. Contract!Accept
    BY <2>1, <2>3 DEF Contract!Accept
  <2> QED
    BY <2>4 DEF Contract!SortNext
<1>2. CASE StreamBuffer
  <2>1. /\ pc = "idle" /\ ~failed /\ mpc' = "memory"
        /\ UNCHANGED <<keyOf, dedup, items>>
    BY <1>2 DEF StreamBuffer, FinishInMemory, streamVars, mergeVars
  <2>2. mpc = "none"
    BY <2>1 DEF CallsInv
  <2>3. Phase = "open" /\ Phase' = "streaming"
    BY <2>1, <2>2, Phases, PhasesNext
  <2>4. Contract!Deliver
    BY <2>1, <2>3 DEF Contract!Deliver
  <2> QED
    BY <2>4 DEF Contract!SortNext
<1>3. CASE OpenMerge
  <2>1. /\ pc = "cascade" /\ mpc' = "opening"
        /\ UNCHANGED <<keyOf, dedup, items>>
    BY <1>3 DEF OpenMerge, OpenStream, streamVars, mergeVars
  <2>2. mpc = "none"
    BY <2>1 DEF CallsInv
  <2>3. Phase = "open" /\ Phase' = "open"
    BY <2>1, <2>2, Phases, PhasesNext
  <2> QED
    BY <2>1, <2>3
<1>4. CASE InSession
  <2>1. /\ pc # "stream" /\ pc # "gone"
        /\ UNCHANGED <<keyOf, dedup, items, mpc>>
        /\ pc = "idle" /\ failed => pc' = "gone"
    BY <1>4, SessionOnly DEF InSession, SpillInv, pipeVars, inputVars, mergeVars
  <2>2. mpc = "none"
    BY <2>1 DEF CallsInv
  <2>3. CASE Phase = "open"
    <3>1. Phase' \in {"open", "void"}
      BY <2>1, <2>2, PhasesNext
    <3>2. Phase' = "void" => Contract!Void
      BY <2>1, <2>3 DEF Contract!Void
    <3> QED
      BY <2>1, <2>3, <3>1, <3>2 DEF Contract!SortNext
  <2>4. CASE Phase # "open"
    <3>1. Phase = "void" /\ pc' = "gone"
      BY <2>1, <2>2, <2>4, Phases
    <3>2. Phase' = "void"
      BY <2>1, <2>2, <3>1, PhasesNext
    <3> QED
      BY <2>1, <3>1, <3>2
  <2> QED
    BY <2>3, <2>4
<1>5. CASE InMerge
  <2>0. StreamNext /\ UNCHANGED <<keyOf, dedup>>
    BY <1>5
    DEF InMerge, StreamNext, OpenSource, Opened, OpenFails, SkipRow,
        YieldRow, Take, RowFails, AllTaken, CleanupDone,
        CleanupFails, EndReported, inputVars
  <2>1. CASE OpenSource
    <3>1. mpc = "opening" /\ mpc' = "opening" /\ items' = items
      BY <2>1 DEF OpenSource
    <3> QED
      BY <2>0, <3>1, Phases, PhasesNext
  <2>2. CASE Opened
    <3>1. mpc = "opening" /\ mpc' = "merging" /\ items' = items
      BY <2>2 DEF Opened
    <3>2. Phase = "open" /\ Phase' = "streaming"
      BY <3>1, Phases, PhasesNext
    <3>3. Contract!Deliver
      BY <2>0, <3>1, <3>2 DEF Contract!Deliver
    <3> QED
      BY <3>3 DEF Contract!SortNext
  <2>3. CASE OpenFails
    <3>1. mpc = "opening" /\ mpc' = "refused" /\ items' = items
      BY <2>3 DEF OpenFails
    <3>2. Phase = "open" /\ Phase' = "void"
      BY <3>1, Phases, PhasesNext
    <3>3. Contract!Void
      BY <2>0, <3>1, <3>2 DEF Contract!Void
    <3> QED
      BY <3>3 DEF Contract!SortNext
  <2>4. CASE SkipRow
    <3>1. mpc = "merging" /\ mpc' = "merging" /\ items' = items
      BY <2>4 DEF SkipRow, Take
    <3> QED
      BY <2>0, <3>1, Phases, PhasesNext
  <2>5. CASE YieldRow
    <3>1. mpc = "merging" /\ mpc' = "merging"
      BY <2>5 DEF YieldRow, Take
    <3>2. Phase = "streaming" /\ Phase' = "streaming"
      BY <3>1, Phases, PhasesNext
    <3>3. /\ Len(items) < Len(Contract!Expected)
          /\ items' = Append(items, Contract!Expected[Len(items) + 1])
      BY <2>5, RowStep, SameReference
    <3>4. ~Contract!Reported
      <4>1. keyOf \in Seq(Nat) /\ dedup \in BOOLEAN
        BY KeysAreNumbers DEF KeyInv
      <4>2. PICK left :
              Yielded(keyOf, dedup, DOMAIN keyOf \ RowsIn(left), items)
        BY <3>1 DEF StreamInv, MergingPart, Streaming
      <4>3. \A i \in 1 .. Len(items) : items[i] # 0
        BY <4>1, <4>2, YieldedRows
      <4>4. DOMAIN items = 1 .. Len(items)
        BY LenProperties DEF StreamInv
      <4> QED
        BY <4>3, <4>4 DEF Contract!Reported, Contract!Error
    <3>5. Contract!Yield
      BY <2>0, <3>2, <3>3, <3>4 DEF Contract!Yield
    <3> QED
      BY <3>5 DEF Contract!SortNext
  <2>6. CASE AllTaken
    <3>1. mpc = "merging" /\ mpc' = "exhausted" /\ items' = items
      BY <2>6 DEF AllTaken
    <3> QED
      BY <2>0, <3>1, Phases, PhasesNext
  <2>7. CASE RowFails \/ CleanupFails
    <3>1. /\ mpc \in {"merging", "broken", "exhausted"}
          /\ mpc' \in {"broken", "reported"} /\ items' = Append(items, 0)
      BY <2>7 DEF RowFails, CleanupFails, Error
    <3>2. Phase = "streaming" /\ Phase' = "streaming"
      BY <3>1, Phases, PhasesNext
    <3>3. Contract!Report
      BY <2>0, <3>1, <3>2 DEF Contract!Report, Contract!Error
    <3> QED
      BY <3>3 DEF Contract!SortNext
  <2>8. CASE CleanupDone \/ EndReported
    <3>1. /\ mpc \in {"broken", "exhausted", "reported"} /\ mpc' = "ended"
          /\ items' = items
      BY <2>8 DEF CleanupDone, EndReported
    <3>2. Phase = "streaming" /\ Phase' = "ended"
      BY <3>1, Phases, PhasesNext
    <3>3. Contract!Reported \/ items = Contract!Expected
      BY <3>1, SameReference
      DEF StreamInv, EndPart, Contract!Reported, Contract!Error
    <3>4. Contract!End
      BY <2>0, <3>1, <3>2, <3>3 DEF Contract!End
    <3> QED
      BY <3>4 DEF Contract!SortNext
  <2> QED
    BY <2>0, <2>1, <2>2, <2>3, <2>4, <2>5, <2>6, <2>7, <2>8 DEF StreamNext
<1>6. CASE YieldBuffered
  <2>1. mpc = "memory" /\ mpc' = "memory" /\ UNCHANGED <<keyOf, dedup>>
    BY <1>6 DEF YieldBuffered
  <2>2. Phase = "streaming" /\ Phase' = "streaming"
    BY <2>1, Phases, PhasesNext
  <2>3. /\ Len(items) < Len(Contract!Expected)
        /\ items' = Append(items, Contract!Expected[Len(items) + 1])
    BY <1>6, BufferStep, SameReference
  <2>4. ~Contract!Reported
    <3>1. keyOf \in Seq(Nat) /\ dedup \in BOOLEAN
      BY KeysAreNumbers DEF KeyInv
    <3>2. /\ Len(Reference(keyOf, dedup)) \in Nat
          /\ \A i \in 1 .. Len(Reference(keyOf, dedup)) :
               Reference(keyOf, dedup)[i] # 0
      BY <3>1, ReferenceRows
    <3>3. /\ DOMAIN items = 1 .. Len(items) /\ Len(items) \in Nat
          /\ Len(items) <= Len(Reference(keyOf, dedup))
          /\ \A i \in 1 .. Len(items) : items[i] = Reference(keyOf, dedup)[i]
      BY <2>1, LenProperties DEF StreamInv, BufferPart
    <3>4. \A i \in DOMAIN items : items[i] # 0
      BY <3>2, <3>3
    <3> QED
      BY <3>4 DEF Contract!Reported, Contract!Error
  <2>5. Contract!Yield
    BY <2>1, <2>2, <2>3, <2>4 DEF Contract!Yield
  <2> QED
    BY <2>5 DEF Contract!SortNext
<1>7. CASE BufferEnds
  <2>1. /\ mpc = "memory" /\ mpc' = "ended" /\ UNCHANGED <<keyOf, dedup, items>>
        /\ Len(items) = Len(InMemoryStream)
    BY <1>7 DEF BufferEnds, streamVars, mergeVars
  <2>2. Phase = "streaming" /\ Phase' = "ended"
    BY <2>1, Phases, PhasesNext
  <2>3. items = Contract!Expected
    <3> DEFINE R == Reference(keyOf, dedup)
    <3>1. keyOf \in Seq(Nat) /\ dedup \in BOOLEAN
      BY KeysAreNumbers DEF KeyInv
    <3>2. Len(items) = Len(R) /\ R \in Seq(Nat) /\ items \in Seq(Nat)
          /\ \A i \in 1 .. Len(items) : items[i] = R[i]
      BY <2>1, <3>1, BufferStream, ReferenceRows DEF StreamInv, BufferPart
    <3> HIDE DEF R
    <3>3. items = R
      BY <3>2, SeqEqual
    <3> QED
      BY <3>3, SameReference DEF R
  <2>4. Contract!End
    BY <2>1, <2>2, <2>3 DEF Contract!End
  <2> QED
    BY <2>4 DEF Contract!SortNext
<1>8. CASE UNCHANGED <<vars, pipeVars>>
  BY <1>8 DEF Phase, vars, pipeVars, inputVars, mergeVars
<1> QED
  BY <1>1, <1>2, <1>3, <1>4, <1>5, <1>6, <1>7, <1>8 DEF PipeNext

\* Whatever is spilled, carried, cascaded and merged, with any fan-in and
\* whichever calls fail, the caller gets the rows that were accepted, in order,
\* or an error, or nothing (session.rs, merge.rs).
THEOREM SortIsKept == PipeSpec => ImplementsSorting
<1>1. PipeInit => Contract!SortInit
  BY DEF PipeInit, Init, Contract!SortInit, Phase
<1>2. PipeInv /\ PipeInv' /\ [PipeNext]_<<vars, pipeVars>> =>
        [Contract!SortNext]_<<keyOf, dedup, Phase, items>>
  BY SortStep
<1> QED
  BY <1>1, <1>2, PipeInvariance, PTL
  DEF PipeSpec, ImplementsSorting, Contract!SortSpec
-----------------------------------------------------------------------------
(***************************************************************************)
(* A group of runs merged into one (module GroupMerge).                    *)
(***************************************************************************)

\* Of the rows S, those of R are still in their files, all behind the others,
\* which were written in order.
Written(key, S, R, out) ==
  /\ R \subseteq S
  /\ \A t \in S \ R, r \in R : RowBefore(key, t, r)
  /\ out \in Seq(Nat)
  /\ Len(out) = Cardinality(S \ R)
  /\ \A i \in 1 .. Len(out) : out[i] = Sorted(key, S)[i]

\* The row that is taken is the next one (merge.rs:229-231).
LEMMA WrittenNext ==
  ASSUME NEW key \in Seq(Nat), NEW U \in SUBSET DOMAIN key,
         NEW R, NEW out, Written(key, U, R, out),
         NEW p \in R, Foremost(key, DOMAIN key \ R, p)
  PROVE  Written(key, U, R \ {p}, Append(out, p))
<1> DEFINE n == Len(out)
           o == Append(out, p)
           F == Sorted(key, U)
<1>1. /\ R \subseteq U /\ p \in U /\ p \in DOMAIN key
      /\ out \in Seq(Nat) /\ n \in Nat /\ n = Cardinality(U \ R)
  BY LenProperties DEF Written
<1>2. \A r \in R : r = p \/ RowBefore(key, p, r)
  BY <1>1 DEF Foremost
<1>3. {s \in U : RowBefore(key, s, p)} = U \ R
  <2>1. ASSUME NEW s \in U, RowBefore(key, s, p) PROVE s \notin R
    BY <1>1, <1>2, <2>1, RowOrder
  <2>2. ASSUME NEW s \in U \ R PROVE RowBefore(key, s, p)
    BY DEF Written
  <2> QED
    BY <2>1, <2>2
<1>4. n + 1 \in 1 .. Cardinality(U) /\ F[n + 1] = p
  <2>1. Rank(key, U, p) = n
    BY <1>1, <1>3 DEF Rank
  <2> QED
    BY <1>1, <2>1, SortedAt
<1>5. Cardinality(U \ (R \ {p})) = n + 1
  <2>1. U \ (R \ {p}) = (U \ R) \cup {p} /\ p \notin U \ R
    BY <1>1
  <2>2. IsFiniteSet(U \ R)
    BY RowsFinite
  <2>3. Cardinality((U \ R) \cup {p}) = Cardinality(U \ R) + 1
    BY <2>1, <2>2, FS_AddElement
  <2> QED
    BY <1>1, <2>1, <2>3
<1>6. p \in Nat
  BY <1>1, LenProperties
<1>7. o \in Seq(Nat) /\ Len(o) = n + 1 /\ o[n + 1] = p
      /\ \A i \in 1 .. n : o[i] = out[i]
  <2>1. out \in Seq(Nat)
    BY <1>1
  <2> QED
    BY <1>6, <2>1, AppendProperties
<1>8. \A i \in 1 .. n : out[i] = F[i]
  BY DEF Written
<1>9. \A t \in U \ (R \ {p}), r \in R \ {p} : RowBefore(key, t, r)
  BY <1>1, <1>2 DEF Written
<1> HIDE DEF n, o, F
<1>10. \A i \in 1 .. n + 1 : o[i] = F[i]
  <2> SUFFICES ASSUME NEW i \in 1 .. n + 1 PROVE o[i] = F[i]
    OBVIOUS
  <2>1. i = n + 1 \/ i \in 1 .. n
    BY <1>1
  <2> QED
    BY <1>4, <1>7, <1>8, <2>1
<1>11. \A i \in 1 .. Len(o) : o[i] = F[i]
  BY <1>7, <1>10
<1>12. Len(o) = Cardinality(U \ (R \ {p}))
  BY <1>5, <1>7
<1> QED
  BY <1>1, <1>7, <1>9, <1>11, <1>12 DEF Written, o, F

\* When none is left, all were written.
LEMMA WrittenAll ==
  ASSUME NEW key \in Seq(Nat), NEW S \in SUBSET DOMAIN key,
         NEW out, Written(key, S, {}, out)
  PROVE  out = Sorted(key, S)
<1> DEFINE F == Sorted(key, S)
<1>1. F \in Seq(S) /\ Len(F) = Cardinality(S)
  BY SortedRows
<1>2. S \ {} = S
  OBVIOUS
<1>3. /\ Len(out) = Len(F) /\ out \in Seq(Nat)
      /\ \A i \in 1 .. Len(out) : out[i] = F[i]
  BY <1>1, <1>2 DEF Written
<1> HIDE DEF F
<1>4. /\ DOMAIN out = 1 .. Len(out) /\ DOMAIN F = 1 .. Len(F)
      /\ out = [i \in DOMAIN out |-> out[i]] /\ F = [i \in DOMAIN F |-> F[i]]
  BY <1>1, <1>3, LenProperties
<1> QED
  BY <1>3, <1>4 DEF F

\* Before the first row, all are left.
LEMMA WrittenNone ==
  ASSUME NEW key, NEW S
  PROVE  Written(key, S, S, <<>>)
<1>1. S \ S = {} /\ Cardinality({}) = 0
  BY FS_EmptySet
<1> QED
  BY <1>1 DEF Written

\* The files of a group hold their rows in order, and the older rows first.
LEMMA GroupFiles ==
  ASSUME NEW key \in Seq(Nat), NEW n \in Nat, NEW place \in [DOMAIN key -> 0 .. n],
         \A r, s \in DOMAIN key :
           r < s /\ place[r] # 0 /\ place[s] # 0 => place[r] <= place[s]
  PROVE  Queues(key, [i \in 1 .. n |->
                        Sorted(key, {r \in DOMAIN key : place[r] = i})])
<1> DEFINE S(i) == {r \in DOMAIN key : place[r] = i}
           fs == [i \in 1 .. n |-> Sorted(key, S(i))]
<1>1. \A i \in 1 .. n : Ascending(key, fs[i]) /\ Range(fs[i]) = S(i)
  <2> SUFFICES ASSUME NEW i \in 1 .. n
               PROVE  Ascending(key, fs[i]) /\ Range(fs[i]) = S(i)
    OBVIOUS
  <2>1. fs[i] = Sorted(key, S(i)) /\ S(i) \in SUBSET DOMAIN key
    OBVIOUS
  <2> HIDE DEF fs, S
  <2> QED
    BY <2>1, SortedRun
<1>2. DOMAIN fs = 1 .. n
  OBVIOUS
<1>3. fs \in Seq(Seq(DOMAIN key))
  <2>1. fs \in [1 .. n -> Seq(DOMAIN key)]
    BY <1>1 DEF Ascending
  <2> QED
    BY <2>1, SeqDef
<1> HIDE DEF fs
<1>4. ASSUME NEW i \in 1 .. n, NEW j \in 1 .. n, i < j
      PROVE  Older(fs[i], fs[j])
  <2> SUFFICES ASSUME NEW x \in S(i), NEW y \in S(j) PROVE x < y
    BY <1>1 DEF Older
  <2>1. /\ x \in DOMAIN key /\ y \in DOMAIN key
        /\ place[x] = i /\ place[y] = j
    OBVIOUS
  <2>2. x \in Nat /\ y \in Nat /\ x # y /\ ~(place[y] <= place[x])
    <3>1. /\ i \in Nat /\ j \in Nat
          /\ x \in 1 .. Len(key) /\ y \in 1 .. Len(key)
      BY <2>1, LenProperties
    <3>2. Len(key) \in Nat
      BY LenProperties
    <3> HIDE DEF S
    <3> QED
      BY <1>4, <2>1, <3>1, <3>2
  <2>3. ~(y < x)
    <3>1. i # 0 /\ j # 0
      OBVIOUS
    <3> HIDE DEF S
    <3> QED
      BY <2>1, <2>2, <3>1
  <2> QED
    BY <2>2, <2>3
<1> QED
  BY <1>1, <1>2, <1>3, <1>4 DEF Queues, fs

\* The rows of the group, all of them written, or those that are not behind.
Complete == items = Sorted(keyOf, RowsIn(files))

GroupInv ==
  /\ keyOf \in Seq(Nat) /\ dedup = FALSE /\ removed \in Nat
  /\ removed > 0 \/ mpc \in {"exhausted", "ended"} => Complete
  /\ mpc = "opening" =>
       /\ removed = 0 /\ items = <<>>
       /\ Queues(keyOf, files) /\ RowsIn(files) \subseteq DOMAIN keyOf
       /\ opened \in 0 .. Len(files)
       /\ Opening(keyOf, files, opened, sources, heap)
  /\ mpc = "merging" =>
       /\ removed = 0
       /\ RowsIn(files) \subseteq DOMAIN keyOf
       /\ \E left : /\ Merging(keyOf, left, sources, heap)
                    /\ Written(keyOf, RowsIn(files), RowsIn(left), items)

LEMMA GroupFirst ==
  ASSUME GroupInit
  PROVE  GroupInv
<1>1. PICK n \in 0 .. SortRows : keyOf \in [1 .. n -> Keys]
  BY DEF GroupInit
<1>2. keyOf \in Seq(Nat)
  <2>1. n \in Nat
    BY GroupAssumption
  <2>2. keyOf \in [1 .. n -> Nat]
    BY <1>1, KeysAssumption
  <2> QED
    BY <2>1, <2>2, SeqDef
<1>3. PICK place \in Places :
        files = [i \in 1 .. MaxFiles |->
                   Sorted(keyOf, {r \in DOMAIN keyOf : place[r] = i})]
  BY Zenon DEF GroupInit, Keyed
<1>4. Queues(keyOf, files)
  <2>1. /\ place \in [DOMAIN keyOf -> 0 .. MaxFiles]
        /\ \A r, s \in DOMAIN keyOf :
             r < s /\ place[r] # 0 /\ place[s] # 0 => place[r] <= place[s]
    BY DEF Places, Keyed
  <2> QED
    BY <1>2, <1>3, <2>1, GroupAssumption, GroupFiles
<1>5. RowsIn(files) \subseteq DOMAIN keyOf
  <2> SUFFICES ASSUME NEW i \in DOMAIN files
               PROVE  Range(files[i]) \subseteq DOMAIN keyOf
    BY DEF RowsIn
  <2>1. files[i] \in Seq(DOMAIN keyOf)
    BY <1>4 DEF Queues, Ascending
  <2>2. \A j \in DOMAIN files[i] : files[i][j] \in DOMAIN keyOf
    BY <2>1, ElementOfSeq, LenProperties
  <2> QED
    BY <2>2 DEF Range
<1>6. Opening(keyOf, files, 0, <<>>, {})
  BY <1>2, OpenNone
<1>7. 0 \in 0 .. Len(files)
  BY <1>4, LenProperties DEF Queues
<1>8. /\ dedup = FALSE /\ removed = 0 /\ mpc = "opening" /\ items = <<>>
      /\ opened = 0 /\ sources = <<>> /\ heap = {}
  BY Zenon DEF GroupInit
<1> QED
  BY <1>2, <1>4, <1>5, <1>6, <1>7, <1>8 DEF GroupInv

LEMMA GroupStep ==
  ASSUME GroupInv, [GroupNext]_groupVars
  PROVE  GroupInv'
<1> USE DEF GroupInv
<1>1. CASE OpenSource /\ UNCHANGED removed
  <2>1. /\ mpc = "opening" /\ mpc' = "opening" /\ OpenSource
        /\ UNCHANGED <<keyOf, files, dedup, items, removed>>
    BY <1>1 DEF OpenSource, inputVars
  <2>2. opened \in Nat
    BY <2>1
  <2>3. /\ opened' = opened + 1 /\ opened + 1 \in 0 .. Len(files)
        /\ Opening(keyOf, files, opened + 1, sources', heap')
    BY <2>1, <2>2, OpenStep
  <2> QED
    BY <2>1, <2>3
<1>2. CASE Opened /\ UNCHANGED removed
  <2>1. /\ mpc = "opening" /\ mpc' = "merging" /\ opened = Len(files)
        /\ UNCHANGED <<keyOf, files, dedup, sources, heap, items, removed>>
    BY <1>2 DEF Opened, inputVars, mergeVars
  <2>2. PICK left : /\ Merging(keyOf, left, sources, heap)
                    /\ RowsIn(left) = RowsUpTo(files, opened)
    BY <2>1 DEF Opening
  <2>3. RowsUpTo(files, opened) = RowsIn(files)
    BY <2>1, LenProperties DEF RowsUpTo, RowsIn, Queues
  <2>4. Written(keyOf, RowsIn(files), RowsIn(left), items)
    BY <2>1, <2>2, <2>3, WrittenNone
  <2> QED
    BY <2>1, <2>2, <2>4
<1>3. CASE WriteRow
  <2>1. /\ mpc = "merging" /\ mpc' = "merging" /\ Take
        /\ UNCHANGED <<keyOf, files, dedup, removed>>
        /\ items' = Append(items, Popped)
    BY <1>3 DEF WriteRow, YieldRow, Take, inputVars
  <2>2. PICK left : /\ Merging(keyOf, left, sources, heap)
                    /\ Written(keyOf, RowsIn(files), RowsIn(left), items)
    BY <2>1
  <2> DEFINE p == Popped
             S == RowsIn(files)
  <2>3. /\ p \in RowsIn(left) /\ Foremost(keyOf, DOMAIN keyOf \ RowsIn(left), p)
        /\ \E next : /\ Merging(keyOf, next, sources', heap')
                     /\ RowsIn(next) = RowsIn(left) \ {p}
    BY <2>1, <2>2, TakeStep
  <2>4. S \in SUBSET DOMAIN keyOf
    BY <2>1
  <2> HIDE DEF p, S
  <2>5. Written(keyOf, S, RowsIn(left) \ {p}, Append(items, p))
    BY <2>2, <2>3, <2>4, WrittenNext DEF S
  <2>6. \E next : /\ Merging(keyOf, next, sources', heap')
                  /\ Written(keyOf, S, RowsIn(next), items')
    BY <2>1, <2>3, <2>5 DEF p
  <2> QED
    BY <2>1, <2>6 DEF S
<1>4. CASE FinishFile
  <2>1. /\ mpc = "merging" /\ heap = {} /\ mpc' = "exhausted"
        /\ UNCHANGED <<keyOf, files, dedup, items, removed>>
    BY <1>4 DEF FinishFile, AllTaken, inputVars, mergeVars
  <2>2. PICK left : /\ Merging(keyOf, left, sources, heap)
                    /\ Written(keyOf, RowsIn(files), RowsIn(left), items)
    BY <2>1
  <2>3. RowsIn(left) = {}
    BY <2>1, <2>2, HeadPairs DEF Merging
  <2>4. Complete
    BY <2>1, <2>2, <2>3, WrittenAll DEF Complete
  <2> QED
    BY <2>1, <2>4 DEF Complete
<1>5. CASE GroupFails
  BY <1>5 DEF GroupFails, inputVars, Complete
<1>6. CASE Unlink
  BY <1>6 DEF Unlink, pipeVars, inputVars, mergeVars, Complete
<1>7. CASE Merged
  BY <1>7 DEF Merged, inputVars, mergeVars, Complete
<1>8. CASE UNCHANGED groupVars
  BY <1>8 DEF groupVars, pipeVars, inputVars, mergeVars, Complete
<1> QED
  BY <1>1, <1>2, <1>3, <1>4, <1>5, <1>6, <1>7, <1>8
  DEF GroupNext, OpenGroup

\* Once the first file of a group is deleted, and when the new one is handed
\* over, the new one has all the rows of the group, in order and none twice
\* (merge.rs:219-237), for groups of any number of files.
THEOREM GroupIsKept == GroupSpec => []GroupKept
<1>1. GroupInit => GroupInv
  BY GroupFirst
<1>2. GroupInv /\ [GroupNext]_groupVars => GroupInv'
  BY GroupStep
<1>3. GroupInv => GroupKept
  <2>1. GroupRows = RowsIn(files)
    BY Zenon DEF GroupRows, RowsIn, Range
  <2> QED
    BY <2>1 DEF GroupInv, GroupKept, Complete
<1> QED
  BY <1>1, <1>2, <1>3, PTL DEF GroupSpec
=============================================================================
