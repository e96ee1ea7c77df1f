--------------------------- MODULE RunBufferProofs ---------------------------
(***************************************************************************)
(* Theorems about the memory of a sort session (module RunBuffer), for     *)
(* rows, frames, budgets and pressures of any size and any number of rows. *)
(*                                                                         *)
(* The first part is induction over naturals, in a form that needs no      *)
(* operator as a parameter: a property that fails for some number fails    *)
(* for a least one.                                                        *)
(***************************************************************************)
EXTENDS RunBuffer, Integers, SequenceTheorems, WellFoundedInduction, TLAPS

\* A set of naturals that is not empty has a least element.
LEMMA Least ==
  ASSUME NEW T \in SUBSET Nat, T # {}
  PROVE  \E n \in T : \A m \in T : n <= m
<1> DEFINE R == OpToRel(<, Nat)
<1>1. IsWellFoundedOn(R, Nat)
  BY NatLessThanWellFounded
<1>2. R = {ss \in Nat \X Nat : ss[1] < ss[2]}
  BY DEF R, OpToRel
<1> HIDE DEF R
<1>3. PICK n \in T : \A m \in T : <<m, n>> \notin R
  BY <1>1, WFMin
<1>4. ASSUME NEW m \in T, m < n PROVE FALSE
  <2>1. <<m, n>> \in Nat \X Nat /\ <<m, n>>[1] < <<m, n>>[2]
    BY <1>4
  <2>2. QED
    BY <1>2, <1>3, <2>1
<1>5. QED
  BY <1>4

\* Induction up to a bound, for the set of the numbers with a property.
LEMMA UpTo ==
  ASSUME NEW m \in Nat, NEW B,
         0 \in B, \A n \in 0 .. m - 1 : n \in B => n + 1 \in B
  PROVE  \A n \in 0 .. m : n \in B
<1> DEFINE T == {n \in 0 .. m : n \notin B}
<1> SUFFICES ASSUME T # {} PROVE FALSE
  OBVIOUS
<1>1. T \in SUBSET Nat
  OBVIOUS
<1>2. PICK n \in T : \A k \in T : n <= k
  <2> HIDE DEF T
  <2> QED
    BY <1>1, Least
<1>3. n \in 1 .. m /\ n \notin B
  BY <1>2
<1>4. n - 1 \in 0 .. m - 1 /\ n - 1 \in B
  BY <1>2, <1>3
<1>5. (n - 1) + 1 \in B
  BY <1>4
<1> QED
  BY <1>3, <1>5

\* A recursive function over an interval exists: it starts with b, and R takes
\* it from step to step within a set of values.
Steps(f, m, b, R) == f[0] = b /\ \A n \in 0 .. m - 1 : f[n + 1] = R[n][f[n]]

LEMMA Recursion ==
  ASSUME NEW m \in Nat, NEW D, NEW b \in D, NEW R \in [0 .. m - 1 -> [D -> D]]
  PROVE  \E f \in [0 .. m -> D] : Steps(f, m, b, R)
<1> DEFINE B == {k \in 0 .. m : \E f \in [0 .. m -> D] : Steps(f, k, b, R)}
<1>1. 0 \in B
  <2> DEFINE g == [n \in 0 .. m |-> b]
  <2>1. g \in [0 .. m -> D] /\ g[0] = b
    OBVIOUS
  <2> HIDE DEF g
  <2>2. Steps(g, 0, b, R) /\ 0 \in 0 .. m
    BY <2>1 DEF Steps
  <2> QED
    BY <2>1, <2>2
<1>2. ASSUME NEW k \in 0 .. m - 1, k \in B PROVE k + 1 \in B
  <2>1. PICK f \in [0 .. m -> D] : Steps(f, k, b, R)
    BY <1>2
  <2> DEFINE v == R[k][f[k]]
             g == [n \in 0 .. m |-> IF n = k + 1 THEN v ELSE f[n]]
  <2>2. v \in D
    BY <2>1
  <2>3. g \in [0 .. m -> D]
    BY <2>2
  <2>4. g[0] = b /\ g[k + 1] = v /\ \A n \in 0 .. k : g[n] = f[n]
    BY <2>1 DEF Steps
  <2>5. ASSUME NEW n \in 0 .. k PROVE g[n + 1] = R[n][g[n]]
    <3>1. CASE n = k
      BY <2>4, <3>1
    <3>2. CASE n # k
      <4>1. n \in 0 .. k - 1 /\ n + 1 \in 0 .. k
        BY <3>2
      <4>2. f[n + 1] = R[n][f[n]]
        BY <2>1, <4>1 DEF Steps
      <4> QED
        BY <2>4, <4>1, <4>2
    <3> QED
      BY <3>1, <3>2
  <2> HIDE DEF g
  <2>6. Steps(g, k + 1, b, R)
    BY <2>4, <2>5 DEF Steps
  <2>7. k + 1 \in 0 .. m
    OBVIOUS
  <2> QED
    BY <2>3, <2>6, <2>7
<1>3. m \in B
  <2> HIDE DEF B
  <2>1. \A n \in 0 .. m : n \in B
    BY <1>1, <1>2, UpTo
  <2> QED
    BY <2>1
<1> QED
  BY <1>3
-----------------------------------------------------------------------------
(***************************************************************************)
(* The sum of the charges of a buffer.                                     *)
(***************************************************************************)
\* Sums(s)[n] is the sum of the first n charges of s.
Sums(s) ==
  CHOOSE f : f = [n \in 0 .. Len(s) |-> IF n = 0 THEN 0 ELSE f[n - 1] + s[n]]

IsSums(f, s) ==
  /\ f \in [0 .. Len(s) -> Nat]
  /\ f[0] = 0
  /\ \A n \in 1 .. Len(s) : f[n] = f[n - 1] + s[n]

\* Such a function exists, and Total is its last value.
LEMMA SumsExist ==
  ASSUME NEW s \in Seq(Nat)
  PROVE  IsSums(Sums(s), s) /\ Total(s) = Sums(s)[Len(s)]
<1> DEFINE m == Len(s)
           R == [n \in 0 .. m - 1 |-> [d \in Nat |-> d + s[n + 1]]]
           P(f) == f = [n \in 0 .. m |-> IF n = 0 THEN 0 ELSE f[n - 1] + s[n]]
<1>1. m \in Nat /\ 0 \in Nat /\ \A n \in 1 .. m : s[n] \in Nat
  BY LenProperties, ElementOfSeq
<1>2. \E f : P(f)
  <2>1. R \in [0 .. m - 1 -> [Nat -> Nat]]
    <3> SUFFICES ASSUME NEW n \in 0 .. m - 1, NEW d \in Nat
                 PROVE  d + s[n + 1] \in Nat
      OBVIOUS
    <3>1. n + 1 \in 1 .. m
      BY <1>1
    <3> HIDE DEF m
    <3> QED
      BY <1>1, <3>1
  <2>2. \A n \in 0 .. m - 1, d \in Nat : R[n][d] = d + s[n + 1]
    OBVIOUS
  <2> HIDE DEF R, m
  <2>3. PICK f \in [0 .. m -> Nat] : Steps(f, m, 0, R)
    BY <1>1, <2>1, Recursion, Zenon
  <2>4. ASSUME NEW n \in 0 .. m
        PROVE  f[n] = IF n = 0 THEN 0 ELSE f[n - 1] + s[n]
    <3>1. CASE n = 0
      BY <2>3, <3>1 DEF Steps
    <3>2. CASE n # 0
      <4>1. /\ n - 1 \in 0 .. m - 1 /\ n - 1 \in 0 .. m /\ (n - 1) + 1 = n
            /\ f[n - 1] \in Nat
        BY <1>1, <2>3, <3>2
      <4>2. f[n] = R[n - 1][f[n - 1]]
        BY <2>3, <4>1 DEF Steps
      <4> QED
        BY <2>2, <3>2, <4>1, <4>2
    <3> QED
      BY <3>1, <3>2
  <2>5. f = [n \in 0 .. m |-> IF n = 0 THEN 0 ELSE f[n - 1] + s[n]]
    BY <2>3, <2>4
  <2> QED
    BY <2>5
<1>3. P(Sums(s))
  BY <1>2 DEF Sums
<1>4. Total(s) = Sums(s)[Len(s)]
  BY Zenon DEF Total, Sums
<1> DEFINE g == Sums(s)
           B == {n \in 0 .. m : g[n] \in Nat}
<1> HIDE DEF m, g
<1>5. /\ DOMAIN g = 0 .. m /\ g[0] = 0
      /\ \A n \in 1 .. m : g[n] = g[n - 1] + s[n]
  <2>1. g = [n \in 0 .. m |-> IF n = 0 THEN 0 ELSE g[n - 1] + s[n]]
    BY <1>3 DEF g, m
  <2> QED
    BY <1>1, <2>1
<1>6. \A n \in 0 .. m : n \in B
  <2>1. 0 \in B
    BY <1>1, <1>5
  <2>2. ASSUME NEW n \in 0 .. m - 1, n \in B PROVE n + 1 \in B
    <3>1. n + 1 \in 1 .. m /\ (n + 1) - 1 = n /\ g[n] \in Nat
      BY <1>1, <2>2
    <3>2. g[n + 1] = g[n] + s[n + 1] /\ s[n + 1] \in Nat
      BY <1>1, <1>5, <3>1
    <3> QED
      BY <3>1, <3>2
  <2> HIDE DEF B
  <2> QED
    BY <1>1, <2>1, <2>2, UpTo
<1>7. IsSums(g, s)
  <2>1. g \in [0 .. m -> Nat]
    <3>1. g = [n \in 0 .. m |-> g[n]]
      BY <1>3 DEF g, m
    <3> QED
      BY <1>6, <3>1
  <2> QED
    BY <1>5, <2>1 DEF IsSums, m
<1> QED
  BY <1>4, <1>7 DEF g

\* Two such functions agree as far as their sequences do.
LEMMA SumsAgree ==
  ASSUME NEW s \in Seq(Nat), NEW t \in Seq(Nat), NEW f, NEW g,
         IsSums(f, s), IsSums(g, t),
         NEW m \in Nat, m <= Len(s), m <= Len(t),
         \A n \in 1 .. m : s[n] = t[n]
  PROVE  \A n \in 0 .. m : f[n] = g[n]
<1> DEFINE B == {n \in 0 .. m : f[n] = g[n]}
<1>1. Len(s) \in Nat /\ Len(t) \in Nat
  BY LenProperties
<1>2. 0 \in B
  BY DEF IsSums
<1>3. ASSUME NEW n \in 0 .. m - 1, n \in B PROVE n + 1 \in B
  <2>1. n + 1 \in 1 .. m /\ n + 1 \in 1 .. Len(s) /\ n + 1 \in 1 .. Len(t)
        /\ (n + 1) - 1 = n
    BY <1>1
  <2>2. f[n + 1] = f[n] + s[n + 1] /\ g[n + 1] = g[n] + t[n + 1]
    BY <2>1 DEF IsSums
  <2> QED
    BY <1>3, <2>1, <2>2
<1> HIDE DEF B
<1>4. \A n \in 0 .. m : n \in B
  BY <1>2, <1>3, UpTo
<1> QED
  BY <1>4 DEF B

\* The sum of charges is a natural number, and zero for an empty buffer.
LEMMA TotalType ==
  ASSUME NEW s \in Seq(Nat)
  PROVE  Total(s) \in Nat /\ (s = <<>> => Total(s) = 0)
<1>1. IsSums(Sums(s), s) /\ Total(s) = Sums(s)[Len(s)]
  BY SumsExist
<1>2. Len(s) \in Nat /\ Len(s) \in 0 .. Len(s) /\ (s = <<>> => Len(s) = 0)
  BY LenProperties, EmptySeq
<1> QED
  BY <1>1, <1>2 DEF IsSums

\* A row that is appended adds its charge.
LEMMA TotalAppend ==
  ASSUME NEW s \in Seq(Nat), NEW x \in Nat
  PROVE  Total(Append(s, x)) = Total(s) + x
<1> DEFINE t == Append(s, x)
           m == Len(s)
<1>1. t \in Seq(Nat) /\ Len(t) = m + 1 /\ m \in Nat /\ t[m + 1] = x
      /\ \A n \in 1 .. m : s[n] = t[n]
  BY AppendProperties, LenProperties
<1> HIDE DEF t, m
<1>2. IsSums(Sums(s), s) /\ Total(s) = Sums(s)[m]
  BY SumsExist DEF m
<1>3. IsSums(Sums(t), t) /\ Total(t) = Sums(t)[m + 1]
  BY <1>1, SumsExist
<1>4. \A n \in 0 .. m : Sums(s)[n] = Sums(t)[n]
  <2>1. m <= Len(s) /\ m <= Len(t)
    BY <1>1 DEF m
  <2> QED
    BY <1>1, <1>2, <1>3, <2>1, SumsAgree
<1>5. m + 1 \in 1 .. Len(t) /\ (m + 1) - 1 = m /\ m \in 0 .. m
  BY <1>1
<1>6. Sums(t)[m + 1] = Sums(t)[m] + t[m + 1]
  BY <1>3, <1>5 DEF IsSums
<1> QED
  BY <1>1, <1>2, <1>3, <1>4, <1>5, <1>6 DEF t

\* A row that is taken from the front takes its charge with it.
LEMMA TotalTail ==
  ASSUME NEW s \in Seq(Nat), s # <<>>
  PROVE  /\ Head(s) \in Nat /\ Tail(s) \in Seq(Nat)
         /\ Total(s) = Head(s) + Total(Tail(s))
<1> DEFINE t == Tail(s)
           m == Len(t)
           f == Sums(s)
           g == Sums(t)
           B == {n \in 0 .. m : f[n + 1] = Head(s) + g[n]}
<1>1. /\ t \in Seq(Nat) /\ m \in Nat /\ Len(s) = m + 1
      /\ Head(s) = s[1] /\ Head(s) \in Nat
      /\ \A n \in 1 .. m : t[n] = s[n + 1]
  BY HeadTailProperties, LenProperties, EmptySeq
<1>2. IsSums(f, s) /\ Total(s) = f[m + 1]
  BY <1>1, SumsExist
<1>3. IsSums(g, t) /\ Total(t) = g[m]
  BY <1>1, SumsExist
<1> HIDE DEF t, m, f, g
<1>4. 0 \in B
  <2>1. f[1] = f[0] + s[1] /\ f[0] = 0 /\ g[0] = 0
    <3>1. 1 \in 1 .. Len(s) /\ 1 - 1 = 0
      BY <1>1
    <3> QED
      BY <1>2, <1>3, <3>1 DEF IsSums
  <2> QED
    BY <1>1, <2>1
<1>5. ASSUME NEW n \in 0 .. m - 1, n \in B PROVE n + 1 \in B
  <2>1. /\ n + 1 \in 1 .. m /\ (n + 1) - 1 = n /\ n \in 0 .. m
        /\ (n + 1) + 1 \in 1 .. Len(s) /\ ((n + 1) + 1) - 1 = n + 1
        /\ n + 1 \in 1 .. Len(t)
    BY <1>1 DEF m
  <2>2. f[(n + 1) + 1] = f[n + 1] + s[(n + 1) + 1]
    BY <1>2, <2>1 DEF IsSums
  <2>3. g[n + 1] = g[n] + t[n + 1] /\ t[n + 1] = s[(n + 1) + 1]
    BY <1>1, <1>3, <2>1 DEF IsSums
  <2>4. g[n] \in Nat /\ t[n + 1] \in Nat
    <3>1. Len(t) = m
      BY DEF m
    <3>2. g[n] \in Nat
      BY <1>3, <2>1, <3>1 DEF IsSums
    <3>3. t[n + 1] \in Nat
      BY <1>1, <2>1, <3>1, ElementOfSeq
    <3> QED
      BY <3>2, <3>3
  <2>5. f[n + 1] = Head(s) + g[n]
    BY <1>5
  <2> HIDE DEF B
  <2>6. f[(n + 1) + 1] = Head(s) + g[n + 1]
    BY <1>1, <2>2, <2>3, <2>4, <2>5
  <2>7. n + 1 \in 0 .. m
    BY <1>1
  <2> QED
    BY <2>6, <2>7 DEF B
<1>6. m \in B
  <2> HIDE DEF B
  <2>1. \A n \in 0 .. m : n \in B
    BY <1>1, <1>4, <1>5, UpTo
  <2> QED
    BY <1>1, <2>1
<1> QED
  BY <1>1, <1>2, <1>3, <1>6 DEF t

\* A charge that changes, changes the sum by as much.
LEMMA TotalExcept ==
  ASSUME NEW s \in Seq(Nat), NEW i \in 1 .. Len(s), NEW x \in Nat
  PROVE  LET t == [s EXCEPT ![i] = x] IN
         /\ t \in Seq(Nat) /\ Len(t) = Len(s)
         /\ t[i] = x /\ \A n \in 1 .. Len(s) : n # i => t[n] = s[n]
         /\ s[i] \in Nat /\ Total(t) + s[i] = Total(s) + x
<1> DEFINE t == [s EXCEPT ![i] = x]
           m == Len(s)
           f == Sums(s)
           g == Sums(t)
           B == {n \in 0 .. m : IF n < i THEN g[n] = f[n]
                                         ELSE g[n] + s[i] = f[n] + x}
<1>1. /\ m \in Nat /\ i \in 1 .. m /\ s[i] \in Nat
      /\ \A n \in 1 .. m : s[n] \in Nat
  BY LenProperties, ElementOfSeq
<1>2. /\ t \in Seq(Nat) /\ Len(t) = m /\ t[i] = x
      /\ \A n \in 1 .. m : n # i => t[n] = s[n]
  BY ExceptSeq, LenProperties
<1>3. IsSums(f, s) /\ Total(s) = f[m]
  BY SumsExist
<1>4. IsSums(g, t) /\ Total(t) = g[m]
  BY <1>2, SumsExist
<1>5. /\ \A n \in 0 .. m : f[n] \in Nat /\ g[n] \in Nat
      /\ f[0] = 0 /\ g[0] = 0
      /\ \A n \in 1 .. m : f[n] = f[n - 1] + s[n] /\ g[n] = g[n - 1] + t[n]
  BY <1>1, <1>2, <1>3, <1>4 DEF IsSums
<1> HIDE DEF t, m, f, g
<1>6. 0 \in B
  BY <1>1, <1>5
<1>7. ASSUME NEW n \in 0 .. m - 1, n \in B PROVE n + 1 \in B
  <2>1. /\ n + 1 \in 1 .. m /\ n + 1 \in 0 .. m /\ (n + 1) - 1 = n
        /\ n \in 0 .. m /\ f[n] \in Nat /\ g[n] \in Nat
    BY <1>1, <1>5
  <2>2. f[n + 1] = f[n] + s[n + 1] /\ g[n + 1] = g[n] + t[n + 1]
    BY <1>5, <2>1
  <2>3. IF n < i THEN g[n] = f[n] ELSE g[n] + s[i] = f[n] + x
    BY <1>7
  <2>4. CASE n + 1 = i
    <3>1. t[n + 1] = x /\ s[n + 1] = s[i] /\ g[n] = f[n]
      BY <1>1, <1>2, <2>1, <2>3, <2>4
    <3>2. g[n + 1] + s[i] = f[n + 1] + x
      BY <1>1, <2>1, <2>2, <3>1
    <3> QED
      BY <2>1, <2>4, <3>2
  <2>5. CASE n + 1 # i
    <3>1. t[n + 1] = s[n + 1] /\ s[n + 1] \in Nat
      BY <1>1, <1>2, <2>1, <2>5
    <3>2. IF n + 1 < i THEN g[n + 1] = f[n + 1]
                       ELSE g[n + 1] + s[i] = f[n + 1] + x
      <4>1. CASE n + 1 < i
        <5>1. n < i
          BY <1>1, <2>1, <4>1
        <5> QED
          BY <2>2, <2>3, <3>1, <4>1, <5>1
      <4>2. CASE ~(n + 1 < i)
        <5>1. ~(n < i)
          BY <1>1, <2>1, <2>5, <4>2
        <5>2. g[n] + s[i] = f[n] + x
          BY <2>3, <5>1
        <5>3. g[n + 1] + s[i] = f[n + 1] + x
          <6>1. (g[n] + s[n + 1]) + s[i] = (f[n] + s[n + 1]) + x
            <7>1. /\ g[n] \in Nat /\ f[n] \in Nat /\ s[i] \in Nat
                  /\ s[n + 1] \in Nat /\ x \in Nat
              BY <1>1, <2>1, <3>1
            <7>2. PICK a \in Nat, b \in Nat, c \in Nat, e \in Nat :
                    a = g[n] /\ b = f[n] /\ c = s[i] /\ e = s[n + 1]
              BY <7>1
            <7>3. a + c = b + x
              BY <5>2, <7>2
            <7>4. (a + e) + c = (b + e) + x
              BY <7>1, <7>3
            <7> QED
              BY <7>2, <7>4, Zenon
          <6> QED
            BY <2>2, <3>1, <6>1
        <5> QED
          BY <4>2, <5>3
      <4> QED
        BY <4>1, <4>2
    <3> QED
      BY <2>1, <3>2
  <2> QED
    BY <2>4, <2>5
<1>8. m \in B
  <2> HIDE DEF B
  <2>1. \A n \in 0 .. m : n \in B
    BY <1>1, <1>6, <1>7, UpTo
  <2> QED
    BY <1>1, <2>1
<1>9. Total(t) + s[i] = Total(s) + x
  BY <1>1, <1>3, <1>4, <1>8
<1> QED
  BY <1>1, <1>2, <1>9 DEF t, m

\* Charges of u bytes at most sum up to u bytes for each.
LEMMA TotalBound ==
  ASSUME NEW s \in Seq(Nat), NEW u \in Nat,
         \A n \in 1 .. Len(s) : s[n] <= u
  PROVE  Len(s) * u \in Nat /\ Total(s) <= Len(s) * u
<1> DEFINE m == Len(s)
           f == Sums(s)
           B == {n \in 0 .. m : f[n] <= n * u}
<1>1. /\ m \in Nat /\ \A n \in 1 .. m : s[n] \in Nat /\ s[n] <= u
      /\ \A n \in Nat : n * u \in Nat /\ (n + 1) * u = n * u + u
  BY LenProperties, ElementOfSeq
<1>2. IsSums(f, s) /\ Total(s) = f[m]
  BY SumsExist
<1> HIDE DEF f
<1>3. /\ \A n \in 0 .. m : f[n] \in Nat
      /\ f[0] = 0 /\ \A n \in 1 .. m : f[n] = f[n - 1] + s[n]
  BY <1>2 DEF IsSums
<1> HIDE DEF m
<1>4. 0 \in B
  BY <1>1, <1>3
<1>5. ASSUME NEW n \in 0 .. m - 1, n \in B PROVE n + 1 \in B
  <2>1. /\ n + 1 \in 1 .. m /\ n + 1 \in 0 .. m /\ (n + 1) - 1 = n
        /\ n \in 0 .. m /\ n \in Nat /\ f[n] \in Nat /\ f[n] <= n * u
    BY <1>1, <1>3, <1>5
  <2>2. f[n + 1] = f[n] + s[n + 1] /\ s[n + 1] \in Nat /\ s[n + 1] <= u
    BY <1>1, <1>3, <2>1
  <2>3. (n + 1) * u = n * u + u /\ n * u \in Nat
    BY <1>1, <2>1
  <2>4. PICK most \in Nat : most = n * u
    BY <2>3
  <2>5. f[n] + s[n + 1] <= most + u
    BY <2>1, <2>2, <2>4
  <2>6. f[n + 1] <= (n + 1) * u
    BY <2>2, <2>3, <2>4, <2>5
  <2> QED
    BY <2>1, <2>6
<1>6. m \in B
  <2> HIDE DEF B
  <2>1. \A n \in 0 .. m : n \in B
    BY <1>1, <1>4, <1>5, UpTo
  <2> QED
    BY <1>1, <2>1
<1> QED
  BY <1>1, <1>2, <1>6 DEF m

\* The sources of a merge have no heads at first.
LEMMA NoHeads ==
  ASSUME NEW n \in Nat
  PROVE  LET s == [i \in 1 .. n |-> 0] IN
         /\ s \in Seq(Nat) /\ Len(s) = n /\ Total(s) = 0
         /\ \A i \in 1 .. n : s[i] = 0
<1> DEFINE s == [i \in 1 .. n |-> 0]
<1>1. s \in Seq(Nat) /\ Len(s) = n /\ \A i \in 1 .. n : s[i] = 0
  OBVIOUS
<1> HIDE DEF s
<1>2. Total(s) <= Len(s) * 0 /\ Total(s) \in Nat
  BY <1>1, TotalBound, TotalType
<1>3. Len(s) * 0 = 0
  BY <1>1
<1> QED
  BY <1>1, <1>2, <1>3 DEF s

-----------------------------------------------------------------------------
(***************************************************************************)
(* The limits of the budget, of the buffer and of what is asked for.       *)
(***************************************************************************)
\* What a session asks for at once, but for arrays and the growth of its vector.
Items == Sizes \cup Works \cup {Metadata, RowSize}

\* The budget has room for the largest of them as often as a merge, and what is
\* held beside it, can need.
Roomy == \A n \in Items : (2 * FanIn + 4) * n + FanIn * SourceBytes <= Limit

Unit == CHOOSE u \in Items : \A n \in Items : n <= u

\* A product grows with its factors.
LEMMA Products ==
  ASSUME NEW a \in Nat, NEW b \in Nat, NEW c \in Nat, a <= b
  PROVE  a * c \in Nat /\ b * c \in Nat /\ a * c <= b * c
<1>1. PICK d \in Nat : b = a + d
  <2>1. b - a \in Nat /\ b = a + (b - a)
    OBVIOUS
  <2> QED
    BY <2>1
<1>2. (a + d) * c = a * c + d * c /\ d * c \in Nat /\ a * c \in Nat
  OBVIOUS
<1> QED
  BY <1>1, <1>2

\* There is a largest item, and the budget has room for two rows and two keys in
\* every source and for four items more.
LEMMA Units ==
  ASSUME Roomy
  PROVE  /\ Unit \in Nat /\ \A n \in Items : n \in Nat /\ n <= Unit
         /\ Limit \in Nat /\ FanIn * Unit \in Nat /\ FanIn * SourceBytes \in Nat
         /\ 2 * (FanIn * Unit) + 4 * Unit + FanIn * SourceBytes <= Limit
         /\ 8 * Unit <= Limit
<1> USE SizesAssumption, MergeAssumption
<1>1. /\ Items \subseteq Nat /\ RowSize \in Items /\ RowSize >= 1
      /\ Limit \in Nat /\ FanIn \in Nat /\ FanIn >= 2 /\ SourceBytes \in Nat
      /\ FanIn * SourceBytes \in Nat
  BY DEF Items
<1>2. ASSUME NEW n \in Items
      PROVE  /\ n \in Nat /\ FanIn * n \in Nat /\ 2 * n <= FanIn * n
             /\ 2 * (FanIn * n) + 4 * n + FanIn * SourceBytes <= Limit
  <2>1. n \in Nat
    BY <1>1
  <2>2. FanIn * n \in Nat /\ 2 * n <= FanIn * n
    BY <1>1, <2>1, Products
  <2>3. (2 * FanIn + 4) * n = 2 * (FanIn * n) + 4 * n
    BY <1>1, <2>1
  <2>4. (2 * FanIn + 4) * n + FanIn * SourceBytes <= Limit
    BY DEF Roomy
  <2> QED
    BY <2>1, <2>2, <2>3, <2>4
<1>3. ASSUME NEW n \in Items PROVE 8 * n <= Limit
  <2>1. PICK most \in Nat, arrays \in Nat :
          most = FanIn * n /\ arrays = FanIn * SourceBytes
    BY <1>1, <1>2
  <2>2. n \in Nat /\ 2 * n <= most /\ 2 * most + 4 * n + arrays <= Limit
    BY <1>2, <2>1
  <2> QED
    BY <1>1, <2>2
<1>4. \E u \in Items : \A n \in Items : n <= u
  <2> DEFINE T == {d \in Nat : \A n \in Items : n <= d}
  <2>1. T \in SUBSET Nat /\ Limit \in T
    BY <1>1, <1>2, <1>3
  <2>2. PICK u \in T : \A d \in T : u <= d
    <3> HIDE DEF T
    <3> QED
      BY <2>1, Least
  <2>3. u \in Nat /\ u >= 1 /\ \A n \in Items : n <= u
    BY <1>1, <2>2
  <2>4. u - 1 \in Nat /\ u - 1 \notin T
    BY <2>2, <2>3
  <2>5. PICK n \in Items : ~(n <= u - 1)
    BY <2>4
  <2>6. n = u
    BY <1>1, <2>3, <2>5
  <2> QED
    BY <2>3, <2>6
<1>5. Unit \in Items /\ \A n \in Items : n <= Unit
  BY <1>4 DEF Unit
<1> QED
  BY <1>1, <1>2, <1>3, <1>5

\* The threshold of the buffer only falls with the pressure (buffer.rs:59-69),
\* and is at most an eighth of a budget that holds eight rows.
LEMMA Thresholds ==
  /\ MostBuffered \in Nat
  /\ \A limit \in Limits :
       /\ limit \in Nat /\ limit <= Limit
       /\ BufferLimit(limit) \in Nat /\ BufferLimit(limit) <= MostBuffered
  /\ Roomy => /\ 8 * MostBuffered <= Limit
              /\ 8 * High(MostBuffered, RowSize) <= Limit
<1> USE SizesAssumption, OthersAssumption
<1>1. ASSUME NEW a \in Nat, NEW b \in Nat, a <= b
      PROVE  /\ BufferLimit(a) \in Nat /\ BufferLimit(b) \in Nat
             /\ BufferLimit(a) <= BufferLimit(b)
  <2>1. a \div 8 \in Nat /\ b \div 8 \in Nat /\ a \div 8 <= b \div 8
    BY <1>1
  <2>2. RunBytes \in Nat
    OBVIOUS
  <2>3. ASSUME NEW p \in Nat, NEW q \in Nat, p <= q, NEW r \in Nat
        PROVE  /\ Low(High(p, 1), High(r, 1)) \in Nat
               /\ Low(High(q, 1), High(r, 1)) \in Nat
               /\ Low(High(p, 1), High(r, 1)) <= Low(High(q, 1), High(r, 1))
    BY <2>3 DEF Low, High
  <2> QED
    BY <2>1, <2>2, <2>3 DEF BufferLimit
<1>2. \A limit \in Limits : limit \in Nat /\ limit <= Limit
  BY DEF Limits, Low
<1>3. ASSUME Roomy
      PROVE  /\ 8 * MostBuffered <= Limit
             /\ 8 * High(MostBuffered, RowSize) <= Limit
  <2>1. 8 * RowSize <= Limit /\ RowSize >= 1
    <3>1. RowSize \in Nat \ {0} /\ RowSize \in Items
      BY DEF Items
    <3>2. /\ Unit \in Nat /\ Limit \in Nat /\ RowSize <= Unit
          /\ 8 * Unit <= Limit
      BY <1>3, <3>1, Units
    <3> QED
      BY <3>1, <3>2
  <2>2. Limit \div 8 \in Nat /\ 8 * (Limit \div 8) <= Limit
    OBVIOUS
  <2>3. MostBuffered <= High(Limit \div 8, 1) /\ MostBuffered \in Nat
    BY <2>2 DEF MostBuffered, BufferLimit, Low, High
  <2> QED
    BY <2>1, <2>2, <2>3 DEF High
<1> QED
  BY <1>1, <1>2, <1>3 DEF MostBuffered

-----------------------------------------------------------------------------
(***************************************************************************)
(* The ledger.                                                             *)
(***************************************************************************)
\* What the capacity of a buffer is charged (buffer.rs:35-57).
Bytes(n) == n * RowSize

LEMMA BytesType ==
  Bytes(0) = 0 /\ \A n \in Nat : Bytes(n) \in Nat
BY SizesAssumption DEF Bytes

\* What a merge that runs is charged, the row that it reads included.
Merged == InMerge + fresh

MergeTypes ==
  /\ heads \in Seq(Nat) /\ at \in Nat /\ fresh \in Nat /\ popped \in Nat
  /\ goal \in Goals
  /\ InMerge \in Nat /\ Merged \in Nat

\* The weight of a merge, by its heads and the row that it gives out.
Weight(h, p) == Len(h) * SourceBytes + 2 * Total(h) + p

LEMMA WeightType ==
  ASSUME NEW h \in Seq(Nat), NEW p \in Nat
  PROVE  Weight(h, p) \in Nat /\ (h = <<>> => Weight(h, p) = p)
<1>1. /\ Len(h) \in Nat /\ SourceBytes \in Nat /\ Total(h) \in Nat
      /\ (h = <<>> => Len(h) = 0 /\ Total(h) = 0)
  BY MergeAssumption, TotalType, LenProperties, EmptySeq
<1>2. Len(h) * SourceBytes \in Nat /\ 0 * SourceBytes = 0
  BY <1>1
<1>3. PICK arrays \in Nat, rows \in Nat :
        arrays = Len(h) * SourceBytes /\ rows = Total(h)
  BY <1>1, <1>2
<1>4. /\ arrays + 2 * rows + p \in Nat
      /\ h = <<>> => arrays + 2 * rows + p = p
  BY <1>1, <1>2, <1>3
<1> QED
  BY <1>3, <1>4 DEF Weight

LEMMA MergeWeight ==
  InMerge = Weight(heads, popped) /\ InMerge' = Weight(heads', popped')
BY DEF InMerge, Weight

\* The types of what a step leaves behind.
LEMMA MergeTyped ==
  ASSUME heads' \in Seq(Nat), at' \in Nat, fresh' \in Nat, popped' \in Nat,
         goal' \in Goals
  PROVE  MergeTypes'
<1>1. InMerge' \in Nat
  BY MergeWeight, WeightType
<1>2. Merged' \in Nat
  <2>1. \A a, b \in Nat : a + b \in Nat
    OBVIOUS
  <2> QED
    BY <1>1, <2>1, Zenon DEF Merged
<1> QED
  BY <1>1, <1>2, Zenon DEF MergeTypes

LEMMA SameMerge ==
  ASSUME MergeTypes, UNCHANGED mergeVars
  PROVE  MergeTypes' /\ Merged' = Merged
BY DEF MergeTypes, mergeVars, Merged, InMerge

\* The sum of eight charges.
LEMMA LedgerSum ==
  ASSUME NEW o \in Nat, NEW m \in Nat, NEW r \in Nat, NEW w \in Nat,
         NEW l \in Nat, NEW t \in Nat, NEW c \in Nat, NEW g \in Nat
  PROVE  o + m + r + w + l + t + c + g \in Nat
OBVIOUS

\* Types and AllCharged together, in the form that the steps need.
Ledger ==
  /\ bufferBytes \in Nat /\ capacity \in Nat /\ bufferCharge \in Nat
  /\ metadata \in Nat /\ row \in Nat /\ work \in Nat /\ last \in Nat
  /\ used \in Nat /\ others \in Nat
  /\ armed \in BOOLEAN /\ failed \in BOOLEAN /\ refused \in BOOLEAN
  /\ pc \in Pcs /\ resume \in {"idle", "grow", "cascade"}
  /\ buffer \in Seq(Nat) /\ Total(buffer) \in Nat
  /\ MergeTypes
  /\ used = others + metadata + row + work + last + Total(buffer)
              + bufferCharge + Merged
  /\ bufferCharge = Bytes(capacity)

LEMMA LedgerMeans ==
  ASSUME Ledger
  PROVE  TypeOK /\ AllCharged
<1>1. TypeOK
  BY DEF Ledger, MergeTypes, TypeOK
<1>2. AllCharged
  <2>1. Retained = metadata + row + work + last + Total(buffer) + bufferCharge
                     + Merged
    BY Zenon DEF Retained, Ledger, Bytes, Merged
  <2>2. /\ others \in Nat /\ metadata \in Nat /\ row \in Nat /\ work \in Nat
        /\ last \in Nat /\ Total(buffer) \in Nat /\ bufferCharge \in Nat
        /\ Merged \in Nat
        /\ used = others + metadata + row + work + last + Total(buffer)
                    + bufferCharge + Merged
    BY DEF Ledger, MergeTypes
  <2>3. used = others + Retained
    BY <2>1, <2>2
  <2> QED
    BY <2>3 DEF AllCharged, Ledger, Bytes
<1> QED
  BY <1>1, <1>2

\* It is enough to follow the charges, and the pair of the capacity and its
\* own.
LEMMA Settled ==
  ASSUME bufferBytes' \in Nat, capacity' \in Nat,
         metadata' \in Nat, row' \in Nat, work' \in Nat, last' \in Nat,
         others' \in Nat,
         armed' \in BOOLEAN, failed' \in BOOLEAN, refused' \in BOOLEAN,
         pc' \in Pcs, resume' \in {"idle", "grow", "cascade"},
         buffer' \in Seq(Nat), bufferCharge' = Bytes(capacity'), MergeTypes',
         used' = others' + metadata' + row' + work' + last' + Total(buffer')
                   + bufferCharge' + Merged'
  PROVE  Ledger'
<1>1. bufferCharge' \in Nat
  BY BytesType
<1>2. Total(buffer') \in Nat
  BY TotalType
<1>3. used' \in Nat
  <2>1. Merged' \in Nat
    BY DEF MergeTypes
  <2> QED
    BY <1>1, <1>2, <2>1, LedgerSum, ZenonT(60)
<1> QED
  BY <1>1, <1>2, <1>3, Zenon DEF Ledger

\* A merge that is dropped leaves what is being read to its operation.
LEMMA MergeDropped ==
  ASSUME Ledger, DropMerge
  PROVE  /\ MergeTypes' /\ heads' = <<>> /\ popped' = 0 /\ goal' = "carry"
         /\ fresh' \in {0, fresh} /\ (work = 0 => fresh' = 0)
         /\ Merged' = fresh' /\ Merged' <= Merged /\ Merged' \in Nat
         /\ InMerge + (fresh - fresh') = Merged - Merged'
<1>1. /\ heads \in Seq(Nat) /\ fresh \in Nat /\ InMerge \in Nat /\ work \in Nat
  BY DEF Ledger, MergeTypes
<1>2. /\ heads' = <<>> /\ at' = 0 /\ popped' = 0 /\ goal' = "carry"
      /\ fresh' = IF work > 0 THEN fresh ELSE 0
  BY DEF DropMerge
<1>3. heads' \in Seq(Nat) /\ fresh' \in Nat /\ goal' \in Goals
  BY <1>1, <1>2 DEF Goals
<1>4. MergeTypes'
  BY <1>2, <1>3, MergeTyped
<1>5. InMerge' = 0
  BY <1>2, <1>3, MergeWeight, WeightType
<1> QED
  BY <1>1, <1>2, <1>3, <1>4, <1>5 DEF Merged

\* A session that is dropped gives back the charges of its rows, of their
\* capacity and of its merge, and with no directory to remove its metadata too.
LEMMA VanishLedger ==
  ASSUME Ledger, Vanish, refused' \in BOOLEAN
  PROVE  Ledger' /\ used' <= used
<1> USE DEF Ledger
<1>1. metadata' \in Nat /\ metadata' <= metadata
  BY DEF Vanish
<1>2. buffer' \in Seq(Nat) /\ Total(buffer') = 0
  <2>1. buffer' = <<>> /\ buffer' \in Seq(Nat)
    BY DEF Vanish
  <2> QED
    BY <2>1, TotalType
<1>3. /\ row' = 0 /\ last' = 0 /\ bufferCharge' = 0 /\ bufferBytes' = 0
      /\ capacity' = 0 /\ work' = work /\ others' = others /\ armed' = armed
      /\ failed' = failed /\ resume' = resume /\ pc' \in Pcs
  BY DEF Vanish, Pcs
<1> HIDE DEF Ledger
<1>m. /\ MergeTypes' /\ Merged' \in Nat /\ Merged' <= Merged
      /\ InMerge + (fresh - fresh') = Merged - Merged'
      /\ InMerge \in Nat /\ fresh \in Nat /\ fresh' \in Nat
  BY MergeDropped DEF Vanish, Ledger, MergeTypes
<1>4. /\ used' = others' + metadata' + row' + work' + last' + Total(buffer')
                   + bufferCharge' + Merged'
      /\ used' <= used
  <2>1. used' = ((used - Total(buffer) - bufferCharge) - row - last)
                  - (metadata - metadata') - InMerge - (fresh - fresh')
    BY DEF Vanish
  <2>2. PICK kept \in Nat, left \in Nat, still \in Nat :
          metadata' = kept /\ Merged' = left /\ fresh' = still
    BY <1>1, <1>m
  <2>3. /\ ((used - Total(buffer) - bufferCharge) - row - last)
             - (metadata - kept) - InMerge - (fresh - still)
           = others + kept + 0 + work + 0 + 0 + 0 + left
        /\ others + kept + 0 + work + 0 + 0 + 0 + left <= used
    <3>1. others \in Nat /\ metadata \in Nat /\ row \in Nat /\ work \in Nat
          /\ last \in Nat /\ Total(buffer) \in Nat /\ bufferCharge \in Nat
          /\ used \in Nat /\ Merged \in Nat
          /\ used = others + metadata + row + work + last + Total(buffer)
                    + bufferCharge + Merged
      BY DEF Ledger, MergeTypes
    <3>2. InMerge + (fresh - still) = Merged - left /\ left <= Merged
          /\ kept <= metadata
      BY <1>1, <1>m, <2>2
    <3> QED
      BY <1>m, <3>1, <3>2
  <2> QED
    BY <1>2, <1>3, <2>1, <2>2, <2>3, Zenon
<1>5. bufferCharge' = Bytes(capacity')
  BY <1>3, BytesType
<1>6. armed \in BOOLEAN /\ failed \in BOOLEAN /\ others \in Nat /\ work \in Nat
      /\ resume \in {"idle", "grow", "cascade"}
  BY DEF Ledger
<1>7. Ledger'
  BY <1>1, <1>2, <1>3, <1>m, <1>4, <1>5, <1>6, Settled
<1> QED
  BY <1>4, <1>7

\* A step of a merge moves its charges, those of the operation in flight and
\* that of the last key, and nothing else.
LEMMA MergeMoves ==
  ASSUME Ledger, UNCHANGED <<rowVars, metadata, row, others>>, MergeTypes',
         armed' \in BOOLEAN, failed' \in BOOLEAN, refused' \in BOOLEAN,
         pc' \in Pcs, resume' \in {"idle", "grow", "cascade"},
         work' \in Nat, last' \in Nat,
         used' = used + ((work' + last' + Merged') - (work + last + Merged))
  PROVE  Ledger'
<1>1. /\ others \in Nat /\ metadata \in Nat /\ row \in Nat /\ work \in Nat
      /\ last \in Nat /\ Total(buffer) \in Nat /\ bufferCharge \in Nat
      /\ used \in Nat /\ Merged \in Nat /\ bufferBytes \in Nat
      /\ capacity \in Nat
      /\ buffer \in Seq(Nat) /\ bufferCharge = Bytes(capacity)
      /\ used = others + metadata + row + work + last + Total(buffer)
                  + bufferCharge + Merged
  BY DEF Ledger, MergeTypes
<1>2. PICK w \in Nat, l \in Nat, g \in Nat :
        w = work' /\ l = last' /\ g = Merged'
  BY DEF MergeTypes
<1>3. used + ((w + l + g) - (work + last + Merged)) =
        others + metadata + row + w + l + Total(buffer) + bufferCharge + g
  <2>1. /\ others \in Nat /\ metadata \in Nat /\ row \in Nat /\ work \in Nat
        /\ last \in Nat /\ Total(buffer) \in Nat /\ bufferCharge \in Nat
        /\ Merged \in Nat
        /\ used = others + metadata + row + work + last + Total(buffer)
                    + bufferCharge + Merged
    BY <1>1
  <2> QED
    BY <2>1
<1>4. /\ buffer' = buffer /\ bufferBytes' = bufferBytes /\ capacity' = capacity
      /\ bufferCharge' = bufferCharge /\ metadata' = metadata /\ row' = row
      /\ others' = others
  BY DEF rowVars
<1>5. used' = others' + metadata' + row' + work' + last' + Total(buffer')
                + bufferCharge' + Merged'
  BY <1>2, <1>3, <1>4, Zenon
<1> QED
  BY <1>1, <1>4, <1>5, Settled

\* A spill that is abandoned gives back the row that waits for it, and its
\* merge.
LEMMA AbortLedger ==
  ASSUME Ledger, SpillAborts, refused' \in BOOLEAN
  PROVE  Ledger' /\ used' <= used
<1>1. CASE resume = "cascade" /\ Vanish
  BY <1>1, VanishLedger
<1>2. CASE resume # "cascade" /\ ~(resume = "cascade" /\ Vanish)
  <2>1. /\ bufferBytes' = bufferBytes /\ capacity' = capacity
        /\ bufferCharge' = bufferCharge /\ metadata' = metadata /\ row' = 0
        /\ work' = work /\ last' = last /\ others' = others /\ armed' = armed
        /\ failed' = failed /\ resume' = resume /\ buffer' = buffer
        /\ pc' = "idle" /\ DropMerge
        /\ used' = used - row - InMerge - (fresh - fresh')
    BY <1>2 DEF SpillAborts, rowVars
  <2>2. /\ MergeTypes' /\ Merged' \in Nat /\ Merged' <= Merged
        /\ InMerge + (fresh - fresh') = Merged - Merged'
        /\ InMerge \in Nat /\ fresh \in Nat /\ fresh' \in Nat
    BY <2>1, MergeDropped DEF Ledger, MergeTypes
  <2>3. PICK left \in Nat, still \in Nat : Merged' = left /\ fresh' = still
    BY <2>2
  <2>4. /\ others \in Nat /\ metadata \in Nat /\ row \in Nat /\ work \in Nat
        /\ last \in Nat /\ Total(buffer) \in Nat /\ bufferCharge \in Nat
        /\ used \in Nat /\ Merged \in Nat
        /\ used = others + metadata + row + work + last + Total(buffer)
                    + bufferCharge + Merged
        /\ InMerge + (fresh - still) = Merged - left /\ left <= Merged
    BY <2>2, <2>3 DEF Ledger, MergeTypes
  <2>5. /\ used - row - InMerge - (fresh - still) =
             others + metadata + 0 + work + last + Total(buffer)
               + bufferCharge + left
        /\ used - row - InMerge - (fresh - still) <= used
    <3>1. InMerge \in Nat /\ fresh \in Nat
      BY <2>2
    <3> QED
      BY <2>4, <3>1
  <2>6. used' = others' + metadata' + row' + work' + last' + Total(buffer')
                  + bufferCharge' + Merged'
        /\ used' <= used
    BY <2>1, <2>3, <2>5, Zenon
  <2>7. /\ bufferBytes \in Nat /\ capacity \in Nat /\ armed \in BOOLEAN
        /\ failed \in BOOLEAN /\ resume \in {"idle", "grow", "cascade"}
        /\ buffer \in Seq(Nat) /\ bufferCharge = Bytes(capacity)
        /\ pc' \in Pcs
    BY <2>1 DEF Ledger, Pcs
  <2> QED
    BY <2>1, <2>2, <2>4, <2>6, <2>7, Settled
<1> QED
  BY <1>1, <1>2 DEF SpillAborts

\* An error ends a spill, a finish, or the merge of a stream.
LEMMA MergeAbortLedger ==
  ASSUME Ledger, MergeAborts, refused' \in BOOLEAN
  PROVE  Ledger' /\ used' <= used
<1>1. CASE SpillAborts
  BY <1>1, AbortLedger
<1>2. CASE ~SpillAborts
  <2>1. /\ DropMerge /\ last' = 0 /\ pc' = "ended"
        /\ used' = used - last - InMerge - (fresh - fresh')
        /\ UNCHANGED <<rowVars, metadata, row, work, others, armed, failed,
                       resume>>
    BY <1>2 DEF MergeAborts
  <2>2. /\ MergeTypes' /\ Merged' \in Nat /\ Merged' <= Merged
        /\ InMerge + (fresh - fresh') = Merged - Merged'
        /\ InMerge \in Nat /\ fresh \in Nat /\ fresh' \in Nat
    BY <2>1, MergeDropped DEF Ledger, MergeTypes
  <2>3. /\ work \in Nat /\ last \in Nat /\ used \in Nat /\ Merged \in Nat
        /\ armed \in BOOLEAN /\ failed \in BOOLEAN
        /\ resume \in {"idle", "grow", "cascade"}
    BY DEF Ledger, MergeTypes
  <2>4. PICK left \in Nat, still \in Nat : Merged' = left /\ fresh' = still
    BY <2>2
  <2>5. /\ used - last - InMerge - (fresh - still) =
             used + ((work + 0 + left) - (work + last + Merged))
        /\ used - last - InMerge - (fresh - still) <= used
    <3>1. InMerge + (fresh - still) = Merged - left /\ left <= Merged
      BY <2>2, <2>4
    <3> QED
      BY <2>2, <2>3, <3>1
  <2>6. /\ used' = used + ((work' + last' + Merged') - (work + last + Merged))
        /\ used' <= used
    BY <2>1, <2>4, <2>5, Zenon
  <2>7. pc' \in Pcs /\ work' \in Nat /\ last' \in Nat /\ armed' \in BOOLEAN
        /\ failed' \in BOOLEAN /\ resume' \in {"idle", "grow", "cascade"}
    BY <2>1, <2>3 DEF Pcs
  <2> QED
    BY <2>1, <2>2, <2>6, <2>7, MergeMoves
<1> QED
  BY <1>1, <1>2

-----------------------------------------------------------------------------
(***************************************************************************)
(* What a call and its merge hold, by where they stand.                    *)
(***************************************************************************)
\* A session that can be called, or is in a push that has not failed.
Calling ==
  \/ pc \in {"metadata", "row", "full", "grow"}
  \/ pc = "idle" /\ ~failed

Merging == pc \in MergePcs

\* The merges of its carry are part of a spill.
Spilling == pc \in {"spill", "carry"} \/ (Merging /\ goal = "carry")

\* push_with_size holds a row that is not in the buffer yet.
Holding ==
  \/ pc \in {"full", "grow"}
  \/ Spilling /\ resume = "grow"

\* The rows of the session are in its runs.
Spilled == pc \in {"carry", "cascade"} \/ Merging

CallInv ==
  /\ Calling => ~failed /\ work = 0
  /\ Calling \/ Spilling \/ (Spilled /\ goal # "stream") => last = 0
  /\ ~Holding => row = 0
  /\ Holding => row >= RowSize
  /\ pc \in {"carry", "cascade", "out"} => work = 0
  /\ Spilled => buffer = <<>> /\ capacity = 0
  /\ Spilled /\ Spilling => bufferBytes = 0
  /\ pc = "metadata" => metadata = 0
  /\ pc \in {"row", "full", "grow"} \/ Spilling => metadata = Metadata
  /\ metadata \in {0, Metadata}
  /\ Spilling => failed
  /\ Calling => metadata = Metadata \/ (buffer = <<>> /\ capacity = 0)
  /\ Calling /\ pc # "grow" /\ buffer = <<>> => capacity = 0
  /\ Spilled /\ ~Spilling /\ goal # "stream" => resume = "cascade"

MergeInv ==
  /\ ~Merging /\ pc # "ended" => heads = <<>> /\ popped = 0
  /\ ~Merging => goal = "carry" \/ pc = "ended"
  /\ pc # "key" => fresh = 0 \/ work > 0
  /\ pc \in {"open", "merge"} \/ goal = "final" => popped = 0
  /\ pc \in {"merge", "out", "written", "done"} => goal # "final"
  /\ pc \in {"written", "done"} => goal # "stream"

\* Dropped: nothing but the guard's reservation and an operation are left.
LEMMA VanishCall ==
  ASSUME Ledger, CallInv, Vanish
  PROVE  CallInv' /\ MergeInv'
<1>1. /\ pc' = "gone" /\ row' = 0 /\ metadata' \in {0, Metadata} /\ last' = 0
      /\ work' = work /\ work \in Nat /\ DropMerge
  BY DEF Vanish, CallInv, Ledger
<1>2. CallInv'
  BY <1>1 DEF CallInv, Calling, Holding, Spilling, Spilled, Merging, MergePcs
<1>3. MergeInv'
  BY <1>1 DEF MergeInv, Merging, MergePcs, DropMerge
<1> QED
  BY <1>2, <1>3

\* A session that has lost a spill is not called any more.
LEMMA AbortCall ==
  ASSUME Ledger, CallInv, SpillAborts, Spilling \/ Spilled,
         Merging => goal # "stream", goal = "carry" \/ Merging
  PROVE  CallInv' /\ MergeInv'
<1>1. CASE resume = "cascade" /\ Vanish
  BY <1>1, VanishCall
<1>2. CASE resume # "cascade" /\ ~(resume = "cascade" /\ Vanish)
  <2>1. /\ pc' = "idle" /\ row' = 0 /\ metadata' = metadata /\ failed' = failed
        /\ work' = work /\ work \in Nat /\ DropMerge
    BY <1>2 DEF SpillAborts, Ledger
  <2>2. failed
    BY <1>2 DEF CallInv, Spilled, Spilling, Merging
  <2>3. CallInv'
    BY <2>1, <2>2 DEF CallInv, Calling, Holding, Spilling, Spilled, Merging,
                      MergePcs
  <2>4. MergeInv'
    BY <2>1 DEF MergeInv, Merging, MergePcs, DropMerge
  <2> QED
    BY <2>3, <2>4
<1> QED
  BY <1>1, <1>2 DEF SpillAborts

\* A stream that has lost its merge goes on to its cleanup.
LEMMA MergeAbortCall ==
  ASSUME Ledger, CallInv, MergeAborts, Merging
  PROVE  CallInv' /\ MergeInv'
<1>1. CASE goal # "stream" /\ SpillAborts
  BY <1>1, AbortCall DEF Spilled
<1>2. CASE goal = "stream"
  <2>1. /\ pc' = "ended" /\ UNCHANGED <<row, metadata, failed, work>>
        /\ last' = 0 /\ DropMerge /\ work \in Nat
    BY <1>2 DEF MergeAborts, Ledger
  <2>2. row = 0
    BY <1>2 DEF CallInv, Holding, Spilling, Merging, MergePcs
  <2>3. CallInv'
    BY <2>1, <2>2 DEF CallInv, Calling, Holding, Spilling, Spilled, Merging,
                      MergePcs
  <2>4. MergeInv'
    BY <2>1 DEF MergeInv, Merging, MergePcs, DropMerge
  <2> QED
    BY <2>3, <2>4
<1> QED
  BY <1>1, <1>2 DEF MergeAborts

\* As long as it runs, a merge leaves alone what it is not about.
LEMMA StillMerging ==
  ASSUME CallInv, Merging, Merging', goal' = goal \/ goal' = "stream",
         goal' # goal => goal = "final", pc' = "out" => work' = 0,
         UNCHANGED <<rowVars, metadata, row, failed, resume>>,
         last' = last \/ goal = "stream"
  PROVE  CallInv'
BY DEF CallInv, Merging, MergePcs, Calling, Spilling, Holding, Spilled, rowVars

LEMMA CallStep ==
  ASSUME Ledger, CallInv, MergeInv, [Next]_vars
  PROVE  CallInv' /\ MergeInv'
<1> USE SizesAssumption
<1>0. /\ failed \in BOOLEAN /\ pc \in Pcs /\ goal \in Goals
      /\ resume \in {"idle", "grow", "cascade"}
      /\ popped \in Nat /\ fresh \in Nat /\ work \in Nat
  BY DEF Ledger, MergeTypes
<1>s. ASSUME UNCHANGED mergeVars, work' = work, MergeInv, pc # "ended",
             ~Merging, ~Merging'
      PROVE  MergeInv'
  BY <1>0, <1>s DEF MergeInv, Merging, MergePcs, mergeVars
<1>f. \A size : High(size, RowSize) >= RowSize \/ size \notin Nat
  BY DEF High
<1> USE DEF Calling, Holding, Spilling, Spilled, Merging, MergePcs, rowVars
<1>1. CASE OthersMove
  BY <1>0, <1>1 DEF OthersMove, CallInv, MergeInv, mergeVars
<1>2. CASE Push
  BY <1>0, <1>s, <1>2 DEF Push, CallInv
<1>3. CASE ReserveMetadata
  BY <1>0, <1>s, <1>3 DEF ReserveMetadata, CallInv
<1>4. ASSUME NEW size \in Sizes, ReserveRow(size) PROVE CallInv' /\ MergeInv'
  <2>1. High(size, RowSize) >= RowSize
    BY <1>f
  <2> QED
    BY <1>0, <1>s, <1>4, <2>1 DEF ReserveRow, CallInv
<1>5. ASSUME NEW limit \in Limits, Fits(limit) PROVE CallInv' /\ MergeInv'
  BY <1>0, <1>s, <1>5 DEF Fits, CallInv
<1>6. ASSUME NEW limit \in Limits, PushRow(limit) PROVE CallInv' /\ MergeInv'
  <2>1. buffer' # <<>>
    BY <1>6, AppendProperties DEF PushRow, Ledger
  <2> QED
    BY <1>0, <1>s, <1>6, <2>1 DEF PushRow, CallInv
<1>7. CASE Grow
  BY <1>0, <1>s, <1>7 DEF Grow, CallInv
<1>8. ASSUME NEW bytes \in Works, SpillOp(bytes) PROVE CallInv' /\ MergeInv'
  <2>1. CASE SpillAborts
    BY <1>8, <2>1, AbortCall DEF SpillOp, MergeInv
  <2>2. CASE /\ UNCHANGED <<rowVars, metadata, row, last, mergeVars, others,
                            armed, failed, pc, resume>>
             /\ work' = bytes
    BY <1>0, <1>8, <2>2 DEF SpillOp, CallInv, MergeInv, mergeVars
  <2> QED
    BY <1>8, <2>1, <2>2 DEF SpillOp
<1>9. CASE SpillFails
  BY <1>9, AbortCall DEF SpillFails, MergeInv
<1>10. CASE OpDone
  BY <1>0, <1>10 DEF OpDone, CallInv, MergeInv
<1>11. CASE RunWritten
  BY <1>0, <1>s, <1>11 DEF RunWritten, CallInv
<1>12. CASE Carried
  BY <1>0, <1>s, <1>12 DEF Carried, CallInv
<1>13. CASE Finish
  <2>1. CASE failed /\ Vanish
    BY <2>1, VanishCall
  <2>2. CASE ~failed
    BY <1>0, <1>s, <1>13, <2>2 DEF Finish, CallInv
  <2> QED
    BY <1>13, <2>1, <2>2 DEF Finish
<1>14. ASSUME NEW equal \in BOOLEAN, StreamRow(equal)
       PROVE  CallInv' /\ MergeInv'
  BY <1>0, <1>s, <1>14 DEF StreamRow, CallInv
<1>15. CASE DropIt
  BY <1>15, VanishCall DEF DropIt
<1>16. CASE CleanedUp
  BY <1>0, <1>16 DEF CleanedUp, CallInv, MergeInv, mergeVars
<1>17. CASE UNCHANGED vars
  BY <1>0, <1>17 DEF vars, CallInv, MergeInv, mergeVars
<1>18. ASSUME NEW n \in 1 .. FanIn, NEW g \in Goals, MergeBegins(n, g)
       PROVE  CallInv' /\ MergeInv'
  <2>1. CASE SpillAborts
    BY <1>18, <2>1, AbortCall DEF MergeBegins, MayMerge, MergeInv
  <2>2. CASE ~SpillAborts
    BY <1>0, <1>18, <2>2 DEF MergeBegins, MayMerge, NewMerge, CallInv, MergeInv
  <2> QED
    BY <2>1, <2>2
<1>19. ASSUME NEW bytes \in Works, NEW next \in MergePcs, MergeOp(bytes, next)
       PROVE  CallInv' /\ MergeInv'
  <2>1. CASE MergeAborts
    BY <1>19, <2>1, MergeAbortCall DEF MergeOp, Operates
  <2>2. CASE ~MergeAborts
    <3>1. CallInv'
      BY <1>19, <2>2, StillMerging DEF MergeOp, Operates, mergeVars
    <3>2. MergeInv'
      BY <1>0, <1>19, <2>2 DEF MergeOp, Operates, mergeVars, MergeInv
    <3> QED
      BY <3>1, <3>2
  <2> QED
    BY <2>1, <2>2
<1>20. ASSUME NEW bytes \in Works, NEW size \in Sizes, ReadHead(bytes, size)
       PROVE  CallInv' /\ MergeInv'
  <2>1. CASE MergeAborts
    BY <1>20, <2>1, MergeAbortCall DEF ReadHead
  <2>2. CASE ~MergeAborts
    <3>1. CallInv'
      BY <1>20, <2>2, StillMerging DEF ReadHead
    <3>2. MergeInv'
      BY <1>0, <1>20, <2>2 DEF ReadHead, MergeInv
    <3> QED
      BY <3>1, <3>2
  <2> QED
    BY <2>1, <2>2
<1>21. CASE Exhausted
  <2>1. CallInv'
    BY <1>21, StillMerging DEF Exhausted, Refilled
  <2>2. MergeInv'
    BY <1>0, <1>21 DEF Exhausted, Refilled, MergeInv
  <2> QED
    BY <2>1, <2>2
<1>22. CASE ChargeKey
  <2>1. CASE MergeAborts
    BY <1>22, <2>1, MergeAbortCall DEF ChargeKey
  <2>2. CASE ~MergeAborts
    <3>1. CallInv'
      BY <1>22, <2>2, StillMerging DEF ChargeKey, Refilled
    <3>2. MergeInv'
      BY <1>0, <1>22, <2>2 DEF ChargeKey, Refilled, MergeInv
    <3> QED
      BY <3>1, <3>2
  <2> QED
    BY <2>1, <2>2
<1>23. ASSUME NEW source \in DOMAIN heads, Pop(source)
       PROVE  CallInv' /\ MergeInv'
  <2>1. CallInv'
    BY <1>23, StillMerging DEF Pop
  <2>2. MergeInv'
    BY <1>0, <1>23 DEF Pop, MergeInv
  <2> QED
    BY <2>1, <2>2
<1>24. CASE Written
  <2>1. CallInv'
    BY <1>24, StillMerging DEF Written
  <2>2. MergeInv'
    BY <1>0, <1>24 DEF Written, MergeInv
  <2> QED
    BY <2>1, <2>2
<1>25. CASE MergeDone
  <2>1. goal \in {"carry", "cascade"}
    BY <1>0, <1>25 DEF MergeDone, MergeInv, Goals
  <2>2. /\ heads' = <<>> /\ popped' = 0 /\ goal' = "carry" /\ fresh' = 0
        /\ work = 0 /\ pc = "done" /\ pc' = goal
        /\ UNCHANGED <<rowVars, metadata, row, work, last, failed, resume>>
    BY <1>0, <1>25 DEF MergeDone, DropMerge
  <2>3. CallInv'
    BY <1>0, <2>1, <2>2 DEF CallInv
  <2>4. MergeInv'
    BY <1>0, <2>1, <2>2 DEF MergeInv
  <2> QED
    BY <2>3, <2>4
<1>26. CASE MergeFails
  BY <1>26, MergeAbortCall DEF MergeFails
<1>27. CASE StreamBegins
  <2>1. CallInv'
    BY <1>27, StillMerging DEF StreamBegins
  <2>2. MergeInv'
    BY <1>0, <1>27 DEF StreamBegins, MergeInv
  <2> QED
    BY <2>1, <2>2
<1>28. CASE DedupRefused
  BY <1>28, MergeAbortCall DEF DedupRefused
<1>29. CASE StreamDrained
  BY <1>0, <1>29 DEF StreamDrained, CallInv, MergeInv, mergeVars
<1>30. ASSUME NEW equal \in BOOLEAN, MergedRow(equal)
       PROVE  CallInv' /\ MergeInv'
  <2>1. CallInv'
    BY <1>30, StillMerging DEF MergedRow
  <2>2. MergeInv'
    BY <1>0, <1>30 DEF MergedRow, MergeInv, CallInv
  <2> QED
    BY <2>1, <2>2
<1> QED
  BY <1>1, <1>2, <1>3, <1>4, <1>5, <1>6, <1>7, <1>8, <1>9, <1>10, <1>11,
     <1>12, <1>13, <1>14, <1>15, <1>16, <1>17, <1>18, <1>19, <1>20, <1>21,
     <1>22, <1>23, <1>24, <1>25, <1>26, <1>27, <1>28, <1>29, <1>30 DEF Next

\* No head of this source or of a later one.
Untouched == \A i \in at .. Len(heads) : heads[i] = 0

SlotInv ==
  /\ pc = "open" => at >= 1 /\ Untouched
  /\ pc \in {"head", "key"} =>
       /\ at \in 1 .. Len(heads) /\ heads[at] = 0
       /\ popped = 0 => Untouched

\* The source that is opened or refilled has no head.
LEMMA SlotStep ==
  ASSUME Ledger, CallInv, MergeInv, SlotInv, [Next]_vars
  PROVE  SlotInv'
<1>0. heads \in Seq(Nat) /\ at \in Nat /\ popped \in Nat /\ Len(heads) \in Nat
  BY LenProperties DEF Ledger, MergeTypes
<1>s. ASSUME UNCHANGED <<pc, heads, at, popped>> PROVE SlotInv'
  BY <1>s DEF SlotInv, Untouched
<1>p. ASSUME pc' \notin {"open", "head", "key"} PROVE SlotInv'
  BY <1>p DEF SlotInv
<1>a. ASSUME SpillAborts \/ MergeAborts PROVE SlotInv'
  BY <1>a, <1>p DEF SpillAborts, MergeAborts, Vanish
<1>1. CASE OthersMove
  BY <1>1, <1>s DEF OthersMove, mergeVars
<1>2. CASE Push
  BY <1>2, <1>p DEF Push
<1>3. CASE ReserveMetadata
  BY <1>3, <1>p DEF ReserveMetadata
<1>4. ASSUME NEW size \in Sizes, ReserveRow(size) PROVE SlotInv'
  BY <1>4, <1>p DEF ReserveRow
<1>5. ASSUME NEW limit \in Limits, Fits(limit) PROVE SlotInv'
  BY <1>5, <1>p DEF Fits
<1>6. ASSUME NEW limit \in Limits, PushRow(limit) PROVE SlotInv'
  BY <1>6, <1>p DEF PushRow
<1>7. CASE Grow
  BY <1>7, <1>p DEF Grow
<1>8. ASSUME NEW bytes \in Works, SpillOp(bytes) PROVE SlotInv'
  BY <1>8, <1>p, <1>a DEF SpillOp
<1>9. CASE SpillFails
  BY <1>9, <1>a DEF SpillFails
<1>10. CASE OpDone
  BY <1>10, <1>s DEF OpDone
<1>11. CASE RunWritten
  BY <1>11, <1>p DEF RunWritten
<1>12. CASE Carried
  <2>1. resume \in {"idle", "grow", "cascade"}
    BY DEF Ledger
  <2> QED
    BY <1>12, <1>p, <2>1 DEF Carried
<1>13. CASE Finish
  <2>1. CASE Vanish
    BY <2>1, <1>p DEF Vanish
  <2>2. CASE ~Vanish
    BY <1>13, <2>2, <1>p DEF Finish
  <2> QED
    BY <2>1, <2>2
<1>14. ASSUME NEW equal \in BOOLEAN, StreamRow(equal) PROVE SlotInv'
  BY <1>14, <1>s DEF StreamRow, mergeVars
<1>15. CASE DropIt
  BY <1>15, <1>p DEF DropIt, Vanish
<1>16. CASE CleanedUp
  BY <1>16, <1>s DEF CleanedUp, mergeVars
<1>17. CASE UNCHANGED vars
  BY <1>17, <1>s DEF vars, mergeVars
<1>18. ASSUME NEW n \in 1 .. FanIn, NEW g \in Goals, MergeBegins(n, g)
       PROVE  SlotInv'
  <2>1. CASE SpillAborts
    BY <2>1, <1>a
  <2>2. CASE ~SpillAborts
    <3>1. /\ heads' = [i \in 1 .. n |-> 0] /\ at' = 1 /\ pc' = "open"
          /\ n \in Nat
      BY <1>18, <2>2, MergeAssumption DEF MergeBegins, NewMerge
    <3>2. Len(heads') = n
      BY <3>1
    <3>3. Untouched'
      BY <3>1, <3>2 DEF Untouched
    <3> QED
      BY <3>1, <3>3 DEF SlotInv
  <2> QED
    BY <2>1, <2>2
<1>19. ASSUME NEW bytes \in Works, NEW next \in MergePcs, MergeOp(bytes, next)
       PROVE  SlotInv'
  <2>1. CASE MergeAborts
    BY <2>1, <1>a
  <2>2. CASE ~MergeAborts
    <3>1. Operates(next) /\ pc' = next /\ UNCHANGED mergeVars
      BY <1>19, <2>2 DEF MergeOp
    <3>2. CASE next = "head"
      BY <1>0, <3>1, <3>2 DEF Operates, SlotInv, Untouched, mergeVars
    <3>3. CASE next # "head"
      BY <3>1, <3>3, <1>p DEF Operates
    <3> QED
      BY <3>2, <3>3
  <2> QED
    BY <2>1, <2>2
<1>20. ASSUME NEW bytes \in Works, NEW size \in Sizes, ReadHead(bytes, size)
       PROVE  SlotInv'
  <2>1. CASE MergeAborts
    BY <2>1, <1>a
  <2>2. CASE ~MergeAborts
    BY <1>20, <2>2 DEF ReadHead, SlotInv, Untouched
  <2> QED
    BY <2>1, <2>2
<1>21. CASE Exhausted
  <2>1. CASE popped = 0
    BY <1>0, <1>21, <2>1 DEF Exhausted, Refilled, SlotInv, Untouched
  <2>2. CASE popped # 0
    BY <1>21, <2>2, <1>p DEF Exhausted, Refilled
  <2> QED
    BY <2>1, <2>2
<1>22. CASE ChargeKey
  <2>1. CASE MergeAborts
    BY <2>1, <1>a
  <2>2. CASE ~MergeAborts /\ popped = 0
    <3>1. /\ pc = "key" /\ heads' = [heads EXCEPT ![at] = fresh]
          /\ pc' = "open" /\ at' = at + 1
      BY <1>22, <2>2 DEF ChargeKey, Refilled
    <3>2. Len(heads') = Len(heads)
      BY <1>0, <3>1
    <3>3. Untouched'
      BY <1>0, <2>2, <3>1, <3>2 DEF SlotInv, Untouched
    <3> QED
      BY <1>0, <3>1, <3>3 DEF SlotInv
  <2>3. CASE ~MergeAborts /\ popped # 0
    BY <1>22, <2>3, <1>p DEF ChargeKey, Refilled
  <2> QED
    BY <2>1, <2>2, <2>3
<1>23. ASSUME NEW source \in DOMAIN heads, Pop(source) PROVE SlotInv'
  <2>1. source \in 1 .. Len(heads)
    BY <1>0, <1>23, LenProperties
  <2>2. /\ popped' = heads[source] /\ heads[source] \in Nat /\ popped' > 0
        /\ heads' = [heads EXCEPT ![source] = 0] /\ at' = source
        /\ pc' = "head"
    BY <1>0, <2>1, <1>23 DEF Pop
  <2>3. Len(heads') = Len(heads) /\ heads'[source] = 0
    BY <1>0, <2>1, <2>2
  <2> QED
    BY <2>1, <2>2, <2>3 DEF SlotInv
<1>24. CASE Written
  BY <1>24, <1>p DEF Written
<1>25. CASE MergeDone
  <2>1. goal \in Goals
    BY DEF Ledger, MergeTypes
  <2> QED
    BY <1>25, <2>1, <1>p DEF MergeDone, Goals
<1>26. CASE MergeFails
  BY <1>26, <1>a DEF MergeFails
<1>27. CASE StreamBegins
  BY <1>27, <1>p DEF StreamBegins
<1>28. CASE DedupRefused
  BY <1>28, <1>a DEF DedupRefused
<1>29. CASE StreamDrained
  BY <1>29, <1>p DEF StreamDrained
<1>30. ASSUME NEW equal \in BOOLEAN, MergedRow(equal) PROVE SlotInv'
  BY <1>30, <1>p DEF MergedRow
<1> QED
  BY <1>1, <1>2, <1>3, <1>4, <1>5, <1>6, <1>7, <1>8, <1>9, <1>10, <1>11,
     <1>12, <1>13, <1>14, <1>15, <1>16, <1>17, <1>18, <1>19, <1>20, <1>21,
     <1>22, <1>23, <1>24, <1>25, <1>26, <1>27, <1>28, <1>29, <1>30 DEF Next

-----------------------------------------------------------------------------
(***************************************************************************)
(* The ledger is exact after every step.                                   *)
(***************************************************************************)
\* The charges of a session, and what goes on around them.
chargeVars ==
  <<buffer, bufferBytes, capacity, bufferCharge, metadata, row, work, last,
    used, others, mergeVars>>
ModeTypes ==
  /\ armed \in BOOLEAN /\ failed \in BOOLEAN /\ refused \in BOOLEAN
  /\ pc \in Pcs /\ resume \in {"idle", "grow", "cascade"}

LEMMA IdleLedger ==
  ASSUME Ledger, UNCHANGED chargeVars, ModeTypes'
  PROVE  Ledger'
<1>1. MergeTypes' /\ Merged' = Merged
  BY SameMerge DEF Ledger, chargeVars
<1> QED
  BY <1>1 DEF Ledger, chargeVars, ModeTypes

\* No action leaves the modes of a session.
LEMMA Modes ==
  ASSUME Ledger, MergeInv, [Next]_vars
  PROVE  ModeTypes'
<1> USE DEF Pcs, rowVars
<1>0. ModeTypes
  BY DEF Ledger, ModeTypes
<1>r. \A bytes : Refuse(bytes) => refused' \in BOOLEAN
  BY DEF Refuse
<1>v. Vanish /\ refused' \in BOOLEAN => ModeTypes'
  BY <1>0 DEF Vanish, ModeTypes
<1>a. SpillAborts /\ refused' \in BOOLEAN => ModeTypes'
  BY <1>0, <1>v DEF SpillAborts, ModeTypes
<1>b. MergeAborts /\ refused' \in BOOLEAN => ModeTypes'
  BY <1>0, <1>a DEF MergeAborts, ModeTypes
<1>1. CASE OthersMove
  BY <1>0, <1>1 DEF OthersMove, ModeTypes
<1>2. CASE Push
  BY <1>0, <1>2 DEF Push, ModeTypes
<1>3. CASE ReserveMetadata
  BY <1>0, <1>r, <1>3 DEF ReserveMetadata, Reserve, ModeTypes
<1>4. ASSUME NEW size \in Sizes, ReserveRow(size) PROVE ModeTypes'
  BY <1>0, <1>r, <1>4 DEF ReserveRow, Reserve, ModeTypes
<1>5. ASSUME NEW limit \in Limits, Fits(limit) PROVE ModeTypes'
  BY <1>0, <1>5 DEF Fits, ModeTypes
<1>6. ASSUME NEW limit \in Limits, PushRow(limit) PROVE ModeTypes'
  BY <1>0, <1>6 DEF PushRow, ModeTypes
<1>7. CASE Grow
  BY <1>0, <1>r, <1>7 DEF Grow, ModeTypes
<1>8. ASSUME NEW bytes \in Works, SpillOp(bytes) PROVE ModeTypes'
  <2>1. CASE Refuse(bytes) /\ SpillAborts
    BY <1>r, <1>a, <2>1
  <2>2. CASE Reserve(bytes) /\ UNCHANGED <<armed, failed, pc, resume>>
    BY <1>0, <2>2 DEF Reserve, ModeTypes
  <2> QED
    BY <1>8, <2>1, <2>2 DEF SpillOp
<1>9. CASE SpillFails
  BY <1>0, <1>a, <1>9 DEF SpillFails, ModeTypes
<1>10. CASE OpDone
  BY <1>0, <1>10 DEF OpDone, ModeTypes
<1>11. CASE RunWritten
  BY <1>0, <1>11 DEF RunWritten, ModeTypes
<1>12. CASE Carried
  BY <1>0, <1>12 DEF Carried, ModeTypes
<1>13. CASE Finish
  <2>1. CASE Vanish
    BY <1>0, <1>v, <1>13, <2>1 DEF Finish, ModeTypes
  <2>2. CASE ~Vanish
    BY <1>0, <1>13, <2>2 DEF Finish, ModeTypes
  <2> QED
    BY <2>1, <2>2
<1>14. ASSUME NEW equal \in BOOLEAN, StreamRow(equal) PROVE ModeTypes'
  BY <1>0, <1>14 DEF StreamRow, ModeTypes
<1>15. CASE DropIt
  BY <1>0, <1>v, <1>15 DEF DropIt, ModeTypes
<1>16. CASE CleanedUp
  BY <1>0, <1>16 DEF CleanedUp, ModeTypes
<1>17. CASE UNCHANGED vars
  BY <1>0, <1>17 DEF vars, ModeTypes
<1>18. ASSUME NEW n \in 1 .. FanIn, NEW g \in Goals, MergeBegins(n, g)
       PROVE  ModeTypes'
  <2>1. CASE Refuse(n * SourceBytes) /\ SpillAborts
    BY <1>r, <1>a, <2>1
  <2>2. CASE Reserve(n * SourceBytes) /\ pc' = "open"
             /\ UNCHANGED <<armed, failed, resume>>
    BY <1>0, <2>2 DEF Reserve, ModeTypes, MergePcs
  <2> QED
    BY <1>18, <2>1, <2>2 DEF MergeBegins, NewMerge
<1>19. ASSUME NEW bytes \in Works, NEW next \in MergePcs, MergeOp(bytes, next)
       PROVE  ModeTypes'
  <2>1. CASE Refuse(bytes) /\ MergeAborts
    BY <1>r, <1>b, <2>1
  <2>2. CASE Reserve(bytes) /\ pc' = next /\ UNCHANGED <<armed, failed, resume>>
    BY <1>0, <2>2 DEF Reserve, ModeTypes
  <2> QED
    BY <1>19, <2>1, <2>2 DEF MergeOp
<1>20. ASSUME NEW bytes \in Works, NEW size \in Sizes, ReadHead(bytes, size)
       PROVE  ModeTypes'
  <2> DEFINE asked == bytes + High(size, RowSize)
  <2>1. CASE Refuse(asked) /\ MergeAborts
    BY <1>r, <1>b, <2>1
  <2>2. CASE /\ Reserve(asked) /\ pc' = "key"
             /\ UNCHANGED <<armed, failed, resume>>
    BY <1>0, <2>2 DEF Reserve, ModeTypes, MergePcs
  <2> QED
    BY <1>20, <2>1, <2>2 DEF ReadHead
<1>21. CASE Exhausted
  BY <1>0, <1>21 DEF Exhausted, Refilled, ModeTypes, MergePcs
<1>22. CASE ChargeKey
  <2>1. CASE Refuse(fresh) /\ MergeAborts
    BY <1>r, <1>b, <2>1
  <2>2. CASE Reserve(fresh) /\ Refilled /\ UNCHANGED <<armed, failed, resume>>
    BY <1>0, <2>2 DEF Reserve, Refilled, ModeTypes, MergePcs
  <2> QED
    BY <1>22, <2>1, <2>2 DEF ChargeKey
<1>23. ASSUME NEW source \in DOMAIN heads, Pop(source) PROVE ModeTypes'
  BY <1>0, <1>23 DEF Pop, ModeTypes, MergePcs
<1>24. CASE Written
  BY <1>0, <1>24 DEF Written, ModeTypes, MergePcs
<1>25. CASE MergeDone
  <2>1. goal \in {"carry", "cascade"}
    BY <1>25 DEF MergeDone, MergeInv, Ledger, MergeTypes, Goals
  <2> QED
    BY <1>0, <1>25, <2>1 DEF MergeDone, ModeTypes
<1>26. CASE MergeFails
  BY <1>0, <1>b, <1>26 DEF MergeFails, ModeTypes
<1>27. CASE StreamBegins
  BY <1>0, <1>27 DEF StreamBegins, ModeTypes, MergePcs
<1>28. CASE DedupRefused
  BY <1>r, <1>b, <1>28 DEF DedupRefused
<1>29. CASE StreamDrained
  BY <1>0, <1>29 DEF StreamDrained, ModeTypes
<1>30. ASSUME NEW equal \in BOOLEAN, MergedRow(equal) PROVE ModeTypes'
  BY <1>0, <1>30 DEF MergedRow, ModeTypes, MergePcs
<1> QED
  BY <1>1, <1>2, <1>3, <1>4, <1>5, <1>6, <1>7, <1>8, <1>9, <1>10, <1>11,
     <1>12, <1>13, <1>14, <1>15, <1>16, <1>17, <1>18, <1>19, <1>20, <1>21,
     <1>22, <1>23, <1>24, <1>25, <1>26, <1>27, <1>28, <1>29, <1>30 DEF Next

\* Every action keeps the ledger (session.rs:161-194, 255-324; buffer.rs:35-57).
LEMMA LedgerStep ==
  ASSUME Ledger, CallInv, MergeInv, SlotInv, [Next]_vars
  PROVE  Ledger'
<1> USE SizesAssumption, OthersAssumption
<1>0. /\ others \in Nat /\ metadata \in Nat /\ row \in Nat /\ work \in Nat
      /\ last \in Nat /\ Total(buffer) \in Nat /\ bufferCharge \in Nat
      /\ used \in Nat /\ Merged \in Nat
      /\ used = others + metadata + row + work + last + Total(buffer)
                  + bufferCharge + Merged
  BY DEF Ledger, MergeTypes
<1>g. ASSUME UNCHANGED mergeVars PROVE MergeTypes' /\ Merged' = Merged
  BY <1>g, SameMerge DEF Ledger
<1>m. ModeTypes'
  BY Modes
<1>t. /\ heads \in Seq(Nat) /\ at \in Nat /\ fresh \in Nat /\ popped \in Nat
      /\ goal \in Goals /\ Total(heads) \in Nat /\ InMerge \in Nat
      /\ Merged = InMerge + fresh
  BY TotalType DEF Ledger, MergeTypes, Merged
<1>w. PICK arrays \in Nat :
        /\ InMerge = arrays + 2 * Total(heads) + popped
        /\ Len(heads') = Len(heads) /\ heads' \in Seq(Nat) =>
             /\ InMerge' = arrays + 2 * Total(heads') + popped'
             /\ Total(heads') \in Nat
  <2>1. Len(heads) \in Nat /\ Len(heads) * SourceBytes \in Nat
    BY <1>t, LenProperties, MergeAssumption
  <2>2. PICK a \in Nat : a = Len(heads) * SourceBytes
    BY <2>1
  <2>3. InMerge = a + 2 * Total(heads) + popped
    BY <2>2 DEF InMerge
  <2>4. ASSUME Len(heads') = Len(heads), heads' \in Seq(Nat)
        PROVE  /\ InMerge' = a + 2 * Total(heads') + popped'
               /\ Total(heads') \in Nat
    BY <2>2, <2>4, TotalType DEF InMerge
  <2> QED
    BY <2>3, <2>4
<1>n. /\ fresh \in Nat /\ popped \in Nat /\ Total(heads) \in Nat
      /\ Merged = InMerge + fresh
      /\ InMerge = arrays + 2 * Total(heads) + popped
  BY <1>t, <1>w
<1>k. ASSUME UNCHANGED <<rowVars, metadata, row, others>>, MergeTypes',
             work' \in Nat, last' \in Nat,
             used' = used + ((work' + last' + Merged') - (work + last + Merged))
      PROVE  Ledger'
  BY <1>m, <1>k, MergeMoves DEF ModeTypes
<1>1. CASE OthersMove
  <2>1. /\ UNCHANGED <<buffer, bufferBytes, capacity, bufferCharge>>
        /\ UNCHANGED <<metadata, row, work, last, mergeVars>>
        /\ others' \in Nat /\ used' = used - others + others'
    BY <1>1 DEF OthersMove, rowVars
  <2>2. PICK o \in Nat : others' = o
    BY <2>1
  <2>3. used - others + o = o + metadata + row + work + last + Total(buffer)
                              + bufferCharge + Merged
    BY <1>0
  <2>4. used - others + o \in Nat
    BY <1>0, <2>3, LedgerSum
  <2>5. used' \in Nat /\ used' = others' + metadata + row + work + last
                                  + Total(buffer) + bufferCharge + Merged
    BY <2>1, <2>2, <2>3, <2>4, Zenon
  <2> QED
    BY <1>m, <1>g, <2>1, <2>5 DEF Ledger, ModeTypes
<1>2. CASE Push
  BY <1>2, <1>m, IdleLedger DEF Push, chargeVars, rowVars
<1>3. CASE ReserveMetadata
  <2>1. CASE UNCHANGED <<used, metadata>>
    BY <1>3, <1>m, <2>1, IdleLedger DEF ReserveMetadata, chargeVars, rowVars
  <2>2. CASE Reserve(Metadata) /\ metadata' = Metadata
    <3>1. /\ UNCHANGED <<buffer, bufferBytes, capacity, bufferCharge, row, work,
                         last, mergeVars, others>>
          /\ used' = used + Metadata /\ metadata' = Metadata /\ metadata = 0
      BY <1>3, <2>2 DEF ReserveMetadata, Reserve, rowVars, CallInv
    <3>2. /\ used + Metadata = others + Metadata + row + work + last
                                 + Total(buffer) + bufferCharge + Merged
          /\ used + Metadata \in Nat
      BY <1>0, <3>1
    <3> QED
      BY <1>m, <1>g, <3>1, <3>2 DEF Ledger, ModeTypes
  <2> QED
    BY <1>3, <2>1, <2>2 DEF ReserveMetadata
<1>4. ASSUME NEW size \in Sizes, ReserveRow(size) PROVE Ledger'
  <2> DEFINE bytes == High(size, RowSize)
  <2>1. CASE UNCHANGED <<used, row>>
    BY <1>4, <1>m, <2>1, IdleLedger DEF ReserveRow, chargeVars, rowVars
  <2>2. CASE Reserve(bytes) /\ row' = bytes
    <3>1. bytes \in Nat
      BY DEF High
    <3> HIDE DEF bytes
    <3>2. /\ UNCHANGED <<buffer, bufferBytes, capacity, bufferCharge, metadata,
                         work, last, mergeVars, others>>
          /\ used' = used + bytes /\ row' = bytes /\ row = 0
      BY <1>4, <2>2 DEF ReserveRow, Reserve, rowVars, CallInv, Holding,
                         Spilling, Merging, MergePcs
    <3>3. /\ used + bytes = others + metadata + bytes + work + last
                              + Total(buffer) + bufferCharge + Merged
          /\ used + bytes \in Nat
      BY <1>0, <3>1, <3>2
    <3> QED
      BY <1>m, <1>g, <3>1, <3>2, <3>3 DEF Ledger, ModeTypes
  <2> QED
    BY <1>4, <2>1, <2>2 DEF ReserveRow
<1>5. ASSUME NEW limit \in Limits, Fits(limit) PROVE Ledger'
  BY <1>5, <1>m, IdleLedger DEF Fits, chargeVars, rowVars
<1>6. ASSUME NEW limit \in Limits, PushRow(limit) PROVE Ledger'
  <2>1. /\ UNCHANGED <<capacity, bufferCharge, metadata, work, last, used,
                       mergeVars, others>>
        /\ buffer' = Append(buffer, row) /\ bufferBytes' = bufferBytes + row
        /\ row' = 0
    BY <1>6 DEF PushRow
  <2>2. /\ buffer' \in Seq(Nat) /\ Total(buffer') = Total(buffer) + row
        /\ Total(buffer) + row \in Nat
    <3>1. buffer \in Seq(Nat)
      BY DEF Ledger
    <3>2. Total(Append(buffer, row)) = Total(buffer) + row
      BY <1>0, <3>1, TotalAppend
    <3>3. Append(buffer, row) \in Seq(Nat)
      BY <1>0, <3>1, AppendProperties
    <3>4. Total(buffer) + row \in Nat
      BY <1>0
    <3> QED
      BY <2>1, <3>2, <3>3, <3>4
  <2>3. used = others + metadata + 0 + work + last + (Total(buffer) + row)
                 + bufferCharge + Merged
    BY <1>0
  <2>4. bufferBytes' \in Nat
    BY <2>1 DEF Ledger
  <2> QED
    BY <1>m, <1>g, <2>1, <2>2, <2>3, <2>4 DEF Ledger, ModeTypes
<1>7. CASE Grow
  <2> DEFINE wide == 2 * High(capacity, 1)
             bytes == wide * RowSize
  <2>1. wide \in Nat /\ bytes = Bytes(wide) /\ bytes \in Nat
    <3>1. wide \in Nat
      BY DEF High, Ledger
    <3> QED
      BY <3>1, BytesType DEF Bytes
  <2>2. CASE /\ used' = used + bytes - bufferCharge /\ capacity' = wide
             /\ bufferCharge' = bytes /\ UNCHANGED row
    <3> HIDE DEF wide, bytes
    <3>1. /\ UNCHANGED <<buffer, bufferBytes, metadata, row, work, last,
                         mergeVars, others>>
          /\ used' = used + bytes - bufferCharge /\ capacity' = wide
          /\ bufferCharge' = bytes
      BY <1>7, <2>2 DEF Grow
    <3>2. /\ used + bytes - bufferCharge =
               others + metadata + row + work + last + Total(buffer) + bytes
                 + Merged
          /\ used + bytes - bufferCharge \in Nat
      BY <1>0, <2>1
    <3> QED
      BY <1>m, <1>g, <2>1, <3>1, <3>2 DEF Ledger, ModeTypes
  <2>3. CASE /\ used' = used - row /\ row' = 0
             /\ UNCHANGED <<capacity, bufferCharge>>
    <3>1. /\ UNCHANGED <<buffer, bufferBytes, capacity, bufferCharge, metadata,
                         work, last, mergeVars, others>>
          /\ used' = used - row /\ row' = 0
      BY <1>7, <2>3 DEF Grow
    <3>2. /\ used - row = others + metadata + 0 + work + last + Total(buffer)
                            + bufferCharge + Merged
          /\ used - row \in Nat
      BY <1>0
    <3> QED
      BY <1>m, <1>g, <3>1, <3>2 DEF Ledger, ModeTypes
  <2> QED
    BY <1>7, <2>2, <2>3 DEF Grow
<1>8. ASSUME NEW bytes \in Works, SpillOp(bytes) PROVE Ledger'
  <2>1. CASE SpillAborts
    BY <1>m, <2>1, AbortLedger DEF ModeTypes
  <2>2. CASE Reserve(bytes) /\ work' = bytes
             /\ UNCHANGED <<rowVars, metadata, row, last, mergeVars, others>>
    <3>1. /\ UNCHANGED <<buffer, bufferBytes, capacity, bufferCharge, metadata,
                         row, last, mergeVars, others>>
          /\ used' = used + bytes /\ work' = bytes /\ work = 0
      BY <1>8, <2>2 DEF SpillOp, Reserve, rowVars
    <3>2. /\ used + bytes = others + metadata + row + bytes + last
                              + Total(buffer) + bufferCharge + Merged
          /\ used + bytes \in Nat /\ bytes \in Nat
      BY <1>0, <3>1
    <3> QED
      BY <1>m, <1>g, <3>1, <3>2 DEF Ledger, ModeTypes
  <2> QED
    BY <1>8, <2>1, <2>2 DEF SpillOp
<1>9. CASE SpillFails
  BY <1>m, <1>9, AbortLedger DEF SpillFails, ModeTypes
<1>10. CASE OpDone
  <2> DEFINE kept == IF pc = "key" THEN fresh ELSE 0
  <2>1. /\ work' = 0 /\ fresh' = kept /\ used' = used - work - (fresh - kept)
        /\ UNCHANGED <<rowVars, metadata, row, last, heads, at, popped, goal,
                       others>>
    BY <1>10 DEF OpDone
  <2>2. kept \in Nat
    BY <1>t
  <2> HIDE DEF kept
  <2>3. MergeTypes'
    BY <1>t, <2>1, <2>2, MergeTyped
  <2>4. Merged' = InMerge + kept
    BY <2>1 DEF Merged, InMerge
  <2>5. used' = used + ((0 + last + Merged') - (work + last + Merged))
    BY <1>0, <1>t, <2>1, <2>2, <2>4
  <2> QED
    BY <1>0, <1>k, <2>1, <2>3, <2>5
<1>11. CASE RunWritten
  <2>1. /\ UNCHANGED <<metadata, row, work, last, mergeVars, others>>
        /\ buffer' = <<>> /\ bufferBytes' = 0 /\ capacity' = 0
        /\ bufferCharge' = 0 /\ used' = used - Total(buffer) - bufferCharge
    BY <1>11 DEF RunWritten
  <2>2. /\ used - Total(buffer) - bufferCharge =
             others + metadata + row + work + last + 0 + 0 + Merged
        /\ used - Total(buffer) - bufferCharge \in Nat
    BY <1>0
  <2>3. /\ buffer' \in Seq(Nat) /\ Total(buffer') = 0
        /\ bufferCharge' = Bytes(capacity')
    <3>1. buffer' \in Seq(Nat)
      BY <2>1
    <3>2. Total(buffer') = 0
      BY <2>1, <3>1, TotalType
    <3> QED
      BY <2>1, <3>1, <3>2, BytesType
  <2> QED
    BY <1>m, <1>g, <2>1, <2>2, <2>3 DEF Ledger, ModeTypes
<1>12. CASE Carried
  BY <1>12, <1>m, IdleLedger DEF Carried, chargeVars, rowVars
<1>13. CASE Finish
  <2>1. CASE Vanish
    BY <1>m, <2>1, VanishLedger DEF ModeTypes
  <2>2. CASE UNCHANGED <<rowVars, metadata, row, work, last, mergeVars,
                         used, others>>
    BY <1>m, <2>2, IdleLedger DEF chargeVars, rowVars
  <2> QED
    BY <1>13, <2>1, <2>2 DEF Finish, rowVars
<1>14. ASSUME NEW equal \in BOOLEAN, StreamRow(equal) PROVE Ledger'
  <2> DEFINE kept == IF ~Dedup \/ equal THEN last ELSE Head(buffer)
  <2>1. /\ UNCHANGED <<bufferBytes, capacity, bufferCharge, metadata, row, work,
                       mergeVars, others>>
        /\ buffer # <<>> /\ buffer' = Tail(buffer) /\ last' = kept
        /\ used' = (used - Head(buffer) - last) + kept
    BY <1>14 DEF StreamRow
  <2>2. /\ Head(buffer) \in Nat /\ buffer' \in Seq(Nat)
        /\ Total(buffer) = Head(buffer) + Total(Tail(buffer))
        /\ Total(Tail(buffer)) \in Nat /\ buffer' = Tail(buffer)
    BY <2>1, TotalTail, TotalType DEF Ledger
  <2>3. kept \in Nat
    BY <1>0, <2>2
  <2> HIDE DEF kept
  <2>4. PICK rest \in Nat : rest = Total(Tail(buffer))
    BY <2>2
  <2>5. PICK first \in Nat : first = Head(buffer)
    BY <2>2
  <2>6. /\ used' = others + metadata + row + work + kept + rest + bufferCharge
                     + Merged
        /\ used' \in Nat
    <3>1. used = others + metadata + row + work + last + (first + rest)
                   + bufferCharge + Merged
      BY <1>0, <2>2, <2>4, <2>5
    <3>2. /\ (used - first - last) + kept =
               others + metadata + row + work + kept + rest + bufferCharge
                 + Merged
          /\ (used - first - last) + kept \in Nat
      BY <1>0, <2>3, <3>1
    <3> QED
      BY <2>1, <2>5, <3>2
  <2>7. Total(buffer') = rest
    BY <2>2, <2>4
  <2> QED
    BY <1>m, <1>g, <2>1, <2>2, <2>3, <2>6, <2>7 DEF Ledger, ModeTypes
<1>15. CASE DropIt
  BY <1>m, <1>15, VanishLedger DEF DropIt, ModeTypes
<1>16. CASE CleanedUp
  <2>1. /\ UNCHANGED <<buffer, bufferBytes, capacity, bufferCharge, row, work,
                       last, mergeVars, others>>
        /\ used' = used - metadata /\ metadata' = 0
    BY <1>16 DEF CleanedUp, rowVars
  <2>2. /\ used - metadata = others + 0 + row + work + last + Total(buffer)
                               + bufferCharge + Merged
        /\ used - metadata \in Nat
    BY <1>0
  <2> QED
    BY <1>m, <1>g, <2>1, <2>2 DEF Ledger, ModeTypes
<1>17. CASE UNCHANGED vars
  BY <1>m, <1>17, IdleLedger DEF vars, rowVars, chargeVars
<1>18. ASSUME NEW n \in 1 .. FanIn, NEW g \in Goals, MergeBegins(n, g)
       PROVE  Ledger'
  <2>1. CASE SpillAborts
    BY <1>m, <2>1, AbortLedger DEF ModeTypes
  <2>2. CASE ~SpillAborts
    <3>1. /\ used' = used + n * SourceBytes
          /\ heads' = [i \in 1 .. n |-> 0] /\ at' = 1 /\ goal' = g
          /\ UNCHANGED <<rowVars, metadata, row, work, last, fresh, popped,
                         others>>
          /\ n \in Nat /\ pc \in {"carry", "cascade"}
      BY <1>18, <2>2, MergeAssumption
         DEF MergeBegins, MayMerge, NewMerge, Reserve
    <3>2. heads = <<>> /\ popped = 0
      BY <3>1 DEF MergeInv, Merging, MergePcs
    <3>3. InMerge = 0
      BY <1>t, <3>2, MergeWeight, WeightType
    <3>4. heads' \in Seq(Nat) /\ Len(heads') = n /\ Total(heads') = 0
      BY <3>1, NoHeads
    <3>5. PICK size \in Nat : size = n * SourceBytes
      BY <3>1, MergeAssumption
    <3>6. InMerge' = size + 2 * 0 + 0
      BY <3>1, <3>2, <3>4, <3>5, Zenon DEF InMerge
    <3>7. Merged' = size + fresh
      BY <1>t, <3>1, <3>5, <3>6 DEF Merged
    <3>8. MergeTypes'
      <4>1. at' \in Nat
        BY <3>1
      <4> QED
        BY <1>t, <3>1, <3>4, <4>1, MergeTyped
    <3>9. used' = used + ((work + last + Merged') - (work + last + Merged))
      <4>1. used' = used + size
        BY <3>1, <3>5, Zenon
      <4>2. Merged = fresh /\ fresh \in Nat
        BY <1>n, <3>3
      <4>3. used \in Nat /\ work \in Nat /\ last \in Nat
        BY <1>0
      <4> QED
        BY <3>7, <4>1, <4>2, <4>3
    <3> QED
      BY <1>0, <1>k, <3>1, <3>8, <3>9
  <2> QED
    BY <2>1, <2>2
<1>19. ASSUME NEW bytes \in Works, NEW next \in MergePcs, MergeOp(bytes, next)
       PROVE  Ledger'
  <2>1. CASE MergeAborts
    BY <1>m, <2>1, MergeAbortLedger DEF ModeTypes
  <2>2. CASE ~MergeAborts
    <3>1. /\ used' = used + bytes /\ work' = bytes /\ work = 0 /\ bytes \in Nat
          /\ UNCHANGED <<rowVars, metadata, row, last, mergeVars, others>>
      BY <1>19, <2>2 DEF MergeOp, Reserve
    <3>2. used' = used + ((bytes + last + Merged') - (work + last + Merged))
      BY <1>0, <1>g, <3>1
    <3> QED
      BY <1>0, <1>g, <1>k, <3>1, <3>2
  <2> QED
    BY <2>1, <2>2
<1>20. ASSUME NEW bytes \in Works, NEW size \in Sizes, ReadHead(bytes, size)
       PROVE  Ledger'
  <2> DEFINE head == High(size, RowSize)
  <2>1. CASE MergeAborts
    BY <1>m, <2>1, MergeAbortLedger DEF ModeTypes
  <2>2. CASE ~MergeAborts
    <3>1. head \in Nat /\ bytes \in Nat
      BY DEF High
    <3>2. /\ used' = used + (bytes + head) /\ work' = bytes /\ fresh' = head
          /\ work = 0 /\ pc = "head"
          /\ UNCHANGED <<rowVars, metadata, row, last, heads, at, popped, goal,
                         others>>
      BY <1>20, <2>2 DEF ReadHead, Reserve
    <3> HIDE DEF head
    <3>3. fresh = 0
      BY <3>2 DEF MergeInv
    <3>4. MergeTypes'
      BY <1>t, <3>1, <3>2, MergeTyped
    <3>5. Merged' = InMerge + head
      BY <3>2 DEF Merged, InMerge
    <3>6. used' = used + ((bytes + last + Merged') - (work + last + Merged))
      BY <1>0, <1>t, <3>1, <3>2, <3>3, <3>5
    <3> QED
      BY <1>0, <1>k, <3>1, <3>2, <3>4, <3>6
  <2> QED
    BY <2>1, <2>2
<1>21. CASE Exhausted
  <2>1. /\ UNCHANGED <<rowVars, metadata, row, work, last, heads, fresh, popped,
                       goal, used, others>>
        /\ at' \in Nat
    BY <1>t, <1>21 DEF Exhausted, Refilled
  <2>2. MergeTypes' /\ Merged' = Merged
    BY <1>t, <2>1, MergeTyped DEF Merged, InMerge
  <2>3. used' = used + ((work + last + Merged') - (work + last + Merged))
    BY <1>0, <2>1, <2>2
  <2> QED
    BY <1>0, <1>k, <2>1, <2>2, <2>3
<1>22. CASE ChargeKey
  <2>1. CASE MergeAborts
    BY <1>m, <2>1, MergeAbortLedger DEF ModeTypes
  <2>2. CASE ~MergeAborts
    <3>1. /\ used' = used + fresh /\ heads' = [heads EXCEPT ![at] = fresh]
          /\ fresh' = 0 /\ pc = "key"
          /\ UNCHANGED <<rowVars, metadata, row, work, last, popped, goal,
                         others>>
          /\ at' \in Nat
      BY <1>t, <1>22, <2>2 DEF ChargeKey, Reserve, Refilled
    <3>2. at \in 1 .. Len(heads) /\ heads[at] = 0
      BY <3>1 DEF SlotInv
    <3>3. /\ heads' \in Seq(Nat) /\ Len(heads') = Len(heads)
          /\ Total(heads') + heads[at] = Total(heads) + fresh
      <4>1. LET s == [heads EXCEPT ![at] = fresh] IN
            /\ s \in Seq(Nat) /\ Len(s) = Len(heads)
            /\ Total(s) + heads[at] = Total(heads) + fresh
        BY <1>t, <3>2, TotalExcept
      <4> QED
        BY <3>1, <4>1, Zenon
    <3>4. MergeTypes'
      BY <1>t, <3>1, <3>3, MergeTyped
    <3>5. /\ InMerge' = arrays + 2 * Total(heads') + popped
          /\ Total(heads') \in Nat
      BY <1>w, <3>1, <3>3
    <3>6. Merged' = Merged + fresh
      <4>1. Merged' = InMerge' + 0
        BY <3>1 DEF Merged
      <4>2. Total(heads') + 0 = Total(heads) + fresh
        BY <3>2, <3>3, Zenon
      <4> QED
        BY <1>n, <3>5, <4>1, <4>2
    <3>7. used' = used + ((work + last + Merged') - (work + last + Merged))
      BY <1>0, <1>t, <3>1, <3>6
    <3> QED
      BY <1>0, <1>k, <3>1, <3>4, <3>7
  <2> QED
    BY <2>1, <2>2
<1>23. ASSUME NEW source \in DOMAIN heads, Pop(source) PROVE Ledger'
  <2>1. source \in 1 .. Len(heads)
    BY <1>t, LenProperties
  <2>2. /\ popped' = heads[source] /\ heads' = [heads EXCEPT ![source] = 0]
        /\ at' = source /\ used' = used - heads[source] /\ pc = "merge"
        /\ UNCHANGED <<rowVars, metadata, row, work, last, fresh, goal, others>>
    BY <1>23 DEF Pop
  <2>3. popped = 0
    BY <2>2 DEF MergeInv
  <2>4. /\ heads' \in Seq(Nat) /\ Len(heads') = Len(heads)
        /\ heads[source] \in Nat
        /\ Total(heads') + heads[source] = Total(heads) + 0
    BY <1>t, <2>1, <2>2, TotalExcept
  <2>5. MergeTypes'
    BY <1>t, <2>1, <2>2, <2>4, MergeTyped
  <2>6. /\ InMerge' = arrays + 2 * Total(heads') + heads[source]
        /\ Total(heads') \in Nat
    BY <1>w, <2>2, <2>4
  <2>7. Merged' = Merged - heads[source]
    <3>1. Merged' = InMerge' + fresh
      BY <2>2 DEF Merged
    <3>2. /\ Total(heads') + heads[source] = Total(heads) + 0
          /\ heads[source] \in Nat
      BY <2>4
    <3> QED
      BY <1>n, <2>3, <2>6, <3>1, <3>2
  <2>8. used' = used + ((work + last + Merged') - (work + last + Merged))
    <3>1. heads[source] \in Nat
      BY <2>4
    <3> QED
      BY <1>0, <2>2, <2>7, <3>1
  <2> QED
    BY <1>0, <1>k, <2>2, <2>5, <2>8
<1>24. CASE Written
  <2>1. /\ popped' = 0 /\ used' = used - popped
        /\ UNCHANGED <<rowVars, metadata, row, work, last, heads, at, fresh,
                       goal, others>>
    BY <1>24 DEF Written
  <2>2. MergeTypes'
    BY <1>t, <2>1, MergeTyped
  <2>3. Merged' = Merged - popped
    <3>1. InMerge' = arrays + 2 * Total(heads) + 0
      BY <1>t, <1>w, <2>1
    <3>2. Merged' = InMerge' + fresh
      BY <2>1 DEF Merged
    <3> QED
      BY <1>n, <3>1, <3>2
  <2>4. used' = used + ((work + last + Merged') - (work + last + Merged))
    BY <1>0, <1>t, <2>1, <2>3
  <2> QED
    BY <1>0, <1>k, <2>1, <2>2, <2>4
<1>25. CASE MergeDone
  <2>1. /\ DropMerge /\ used' = used - InMerge - (fresh - fresh')
        /\ UNCHANGED <<rowVars, metadata, row, work, last, others>>
    BY <1>25 DEF MergeDone
  <2>2. /\ MergeTypes' /\ Merged' \in Nat /\ fresh' \in {0, fresh}
        /\ InMerge + (fresh - fresh') = Merged - Merged'
    BY <2>1, MergeDropped
  <2>3. PICK left \in Nat, still \in Nat : Merged' = left /\ fresh' = still
    BY <1>t, <2>2
  <2>4. used - InMerge - (fresh - still)
          = used + ((work + last + left) - (work + last + Merged))
    <3>1. InMerge + (fresh - still) = Merged - left
      BY <2>2, <2>3
    <3> QED
      BY <1>0, <1>t, <3>1
  <2>5. used' = used + ((work + last + Merged') - (work + last + Merged))
    BY <2>1, <2>3, <2>4, Zenon
  <2> QED
    BY <1>0, <1>k, <2>1, <2>2, <2>5
<1>26. CASE MergeFails
  BY <1>m, <1>26, MergeAbortLedger DEF MergeFails, ModeTypes
<1>27. CASE StreamBegins
  <2>1. /\ UNCHANGED <<rowVars, metadata, row, work, last, heads, at, fresh,
                       popped, used, others>>
        /\ goal' \in Goals
    BY <1>27 DEF StreamBegins, Goals
  <2>2. MergeTypes' /\ Merged' = Merged
    BY <1>t, <2>1, MergeTyped DEF Merged, InMerge
  <2>3. used' = used + ((work + last + Merged') - (work + last + Merged))
    BY <1>0, <2>1, <2>2
  <2> QED
    BY <1>0, <1>k, <2>1, <2>2, <2>3
<1>28. CASE DedupRefused
  BY <1>m, <1>28, MergeAbortLedger DEF DedupRefused, ModeTypes
<1>29. CASE StreamDrained
  BY <1>29, <1>m, IdleLedger DEF StreamDrained, chargeVars, rowVars
<1>30. ASSUME NEW equal \in BOOLEAN, MergedRow(equal) PROVE Ledger'
  <2>1. /\ popped' = 0
        /\ UNCHANGED <<rowVars, metadata, row, work, heads, at, fresh, goal,
                       others>>
        /\ \/ last' = popped /\ used' = used - last
           \/ last' = last /\ used' = used - popped
    BY <1>30 DEF MergedRow
  <2>2. MergeTypes'
    BY <1>t, <2>1, MergeTyped
  <2>3. Merged' = Merged - popped
    <3>1. InMerge' = arrays + 2 * Total(heads) + 0
      BY <1>t, <1>w, <2>1
    <3>2. Merged' = InMerge' + fresh
      BY <2>1 DEF Merged
    <3> QED
      BY <1>n, <3>1, <3>2
  <2>4. /\ used' = used + ((work + last' + Merged') - (work + last + Merged))
        /\ last' \in Nat
    <3>1. \/ last' = popped /\ used' = used - last
          \/ last' = last /\ used' = used - popped
      BY <2>1
    <3> QED
      BY <1>0, <1>n, <2>3, <3>1
  <2> QED
    BY <1>0, <1>k, <2>1, <2>2, <2>4
<1> QED
  BY <1>1, <1>2, <1>3, <1>4, <1>5, <1>6, <1>7, <1>8, <1>9, <1>10, <1>11,
     <1>12, <1>13, <1>14, <1>15, <1>16, <1>17, <1>18, <1>19, <1>20, <1>21,
     <1>22, <1>23, <1>24, <1>25, <1>26, <1>27, <1>28, <1>29, <1>30 DEF Next

-----------------------------------------------------------------------------
(***************************************************************************)
(* How large the buffer and its vector are.                                *)
(***************************************************************************)
\* Every row is charged its frame at least, so the vector is never much larger
\* than the threshold of the bytes in it (buffer.rs:35-57, session.rs:171-193).
MostCapacity == 2 * High(MostBuffered, RowSize)

SizeInv ==
  /\ Calling =>
       /\ Total(buffer) = bufferBytes
       /\ Bytes(Len(buffer)) <= bufferBytes
       /\ bufferBytes < MostBuffered \/ buffer = <<>>
  /\ Calling \/ pc = "spill" => bufferCharge <= MostCapacity

\* The buffer stays as it is, in a call that goes on or begins.
LEMMA SameSize ==
  ASSUME SizeInv, UNCHANGED <<buffer, bufferBytes, bufferCharge>>,
         Calling' => Calling, pc' = "spill" => Calling \/ pc = "spill"
  PROVE  SizeInv'
<1>1. Calling' => Calling
  OBVIOUS
<1>2. pc' = "spill" => Calling \/ pc = "spill"
  OBVIOUS
<1>3. MostBuffered' = MostBuffered /\ MostCapacity' = MostCapacity
  BY DEF MostBuffered, MostCapacity, BufferLimit
<1> QED
  BY <1>1, <1>2, <1>3 DEF SizeInv

\* The sizes are of no concern in the other modes.
LEMMA NoSize ==
  ASSUME ~Calling', pc' # "spill"
  PROVE  SizeInv'
BY DEF SizeInv

\* One more row in a buffer has room for one more frame.
LEMMA BytesNext ==
  ASSUME NEW n \in Nat
  PROVE  Bytes(n) \in Nat /\ Bytes(n + 1) = Bytes(n) + RowSize
<1>1. RowSize \in Nat
  BY SizesAssumption
<1> QED
  BY <1>1 DEF Bytes

\* A vector with as many rows as it holds doubles to at most MostCapacity.
LEMMA GrownSize ==
  ASSUME Ledger, SizeInv, Calling, Len(buffer) = capacity
  PROVE  2 * High(capacity, 1) * RowSize <= MostCapacity
<1> USE SizesAssumption
<1>1. MostBuffered \in Nat /\ RowSize \in Nat
  BY Thresholds
<1>2. capacity \in Nat /\ bufferBytes \in Nat /\ buffer \in Seq(Nat)
  BY DEF Ledger
<1>3. CASE capacity = 0
  <2>1. 2 * High(capacity, 1) * RowSize = 2 * RowSize
    BY <1>1, <1>3 DEF High
  <2> QED
    BY <1>1, <2>1 DEF MostCapacity, High
<1>4. CASE capacity # 0
  <2>1. buffer # <<>>
    BY <1>2, <1>4
  <2>2. Bytes(capacity) <= bufferBytes /\ bufferBytes < MostBuffered
    BY <2>1 DEF SizeInv
  <2>3. 2 * High(capacity, 1) * RowSize = 2 * Bytes(capacity)
    <3>1. High(capacity, 1) = capacity
      BY <1>2, <1>4 DEF High
    <3>2. 2 * capacity * RowSize = 2 * (capacity * RowSize)
      BY <1>1, <1>2
    <3> QED
      BY <3>1, <3>2 DEF Bytes
  <2>4. Bytes(capacity) \in Nat
    BY <1>2, BytesType
  <2> QED
    BY <1>1, <1>2, <2>2, <2>3, <2>4 DEF MostCapacity, High
<1> QED
  BY <1>3, <1>4

LEMMA SizeStep ==
  ASSUME Ledger, CallInv, MergeInv, SizeInv, [Next]_vars
  PROVE  SizeInv'
<1> USE SizesAssumption
<1> USE DEF rowVars
<1>0. /\ failed \in BOOLEAN /\ pc \in Pcs
      /\ resume \in {"idle", "grow", "cascade"}
  BY DEF Ledger
<1>f. Spilling \/ Spilled =>
        failed \/ resume = "cascade" \/ (Merging /\ goal = "stream")
  BY DEF CallInv, MergeInv, Merging, MergePcs, Spilled
<1>s. MostBuffered' = MostBuffered /\ MostCapacity' = MostCapacity
      /\ MostBuffered \in Nat /\ MostCapacity \in Nat
  BY Thresholds DEF MostBuffered, MostCapacity, BufferLimit, High
<1>v. Vanish => SizeInv'
  BY NoSize DEF Vanish, Calling
<1>a. ASSUME SpillAborts, Spilling \/ Spilled, ~(Merging /\ goal = "stream")
      PROVE  SizeInv'
  <2>1. ~Vanish => ~Calling' /\ pc' # "spill"
    BY <1>f, <1>a DEF SpillAborts, Calling
  <2> QED
    BY <1>v, <2>1, NoSize
<1>b. ASSUME MergeAborts, Merging PROVE SizeInv'
  BY <1>a, <1>b, NoSize DEF MergeAborts, Spilled, Calling
<1>c. ASSUME pc' \in MergePcs PROVE SizeInv'
  BY <1>c, NoSize DEF MergePcs, Calling
<1>1. CASE OthersMove
  BY <1>1, SameSize DEF OthersMove, Calling
<1>2. CASE Push
  BY <1>2, SameSize DEF Push, Calling
<1>3. CASE ReserveMetadata
  BY <1>3, SameSize DEF ReserveMetadata, Calling
<1>4. ASSUME NEW size \in Sizes, ReserveRow(size) PROVE SizeInv'
  BY <1>4, SameSize DEF ReserveRow, Calling
<1>5. ASSUME NEW limit \in Limits, Fits(limit) PROVE SizeInv'
  BY <1>5, SameSize DEF Fits, Calling
<1>6. ASSUME NEW limit \in Limits, PushRow(limit) PROVE SizeInv'
  <2>1. Calling /\ pc = "grow" /\ Holding
    BY <1>6 DEF PushRow, Calling, Holding
  <2>2. /\ row \in Nat /\ row >= RowSize /\ bufferBytes \in Nat
        /\ RowSize \in Nat
        /\ buffer \in Seq(Nat) /\ Total(buffer) = bufferBytes
        /\ Bytes(Len(buffer)) <= bufferBytes /\ bufferCharge <= MostCapacity
    BY <2>1 DEF Ledger, CallInv, SizeInv
  <2>3. /\ buffer' = Append(buffer, row) /\ bufferBytes' = bufferBytes + row
        /\ bufferCharge' = bufferCharge
        /\ pc' = "spill" \/ (pc' = "idle" /\ bufferBytes' < BufferLimit(limit))
        /\ pc' = "spill" => failed'
    BY <1>6, <2>2, Thresholds DEF PushRow
  <2>4. Total(buffer') = bufferBytes'
    BY <2>2, <2>3, TotalAppend
  <2>5. Bytes(Len(buffer')) <= bufferBytes'
    <3>1. Len(buffer) \in Nat /\ Len(buffer') = Len(buffer) + 1
      BY <2>2, <2>3, AppendProperties, LenProperties
    <3>2. Bytes(Len(buffer')) = Bytes(Len(buffer)) + RowSize
          /\ Bytes(Len(buffer)) \in Nat
      BY <3>1, BytesNext
    <3> QED
      BY <2>2, <2>3, <3>2
  <2>6. CASE pc' = "spill"
    <3>1. ~Calling'
      BY <2>6 DEF Calling
    <3> QED
      BY <1>s, <2>2, <2>3, <3>1 DEF SizeInv
  <2>7. CASE pc' = "idle" /\ bufferBytes' < BufferLimit(limit)
    <3>1. bufferBytes' < MostBuffered
      <4>1. BufferLimit(limit) \in Nat /\ BufferLimit(limit) <= MostBuffered
        BY Thresholds
      <4>2. bufferBytes + row < BufferLimit(limit)
        BY <2>3, <2>7
      <4> QED
        BY <1>s, <2>2, <2>3, <4>1, <4>2
    <3> QED
      BY <1>s, <2>2, <2>3, <2>4, <2>5, <3>1 DEF SizeInv
  <2> QED
    BY <2>3, <2>6, <2>7
<1>7. CASE Grow
  <2>1. Calling /\ Len(buffer) = capacity
    BY <1>7 DEF Grow, Calling
  <2>2. CASE UNCHANGED bufferCharge
    <3>1. Calling' => Calling
      BY <2>1
    <3>2. pc' # "spill" /\ UNCHANGED <<buffer, bufferBytes, bufferCharge>>
      BY <1>7, <2>2 DEF Grow
    <3> QED
      BY <3>1, <3>2, SameSize
  <2>3. CASE bufferCharge' = 2 * High(capacity, 1) * RowSize /\ UNCHANGED pc
    <3>1. bufferCharge' <= MostCapacity
      BY <2>1, <2>3, GrownSize
    <3>2. UNCHANGED <<buffer, bufferBytes>>
      BY <1>7 DEF Grow
    <3> QED
      BY <1>s, <2>1, <3>1, <3>2 DEF SizeInv
  <2> QED
    BY <1>7, <2>2, <2>3 DEF Grow
<1>8. ASSUME NEW bytes \in Works, SpillOp(bytes) PROVE SizeInv'
  <2>1. CASE SpillAborts
    BY <1>a, <1>8, <2>1 DEF SpillOp, Spilling, Merging, MergePcs
  <2>2. CASE ~SpillAborts
    BY <1>8, <2>2, SameSize DEF SpillOp, Calling
  <2> QED
    BY <2>1, <2>2
<1>9. CASE SpillFails
  BY <1>a, <1>9 DEF SpillFails, Spilling, Spilled, Merging, MergePcs
<1>10. CASE OpDone
  BY <1>10, SameSize DEF OpDone, Calling
<1>11. CASE RunWritten
  BY <1>11, NoSize DEF RunWritten, Calling
<1>12. CASE Carried
  <2>1. buffer' = <<>> /\ bufferBytes' = 0 /\ bufferCharge' = 0 /\ pc' = resume
    <3>1. /\ bufferCharge = Bytes(capacity) /\ capacity = 0
          /\ buffer = <<>> /\ bufferBytes = 0
      BY <1>12 DEF Carried, Ledger, CallInv, Spilled, Spilling
    <3> QED
      BY <1>12, <3>1, BytesType DEF Carried
  <2>2. Total(buffer') = 0 /\ Bytes(Len(buffer')) = 0
    <3>1. buffer' \in Seq(Nat) /\ Len(buffer') = 0
      BY <2>1
    <3> QED
      BY <2>1, <3>1, TotalType, BytesType
  <2> QED
    BY <1>s, <2>1, <2>2 DEF SizeInv
<1>13. CASE Finish
  <2>1. CASE Vanish
    BY <1>v, <2>1
  <2>2. CASE ~Vanish
    BY <1>13, <2>2, SameSize DEF Finish, Calling
  <2> QED
    BY <2>1, <2>2
<1>14. ASSUME NEW equal \in BOOLEAN, StreamRow(equal) PROVE SizeInv'
  BY <1>14, NoSize DEF StreamRow, Calling
<1>15. CASE DropIt
  BY <1>v, <1>15 DEF DropIt
<1>16. CASE CleanedUp
  BY <1>16, SameSize DEF CleanedUp, Calling
<1>17. CASE UNCHANGED vars
  BY <1>17, SameSize DEF vars, Calling
<1>18. ASSUME NEW n \in 1 .. FanIn, NEW g \in Goals, MergeBegins(n, g)
       PROVE  SizeInv'
  <2>1. CASE SpillAborts
    BY <1>a, <1>18, <2>1
    DEF MergeBegins, MayMerge, Spilled, Merging, MergePcs
  <2>2. CASE ~SpillAborts
    BY <1>c, <1>18, <2>2 DEF MergeBegins, NewMerge, MergePcs
  <2> QED
    BY <2>1, <2>2
<1>19. ASSUME NEW bytes \in Works, NEW next \in MergePcs, MergeOp(bytes, next)
       PROVE  SizeInv'
  <2>1. Merging
    BY <1>19 DEF MergeOp, Operates, Merging, MergePcs
  <2> QED
    BY <1>b, <1>c, <1>19, <2>1 DEF MergeOp
<1>20. ASSUME NEW bytes \in Works, NEW size \in Sizes, ReadHead(bytes, size)
       PROVE  SizeInv'
  BY <1>b, <1>c, <1>20 DEF ReadHead, Merging, MergePcs
<1>21. CASE Exhausted
  BY <1>c, <1>21 DEF Exhausted, Refilled, MergePcs
<1>22. CASE ChargeKey
  BY <1>b, <1>c, <1>22 DEF ChargeKey, Refilled, Merging, MergePcs
<1>23. ASSUME NEW source \in DOMAIN heads, Pop(source) PROVE SizeInv'
  BY <1>c, <1>23 DEF Pop, MergePcs
<1>24. CASE Written
  BY <1>c, <1>24 DEF Written, MergePcs
<1>25. CASE MergeDone
  <2>1. goal \in Goals
    BY DEF Ledger, MergeTypes
  <2> QED
    BY <1>25, <2>1, NoSize DEF MergeDone, Goals, Calling
<1>26. CASE MergeFails
  BY <1>b, <1>26 DEF MergeFails, Merging
<1>27. CASE StreamBegins
  BY <1>c, <1>27 DEF StreamBegins, MergePcs
<1>28. CASE DedupRefused
  BY <1>b, <1>28 DEF DedupRefused, Merging, MergePcs
<1>29. CASE StreamDrained
  BY <1>29, NoSize DEF StreamDrained, Calling
<1>30. ASSUME NEW equal \in BOOLEAN, MergedRow(equal) PROVE SizeInv'
  BY <1>c, <1>30 DEF MergedRow, MergePcs
<1> QED
  BY <1>1, <1>2, <1>3, <1>4, <1>5, <1>6, <1>7, <1>8, <1>9, <1>10, <1>11,
     <1>12, <1>13, <1>14, <1>15, <1>16, <1>17, <1>18, <1>19, <1>20, <1>21,
     <1>22, <1>23, <1>24, <1>25, <1>26, <1>27, <1>28, <1>29, <1>30 DEF Next

-----------------------------------------------------------------------------
(***************************************************************************)
(* Where the budget has room for the session, it never gets in its own     *)
(* way.                                                                    *)
(***************************************************************************)
\* A merge has as many heads as a merge may, each a row of a caller's.
HeadRoom ==
  /\ Len(heads) <= FanIn
  /\ \A i \in 1 .. Len(heads) : heads[i] <= Unit
  /\ popped <= Unit /\ fresh <= Unit /\ last <= Unit

\* A buffer that is spilled holds the threshold and one row at most.
RoomInv ==
  Roomy =>
    /\ ~refused
    /\ row <= Unit
    /\ pc = "spill" => 8 * (row + Total(buffer)) <= 2 * Limit
    /\ Merging => HeadRoom

\* What a reservation can ask for, and what the vector can take.
LEMMA Shares ==
  ASSUME Roomy
  PROVE  /\ Limit \in Nat /\ Metadata \in Nat /\ 8 * Metadata <= Limit
         /\ MostBuffered \in Nat /\ 8 * MostBuffered <= Limit
         /\ MostCapacity \in Nat /\ 8 * MostCapacity <= 2 * Limit
         /\ Unit \in Nat /\ 8 * Unit <= Limit /\ Metadata <= Unit
         /\ \A bytes \in Works : /\ bytes \in Nat /\ bytes <= Unit
                                 /\ 8 * bytes <= Limit
         /\ \A size \in Sizes : /\ High(size, RowSize) \in Nat
                                /\ High(size, RowSize) <= Unit
                                /\ 8 * High(size, RowSize) <= Limit
<1> USE SizesAssumption
<1>u. /\ Unit \in Nat /\ Limit \in Nat /\ 8 * Unit <= Limit
      /\ \A n \in Items : n \in Nat /\ n <= Unit
  BY Units
<1>i. \A n \in Items : n \in Nat /\ n <= Unit /\ 8 * n <= Limit
  <2> SUFFICES ASSUME NEW n \in Items
               PROVE  n \in Nat /\ n <= Unit /\ 8 * n <= Limit
    OBVIOUS
  <2>1. n \in Nat /\ n <= Unit
    BY <1>u
  <2> QED
    BY <1>u, <2>1
<1>1. /\ Limit \in Nat /\ Metadata \in Nat /\ 8 * Metadata <= Limit
      /\ Unit \in Nat /\ 8 * Unit <= Limit /\ Metadata <= Unit
      /\ \A bytes \in Works : /\ bytes \in Nat /\ bytes <= Unit
                              /\ 8 * bytes <= Limit
  BY <1>u, <1>i DEF Items
<1>2. \A size \in Sizes : /\ High(size, RowSize) \in Nat
                          /\ High(size, RowSize) <= Unit
                          /\ 8 * High(size, RowSize) <= Limit
  <2>1. ASSUME NEW size \in Sizes PROVE High(size, RowSize) \in Items
    BY DEF High, Items
  <2> QED
    BY <1>i, <2>1
<1>3. MostBuffered \in Nat /\ 8 * MostBuffered <= Limit
  BY Thresholds
<1>4. MostCapacity \in Nat /\ 8 * MostCapacity <= 2 * Limit
  <2>1. /\ High(MostBuffered, RowSize) \in Nat
        /\ 8 * High(MostBuffered, RowSize) <= Limit
    BY <1>3, Thresholds DEF High
  <2> QED
    BY <1>1, <2>1 DEF MostCapacity
<1> QED
  BY <1>1, <1>2, <1>3, <1>4

\* Nothing is charged for a merge where there is none.
LEMMA NoMerge ==
  ASSUME Ledger, MergeInv, ~Merging, pc # "ended", work = 0
  PROVE  Merged = 0 /\ InMerge = 0 /\ fresh = 0 /\ popped = 0 /\ heads = <<>>
<1>1. heads = <<>> /\ popped = 0 /\ fresh = 0
  BY DEF MergeInv, Merging, MergePcs
<1>2. InMerge = 0
  BY <1>1, MergeWeight, WeightType DEF Ledger, MergeTypes
<1> QED
  BY <1>1, <1>2 DEF Merged

\* What a session that can be called holds.
LEMMA CallRoom ==
  ASSUME Ledger, CallInv, MergeInv, SizeInv, Roomy, Calling
  PROVE  /\ work = 0 /\ last = 0 /\ Merged = 0 /\ 8 * metadata <= Limit
         /\ 8 * Total(buffer) <= Limit /\ 8 * bufferCharge <= 2 * Limit
<1>1. work = 0 /\ last = 0 /\ metadata \in {0, Metadata}
  BY DEF CallInv
<1>m. Merged = 0
  BY <1>1, NoMerge DEF Calling, Merging, MergePcs
<1>2. 8 * metadata <= Limit
  BY <1>1, Shares
<1>3. 8 * Total(buffer) <= Limit
  <2>1. CASE buffer = <<>>
    <3>1. Total(buffer) = 0
      BY <2>1, TotalType DEF Ledger
    <3> QED
      BY <3>1, Shares
  <2>2. CASE bufferBytes < MostBuffered
    <3>1. Total(buffer) = bufferBytes /\ bufferBytes \in Nat
      BY DEF SizeInv, Ledger
    <3> QED
      BY <2>2, <3>1, Shares
  <2> QED
    BY <2>1, <2>2 DEF SizeInv
<1>4. 8 * bufferCharge <= 2 * Limit
  <2>1. bufferCharge \in Nat /\ bufferCharge <= MostCapacity
    BY DEF SizeInv, Ledger
  <2> QED
    BY <2>1, Shares
<1> QED
  BY <1>1, <1>m, <1>2, <1>3, <1>4

\* What a merge holds between two operations, by its largest item: its metadata
\* and the row or the key beside it, its arrays, and two items for each source,
\* but for the one that has no head.
LEMMA MergeHeld ==
  ASSUME Ledger, CallInv, MergeInv, SlotInv, RoomInv, Roomy, Merging, work = 0,
         others = 0
  PROVE  LET full == FanIn * SourceBytes + 2 * (FanIn * Unit) + 2 * Unit IN
         /\ full \in Nat /\ full + 2 * Unit <= Limit
         /\ popped <= Unit /\ fresh <= Unit
         /\ used <= full + popped + fresh
         /\ pc \in {"head", "key"} => used + 2 * Unit <= full + popped + fresh
<1> DEFINE full == FanIn * SourceBytes + 2 * (FanIn * Unit) + 2 * Unit
<1>u. /\ Unit \in Nat /\ Limit \in Nat /\ Metadata <= Unit /\ Metadata \in Nat
      /\ FanIn * Unit \in Nat /\ FanIn * SourceBytes \in Nat
      /\ 2 * (FanIn * Unit) + 4 * Unit + FanIn * SourceBytes <= Limit
  BY Units, Shares
<1>1. HeadRoom /\ row <= Unit
  BY DEF RoomInv
<1>2. /\ heads \in Seq(Nat) /\ Len(heads) \in Nat /\ Len(heads) <= FanIn
      /\ FanIn \in Nat /\ SourceBytes \in Nat /\ Total(heads) \in Nat
      /\ \A i \in 1 .. Len(heads) : heads[i] <= Unit
  BY <1>1, MergeAssumption, LenProperties, TotalType
  DEF HeadRoom, Ledger, MergeTypes
<1>3. /\ Len(heads) * SourceBytes \in Nat
      /\ Len(heads) * SourceBytes <= FanIn * SourceBytes
      /\ Len(heads) * Unit <= FanIn * Unit /\ Len(heads) * Unit \in Nat
  BY <1>2, <1>u, Products
<1>8. PICK arrays \in Nat, rows \in Nat, most \in Nat, all \in Nat,
           units \in Nat :
        /\ arrays = Len(heads) * SourceBytes /\ rows = Total(heads)
        /\ most = FanIn * SourceBytes /\ all = FanIn * Unit
        /\ units = Len(heads) * Unit
  BY <1>2, <1>3, <1>u
<1>4. rows <= all
  <2>1. Total(heads) <= Len(heads) * Unit
    BY <1>2, <1>u, TotalBound
  <2>2. rows <= units /\ units <= all
    BY <1>3, <1>8, <2>1, Zenon
  <2> QED
    BY <2>2
<1>5. pc \in {"head", "key"} => rows + Unit <= all
  <2> SUFFICES ASSUME pc \in {"head", "key"} PROVE rows + Unit <= all
    OBVIOUS
  <2> DEFINE s == [heads EXCEPT ![at] = Unit]
  <2>1. at \in 1 .. Len(heads) /\ heads[at] = 0
    BY DEF SlotInv
  <2>2. /\ s \in Seq(Nat) /\ Len(s) = Len(heads)
        /\ s[at] = Unit /\ \A n \in 1 .. Len(heads) : n # at => s[n] = heads[n]
        /\ Total(s) + heads[at] = Total(heads) + Unit
    <3>1. heads \in Seq(Nat) /\ Unit \in Nat
      BY <1>2, <1>u
    <3> QED
      BY <2>1, <3>1, TotalExcept
  <2> HIDE DEF s
  <2>3. \A n \in 1 .. Len(s) : s[n] <= Unit
    BY <1>2, <1>u, <2>2
  <2>4. Total(s) <= Len(s) * Unit /\ Total(s) \in Nat
    BY <1>u, <2>2, <2>3, TotalBound, TotalType
  <2>5. /\ Total(s) <= units /\ units <= all
        /\ Total(s) + 0 = rows + Unit
    BY <1>3, <1>8, <2>1, <2>2, <2>4, Zenon
  <2> QED
    BY <1>u, <2>4, <2>5
<1>6. used <= 2 * Unit + (InMerge + fresh)
  <2>1. /\ Total(buffer) = 0 /\ bufferCharge = 0
    <3>1. buffer = <<>> /\ capacity = 0
      BY DEF CallInv, Spilled
    <3> QED
      BY <3>1, TotalType, BytesType DEF Ledger
  <2>2. metadata \in {0, Metadata}
    BY DEF CallInv
  <2>3. row = 0 \/ last = 0
    BY DEF CallInv, Holding, Spilling, Merging, MergePcs
  <2>4. /\ row \in Nat /\ last \in Nat /\ row <= Unit /\ last <= Unit
        /\ InMerge + fresh \in Nat
        /\ used = 0 + metadata + row + 0 + last + 0 + 0 + (InMerge + fresh)
    BY <1>1, <2>1 DEF Ledger, MergeTypes, Merged, HeadRoom
  <2> QED
    BY <1>u, <2>2, <2>3, <2>4
<1>7. /\ used \in Nat /\ popped \in Nat /\ fresh \in Nat
      /\ popped <= Unit /\ fresh <= Unit
  BY <1>1 DEF Ledger, MergeTypes, HeadRoom
<1>9. /\ arrays <= most /\ rows <= all
      /\ pc \in {"head", "key"} => rows + Unit <= all
      /\ used <= 2 * Unit + ((arrays + 2 * rows + popped) + fresh)
      /\ 2 * all + 4 * Unit + most <= Limit
  BY <1>3, <1>4, <1>5, <1>6, <1>u, <1>8 DEF InMerge
<1>10. /\ most + 2 * all + 2 * Unit \in Nat
       /\ (most + 2 * all + 2 * Unit) + 2 * Unit <= Limit
       /\ used <= (most + 2 * all + 2 * Unit) + popped + fresh
       /\ pc \in {"head", "key"} =>
            used + 2 * Unit <= (most + 2 * all + 2 * Unit) + popped + fresh
  BY <1>7, <1>9, <1>u
<1> QED
  BY <1>7, <1>8, <1>10

\* A refusal is not held against a session that has room without the others.
LEMMA NotAlone ==
  ASSUME Ledger, NEW bytes \in Nat, Refuse(bytes),
         others = 0 => used + bytes <= Limit
  PROVE  refused' = refused
<1>1. PICK limit \in Limits :
        /\ used + bytes > limit
        /\ refused' = (refused \/ (others = 0 /\ limit = Limit))
  BY DEF Refuse
<1>2. ~(others = 0 /\ limit = Limit)
  <2> SUFFICES ASSUME others = 0, limit = Limit PROVE FALSE
    OBVIOUS
  <2>1. used + bytes <= Limit /\ used + bytes > Limit
    BY <1>1
  <2>2. used + bytes \in Nat /\ Limit \in Nat
    BY SizesAssumption DEF Ledger
  <2> QED
    BY <2>1, <2>2
<1> QED
  BY <1>1, <1>2 DEF Ledger

\* Nothing is refused, and no row, spill or merge is new.
LEMMA SameRoom ==
  ASSUME Ledger, RoomInv, refused' = refused, row' \in {0, row},
         pc' = "spill" => pc = "spill" /\ row' = row /\ buffer' = buffer,
         Merging' => /\ Merging /\ fresh' \in {0, fresh}
                     /\ UNCHANGED <<heads, popped, last>>
  PROVE  RoomInv'
<1> SUFFICES ASSUME Roomy PROVE RoomInv'
  BY DEF RoomInv, Roomy, Items
<1>0. Unit' = Unit /\ Unit \in Nat
  BY Units DEF Unit, Items
<1>1. ~refused' /\ row <= Unit
  BY DEF RoomInv
<1>2. row' <= Unit
  <2>1. row' = 0 \/ row' = row
    OBVIOUS
  <2> QED
    BY <1>0, <1>1, <2>1
<1>3. pc' = "spill" => 8 * (row' + Total(buffer')) <= 2 * Limit
  BY DEF RoomInv
<1>4. Merging' => HeadRoom'
  <2> SUFFICES ASSUME Merging' PROVE HeadRoom'
    OBVIOUS
  <2>1. HeadRoom
    BY DEF RoomInv
  <2> QED
    BY <1>0, <2>1 DEF HeadRoom
<1> QED
  BY <1>0, <1>1, <1>2, <1>3, <1>4 DEF RoomInv

\* A step of a merge that goes on.
LEMMA MergeRoom ==
  ASSUME Ledger, RoomInv, Roomy, refused' = refused, row' = row, pc' # "spill",
         Merging' => HeadRoom'
  PROVE  RoomInv'
<1>1. Unit' = Unit /\ ~refused /\ row <= Unit
  BY DEF Unit, Items, RoomInv
<1> QED
  BY <1>1 DEF RoomInv

LEMMA RoomStep ==
  ASSUME Ledger, CallInv, MergeInv, SlotInv, SizeInv, RoomInv, [Next]_vars
  PROVE  RoomInv'
<1> USE SizesAssumption
<1> USE DEF rowVars
<1> SUFFICES ASSUME Roomy PROVE RoomInv'
  BY DEF RoomInv, Roomy, Items
<1>0. /\ others \in Nat /\ metadata \in Nat /\ row \in Nat /\ work \in Nat
      /\ last \in Nat /\ Total(buffer) \in Nat /\ bufferCharge \in Nat
      /\ used \in Nat /\ Limit \in Nat /\ Merged \in Nat
      /\ used = others + metadata + row + work + last + Total(buffer)
                  + bufferCharge + Merged
  BY DEF Ledger, MergeTypes
<1>t. /\ heads \in Seq(Nat) /\ at \in Nat /\ fresh \in Nat /\ popped \in Nat
  BY DEF Ledger, MergeTypes
<1>u. Unit \in Nat /\ Unit' = Unit /\ 8 * Unit <= Limit
  BY Shares DEF Unit, Items
<1>r. ~refused /\ 8 * row <= Limit /\ row <= Unit
  <2>1. ~refused /\ row <= Unit
    BY DEF RoomInv
  <2> QED
    BY <1>0, <1>u, <2>1
<1>h. Merging => HeadRoom
  BY DEF RoomInv
<1> USE DEF Merging, MergePcs
<1>v. Vanish /\ refused' = refused => RoomInv'
  BY SameRoom DEF Vanish
<1>a. SpillAborts /\ refused' = refused => RoomInv'
  BY <1>v, SameRoom DEF SpillAborts
<1>b. MergeAborts /\ refused' = refused => RoomInv'
  BY <1>a, SameRoom DEF MergeAborts
<1>1. CASE OthersMove
  BY <1>1, SameRoom DEF OthersMove, mergeVars
<1>2. CASE Push
  BY <1>2, SameRoom DEF Push
<1>3. CASE ReserveMetadata
  <2>1. CASE Refuse(Metadata)
    <3>1. Calling /\ row = 0 /\ metadata = 0 /\ Total(buffer) = 0
          /\ bufferCharge = 0
      <4>1. Calling /\ pc = "metadata" /\ ~Holding
        BY <1>3 DEF ReserveMetadata, Calling, Holding, Spilling
      <4>2. metadata = 0 /\ row = 0 /\ buffer = <<>> /\ capacity = 0
        BY <4>1 DEF CallInv
      <4> QED
        BY <4>1, <4>2, TotalType, BytesType DEF Ledger
    <3>2. others = 0 => used + Metadata <= Limit
      BY <1>0, <3>1, CallRoom, Shares
    <3>3. refused' = refused
      BY <2>1, <3>2, NotAlone
    <3> QED
      BY <1>3, <3>3, SameRoom DEF ReserveMetadata
  <2>2. CASE ~Refuse(Metadata)
    BY <1>3, <2>2, SameRoom DEF ReserveMetadata, Reserve
  <2> QED
    BY <2>1, <2>2
<1>4. ASSUME NEW size \in Sizes, ReserveRow(size) PROVE RoomInv'
  <2> DEFINE bytes == High(size, RowSize)
  <2>1. bytes \in Nat /\ 8 * bytes <= Limit /\ bytes <= Unit
    BY Shares
  <2> HIDE DEF bytes
  <2>2. CASE Refuse(bytes) /\ UNCHANGED row /\ pc' = "idle"
    <3>1. Calling /\ row = 0
      <4>1. pc = "row"
        BY <1>4 DEF ReserveRow
      <4> QED
        BY <4>1 DEF CallInv, Calling, Holding, Spilling
    <3>2. others = 0 => used + bytes <= Limit
      BY <1>0, <2>1, <3>1, CallRoom
    <3>3. refused' = refused
      BY <2>1, <2>2, <3>2, NotAlone
    <3> QED
      BY <2>2, <3>3, SameRoom
  <2>3. CASE Reserve(bytes) /\ row' = bytes /\ pc' = "full"
    BY <1>r, <1>u, <2>1, <2>3 DEF Reserve, RoomInv
  <2> QED
    BY <1>4, <2>2, <2>3 DEF ReserveRow, bytes
<1>5. ASSUME NEW limit \in Limits, Fits(limit) PROVE RoomInv'
  <2>1. Calling /\ UNCHANGED <<row, buffer, refused>> /\ ~Merging'
    BY <1>5 DEF Fits, Calling
  <2>2. 8 * (row + Total(buffer)) <= 2 * Limit
    BY <1>0, <1>r, <2>1, CallRoom
  <2> QED
    BY <1>r, <1>u, <2>1, <2>2 DEF RoomInv
<1>6. ASSUME NEW limit \in Limits, PushRow(limit) PROVE RoomInv'
  <2>1. /\ Calling /\ ~Merging' /\ UNCHANGED refused
        /\ row' = 0 /\ buffer' = Append(buffer, row)
    BY <1>6 DEF PushRow, Calling
  <2>2. Total(buffer') = Total(buffer) + row
    BY <1>0, <2>1, TotalAppend DEF Ledger
  <2>3. 8 * (0 + (Total(buffer) + row)) <= 2 * Limit
    BY <1>0, <1>r, <2>1, CallRoom
  <2> QED
    BY <1>r, <1>u, <1>0, <2>1, <2>2, <2>3 DEF RoomInv
<1>7. CASE Grow
  <2> DEFINE bytes == 2 * High(capacity, 1) * RowSize
  <2>1. /\ Calling /\ Len(buffer) = capacity /\ pc' # "spill" /\ ~Merging'
        /\ row' \in {0, row}
    BY <1>7 DEF Grow, Calling
  <2>2. bytes \in Nat /\ 8 * bytes <= 2 * Limit
    <3>1. bytes <= MostCapacity
      BY <2>1, GrownSize
    <3>2. bytes \in Nat
      <4>1. 2 * High(capacity, 1) \in Nat
        BY DEF Ledger, High
      <4> QED
        BY <4>1, BytesType DEF Bytes
    <3> HIDE DEF bytes
    <3> QED
      BY <3>1, <3>2, Shares
  <2> HIDE DEF bytes
  <2>3. CASE Refuse(bytes)
    <3>1. others = 0 => used + bytes <= Limit
      BY <1>0, <1>r, <2>1, <2>2, CallRoom
    <3>2. refused' = refused
      BY <2>2, <2>3, <3>1, NotAlone
    <3> QED
      BY <2>1, <3>2, SameRoom
  <2>4. CASE UNCHANGED refused
    BY <2>1, <2>4, SameRoom
  <2> QED
    BY <1>7, <2>3, <2>4 DEF Grow, bytes
<1>8. ASSUME NEW bytes \in Works, SpillOp(bytes) PROVE RoomInv'
  <2>1. bytes \in Nat /\ 8 * bytes <= Limit
    BY Shares
  <2>2. CASE Refuse(bytes) /\ SpillAborts
    <3>1. pc = "spill" /\ work = 0
      BY <1>8 DEF SpillOp
    <3>2. last = 0 /\ metadata = Metadata
      BY <3>1 DEF CallInv, Spilling
    <3>3. bufferCharge <= MostCapacity /\ 8 * (row + Total(buffer)) <= 2 * Limit
      BY <3>1 DEF SizeInv, RoomInv
    <3>4. others = 0 => used + bytes <= Limit
      <4>1. Merged = 0
        BY <3>1, NoMerge
      <4> QED
        BY <1>0, <2>1, <3>1, <3>2, <3>3, <4>1, Shares
    <3>5. refused' = refused
      BY <2>1, <2>2, <3>4, NotAlone
    <3> QED
      BY <1>a, <2>2, <3>5
  <2>3. CASE Reserve(bytes) /\ UNCHANGED <<buffer, row, pc, last, mergeVars>>
    BY <2>3, SameRoom DEF Reserve, mergeVars
  <2> QED
    BY <1>8, <2>2, <2>3 DEF SpillOp
<1>9. CASE SpillFails
  BY <1>a, <1>9 DEF SpillFails
<1>10. CASE OpDone
  BY <1>10, SameRoom DEF OpDone
<1>11. CASE RunWritten
  BY <1>11, SameRoom DEF RunWritten
<1>12. CASE Carried
  BY <1>0, <1>12, SameRoom DEF Carried, Ledger
<1>13. CASE Finish
  <2>1. CASE Vanish
    BY <1>v, <1>13, <2>1 DEF Finish
  <2>2. CASE pc' = "spill" /\ ~failed /\ UNCHANGED <<buffer, row>>
    <3>1. Calling /\ row = 0 /\ UNCHANGED refused
      BY <1>13, <2>2 DEF Finish, Calling, CallInv, Holding, Spilling
    <3>2. 8 * (0 + Total(buffer)) <= 2 * Limit
      BY <1>0, <3>1, CallRoom
    <3> QED
      BY <1>r, <2>2, <3>1, <3>2 DEF RoomInv
  <2>3. CASE pc' # "spill" /\ ~Vanish
    BY <1>13, <2>3, SameRoom DEF Finish
  <2> QED
    BY <1>13, <2>1, <2>2, <2>3 DEF Finish
<1>14. ASSUME NEW equal \in BOOLEAN, StreamRow(equal) PROVE RoomInv'
  BY <1>14, SameRoom DEF StreamRow
<1>15. CASE DropIt
  BY <1>v, <1>15 DEF DropIt
<1>16. CASE CleanedUp
  BY <1>16, SameRoom DEF CleanedUp
<1>17. CASE UNCHANGED vars
  BY <1>17, SameRoom DEF vars, mergeVars
<1>18. ASSUME NEW n \in 1 .. FanIn, NEW g \in Goals, MergeBegins(n, g)
       PROVE  RoomInv'
  <2>1. /\ pc \in {"carry", "cascade"} /\ n \in Nat /\ n <= FanIn /\ work = 0
    BY <1>18, MergeAssumption DEF MergeBegins, MayMerge, CallInv
  <2>2. Merged = 0 /\ fresh = 0 /\ popped = 0
    BY <2>1, NoMerge
  <2>3. CASE Refuse(n * SourceBytes) /\ SpillAborts
    <3>1. /\ last = 0 /\ Total(buffer) = 0 /\ bufferCharge = 0
          /\ metadata \in {0, Metadata}
      <4>1. /\ buffer = <<>> /\ capacity = 0 /\ last = 0
            /\ metadata \in {0, Metadata}
        BY <2>1 DEF CallInv, MergeInv, Spilled
      <4> QED
        BY <4>1, TotalType, BytesType DEF Ledger
    <3>2. /\ n * SourceBytes \in Nat /\ FanIn * SourceBytes \in Nat
          /\ n * SourceBytes <= FanIn * SourceBytes
      BY <2>1, MergeAssumption, Products
    <3>3. PICK asked \in Nat, most \in Nat, all \in Nat :
            /\ asked = n * SourceBytes /\ most = FanIn * SourceBytes
            /\ asked <= most /\ 2 * all + 4 * Unit + most <= Limit
      BY <3>2, Units
    <3>4. metadata <= Unit
      BY <1>u, <3>1, Shares
    <3>5. others = 0 => used + asked <= Limit
      BY <1>0, <1>r, <1>u, <2>1, <2>2, <3>1, <3>3, <3>4
    <3>6. refused' = refused
      BY <2>3, <3>2, <3>3, <3>5, NotAlone
    <3> QED
      BY <1>a, <2>3, <3>6
  <2>4. CASE /\ Reserve(n * SourceBytes) /\ heads' = [i \in 1 .. n |-> 0]
             /\ UNCHANGED <<row, last, fresh, popped>> /\ pc' = "open"
    <3>1. last = 0
      BY <2>1 DEF CallInv, MergeInv, Spilled
    <3>2. Len(heads') = n /\ \A i \in 1 .. n : heads'[i] = 0
      BY <2>1, <2>4, NoHeads
    <3>3. HeadRoom'
      BY <1>u, <2>1, <2>2, <2>4, <3>1, <3>2 DEF HeadRoom
    <3> QED
      BY <2>4, <3>3, MergeRoom DEF Reserve
  <2> QED
    BY <1>18, <2>3, <2>4 DEF MergeBegins, NewMerge
<1>19. ASSUME NEW bytes \in Works, NEW next \in MergePcs, MergeOp(bytes, next)
       PROVE  RoomInv'
  <2>1. /\ Merging /\ pc \notin {"head", "key"} /\ work = 0
        /\ bytes \in Nat /\ bytes <= Unit
    BY <1>19, Shares DEF MergeOp, Operates
  <2>2. CASE Refuse(bytes) /\ MergeAborts
    <3>1. fresh = 0
      BY <2>1 DEF MergeInv
    <3>2. others = 0 => used + bytes <= Limit
      <4> SUFFICES ASSUME others = 0 PROVE used + bytes <= Limit
        OBVIOUS
      <4>1. PICK full \in Nat :
              /\ full + 2 * Unit <= Limit /\ popped <= Unit
              /\ used <= full + popped + fresh
        BY <2>1, MergeHeld
      <4> QED
        BY <1>0, <1>t, <1>u, <2>1, <3>1, <4>1
    <3>3. refused' = refused
      BY <2>1, <2>2, <3>2, NotAlone
    <3> QED
      BY <1>b, <2>2, <3>3
  <2>3. CASE Reserve(bytes) /\ UNCHANGED <<row, last, mergeVars>> /\ pc' = next
    BY <2>1, <2>3, SameRoom DEF Reserve, mergeVars
  <2> QED
    BY <1>19, <2>2, <2>3 DEF MergeOp
<1>20. ASSUME NEW bytes \in Works, NEW size \in Sizes, ReadHead(bytes, size)
       PROVE  RoomInv'
  <2> DEFINE head == High(size, RowSize)
  <2>1. /\ Merging /\ pc = "head" /\ work = 0 /\ bytes \in Nat
        /\ bytes <= Unit /\ head \in Nat /\ head <= Unit
    BY <1>20, Shares DEF ReadHead
  <2> HIDE DEF head
  <2>2. CASE Refuse(bytes + head) /\ MergeAborts
    <3>1. fresh = 0 /\ bytes + head \in Nat
      BY <2>1 DEF MergeInv
    <3>2. others = 0 => used + (bytes + head) <= Limit
      <4> SUFFICES ASSUME others = 0 PROVE used + (bytes + head) <= Limit
        OBVIOUS
      <4>1. PICK full \in Nat :
              /\ full + 2 * Unit <= Limit /\ popped <= Unit
              /\ used + 2 * Unit <= full + popped + fresh
        BY <2>1, MergeHeld
      <4> QED
        BY <1>0, <1>t, <1>u, <2>1, <3>1, <4>1
    <3>3. refused' = refused
      BY <2>2, <3>1, <3>2, NotAlone
    <3> QED
      BY <1>b, <2>2, <3>3
  <2>3. CASE /\ Reserve(bytes + head) /\ fresh' = head /\ pc' = "key"
             /\ UNCHANGED <<row, last, heads, popped>>
    <3>1. HeadRoom'
      BY <1>h, <1>u, <2>1, <2>3 DEF HeadRoom
    <3> QED
      BY <2>3, <3>1, MergeRoom DEF Reserve
  <2> QED
    BY <1>20, <2>2, <2>3 DEF ReadHead, head
<1>21. CASE Exhausted
  BY <1>21, SameRoom DEF Exhausted, Refilled
<1>22. CASE ChargeKey
  <2>1. Merging /\ pc = "key" /\ work = 0
    BY <1>22 DEF ChargeKey
  <2>2. CASE Refuse(fresh) /\ MergeAborts
    <3>1. others = 0 => used + fresh <= Limit
      <4> SUFFICES ASSUME others = 0 PROVE used + fresh <= Limit
        OBVIOUS
      <4>1. PICK full \in Nat :
              /\ full + 2 * Unit <= Limit /\ popped <= Unit /\ fresh <= Unit
              /\ used + 2 * Unit <= full + popped + fresh
        BY <2>1, MergeHeld
      <4> QED
        BY <1>0, <1>t, <1>u, <4>1
    <3>2. refused' = refused
      BY <1>t, <2>2, <3>1, NotAlone
    <3> QED
      BY <1>b, <2>2, <3>2
  <2>3. CASE /\ Reserve(fresh) /\ heads' = [heads EXCEPT ![at] = fresh]
             /\ fresh' = 0 /\ Refilled /\ UNCHANGED <<row, last, popped>>
    <3>1. HeadRoom /\ at \in 1 .. Len(heads)
      BY <1>h, <2>1 DEF SlotInv
    <3>2. /\ Len(heads') = Len(heads)
          /\ \A i \in 1 .. Len(heads) : heads'[i] <= Unit
      BY <1>t, <2>3, <3>1 DEF HeadRoom
    <3>3. HeadRoom'
      BY <1>u, <2>3, <3>1, <3>2 DEF HeadRoom
    <3> QED
      BY <2>3, <3>3, MergeRoom DEF Reserve, Refilled
  <2> QED
    BY <1>22, <2>2, <2>3 DEF ChargeKey
<1>23. ASSUME NEW source \in DOMAIN heads, Pop(source) PROVE RoomInv'
  <2>1. /\ Merging /\ pc' = "head" /\ popped' = heads[source]
        /\ heads' = [heads EXCEPT ![source] = 0]
        /\ UNCHANGED <<row, last, fresh, refused>>
    BY <1>23 DEF Pop
  <2>2. HeadRoom /\ source \in 1 .. Len(heads)
    BY <1>h, <1>t, <2>1, LenProperties
  <2>3. /\ Len(heads') = Len(heads)
        /\ \A i \in 1 .. Len(heads) : heads'[i] <= Unit
    BY <1>t, <1>u, <2>1, <2>2 DEF HeadRoom
  <2>4. HeadRoom'
    BY <1>u, <2>1, <2>2, <2>3 DEF HeadRoom
  <2> QED
    BY <2>1, <2>4, MergeRoom
<1>24. CASE Written
  <2>1. HeadRoom'
    BY <1>h, <1>u, <1>24 DEF Written, HeadRoom
  <2> QED
    BY <1>24, <2>1, MergeRoom DEF Written
<1>25. CASE MergeDone
  <2>1. goal \in Goals
    BY DEF Ledger, MergeTypes
  <2> QED
    BY <1>25, <2>1, SameRoom DEF MergeDone, Goals
<1>26. CASE MergeFails
  BY <1>b, <1>26 DEF MergeFails
<1>27. CASE StreamBegins
  BY <1>27, SameRoom DEF StreamBegins
<1>28. CASE DedupRefused
  <2>1. Merging /\ pc = "out" /\ work = 0 /\ Refuse(popped) /\ MergeAborts
    BY <1>28 DEF DedupRefused, CallInv
  <2>2. fresh = 0
    BY <2>1 DEF MergeInv
  <2>3. others = 0 => used + popped <= Limit
    <3> SUFFICES ASSUME others = 0 PROVE used + popped <= Limit
      OBVIOUS
    <3>1. PICK full \in Nat :
            /\ full + 2 * Unit <= Limit /\ popped <= Unit
            /\ used <= full + popped + fresh
      BY <2>1, MergeHeld
    <3> QED
      BY <1>0, <1>t, <1>u, <2>2, <3>1
  <2>4. refused' = refused
    BY <1>t, <2>1, <2>3, NotAlone
  <2> QED
    BY <1>b, <2>1, <2>4
<1>29. CASE StreamDrained
  BY <1>29, SameRoom DEF StreamDrained
<1>30. ASSUME NEW equal \in BOOLEAN, MergedRow(equal) PROVE RoomInv'
  <2>1. /\ Merging /\ popped' = 0 /\ last' \in {last, popped} /\ pc' = "merge"
        /\ UNCHANGED <<row, heads, fresh, refused>>
    BY <1>30 DEF MergedRow
  <2>2. HeadRoom'
    BY <1>h, <1>u, <2>1 DEF HeadRoom
  <2> QED
    BY <2>1, <2>2, MergeRoom
<1> QED
  BY <1>1, <1>2, <1>3, <1>4, <1>5, <1>6, <1>7, <1>8, <1>9, <1>10, <1>11,
     <1>12, <1>13, <1>14, <1>15, <1>16, <1>17, <1>18, <1>19, <1>20, <1>21,
     <1>22, <1>23, <1>24, <1>25, <1>26, <1>27, <1>28, <1>29, <1>30 DEF Next

-----------------------------------------------------------------------------
(***************************************************************************)
(* The theorems.                                                           *)
(***************************************************************************)
BufferInv ==
  Ledger /\ CallInv /\ MergeInv /\ SlotInv /\ SizeInv /\ RoomInv

\* The inductive invariant: the exact ledger needs what each step of a call and
\* of its merge holds, the sizes need the ledger, and that nothing is refused
\* needs them all.
LEMMA BufferInvariance ==
  Spec => []BufferInv
<1>1. Init => BufferInv
  <2> SUFFICES ASSUME Init PROVE BufferInv
    OBVIOUS
  <2> USE SizesAssumption
  <2>1. buffer \in Seq(Nat) /\ Total(buffer) = 0 /\ Len(buffer) = 0
    <3>1. buffer = <<>> /\ buffer \in Seq(Nat)
      BY DEF Init
    <3> QED
      BY <3>1, TotalType
  <2>2. Ledger
    <3>1. Bytes(capacity) = 0
      BY BytesType DEF Init
    <3>2. 0 = 0 + 0 + 0 + 0 + 0 + 0 + 0 + 0
      OBVIOUS
    <3>3. /\ bufferBytes = 0 /\ capacity = 0 /\ bufferCharge = 0
          /\ metadata = 0 /\ row = 0 /\ work = 0 /\ last = 0
          /\ used = 0 /\ others = 0
          /\ armed = FALSE /\ failed = FALSE /\ refused = FALSE
          /\ pc = "idle" /\ resume = "idle"
      BY DEF Init
    <3>m. MergeTypes /\ Merged = 0
      <4>1. heads = <<>> /\ heads \in Seq(Nat) /\ at = 0 /\ fresh = 0
            /\ popped = 0 /\ goal = "carry"
        BY DEF Init
      <4>2. InMerge = 0
        BY <4>1, MergeWeight, WeightType
      <4>3. goal \in Goals
        BY <4>1 DEF Goals
      <4> QED
        BY <4>1, <4>2, <4>3 DEF MergeTypes, Merged
    <3>4. used = others + metadata + row + work + last + Total(buffer)
                   + bufferCharge + Merged
      BY <2>1, <3>2, <3>3, <3>m
    <3>5. /\ bufferBytes \in Nat /\ capacity \in Nat /\ bufferCharge \in Nat
          /\ metadata \in Nat /\ row \in Nat /\ work \in Nat /\ last \in Nat
          /\ used \in Nat /\ others \in Nat /\ Total(buffer) \in Nat
          /\ bufferCharge = Bytes(capacity)
      BY <2>1, <3>1, <3>3
    <3>6. /\ armed \in BOOLEAN /\ failed \in BOOLEAN /\ refused \in BOOLEAN
          /\ pc \in Pcs /\ resume \in {"idle", "grow", "cascade"}
      BY <3>3 DEF Pcs
    <3> QED
      BY <2>1, <3>4, <3>5, <3>6, <3>m, Zenon DEF Ledger
  <2>3. CallInv
    BY DEF Init, CallInv, Calling, Holding, Spilling, Spilled, Merging,
           MergePcs
  <2>m. MergeInv /\ SlotInv
    BY DEF Init, MergeInv, SlotInv, Merging, MergePcs
  <2>4. SizeInv
    BY <2>1, BytesType, Thresholds DEF Init, SizeInv, MostCapacity, High
  <2>5. RoomInv
    <3>1. Roomy => 0 <= Unit
      BY Units
    <3> QED
      BY <2>1, <3>1 DEF Init, RoomInv, Merging, MergePcs
  <2> QED
    BY <2>2, <2>3, <2>m, <2>4, <2>5 DEF BufferInv
<1>2. BufferInv /\ [Next]_vars => BufferInv'
  BY LedgerStep, CallStep, SlotStep, SizeStep, RoomStep DEF BufferInv
<1> QED
  BY <1>1, <1>2, PTL DEF Spec

\* Charges, capacities and modes keep their types, in particular no charge is
\* given back that was not taken (session.rs:255-324).
THEOREM BufferTypes == Spec => []TypeOK
<1>1. BufferInv => TypeOK
  BY LedgerMeans DEF BufferInv
<1> QED
  BY <1>1, BufferInvariance, PTL

\* Whatever a session retains is charged, and nothing else is (session.rs:161-
\* 194, 255-324; buffer.rs:35-57).
THEOREM ChargesAreExact == Spec => []AllCharged
<1>1. BufferInv => AllCharged
  BY LedgerMeans DEF BufferInv
<1> QED
  BY <1>1, BufferInvariance, PTL

\* Between two calls the buffer is below its threshold, and its vector at most
\* twice as large as that (buffer.rs:59-69, session.rs:171-193).
THEOREM BufferIsBounded == Spec => []BoundedBetweenCalls
<1>1. BufferInv => BoundedBetweenCalls
  <2> SUFFICES ASSUME BufferInv, pc = "idle", ~failed
               PROVE  /\ Total(buffer) = bufferBytes
                      /\ bufferBytes < MostBuffered \/ buffer = <<>>
                      /\ capacity * RowSize <= 2 * High(MostBuffered, RowSize)
    BY DEF BoundedBetweenCalls
  <2>1. Calling /\ bufferCharge = Bytes(capacity)
    BY DEF Calling, BufferInv, Ledger
  <2> QED
    BY <2>1 DEF BufferInv, SizeInv, MostCapacity, Bytes
<1> QED
  BY <1>1, BufferInvariance, PTL

\* Where the budget has room for the arrays of a merge and for 2 * FanIn + 4
\* items as large as the largest row, frame or metadata, a session is refused
\* only because of the others or of the pressure (buffer.rs:59-69, session.rs:
\* 325-344, merge.rs:117, 159, 182, 198).
THEOREM NothingRefusedAlone == Spec => []NeverRefusedAlone
<1>1. BufferInv => NeverRefusedAlone
  BY DEF BufferInv, RoomInv, Roomy, Items, NeverRefusedAlone
<1> QED
  BY <1>1, BufferInvariance, PTL
-----------------------------------------------------------------------------
(***************************************************************************)
(* The contract of the budget.                                             *)
(***************************************************************************)
\* The ledger grows only by what a limit allowed (budget.rs:72-97).
LEMMA Growth ==
  ASSUME Ledger, Ledger', [Next]_vars
  PROVE  used' <= used \/ \E limit \in Limits : used' <= limit
<1> DEFINE Fine == used' <= used \/ \E limit \in Limits : used' <= limit
<1> SUFFICES Fine
  OBVIOUS
<1> USE SizesAssumption
<1>0. /\ metadata \in Nat /\ row \in Nat /\ work \in Nat /\ last \in Nat
      /\ Total(buffer) \in Nat /\ bufferCharge \in Nat /\ used \in Nat
      /\ used' \in Nat /\ buffer \in Seq(Nat) /\ capacity \in Nat
      /\ fresh \in Nat /\ popped \in Nat /\ heads \in Seq(Nat)
  BY DEF Ledger, MergeTypes
<1>r. \A bytes \in Nat : Reserve(bytes) => Fine
  BY DEF Reserve
<1>t. refused' \in BOOLEAN
  BY DEF Ledger
<1>v. Vanish => Fine
  BY <1>t, VanishLedger
<1>a. SpillAborts => Fine
  BY <1>t, AbortLedger
<1>b. MergeAborts => Fine
  BY <1>t, MergeAbortLedger
<1>s. used' = used => Fine
  BY <1>0
<1> HIDE DEF Fine
<1>1. CASE OthersMove
  BY <1>1 DEF OthersMove, Fine
<1>2. CASE Push
  BY <1>s, <1>2 DEF Push
<1>3. CASE ReserveMetadata
  BY <1>s, <1>r, <1>3 DEF ReserveMetadata
<1>4. ASSUME NEW size \in Sizes, ReserveRow(size) PROVE Fine
  <2>1. High(size, RowSize) \in Nat
    BY DEF High
  <2> QED
    BY <1>s, <1>r, <1>4, <2>1 DEF ReserveRow
<1>5. ASSUME NEW limit \in Limits, Fits(limit) PROVE Fine
  BY <1>s, <1>5 DEF Fits
<1>6. ASSUME NEW limit \in Limits, PushRow(limit) PROVE Fine
  BY <1>s, <1>6 DEF PushRow
<1>7. CASE Grow
  <2> DEFINE bytes == 2 * High(capacity, 1) * RowSize
  <2>1. bytes \in Nat
    <3>1. 2 * High(capacity, 1) \in Nat
      BY <1>0 DEF High
    <3> QED
      BY <3>1, BytesType DEF Bytes
  <2> HIDE DEF bytes
  <2>2. ASSUME NEW limit \in Limits, used + bytes <= limit,
               used' = used + bytes - bufferCharge
        PROVE  Fine
    <3>1. limit \in Nat
      BY Thresholds
    <3>2. used' <= limit
      BY <1>0, <2>1, <2>2, <3>1
    <3> QED
      BY <3>2 DEF Fine
  <2>3. used' = used - row => Fine
    BY <1>0 DEF Fine
  <2> QED
    BY <1>7, <2>2, <2>3 DEF Grow, bytes
<1>8. ASSUME NEW bytes \in Works, SpillOp(bytes) PROVE Fine
  BY <1>r, <1>a, <1>8 DEF SpillOp
<1>9. CASE SpillFails
  BY <1>a, <1>9 DEF SpillFails
<1>10. CASE OpDone
  <2>1. PICK kept \in {0, fresh} : used' = used - work - (fresh - kept)
    BY <1>10 DEF OpDone
  <2> QED
    BY <1>0, <2>1 DEF Fine
<1>11. CASE RunWritten
  BY <1>0, <1>11 DEF RunWritten, Fine
<1>12. CASE Carried
  BY <1>s, <1>12 DEF Carried
<1>13. CASE Finish
  BY <1>s, <1>v, <1>13 DEF Finish
<1>14. ASSUME NEW equal \in BOOLEAN, StreamRow(equal) PROVE Fine
  <2>1. Head(buffer) \in Nat
    BY <1>0, <1>14, TotalTail DEF StreamRow
  <2>2. PICK kept \in {last, Head(buffer)} :
          used' = (used - Head(buffer) - last) + kept
    BY <1>14 DEF StreamRow
  <2>3. used' <= used
    BY <1>0, <2>1, <2>2, SMTT(60)
  <2> QED
    BY <2>3 DEF Fine
<1>15. CASE DropIt
  BY <1>v, <1>15 DEF DropIt
<1>16. CASE CleanedUp
  BY <1>0, <1>16 DEF CleanedUp, Fine
<1>17. CASE UNCHANGED vars
  BY <1>s, <1>17 DEF vars
<1>18. ASSUME NEW n \in 1 .. FanIn, NEW g \in Goals, MergeBegins(n, g)
       PROVE  Fine
  <2>1. n * SourceBytes \in Nat
    BY MergeAssumption
  <2> QED
    BY <1>r, <1>a, <1>18, <2>1 DEF MergeBegins, NewMerge
<1>19. ASSUME NEW bytes \in Works, NEW next \in MergePcs, MergeOp(bytes, next)
       PROVE  Fine
  BY <1>r, <1>b, <1>19 DEF MergeOp
<1>20. ASSUME NEW bytes \in Works, NEW size \in Sizes, ReadHead(bytes, size)
       PROVE  Fine
  <2>1. bytes + High(size, RowSize) \in Nat
    BY DEF High
  <2> QED
    BY <1>r, <1>b, <1>20, <2>1 DEF ReadHead
<1>21. CASE Exhausted
  BY <1>s, <1>21 DEF Exhausted
<1>22. CASE ChargeKey
  BY <1>0, <1>r, <1>b, <1>22 DEF ChargeKey
<1>23. ASSUME NEW source \in DOMAIN heads, Pop(source) PROVE Fine
  <2>1. heads[source] \in Nat
    BY <1>0, LenProperties, ElementOfSeq
  <2>2. used' = used - heads[source]
    BY <1>23 DEF Pop
  <2> QED
    BY <1>0, <2>1, <2>2 DEF Fine
<1>24. CASE Written
  BY <1>0, <1>24 DEF Written, Fine
<1>25. CASE MergeDone
  <2>1. used' = used - InMerge - (fresh - fresh') /\ DropMerge
    BY <1>25 DEF MergeDone
  <2>2. /\ fresh' \in {0, fresh} /\ InMerge \in Nat
    BY <2>1, MergeDropped DEF Ledger, MergeTypes
  <2>3. PICK kept \in {0, fresh} : used' = used - InMerge - (fresh - kept)
    BY <2>1, <2>2
  <2>4. InMerge \in Nat
    BY <2>2
  <2>5. used' <= used
    BY <1>0, <2>3, <2>4
  <2> QED
    BY <2>5 DEF Fine
<1>26. CASE MergeFails
  BY <1>b, <1>26 DEF MergeFails
<1>27. CASE StreamBegins
  BY <1>s, <1>27 DEF StreamBegins
<1>28. CASE DedupRefused
  BY <1>b, <1>28 DEF DedupRefused
<1>29. CASE StreamDrained
  BY <1>s, <1>29 DEF StreamDrained
<1>30. ASSUME NEW equal \in BOOLEAN, MergedRow(equal) PROVE Fine
  <2>1. used' = used - last \/ used' = used - popped
    BY <1>30 DEF MergedRow
  <2> QED
    BY <1>0, <2>1 DEF Fine
<1> QED
  BY <1>1, <1>2, <1>3, <1>4, <1>5, <1>6, <1>7, <1>8, <1>9, <1>10, <1>11,
     <1>12, <1>13, <1>14, <1>15, <1>16, <1>17, <1>18, <1>19, <1>20, <1>21,
     <1>22, <1>23, <1>24, <1>25, <1>26, <1>27, <1>28, <1>29, <1>30 DEF Next

\* A step is the session's or that of the others, never both.
LEMMA OneMoves ==
  ASSUME Ledger, [Next]_vars
  PROVE  others' = others \/ Retained' = Retained
<1>1. CASE OthersMove
  BY <1>1 DEF OthersMove, Retained, rowVars, mergeVars, InMerge
<1>2. CASE ~OthersMove
  BY <1>2
  DEF Next, vars, Push, ReserveMetadata, ReserveRow, Fits, PushRow, Grow,
      SpillOp, SpillAborts, SpillFails, Vanish, OpDone, RunWritten, Carried,
      MergeBegins, NewMerge, MergeAborts, MergeFails, MergeOp, ReadHead,
      Exhausted, ChargeKey, Pop, Written, MergeDone, StreamBegins, MergedRow,
      DedupRefused, StreamDrained, Finish, StreamRow, DropIt, CleanedUp
<1> QED
  BY <1>1, <1>2

\* Of two sums that are equal, equal parts leave equal parts.
LEMMA EqualParts ==
  ASSUME NEW a \in Nat, NEW b \in Nat, NEW c \in Nat, NEW d \in Nat,
         a + b = c + d
  PROVE  a = c <=> b = d
OBVIOUS

\* What a holder comes to be charged, or ceases to be, is a step of the
\* contract.
LEMMA LedgerMoves ==
  ASSUME Ledger, Ledger', [Next]_vars
  PROVE  [Contract!LedgerNext]_(Contract!ledgerVars)
<1>1. Retained \in Nat /\ others \in Nat /\ used = others + Retained
  <2>1. Retained = metadata + row + work + last + Total(buffer) + bufferCharge
                     + Merged
    BY Zenon DEF Retained, Ledger, Bytes, Merged
  <2>2. /\ metadata \in Nat /\ row \in Nat /\ work \in Nat /\ last \in Nat
        /\ others \in Nat /\ Total(buffer) \in Nat /\ bufferCharge \in Nat
        /\ Merged \in Nat
        /\ used = others + metadata + row + work + last + Total(buffer)
                    + bufferCharge + Merged
    BY DEF Ledger, MergeTypes
  <2> QED
    BY <2>1, <2>2
<1>2. Retained' \in Nat /\ others' \in Nat /\ used' = others' + Retained'
  <2>1. Retained' = metadata' + row' + work' + last' + Total(buffer')
                      + bufferCharge' + Merged'
    BY Zenon DEF Retained, Ledger, Bytes, Merged
  <2>2. /\ metadata' \in Nat /\ row' \in Nat /\ work' \in Nat
        /\ last' \in Nat /\ others' \in Nat
        /\ Total(buffer') \in Nat /\ bufferCharge' \in Nat /\ Merged' \in Nat
        /\ used' = others' + metadata' + row' + work' + last' + Total(buffer')
                     + bufferCharge' + Merged'
    BY DEF Ledger, MergeTypes
  <2> QED
    BY <2>1, <2>2
<1>3. used' <= used \/ \E limit \in Limits : used' <= limit
  BY Growth
<1>4. others' = others \/ Retained' = Retained
  BY OneMoves
<1> DEFINE H == {"session", "others"}
           charge == [h \in H |-> IF h = "session" THEN Retained ELSE others]
<1>5. /\ charge["session"] = Retained /\ charge'["session"] = Retained'
      /\ charge["others"] = others /\ charge'["others"] = others'
      /\ charge \in [H -> Nat] /\ charge' \in [H -> Nat]
  BY <1>1, <1>2
<1>6. CASE used' = used
  <2>1. others' + Retained' = others + Retained
    BY <1>1, <1>2, <1>6
  <2>3. Retained' = Retained /\ others' = others
    <3> HIDE DEF charge
    <3>1. others' = others <=> Retained' = Retained
      BY <1>1, <1>2, <2>1, EqualParts, ZenonT(60)
    <3> QED
      BY <1>4, <3>1
  <2>2. charge' = charge
    BY <2>3
  <2> QED
    BY <1>6, <2>2 DEF Contract!ledgerVars
<1>7. CASE used' # used
  <2>1. PICK h \in H : \A g \in H : g # h => charge'[g] = charge[g]
    BY <1>4, <1>5
  <2> HIDE DEF charge
  <2>2. charge' = [charge EXCEPT ![h] = charge'[h]]
    BY <1>5, <2>1
  <2>3. charge[h] \in Nat /\ charge'[h] \in Nat
    BY <1>5
  <2>4. used' = (used - charge[h]) + charge'[h]
    BY <1>1, <1>2, <1>5, <2>1
  <2>5. Contract!Move(h)
    BY <2>2, <2>3, <2>4 DEF Contract!Move, charge
  <2>6. CASE charge[h] < charge'[h]
    <3>1. ~(used' <= used)
      BY <1>1, <2>3, <2>4, <2>6
    <3>2. Contract!Grant(h)
      BY <1>3, <2>5, <2>6, <3>1 DEF Contract!Grant, charge
    <3> QED
      BY <3>2 DEF Contract!LedgerNext
  <2>7. CASE charge'[h] < charge[h]
    <3>1. Contract!Release(h)
      BY <2>5, <2>7 DEF Contract!Release, charge
    <3> QED
      BY <3>1 DEF Contract!LedgerNext
  <2>8. charge'[h] # charge[h]
    BY <1>1, <1>7, <2>3, <2>4
  <2> QED
    BY <2>3, <2>6, <2>7, <2>8
<1> QED
  BY <1>6, <1>7

\* A session is an orderly user of the budget that it shares: by as many bytes
\* as it comes to retain, or ceases to, the ledger moves in the same step, and
\* it retains more only when a limit allowed it (budget.rs:72-113).
THEOREM SessionKeepsLedger == Spec => ImplementsLedger
<1>1. Init => Contract!LedgerInit
  <2> SUFFICES ASSUME Init PROVE Contract!LedgerInit
    OBVIOUS
  <2>1. Total(buffer) = 0 /\ capacity * RowSize = 0
    <3>1. buffer = <<>> /\ buffer \in Seq(Nat) /\ capacity = 0
      BY DEF Init
    <3> QED
      BY <3>1, TotalType, BytesType DEF Bytes
  <2>3. InMerge = 0
    <3>1. heads = <<>> /\ heads \in Seq(Nat) /\ popped = 0
      BY DEF Init
    <3> QED
      BY <3>1, MergeWeight, WeightType
  <2>2. Retained = 0
    BY <2>1, <2>3 DEF Init, Retained
  <2> QED
    BY <2>2 DEF Init, Contract!LedgerInit
<1>2. BufferInv /\ BufferInv' /\ [Next]_vars
        => [Contract!LedgerNext]_(Contract!ledgerVars)
  BY LedgerMoves DEF BufferInv
<1> QED
  BY <1>1, <1>2, BufferInvariance, PTL
  DEF Spec, ImplementsLedger, Contract!LedgerSpec
=============================================================================
