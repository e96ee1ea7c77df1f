------------------------------ MODULE SortOrder ------------------------------
(***************************************************************************)
(* The order in which a sort yields its rows.  A row is its ordinal, from  *)
(* one in the order of the pushes, and key[r] is the key of row r.         *)
(***************************************************************************)
EXTENDS Naturals, Sequences, FiniteSets

\* By key, and then by ordinal (session.rs:292-296).
RowBefore(key, r, s) == key[r] < key[s] \/ (key[r] = key[s] /\ r < s)

\* The rows of S in order.
Sorted(key, S) ==
  [i \in 1 .. Cardinality(S) |->
     CHOOSE r \in S : Cardinality({s \in S : RowBefore(key, s, r)}) = i - 1]

\* The first row of each key.
Firsts(key, S) == {r \in S : \A s \in S : key[s] = key[r] => r <= s}

\* What a sort of the rows of key should yield.
Reference(key, dedup) ==
  Sorted(key, IF dedup THEN Firsts(key, DOMAIN key) ELSE DOMAIN key)
=============================================================================
