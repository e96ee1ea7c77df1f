--------------------------- MODULE ScratchProofs ---------------------------
(***************************************************************************)
(* Theorems about file operations and scratch directories (module          *)
(* ScratchIo), for any owners, any number of operations and of permits:    *)
(* permits are conserved, what is closed stays clean, a reservation lasts  *)
(* as long as its directory, no cleaner sleeps forever, and every owner's  *)
(* scope keeps the contract of ScratchScope.                               *)
(***************************************************************************)
EXTENDS ScratchIo, FiniteSetTheorems, SequenceTheorems, TLAPS

(***************************************************************************)
(* The inductive invariant.                                                *)
(***************************************************************************)
\* IoScope.pending is the number of operations whose guard is alive
\* (operation.rs:24-54).
PendingInv ==
  \A o \in Owners : pending[o] = Cardinality(OpsIn(o, Guarded))

\* The owner's guard: armed with a reservation from the first operation on
\* until cleanup succeeds or the guard is dropped (cleanup.rs:49-126).
StageInv ==
  \A o \in Owners :
    /\ stage[o] = "fresh" =>
         /\ ~armed[o] /\ reserved[o] = "none" /\ ~dir[o]
         /\ \A j \in Ops : scopeOf[j] = o => phase[j] = "free"
    /\ stage[o] \in {"preparing", "ready", "failed", "closing"} =>
         armed[o] /\ reserved[o] = "guard"
    /\ stage[o] = "dropped" => ~armed[o] /\ reserved[o] = "task"
    /\ stage[o] = "closed" =>
         /\ ~dir[o] /\ reserved[o] = "none"
         /\ \A j \in Ops : scopeOf[j] = o => phase[j] \notin Guarded
    /\ cleaner[o] # "none" => stage[o] \in {"closing", "dropped"}
    /\ unlinking[o] = "awaited" => stage[o] \in {"ready", "failed"}

\* Who may still wait for an operation, and what its success says.
OpInv ==
  \A j \in Ops :
    /\ succeeded[j] =>
         awaited[j] /\ phase[j] \in {"finished", "unpermitted", "waking", "done"}
    /\ awaited[j] /\ phase[j] # "free" /\ kind[j] # "remove" =>
         stage[scopeOf[j]] \in {"preparing", "ready", "failed"}
    /\ awaited[j] /\ phase[j] # "free" /\ kind[j] = "remove" =>
         cleaner[scopeOf[j]] = "removing"
    /\ succeeded[j] /\ kind[j] = "remove" => ~dir[scopeOf[j]]

\* A removal is the only operation of its scope (operation.rs:36-42,
\* cleanup.rs:68-126).
RemovalInv ==
  /\ \A i, j \in Ops :
       scopeOf[i] = scopeOf[j] /\ kind[j] = "remove" =>
         /\ phase[i] \in Guarded /\ phase[j] \in Guarded => i = j
         /\ kind[i] = "remove" /\ awaited[i] /\ awaited[j]
              /\ phase[i] # "free" /\ phase[j] # "free" => i = j
  /\ \A j \in Ops :
       /\ phase[j] \in Guarded /\ kind[j] = "remove" =>
            stage[scopeOf[j]] \notin {"fresh", "preparing", "ready"}
       /\ phase[j] \in Guarded => cleaner[scopeOf[j]] # "remove"
       /\ phase[j] \in Guarded /\ cleaner[scopeOf[j]] = "removing" =>
            kind[j] = "remove" /\ awaited[j]

\* A cleaner about to sleep, or asleep, will be woken (operation.rs:36-54).
WakeInv ==
  \A o \in Owners : cleaner[o] \in {"poll", "await"} /\ ~woken[o] =>
    pending[o] > 0 \/ OpsIn(o, {"waking"}) # {}

\* The inductive invariant of operations, scopes and cleanup together
\* (operation.rs:24-104, cleanup.rs:36-126).
ScratchInv ==
  /\ TypeOK /\ PermitsConserved /\ PendingInv
  /\ StageInv /\ OpInv /\ RemovalInv /\ WakeInv

(***************************************************************************)
(* Counting.                                                               *)
(***************************************************************************)
In(R, P) == {j \in R : phase[j] \in P}

\* How many operations are in some phases, when one moves to another.
LEMMA CountMoves ==
  ASSUME NEW R \in SUBSET Ops, NEW P, NEW j \in Ops, NEW to,
         phase \in [Ops -> Phases], phase' = [phase EXCEPT ![j] = to]
  PROVE  /\ Cardinality(In(R, P)) \in Nat
         /\ (j \notin R \/ (phase[j] \in P <=> to \in P)) => In(R, P)' = In(R, P)
         /\ j \in R /\ phase[j] \notin P /\ to \in P =>
              Cardinality(In(R, P))' = Cardinality(In(R, P)) + 1
         /\ j \in R /\ phase[j] \in P /\ to \notin P =>
              /\ Cardinality(In(R, P)) > 0
              /\ Cardinality(In(R, P))' = Cardinality(In(R, P)) - 1
<1>1. \A i \in R : phase'[i] = IF i = j THEN to ELSE phase[i]
  OBVIOUS
<1>2. IsFiniteSet(In(R, P))
  BY OpsAssumption, FS_Subset DEF In
<1>3. Cardinality(In(R, P)) \in Nat
  BY <1>2, FS_CardinalityType
<1>4. ASSUME j \notin R \/ (phase[j] \in P <=> to \in P)
      PROVE  In(R, P)' = In(R, P)
  BY <1>1, <1>4 DEF In
<1>5. ASSUME j \in R, phase[j] \notin P, to \in P
      PROVE  Cardinality(In(R, P))' = Cardinality(In(R, P)) + 1
  <2>1. In(R, P)' = In(R, P) \cup {j} /\ j \notin In(R, P)
    BY <1>1, <1>5 DEF In
  <2>2. Cardinality(In(R, P) \cup {j}) = Cardinality(In(R, P)) + 1
    BY <1>2, <2>1, FS_AddElement
  <2> QED
    BY <2>1, <2>2
<1>6. ASSUME j \in R, phase[j] \in P, to \notin P
      PROVE  /\ Cardinality(In(R, P)) > 0
             /\ Cardinality(In(R, P))' = Cardinality(In(R, P)) - 1
  <2>1. In(R, P)' = In(R, P) \ {j} /\ j \in In(R, P)
    BY <1>1, <1>6 DEF In
  <2>2. Cardinality(In(R, P) \ {j}) = Cardinality(In(R, P)) - 1
    BY <1>2, <2>1, FS_RemoveElement
  <2>3. Cardinality(In(R, P)) # 0
    BY <1>2, <2>1, FS_EmptySet
  <2> QED
    BY <1>3, <2>1, <2>2, <2>3
<1> QED
  BY <1>3, <1>4, <1>5, <1>6

OfOwner(o)   == {j \in Ops : scopeOf[j] = o}
Weight(p, P) == IF p \in P THEN 1 ELSE 0

\* A step of an operation keeps both counts if it adds to the permits and to
\* pending what the operation lets go of (operation.rs:24-54, 99-104).
LEMMA CountsKept ==
  ASSUME TypeOK, PermitsConserved, PendingInv, NEW j \in Ops, NEW to,
         phase' = [phase EXCEPT ![j] = to],
         phase[j] \notin Permitted /\ to \in Permitted => permits > 0,
         permits' = permits + Weight(phase[j], Permitted) - Weight(to, Permitted),
         pending' = [pending EXCEPT ![scopeOf[j]] =
                       @ + Weight(to, Guarded) - Weight(phase[j], Guarded)]
  PROVE  /\ PermitsConserved' /\ PendingInv'
         /\ permits' \in 0 .. Permits /\ pending' \in [Owners -> Nat]
<1>1. /\ phase \in [Ops -> Phases] /\ pending \in [Owners -> Nat]
      /\ permits \in Nat
  BY PermitsAssumption DEF TypeOK
<1>2. PermitsConserved' /\ permits' \in 0 .. Permits
  <2> DEFINE n == Cardinality(In(Ops, Permitted))
             m == Cardinality(In(Ops, Permitted))'
  <2>1. /\ n \in Nat
        /\ (phase[j] \in Permitted <=> to \in Permitted) => m = n
        /\ phase[j] \notin Permitted /\ to \in Permitted => m = n + 1
        /\ phase[j] \in Permitted /\ to \notin Permitted => n > 0 /\ m = n - 1
    BY <1>1, CountMoves
  <2>2. permits + n = Permits
    BY DEF PermitsConserved, In
  <2> HIDE DEF n, m
  <2>3. m \in Nat
    BY <2>1
  <2>4. permits' + m = Permits /\ permits' \in Int
    BY <1>1, <2>1, <2>2, PermitsAssumption DEF Weight
  <2>5. permits' >= 0
    <3>1. CASE phase[j] \in Permitted \/ to \notin Permitted
      BY <1>1, <3>1 DEF Weight
    <3>2. CASE phase[j] \notin Permitted /\ to \in Permitted
      BY <1>1, <3>2 DEF Weight
    <3> QED
      BY <3>1, <3>2
  <2> QED
    BY <2>3, <2>4, <2>5, PermitsAssumption DEF PermitsConserved, In, m
<1>3. ASSUME NEW o \in Owners
      PROVE  pending'[o] = Cardinality(OpsIn(o, Guarded))' /\ pending'[o] \in Nat
  <2> DEFINE n == Cardinality(In(OfOwner(o), Guarded))
             m == Cardinality(In(OfOwner(o), Guarded))'
  <2>1. n = Cardinality(OpsIn(o, Guarded)) /\ m = Cardinality(OpsIn(o, Guarded))'
    BY DEF OpsIn, OfOwner, In
  <2>2. OfOwner(o) \in SUBSET Ops /\ (j \in OfOwner(o) <=> scopeOf[j] = o)
    BY DEF OfOwner
  <2>3. /\ n \in Nat
        /\ scopeOf[j] # o \/ (phase[j] \in Guarded <=> to \in Guarded) => m = n
        /\ scopeOf[j] = o /\ phase[j] \notin Guarded /\ to \in Guarded => m = n + 1
        /\ scopeOf[j] = o /\ phase[j] \in Guarded /\ to \notin Guarded =>
             n > 0 /\ m = n - 1
    BY <1>1, <2>2, CountMoves
  <2>4. pending[o] = n
    BY <2>1 DEF PendingInv
  <2> HIDE DEF n, m
  <2>5. CASE scopeOf[j] = o
    BY <1>1, <2>1, <2>3, <2>4, <2>5 DEF Weight
  <2>6. CASE scopeOf[j] # o
    BY <1>1, <2>1, <2>3, <2>4, <2>6
  <2> QED
    BY <2>5, <2>6
<1>4. PendingInv'
  BY <1>3 DEF PendingInv
<1>5. pending' \in [Owners -> Nat]
  <2>1. pending' = [o \in Owners |-> pending'[o]]
    BY <1>1
  <2> QED
    BY <1>3, <2>1
<1> QED
  BY <1>2, <1>4, <1>5

\* Steps of the owners and of the cleaner leave the counts alone.
LEMMA CountsUntouched ==
  ASSUME PermitsConserved, PendingInv, UNCHANGED <<phase, permits, pending>>
  PROVE  PermitsConserved' /\ PendingInv'
  BY DEF PermitsConserved, PendingInv, OpsIn

(***************************************************************************)
(* The steps of an operation.                                              *)
(***************************************************************************)
\* No operation, no directory (operation.rs:15-28, cleanup.rs:24-34).
LEMMA InitInv == Init => ScratchInv
<1> SUFFICES ASSUME Init PROVE ScratchInv
  OBVIOUS
<1>1. TypeOK
  BY PermitsAssumption DEF Init, TypeOK, Phases, Kinds, Stages, Cleaners
<1>2. {j \in Ops : phase[j] \in Permitted} = {}
  BY DEF Init, Permitted
<1>3. PermitsConserved
  <2>1. Cardinality({j \in Ops : phase[j] \in Permitted}) = 0
    BY <1>2, FS_EmptySet
  <2>2. permits = Permits
    BY DEF Init
  <2> QED
    BY <2>1, <2>2, PermitsAssumption DEF PermitsConserved
<1>4. \A o \in Owners : OpsIn(o, Guarded) = {}
  BY DEF Init, OpsIn, Guarded, Permitted
<1>5. PendingInv
  BY <1>4, FS_EmptySet DEF Init, PendingInv
<1>6. StageInv /\ OpInv /\ RemovalInv /\ WakeInv
  BY OpsAssumption
  DEF Init, StageInv, OpInv, RemovalInv, WakeInv, Guarded, Permitted
<1> QED
  BY <1>1, <1>3, <1>5, <1>6 DEF ScratchInv

\* A new operation has a guard and no permit (operation.rs:29-34, 79-92).
LEMMA SubmitKeeps ==
  ASSUME TypeOK, PermitsConserved, PendingInv, NEW o \in Owners, NEW j \in Ops,
         NEW k \in Kinds, Submit(o, j, k)
  PROVE  /\ PermitsConserved' /\ PendingInv'
         /\ phase' \in [Ops -> Phases] /\ kind' \in [Ops -> Kinds]
         /\ awaited' \in [Ops -> BOOLEAN] /\ succeeded' \in [Ops -> BOOLEAN]
         /\ queue' \in Seq(Ops) /\ permits' \in 0 .. Permits
         /\ pending' \in [Owners -> Nat]
<1>1. /\ scopeOf[j] = o /\ phase[j] = "free"
      /\ phase' = [phase EXCEPT ![j] = "queued"]
      /\ pending' = [pending EXCEPT ![o] = @ + 1]
      /\ permits' = permits /\ permits \in Nat
  BY PermitsAssumption DEF Submit, TypeOK
<1>2. /\ Weight(phase[j], Permitted) = 0 /\ Weight("queued", Permitted) = 0
      /\ Weight(phase[j], Guarded) = 0 /\ Weight("queued", Guarded) = 1
      /\ "queued" \notin Permitted
  BY <1>1 DEF Weight, Permitted, Guarded
<1>3. /\ permits' = permits + Weight(phase[j], Permitted) - Weight("queued", Permitted)
      /\ pending' = [pending EXCEPT ![scopeOf[j]] =
                       @ + Weight("queued", Guarded) - Weight(phase[j], Guarded)]
  <2>1. pending[o] \in Nat /\ pending[o] + 1 = pending[o] + 1 - 0
    BY DEF TypeOK
  <2>2. permits = permits + 0 - 0
    BY <1>1
  <2> QED
    BY <1>1, <1>2, <2>1, <2>2
<1>4. /\ PermitsConserved' /\ PendingInv'
      /\ permits' \in 0 .. Permits /\ pending' \in [Owners -> Nat]
  BY <1>1, <1>2, <1>3, CountsKept
<1>5. queue' \in Seq(Ops)
  BY AppendProperties DEF Submit, TypeOK
<1>6. /\ phase' \in [Ops -> Phases] /\ kind' \in [Ops -> Kinds]
      /\ awaited' \in [Ops -> BOOLEAN] /\ succeeded' \in [Ops -> BOOLEAN]
  BY DEF Submit, TypeOK, Phases
<1> QED
  BY <1>4, <1>5, <1>6

\* What the steps of an operation do to the counts (operation.rs:44-54, 99-104).
LEMMA AdvanceKeeps ==
  ASSUME TypeOK, PermitsConserved, PendingInv, NEW j \in Ops,
         NEW from \in Phases, NEW to \in Phases, Advance(j, from, to),
         from \notin Permitted /\ to \in Permitted => permits > 0,
         permits' = permits + Weight(from, Permitted) - Weight(to, Permitted),
         pending' = [pending EXCEPT ![scopeOf[j]] =
                       @ + Weight(to, Guarded) - Weight(from, Guarded)]
  PROVE  /\ PermitsConserved' /\ PendingInv'
         /\ phase' \in [Ops -> Phases] /\ kind' \in [Ops -> Kinds]
         /\ permits' \in 0 .. Permits /\ pending' \in [Owners -> Nat]
<1>1. phase[j] = from /\ phase' = [phase EXCEPT ![j] = to]
  BY DEF Advance
<1>2. /\ PermitsConserved' /\ PendingInv'
      /\ permits' \in 0 .. Permits /\ pending' \in [Owners -> Nat]
  BY <1>1, CountsKept
<1>3. phase' \in [Ops -> Phases] /\ kind' \in [Ops -> Kinds]
  BY <1>1 DEF Advance, TypeOK, Kinds
<1> QED
  BY <1>2, <1>3

\* The same for a step that moves no permit and no guard.
LEMMA QuietAdvance ==
  ASSUME TypeOK, PermitsConserved, PendingInv, NEW j \in Ops,
         NEW from \in Phases, NEW to \in Phases, Advance(j, from, to),
         from \in Permitted <=> to \in Permitted,
         from \in Guarded <=> to \in Guarded,
         UNCHANGED <<permits, pending>>
  PROVE  /\ PermitsConserved' /\ PendingInv'
         /\ phase' \in [Ops -> Phases] /\ kind' \in [Ops -> Kinds]
         /\ permits' \in 0 .. Permits /\ pending' \in [Owners -> Nat]
<1>1. permits \in Nat /\ pending \in [Owners -> Nat] /\ scopeOf[j] \in Owners
  BY PermitsAssumption, OpsAssumption DEF TypeOK
<1>2. permits' = permits + Weight(from, Permitted) - Weight(to, Permitted)
  BY <1>1 DEF Weight
<1>3. pending' = [pending EXCEPT ![scopeOf[j]] =
                    @ + Weight(to, Guarded) - Weight(from, Guarded)]
  BY <1>1 DEF Weight
<1> QED
  BY <1>2, <1>3, AdvanceKeeps

LEMMA RemoveType ==
  ASSUME NEW S, NEW s \in Seq(S), NEW i \in DOMAIN s
  PROVE  RemoveAt(s, i) \in Seq(S)
<1>1. SubSeq(s, 1, i - 1) \in Seq(S) /\ SubSeq(s, i + 1, Len(s)) \in Seq(S)
  OBVIOUS
<1> QED
  BY <1>1, ConcatProperties DEF RemoveAt

\* A caller that leaves gives nothing back itself (operation.rs:44-54, 99-104).
LEMMA AbandonKeeps ==
  ASSUME TypeOK, PermitsConserved, PendingInv, NEW j \in Ops, Abandon(j)
  PROVE  /\ PermitsConserved' /\ PendingInv'
         /\ phase' \in [Ops -> Phases] /\ kind' \in [Ops -> Kinds]
         /\ awaited' \in [Ops -> BOOLEAN] /\ succeeded' \in [Ops -> BOOLEAN]
         /\ queue' \in Seq(Ops) /\ permits' \in 0 .. Permits
         /\ pending' \in [Owners -> Nat]
<1> DEFINE to == CASE phase[j] = "queued"  -> "unpermitted"
                   [] phase[j] = "granted" -> "finished"
                   [] phase[j] = "done"    -> "free"
                   [] OTHER                -> phase[j]
<1>1. /\ phase' = [phase EXCEPT ![j] = to] /\ to \in Phases
      /\ phase[j] \in Permitted <=> to \in Permitted
      /\ phase[j] \in Guarded <=> to \in Guarded
  BY DEF Abandon, TypeOK, Phases, Permitted, Guarded
<1> HIDE DEF to
<1>2. permits \in Nat /\ pending \in [Owners -> Nat] /\ scopeOf[j] \in Owners
  BY PermitsAssumption, OpsAssumption DEF TypeOK
<1>3. /\ permits' = permits + Weight(phase[j], Permitted) - Weight(to, Permitted)
      /\ pending' = [pending EXCEPT ![scopeOf[j]] =
                       @ + Weight(to, Guarded) - Weight(phase[j], Guarded)]
  BY <1>1, <1>2 DEF Weight, Abandon
<1>4. /\ PermitsConserved' /\ PendingInv'
      /\ permits' \in 0 .. Permits /\ pending' \in [Owners -> Nat]
  BY <1>1, <1>3, CountsKept
<1>5. queue' \in Seq(Ops)
  <2>1. queue \in Seq(Ops)
    BY DEF TypeOK
  <2> QED
    BY <2>1, RemoveType DEF Abandon
<1>6. /\ phase' \in [Ops -> Phases] /\ kind' \in [Ops -> Kinds]
      /\ awaited' \in [Ops -> BOOLEAN] /\ succeeded' \in [Ops -> BOOLEAN]
  BY <1>1 DEF Abandon, TypeOK, Kinds
<1> QED
  BY <1>4, <1>5, <1>6

\* Whatever has a guard is pending (operation.rs:29-34).
LEMMA PendingPositive ==
  ASSUME TypeOK, PendingInv, NEW j \in Ops, phase[j] \in Guarded
  PROVE  pending[scopeOf[j]] > 0
<1> DEFINE S == OpsIn(scopeOf[j], Guarded)
<1>1. scopeOf[j] \in Owners
  BY OpsAssumption
<1>2. IsFiniteSet(S) /\ j \in S
  BY OpsAssumption, FS_Subset DEF OpsIn
<1>3. Cardinality(S) \in Nat /\ Cardinality(S) # 0
  BY <1>2, FS_EmptySet, FS_CardinalityType
<1> QED
  BY <1>1, <1>3 DEF PendingInv

(***************************************************************************)
(* The steps.                                                              *)
(***************************************************************************)
\* Every step of operations, owners and cleaners keeps the invariant, whoever
\* leaves at whatever await (operation.rs:24-104, cleanup.rs:36-126).
LEMMA NextInv == ScratchInv /\ [Next]_vars => ScratchInv'
<1> SUFFICES ASSUME ScratchInv, [Next]_vars PROVE ScratchInv'
  OBVIOUS
<1> USE OpsAssumption DEF ScratchInv
<1>1. CASE Grant
  <2>1. TypeOK' /\ PermitsConserved' /\ PendingInv'
    <3>1. /\ Head(queue) \in Ops /\ Tail(queue) \in Seq(Ops)
          /\ permits \in Nat /\ permits > 0
      BY <1>1, HeadTailProperties, PermitsAssumption DEF Grant, TypeOK
    <3>2. /\ "queued" \in Phases /\ "granted" \in Phases
          /\ Weight("queued", Permitted) = 0 /\ Weight("granted", Permitted) = 1
          /\ Weight("queued", Guarded) = 1 /\ Weight("granted", Guarded) = 1
      BY DEF Phases, Permitted, Guarded, Weight
    <3>3. Advance(Head(queue), "queued", "granted") /\ permits' = permits + 0 - 1
      BY <1>1, <3>1 DEF Grant
    <3>5. pending' = [pending EXCEPT ![scopeOf[Head(queue)]] =
                       pending[scopeOf[Head(queue)]]
                         + Weight("granted", Guarded) - Weight("queued", Guarded)]
      BY <1>1, <3>1 DEF Grant, TypeOK, Weight, Guarded, Permitted
    <3>4. /\ PermitsConserved' /\ PendingInv'
          /\ phase' \in [Ops -> Phases] /\ kind' \in [Ops -> Kinds]
          /\ permits' \in 0 .. Permits /\ pending' \in [Owners -> Nat]
      BY <3>1, <3>2, <3>3, <3>5, AdvanceKeeps
    <3> QED
      BY <1>1, <3>1, <3>4 DEF Grant, TypeOK, ownerVars
  <2>0. Head(queue) \in Ops
    BY <1>1, HeadTailProperties DEF Grant, TypeOK
  <2>2. StageInv'
    BY <1>1, <2>0
    DEF Grant, Advance, TypeOK, StageInv, OpInv, opVars, ownerVars, Guarded,
        Permitted
  <2>3. OpInv'
    BY <1>1, <2>0
    DEF Grant, Advance, TypeOK, OpInv, StageInv, RemovalInv, opVars,
        ownerVars, Guarded, Permitted
  <2>4. RemovalInv'
    BY <1>1, <2>0
    DEF Grant, Advance, TypeOK, RemovalInv, OpInv, StageInv, opVars,
        ownerVars, Guarded, Permitted
  <2>5. WakeInv'
    BY <1>1, <2>0
    DEF Grant, Advance, TypeOK, WakeInv, StageInv, OpsIn, opVars, ownerVars
  <2> QED
    BY <2>1, <2>2, <2>3, <2>4, <2>5
<1>2. ASSUME NEW j \in Ops, Spawn(j) PROVE ScratchInv'
  <2>1. TypeOK' /\ PermitsConserved' /\ PendingInv'
    <3>1. /\ "granted" \in Phases /\ "running" \in Phases
          /\ "granted" \in Permitted <=> "running" \in Permitted
          /\ "granted" \in Guarded <=> "running" \in Guarded
      BY DEF Phases, Permitted, Guarded
    <3>2. Advance(j, "granted", "running") /\ UNCHANGED <<permits, pending>>
      BY <1>2 DEF Spawn, Advance
    <3>3. /\ PermitsConserved' /\ PendingInv'
          /\ phase' \in [Ops -> Phases] /\ kind' \in [Ops -> Kinds]
          /\ permits' \in 0 .. Permits /\ pending' \in [Owners -> Nat]
      BY <3>1, <3>2, QuietAdvance
    <3> QED
      BY <1>2, <3>3 DEF Spawn, Advance, TypeOK, Stages, Cleaners, ownerVars
  <2>2. StageInv'
    BY <1>2
    DEF Spawn, Advance, TypeOK, StageInv, OpInv, opVars, ownerVars, Guarded,
        Permitted
  <2>3. OpInv'
    BY <1>2
    DEF Spawn, Advance, TypeOK, OpInv, StageInv, RemovalInv, opVars,
        ownerVars, Guarded, Permitted
  <2>4. RemovalInv'
    BY <1>2
    DEF Spawn, Advance, TypeOK, RemovalInv, OpInv, StageInv, opVars,
        ownerVars, Guarded, Permitted
  <2>5. WakeInv'
    BY <1>2
    DEF Spawn, Advance, TypeOK, WakeInv, StageInv, OpsIn, opVars, ownerVars
  <2> QED
    BY <2>1, <2>2, <2>3, <2>4, <2>5
<1>3. ASSUME NEW j \in Ops, NEW ok \in BOOLEAN, Finish(j, ok) PROVE ScratchInv'
  <2>1. TypeOK' /\ PermitsConserved' /\ PendingInv'
    <3>1. /\ "running" \in Phases /\ "finished" \in Phases
          /\ "running" \in Permitted <=> "finished" \in Permitted
          /\ "running" \in Guarded <=> "finished" \in Guarded
      BY DEF Phases, Permitted, Guarded
    <3>2. Advance(j, "running", "finished") /\ UNCHANGED <<permits, pending>>
      BY <1>3 DEF Finish, Advance
    <3>3. /\ PermitsConserved' /\ PendingInv'
          /\ phase' \in [Ops -> Phases] /\ kind' \in [Ops -> Kinds]
          /\ permits' \in 0 .. Permits /\ pending' \in [Owners -> Nat]
      BY <3>1, <3>2, QuietAdvance
    <3> QED
      BY <1>3, <3>3 DEF Finish, Advance, TypeOK, Stages, Cleaners, ownerVars
  <2>2. StageInv'
    BY <1>3
    DEF Finish, Advance, TypeOK, StageInv, OpInv, opVars, ownerVars, Guarded,
        Permitted
  <2>3. OpInv'
    BY <1>3
    DEF Finish, Advance, TypeOK, OpInv, StageInv, RemovalInv, opVars,
        ownerVars, Guarded, Permitted
  <2>4. RemovalInv'
    BY <1>3
    DEF Finish, Advance, TypeOK, RemovalInv, OpInv, StageInv, opVars,
        ownerVars, Guarded, Permitted
  <2>5. WakeInv'
    BY <1>3
    DEF Finish, Advance, TypeOK, WakeInv, StageInv, OpsIn, opVars, ownerVars
  <2> QED
    BY <2>1, <2>2, <2>3, <2>4, <2>5
<1>4. ASSUME NEW j \in Ops, DropPermit(j) PROVE ScratchInv'
  <2>1. TypeOK' /\ PermitsConserved' /\ PendingInv'
    <3>1. /\ "finished" \in Phases /\ "unpermitted" \in Phases
          /\ Weight("finished", Permitted) = 1 /\ Weight("unpermitted", Permitted) = 0
          /\ Weight("finished", Guarded) = 1 /\ Weight("unpermitted", Guarded) = 1
          /\ "unpermitted" \notin Permitted /\ permits \in Nat
      BY PermitsAssumption DEF Phases, Permitted, Guarded, Weight, TypeOK
    <3>2. Advance(j, "finished", "unpermitted") /\ permits' = permits + 1 - 0
      BY <1>4, <3>1 DEF DropPermit
    <3>4. pending' = [pending EXCEPT ![scopeOf[j]] =
                       pending[scopeOf[j]]
                         + Weight("unpermitted", Guarded) - Weight("finished", Guarded)]
      BY <1>4 DEF DropPermit, TypeOK, Weight, Guarded, Permitted
    <3>3. /\ PermitsConserved' /\ PendingInv'
          /\ phase' \in [Ops -> Phases] /\ kind' \in [Ops -> Kinds]
          /\ permits' \in 0 .. Permits /\ pending' \in [Owners -> Nat]
      BY <3>1, <3>2, <3>4, AdvanceKeeps
    <3> QED
      BY <1>4, <3>3 DEF DropPermit, TypeOK, ownerVars
  <2>2. StageInv'
    BY <1>4
    DEF DropPermit, Advance, TypeOK, StageInv, OpInv, opVars, ownerVars,
        Guarded, Permitted
  <2>3. OpInv'
    BY <1>4
    DEF DropPermit, Advance, TypeOK, OpInv, StageInv, RemovalInv, opVars,
        ownerVars, Guarded, Permitted
  <2>4. RemovalInv'
    BY <1>4
    DEF DropPermit, Advance, TypeOK, RemovalInv, OpInv, StageInv, opVars,
        ownerVars, Guarded, Permitted
  <2>5. WakeInv'
    BY <1>4
    DEF DropPermit, Advance, TypeOK, WakeInv, StageInv, OpsIn, opVars,
        ownerVars
  <2> QED
    BY <2>1, <2>2, <2>3, <2>4, <2>5
<1>5. ASSUME NEW j \in Ops, DropGuard(j) PROVE ScratchInv'
  <2>1. TypeOK' /\ PermitsConserved' /\ PendingInv'
    <3> DEFINE to == IF pending[scopeOf[j]] = 1 THEN "waking" ELSE Settled(j)
    <3>1. /\ "unpermitted" \in Phases /\ to \in Phases
          /\ Weight("unpermitted", Permitted) = 0 /\ Weight(to, Permitted) = 0
          /\ Weight("unpermitted", Guarded) = 1 /\ Weight(to, Guarded) = 0
          /\ to \notin Permitted /\ permits \in Nat
      BY PermitsAssumption
      DEF Phases, Permitted, Guarded, Weight, TypeOK, Settled
    <3>2. Advance(j, "unpermitted", to) /\ permits' = permits + 0 - 0
      BY <1>5, <3>1 DEF DropGuard
    <3> HIDE DEF to
    <3>4. pending' = [pending EXCEPT ![scopeOf[j]] =
                       pending[scopeOf[j]]
                         + Weight(to, Guarded) - Weight("unpermitted", Guarded)]
      <4>1. pending' = [pending EXCEPT ![scopeOf[j]] = pending[scopeOf[j]] - 1]
        BY <1>5 DEF DropGuard
      <4>2. pending[scopeOf[j]] - 1 = pending[scopeOf[j]] + 0 - 1
        BY DEF TypeOK
      <4> QED
        BY <3>1, <4>1, <4>2
    <3>3. /\ PermitsConserved' /\ PendingInv'
          /\ phase' \in [Ops -> Phases] /\ kind' \in [Ops -> Kinds]
          /\ permits' \in 0 .. Permits /\ pending' \in [Owners -> Nat]
      BY <3>1, <3>2, <3>4, AdvanceKeeps
    <3> QED
      BY <1>5, <3>3 DEF DropGuard, TypeOK, ownerVars
  <2>0. pending[scopeOf[j]] > 0
    BY <1>5, PendingPositive DEF DropGuard, Advance, Guarded
  <2>2. StageInv'
    BY <1>5, <2>0
    DEF DropGuard, Advance, Settled, TypeOK, StageInv, OpInv, opVars,
        ownerVars, Guarded, Permitted
  <2>3. OpInv'
    BY <1>5, <2>0
    DEF DropGuard, Advance, Settled, TypeOK, OpInv, StageInv, RemovalInv,
        opVars, ownerVars, Guarded, Permitted
  <2>4. RemovalInv'
    BY <1>5, <2>0
    DEF DropGuard, Advance, Settled, TypeOK, RemovalInv, OpInv, StageInv,
        opVars, ownerVars, Guarded, Permitted
  <2>5. WakeInv'
    BY <1>5, <2>0
    DEF DropGuard, Advance, Settled, TypeOK, WakeInv, StageInv, OpsIn,
        opVars, ownerVars
  <2> QED
    BY <2>1, <2>2, <2>3, <2>4, <2>5
<1>6. ASSUME NEW j \in Ops, NotifyIdle(j) PROVE ScratchInv'
  <2>1. TypeOK' /\ PermitsConserved' /\ PendingInv'
    <3>1. /\ Settled(j) \in Phases /\ "waking" \in Phases
          /\ "waking" \in Permitted <=> Settled(j) \in Permitted
          /\ "waking" \in Guarded <=> Settled(j) \in Guarded
      BY DEF Phases, Permitted, Guarded, Settled
    <3>2. Advance(j, "waking", Settled(j)) /\ UNCHANGED <<permits, pending>>
      BY <1>6 DEF NotifyIdle, Advance, Settled
    <3>3. /\ PermitsConserved' /\ PendingInv'
          /\ phase' \in [Ops -> Phases] /\ kind' \in [Ops -> Kinds]
          /\ permits' \in 0 .. Permits /\ pending' \in [Owners -> Nat]
      BY <3>1, <3>2, QuietAdvance
    <3> QED
      BY <1>6, <3>3 DEF NotifyIdle, Advance, Settled, TypeOK, ownerVars
  <2>2. StageInv'
    BY <1>6
    DEF NotifyIdle, Advance, Settled, TypeOK, StageInv, OpInv, opVars,
        ownerVars, Guarded, Permitted
  <2>3. OpInv'
    BY <1>6
    DEF NotifyIdle, Advance, Settled, TypeOK, OpInv, StageInv, RemovalInv,
        opVars, ownerVars, Guarded, Permitted
  <2>4. RemovalInv'
    BY <1>6
    DEF NotifyIdle, Advance, Settled, TypeOK, RemovalInv, OpInv, StageInv,
        opVars, ownerVars, Guarded, Permitted
  <2>5. WakeInv'
    BY <1>6
    DEF NotifyIdle, Advance, Settled, TypeOK, WakeInv, StageInv, OpsIn,
        opVars, ownerVars
  <2> QED
    BY <2>1, <2>2, <2>3, <2>4, <2>5
<1>7. ASSUME NEW j \in Ops, Deliver(j) PROVE ScratchInv'
  <2>1. TypeOK' /\ PermitsConserved' /\ PendingInv'
    <3>1. /\ "done" \in Phases /\ "free" \in Phases
          /\ "done" \in Permitted <=> "free" \in Permitted
          /\ "done" \in Guarded <=> "free" \in Guarded
      BY DEF Phases, Permitted, Guarded
    <3>2. Advance(j, "done", "free") /\ UNCHANGED <<permits, pending>>
      BY <1>7 DEF Deliver, Advance
    <3>3. /\ PermitsConserved' /\ PendingInv'
          /\ phase' \in [Ops -> Phases] /\ kind' \in [Ops -> Kinds]
          /\ permits' \in 0 .. Permits /\ pending' \in [Owners -> Nat]
      BY <3>1, <3>2, QuietAdvance
    <3> QED
      <4>1. awaited' \in [Ops -> BOOLEAN] /\ succeeded' \in [Ops -> BOOLEAN]
        BY <1>7 DEF Deliver, Advance, TypeOK
      <4>2. stage' \in [Owners -> Stages]
        BY <1>7, ZenonT(60) DEF Deliver, Advance, TypeOK, Stages
      <4>3. armed' \in [Owners -> BOOLEAN]
        BY <1>7 DEF Deliver, Advance, TypeOK
      <4>4. reserved' \in [Owners -> {"guard", "task", "none"}]
        BY <1>7 DEF Deliver, Advance, TypeOK
      <4>5. cleaner' \in [Owners -> Cleaners]
        BY <1>7 DEF Deliver, Advance, TypeOK, Cleaners
      <4>6. UNCHANGED <<queue, dir, unlinking, woken>>
        BY <1>7 DEF Deliver, Advance
      <4> QED
        BY <3>3, <4>1, <4>2, <4>3, <4>4, <4>5, <4>6 DEF TypeOK
  <2>2. StageInv'
    BY <1>7
    DEF Deliver, Advance, TypeOK, StageInv, OpInv, opVars, ownerVars,
        Guarded, Permitted
  <2>3. OpInv'
    <3>1. /\ phase'[j] = "free" /\ ~awaited'[j] /\ ~succeeded'[j]
          /\ \A i \in Ops : i # j =>
               /\ phase'[i] = phase[i] /\ kind'[i] = kind[i]
               /\ awaited'[i] = awaited[i] /\ succeeded'[i] = succeeded[i]
          /\ UNCHANGED <<dir, cleaner>>
      BY <1>7 DEF Deliver, Advance, TypeOK
    <3>2. \A o \in Owners : stage[o] \in {"preparing", "ready", "failed"} =>
            stage'[o] \in {"preparing", "ready", "failed"}
      BY <1>7 DEF Deliver, Advance, TypeOK
    <3> QED
      BY <3>1, <3>2 DEF OpInv
  <2>4. RemovalInv'
    BY <1>7
    DEF Deliver, Advance, TypeOK, RemovalInv, OpInv, StageInv, opVars,
        ownerVars, Guarded, Permitted
  <2>5. WakeInv'
    BY <1>7
    DEF Deliver, Advance, TypeOK, WakeInv, StageInv, OpsIn, opVars,
        ownerVars
  <2> QED
    BY <2>1, <2>2, <2>3, <2>4, <2>5
<1>8. ASSUME NEW j \in Ops, RemovalReturns(j) PROVE ScratchInv'
  <2>1. TypeOK' /\ PermitsConserved' /\ PendingInv'
    <3>1. /\ "done" \in Phases /\ "free" \in Phases
          /\ "done" \in Permitted <=> "free" \in Permitted
          /\ "done" \in Guarded <=> "free" \in Guarded
      BY DEF Phases, Permitted, Guarded
    <3>2. Advance(j, "done", "free") /\ UNCHANGED <<permits, pending>>
      BY <1>8 DEF RemovalReturns, Advance, CleanerStep
    <3>3. /\ PermitsConserved' /\ PendingInv'
          /\ phase' \in [Ops -> Phases] /\ kind' \in [Ops -> Kinds]
          /\ permits' \in 0 .. Permits /\ pending' \in [Owners -> Nat]
      BY <3>1, <3>2, QuietAdvance
    <3> QED
      <4>1. awaited' \in [Ops -> BOOLEAN] /\ succeeded' \in [Ops -> BOOLEAN]
        BY <1>8 DEF RemovalReturns, Advance, CleanerStep, TypeOK
      <4>2. stage' \in [Owners -> Stages]
        <5>1. \/ stage' = [stage EXCEPT ![scopeOf[j]] = "closed"]
              \/ stage' = [stage EXCEPT ![scopeOf[j]] =
                             IF stage[scopeOf[j]] = "dropped"
                             THEN "leaked" ELSE stage[scopeOf[j]]]
          BY <1>8 DEF RemovalReturns
        <5> QED
          BY <5>1, ZenonT(60) DEF TypeOK, Stages
      <4>3. armed' \in [Owners -> BOOLEAN]
        BY <1>8 DEF RemovalReturns, Advance, CleanerStep, TypeOK
      <4>4. reserved' \in [Owners -> {"guard", "task", "none"}]
        BY <1>8 DEF RemovalReturns, Advance, CleanerStep, TypeOK
      <4>5. cleaner' \in [Owners -> Cleaners]
        BY <1>8 DEF RemovalReturns, Advance, CleanerStep, TypeOK, Cleaners
      <4>6. UNCHANGED <<queue, dir, unlinking, woken>>
        BY <1>8 DEF RemovalReturns, Advance, CleanerStep
      <4> QED
        BY <3>3, <4>1, <4>2, <4>3, <4>4, <4>5, <4>6 DEF TypeOK
  <2>2. StageInv'
    <3> DEFINE p == scopeOf[j]
    <3>1. /\ kind[j] = "remove" /\ awaited[j] /\ phase[j] = "done"
          /\ cleaner[p] = "removing" /\ p \in Owners
      BY <1>8 DEF RemovalReturns, Advance, CleanerStep
    <3>2. \A i \in Ops : scopeOf[i] = p => phase[i] \notin Guarded
      <4>1. ASSUME NEW i \in Ops, scopeOf[i] = p, phase[i] \in Guarded PROVE FALSE
        <5>1. kind[i] = "remove" /\ awaited[i] /\ phase[i] # "free"
          BY <3>1, <4>1 DEF RemovalInv, Guarded, Permitted
        <5>2. i = j
          BY <3>1, <4>1, <5>1 DEF RemovalInv
        <5> QED
          BY <3>1, <4>1, <5>2 DEF Guarded, Permitted
      <4> QED
        BY <4>1
    <3>3. /\ stage[p] \in {"closing", "dropped"}
          /\ succeeded[j] => ~dir[p]
      BY <3>1 DEF StageInv, OpInv
    <3>4. \A i \in Ops : phase'[i] = IF i = j THEN "free" ELSE phase[i]
      BY <1>8 DEF RemovalReturns, Advance, CleanerStep, TypeOK
    <3>5. /\ \A q \in Owners : q # p =>
               /\ stage'[q] = stage[q] /\ armed'[q] = armed[q]
               /\ reserved'[q] = reserved[q] /\ cleaner'[q] = cleaner[q]
          /\ cleaner'[p] = "none" /\ UNCHANGED <<dir, unlinking>>
      BY <1>8 DEF RemovalReturns, Advance, CleanerStep, TypeOK
    <3>6. /\ succeeded[j] => stage'[p] = "closed" /\ reserved'[p] = "none"
          /\ ~succeeded[j] /\ stage[p] = "dropped" => stage'[p] = "leaked"
          /\ ~succeeded[j] /\ stage[p] = "closing" =>
               /\ stage'[p] = "closing" /\ armed'[p] = armed[p]
               /\ reserved'[p] = reserved[p]
      BY <1>8, <3>1, <3>3 DEF RemovalReturns, Advance, CleanerStep, TypeOK
    <3>7. ASSUME NEW q \in Owners, q # p PROVE StageInv!(q)'
      BY <3>4, <3>5, <3>7 DEF StageInv, Guarded, Permitted
    <3>8. StageInv!(p)'
      BY <3>1, <3>2, <3>3, <3>4, <3>5, <3>6 DEF StageInv, Guarded, Permitted
    <3> QED
      BY <3>7, <3>8 DEF StageInv
  <2>3. OpInv'
    BY <1>8
    DEF RemovalReturns, Advance, CleanerStep, TypeOK, OpInv, StageInv,
        RemovalInv, opVars, ownerVars, Guarded, Permitted
  <2>4. RemovalInv'
    BY <1>8
    DEF RemovalReturns, Advance, CleanerStep, TypeOK, RemovalInv, OpInv,
        StageInv, opVars, ownerVars, Guarded, Permitted
  <2>5. WakeInv'
    BY <1>8
    DEF RemovalReturns, Advance, CleanerStep, TypeOK, WakeInv, StageInv,
        OpsIn, opVars, ownerVars
  <2> QED
    BY <2>1, <2>2, <2>3, <2>4, <2>5
<1>9. ASSUME NEW j \in Ops, CancelOp(j) PROVE ScratchInv'
  <2>1. TypeOK' /\ PermitsConserved' /\ PendingInv'
    <3>1. Abandon(j)
      BY <1>9 DEF CancelOp
    <3> QED
      <4>1. /\ PermitsConserved' /\ PendingInv'
            /\ phase' \in [Ops -> Phases] /\ kind' \in [Ops -> Kinds]
            /\ awaited' \in [Ops -> BOOLEAN] /\ succeeded' \in [Ops -> BOOLEAN]
            /\ queue' \in Seq(Ops) /\ permits' \in 0 .. Permits
            /\ pending' \in [Owners -> Nat]
        BY <3>1, AbandonKeeps
      <4>2. stage' \in [Owners -> Stages]
        BY <1>9 DEF CancelOp, TypeOK, Stages
      <4>3. cleaner' \in [Owners -> Cleaners]
        BY <1>9 DEF CancelOp, TypeOK, Cleaners
      <4>4. UNCHANGED <<armed, reserved, dir, unlinking, woken>>
        BY <1>9 DEF CancelOp, Abandon
      <4> QED
        BY <4>1, <4>2, <4>3, <4>4 DEF TypeOK
  <2>2. StageInv'
    BY <1>9
    DEF CancelOp, Abandon, TypeOK, StageInv, OpInv, opVars, ownerVars,
        Guarded, Permitted
  <2>3. OpInv'
    <3>1. /\ ~awaited'[j] /\ ~succeeded'[j]
          /\ \A i \in Ops : i # j =>
               /\ phase'[i] = phase[i] /\ kind'[i] = kind[i]
               /\ awaited'[i] = awaited[i] /\ succeeded'[i] = succeeded[i]
          /\ UNCHANGED <<dir, cleaner>>
      BY <1>9 DEF CancelOp, Abandon, TypeOK
    <3>2. \A o \in Owners : stage[o] \in {"preparing", "ready", "failed"} =>
            stage'[o] \in {"preparing", "ready", "failed"}
      BY <1>9 DEF CancelOp, Abandon, TypeOK
    <3> QED
      BY <3>1, <3>2 DEF OpInv
  <2>4. RemovalInv'
    BY <1>9
    DEF CancelOp, Abandon, TypeOK, RemovalInv, OpInv, StageInv, opVars,
        ownerVars, Guarded, Permitted
  <2>5. WakeInv'
    BY <1>9
    DEF CancelOp, Abandon, TypeOK, WakeInv, StageInv, OpsIn, opVars,
        ownerVars
  <2> QED
    BY <2>1, <2>2, <2>3, <2>4, <2>5
<1>10. ASSUME NEW j \in Ops, CancelRemoval(j) PROVE ScratchInv'
  <2>1. TypeOK' /\ PermitsConserved' /\ PendingInv'
    <3>1. Abandon(j)
      BY <1>10 DEF CancelRemoval, CleanerStep
    <3> QED
      <4>1. /\ PermitsConserved' /\ PendingInv'
            /\ phase' \in [Ops -> Phases] /\ kind' \in [Ops -> Kinds]
            /\ awaited' \in [Ops -> BOOLEAN] /\ succeeded' \in [Ops -> BOOLEAN]
            /\ queue' \in Seq(Ops) /\ permits' \in 0 .. Permits
            /\ pending' \in [Owners -> Nat]
        BY <3>1, AbandonKeeps
      <4>2. stage' \in [Owners -> Stages]
        BY <1>10 DEF CancelRemoval, CleanerStep, TypeOK, Stages
      <4>3. cleaner' \in [Owners -> Cleaners]
        BY <1>10 DEF CancelRemoval, CleanerStep, TypeOK, Cleaners
      <4>4. UNCHANGED <<armed, reserved, dir, unlinking, woken>>
        BY <1>10 DEF CancelRemoval, CleanerStep, Abandon
      <4> QED
        BY <4>1, <4>2, <4>3, <4>4 DEF TypeOK
  <2>2. StageInv'
    BY <1>10
    DEF CancelRemoval, Abandon, CleanerStep, TypeOK, StageInv, OpInv, opVars,
        ownerVars, Guarded, Permitted
  <2>3. OpInv'
    BY <1>10
    DEF CancelRemoval, Abandon, CleanerStep, TypeOK, OpInv, StageInv,
        RemovalInv, opVars, ownerVars, Guarded, Permitted
  <2>4. RemovalInv'
    BY <1>10
    DEF CancelRemoval, Abandon, CleanerStep, TypeOK, RemovalInv, OpInv,
        StageInv, opVars, ownerVars, Guarded, Permitted
  <2>5. WakeInv'
    BY <1>10
    DEF CancelRemoval, Abandon, CleanerStep, TypeOK, WakeInv, StageInv,
        OpsIn, opVars, ownerVars
  <2> QED
    BY <2>1, <2>2, <2>3, <2>4, <2>5
<1>11. ASSUME NEW o \in Owners, NEW j \in Ops, Prepare(o, j) PROVE ScratchInv'
  <2>1. TypeOK' /\ PermitsConserved' /\ PendingInv'
    <3>1. Submit(o, j, "mkdir") /\ "mkdir" \in Kinds
      BY <1>11 DEF Prepare, Submit, Kinds
    <3> QED
      <4>1. /\ PermitsConserved' /\ PendingInv'
            /\ phase' \in [Ops -> Phases] /\ kind' \in [Ops -> Kinds]
            /\ awaited' \in [Ops -> BOOLEAN] /\ succeeded' \in [Ops -> BOOLEAN]
            /\ queue' \in Seq(Ops) /\ permits' \in 0 .. Permits
            /\ pending' \in [Owners -> Nat]
        BY <3>1, SubmitKeeps
      <4> QED
        BY <1>11, <4>1 DEF Prepare, Submit, TypeOK, Stages, Cleaners, ownerVars
  <2>2. StageInv'
    BY <1>11
    DEF Prepare, Submit, TypeOK, StageInv, OpInv, opVars, ownerVars, Guarded,
        Permitted
  <2>3. OpInv'
    BY <1>11
    DEF Prepare, Submit, TypeOK, OpInv, StageInv, RemovalInv, opVars,
        ownerVars, Guarded, Permitted
  <2>4. RemovalInv'
    <3>1. /\ scopeOf[j] = o /\ phase[j] = "free" /\ phase'[j] = "queued"
          /\ kind'[j] = "mkdir" /\ awaited'[j]
          /\ \A i \in Ops : i # j =>
               /\ phase'[i] = phase[i] /\ kind'[i] = kind[i]
               /\ awaited'[i] = awaited[i]
      BY <1>11 DEF Prepare, Submit, TypeOK
    <3>2. /\ stage[o] = "fresh" /\ UNCHANGED cleaner /\ cleaner[o] = "none"
          /\ \A p \in Owners : stage'[p] = IF p = o THEN "preparing" ELSE stage[p]
          /\ \A i \in Ops : scopeOf[i] = o => phase[i] = "free"
      BY <1>11 DEF Prepare, Submit, TypeOK, StageInv
    <3> QED
      BY <3>1, <3>2 DEF RemovalInv, Guarded, Permitted
  <2>5. WakeInv'
    BY <1>11
    DEF Prepare, Submit, TypeOK, WakeInv, StageInv, OpsIn, opVars, ownerVars
  <2> QED
    BY <2>1, <2>2, <2>3, <2>4, <2>5
<1>12. ASSUME NEW o \in Owners, NEW j \in Ops, Use(o, j) PROVE ScratchInv'
  <2>1. TypeOK' /\ PermitsConserved' /\ PendingInv'
    <3>1. Submit(o, j, "file") /\ "file" \in Kinds
      BY <1>12 DEF Use, Submit, Kinds
    <3> QED
      <4>1. /\ PermitsConserved' /\ PendingInv'
            /\ phase' \in [Ops -> Phases] /\ kind' \in [Ops -> Kinds]
            /\ awaited' \in [Ops -> BOOLEAN] /\ succeeded' \in [Ops -> BOOLEAN]
            /\ queue' \in Seq(Ops) /\ permits' \in 0 .. Permits
            /\ pending' \in [Owners -> Nat]
        BY <3>1, SubmitKeeps
      <4> QED
        BY <1>12, <4>1 DEF Use, Submit, TypeOK, Stages, Cleaners, ownerVars
  <2>2. StageInv'
    BY <1>12
    DEF Use, Submit, TypeOK, StageInv, OpInv, opVars, ownerVars, Guarded,
        Permitted
  <2>3. OpInv'
    BY <1>12
    DEF Use, Submit, TypeOK, OpInv, StageInv, RemovalInv, opVars, ownerVars,
        Guarded, Permitted
  <2>4. RemovalInv'
    <3>1. /\ scopeOf[j] = o /\ phase[j] = "free" /\ phase'[j] = "queued"
          /\ kind'[j] = "file" /\ awaited'[j]
          /\ \A i \in Ops : i # j =>
               /\ phase'[i] = phase[i] /\ kind'[i] = kind[i]
               /\ awaited'[i] = awaited[i]
      BY <1>12 DEF Use, Submit, TypeOK
    <3>2. /\ stage[o] = "ready" /\ UNCHANGED <<cleaner, stage>>
          /\ cleaner[o] = "none"
      BY <1>12 DEF Use, Submit, TypeOK, StageInv, ownerVars
    <3> QED
      BY <3>1, <3>2 DEF RemovalInv, Guarded, Permitted
  <2>5. WakeInv'
    BY <1>12
    DEF Use, Submit, TypeOK, WakeInv, StageInv, OpsIn, opVars, ownerVars
  <2> QED
    BY <2>1, <2>2, <2>3, <2>4, <2>5
<1>13. ASSUME NEW o \in Owners, PrepareRefused(o) PROVE ScratchInv'
  <2>1. TypeOK' /\ PermitsConserved' /\ PendingInv'
    <3>1. PermitsConserved' /\ PendingInv'
      BY <1>13, CountsUntouched DEF PrepareRefused, opVars
    <3>2. TypeOK'
      BY <1>13 DEF PrepareRefused, TypeOK, Stages, Cleaners, opVars, ownerVars
    <3> QED
      BY <3>1, <3>2
  <2>2. StageInv'
    BY <1>13
    DEF PrepareRefused, TypeOK, StageInv, OpInv, opVars, ownerVars, Guarded,
        Permitted
  <2>3. OpInv'
    BY <1>13
    DEF PrepareRefused, TypeOK, OpInv, StageInv, RemovalInv, opVars,
        ownerVars, Guarded, Permitted
  <2>4. RemovalInv'
    BY <1>13
    DEF PrepareRefused, TypeOK, RemovalInv, OpInv, StageInv, opVars,
        ownerVars, Guarded, Permitted
  <2>5. WakeInv'
    BY <1>13
    DEF PrepareRefused, TypeOK, WakeInv, StageInv, OpsIn, opVars, ownerVars
  <2> QED
    BY <2>1, <2>2, <2>3, <2>4, <2>5
<1>14. ASSUME NEW o \in Owners, Unlink(o) PROVE ScratchInv'
  <2>1. TypeOK' /\ PermitsConserved' /\ PendingInv'
    <3>1. PermitsConserved' /\ PendingInv'
      BY <1>14, CountsUntouched DEF Unlink, opVars
    <3>2. TypeOK'
      BY <1>14 DEF Unlink, TypeOK, Stages, Cleaners, opVars, ownerVars
    <3> QED
      BY <3>1, <3>2
  <2>2. StageInv'
    BY <1>14
    DEF Unlink, TypeOK, StageInv, OpInv, opVars, ownerVars, Guarded,
        Permitted
  <2>3. OpInv'
    BY <1>14
    DEF Unlink, TypeOK, OpInv, StageInv, RemovalInv, opVars, ownerVars,
        Guarded, Permitted
  <2>4. RemovalInv'
    BY <1>14
    DEF Unlink, TypeOK, RemovalInv, OpInv, StageInv, opVars, ownerVars,
        Guarded, Permitted
  <2>5. WakeInv'
    BY <1>14 DEF Unlink, TypeOK, WakeInv, StageInv, OpsIn, opVars, ownerVars
  <2> QED
    BY <2>1, <2>2, <2>3, <2>4, <2>5
<1>15. ASSUME NEW o \in Owners, CancelUnlink(o) PROVE ScratchInv'
  <2>1. TypeOK' /\ PermitsConserved' /\ PendingInv'
    <3>1. PermitsConserved' /\ PendingInv'
      BY <1>15, CountsUntouched DEF CancelUnlink, opVars
    <3>2. TypeOK'
      BY <1>15 DEF CancelUnlink, TypeOK, Stages, Cleaners, opVars, ownerVars
    <3> QED
      BY <3>1, <3>2
  <2>2. StageInv'
    BY <1>15
    DEF CancelUnlink, TypeOK, StageInv, OpInv, opVars, ownerVars, Guarded,
        Permitted
  <2>3. OpInv'
    BY <1>15
    DEF CancelUnlink, TypeOK, OpInv, StageInv, RemovalInv, opVars, ownerVars,
        Guarded, Permitted
  <2>4. RemovalInv'
    BY <1>15
    DEF CancelUnlink, TypeOK, RemovalInv, OpInv, StageInv, opVars, ownerVars,
        Guarded, Permitted
  <2>5. WakeInv'
    BY <1>15
    DEF CancelUnlink, TypeOK, WakeInv, StageInv, OpsIn, opVars, ownerVars
  <2> QED
    BY <2>1, <2>2, <2>3, <2>4, <2>5
<1>16. ASSUME NEW o \in Owners, NEW ok \in BOOLEAN, UnlinkDone(o, ok)
       PROVE  ScratchInv'
  <2>1. TypeOK' /\ PermitsConserved' /\ PendingInv'
    <3>1. PermitsConserved' /\ PendingInv'
      BY <1>16, CountsUntouched DEF UnlinkDone, opVars
    <3>2. TypeOK'
      BY <1>16 DEF UnlinkDone, TypeOK, Stages, Cleaners, opVars, ownerVars
    <3> QED
      BY <3>1, <3>2
  <2>2. StageInv'
    BY <1>16
    DEF UnlinkDone, TypeOK, StageInv, OpInv, opVars, ownerVars, Guarded,
        Permitted
  <2>3. OpInv'
    BY <1>16
    DEF UnlinkDone, TypeOK, OpInv, StageInv, RemovalInv, opVars, ownerVars,
        Guarded, Permitted
  <2>4. RemovalInv'
    BY <1>16
    DEF UnlinkDone, TypeOK, RemovalInv, OpInv, StageInv, opVars, ownerVars,
        Guarded, Permitted
  <2>5. WakeInv'
    BY <1>16
    DEF UnlinkDone, TypeOK, WakeInv, StageInv, OpsIn, opVars, ownerVars
  <2> QED
    BY <2>1, <2>2, <2>3, <2>4, <2>5
<1>17. ASSUME NEW o \in Owners, Cleanup(o) PROVE ScratchInv'
  <2>1. TypeOK' /\ PermitsConserved' /\ PendingInv'
    <3>1. PermitsConserved' /\ PendingInv'
      BY <1>17, CountsUntouched DEF Cleanup, Exclusive, Awaited, opVars
    <3>2. TypeOK'
      BY <1>17
      DEF Cleanup, Exclusive, Awaited, TypeOK, Stages, Cleaners, opVars,
          ownerVars
    <3> QED
      BY <3>1, <3>2
  <2>2. StageInv'
    BY <1>17
    DEF Cleanup, Exclusive, Awaited, TypeOK, StageInv, OpInv, opVars,
        ownerVars, Guarded, Permitted
  <2>3. OpInv'
    BY <1>17
    DEF Cleanup, Exclusive, Awaited, TypeOK, OpInv, StageInv, RemovalInv,
        opVars, ownerVars, Guarded, Permitted
  <2>4. RemovalInv'
    BY <1>17
    DEF Cleanup, Exclusive, Awaited, TypeOK, RemovalInv, OpInv, StageInv,
        opVars, ownerVars, Guarded, Permitted
  <2>5. WakeInv'
    BY <1>17
    DEF Cleanup, Exclusive, Awaited, TypeOK, WakeInv, StageInv, OpsIn,
        opVars, ownerVars
  <2> QED
    BY <2>1, <2>2, <2>3, <2>4, <2>5
<1>18. ASSUME NEW o \in Owners, Drop(o) PROVE ScratchInv'
  <2>1. TypeOK' /\ PermitsConserved' /\ PendingInv'
    <3>1. PermitsConserved' /\ PendingInv'
      BY <1>18, CountsUntouched DEF Drop, Exclusive, Awaited, opVars
    <3>2. TypeOK'
      BY <1>18, ZenonT(60)
      DEF Drop, Exclusive, Awaited, TypeOK, Stages, Cleaners, opVars,
          ownerVars
    <3> QED
      BY <3>1, <3>2
  <2>2. StageInv'
    <3>1. CASE armed[o]
      BY <1>18, <3>1 DEF Drop, Exclusive, Awaited, TypeOK, StageInv, opVars
    <3>2. CASE ~armed[o]
      <4>1. stage[o] = "fresh"
        BY <1>18, <3>2 DEF Drop, Exclusive, Awaited, StageInv
      <4> QED
        BY <1>18, <3>2, <4>1
        DEF Drop, Exclusive, Awaited, TypeOK, StageInv, opVars, Guarded,
            Permitted
    <3> QED
      BY <3>1, <3>2
  <2>3. OpInv'
    BY <1>18
    DEF Drop, Exclusive, Awaited, TypeOK, OpInv, StageInv, RemovalInv,
        opVars, ownerVars, Guarded, Permitted
  <2>4. RemovalInv'
    BY <1>18
    DEF Drop, Exclusive, Awaited, TypeOK, RemovalInv, OpInv, StageInv,
        opVars, ownerVars, Guarded, Permitted
  <2>5. WakeInv'
    <3>1. \A p \in Owners : cleaner'[p] \in {cleaner[p], "enable"}
      BY <1>18 DEF Drop, Exclusive, Awaited, TypeOK
    <3> QED
      BY <1>18, <3>1 DEF Drop, WakeInv, OpsIn, opVars
  <2> QED
    BY <2>1, <2>2, <2>3, <2>4, <2>5
<1>19. ASSUME NEW o \in Owners, DropOutsideRuntime(o) PROVE ScratchInv'
  <2>1. TypeOK' /\ PermitsConserved' /\ PendingInv'
    <3>1. PermitsConserved' /\ PendingInv'
      BY <1>19, CountsUntouched
      DEF DropOutsideRuntime, Exclusive, Awaited, opVars
    <3>2. TypeOK'
      BY <1>19
      DEF DropOutsideRuntime, Exclusive, Awaited, TypeOK, Stages, Cleaners,
          opVars, ownerVars
    <3> QED
      BY <3>1, <3>2
  <2>2. StageInv'
    BY <1>19
    DEF DropOutsideRuntime, Exclusive, Awaited, TypeOK, StageInv, OpInv,
        opVars, ownerVars, Guarded, Permitted
  <2>3. OpInv'
    BY <1>19
    DEF DropOutsideRuntime, Exclusive, Awaited, TypeOK, OpInv, StageInv,
        RemovalInv, opVars, ownerVars, Guarded, Permitted
  <2>4. RemovalInv'
    BY <1>19
    DEF DropOutsideRuntime, Exclusive, Awaited, TypeOK, RemovalInv, OpInv,
        StageInv, opVars, ownerVars, Guarded, Permitted
  <2>5. WakeInv'
    BY <1>19
    DEF DropOutsideRuntime, Exclusive, Awaited, TypeOK, WakeInv, StageInv,
        OpsIn, opVars, ownerVars
  <2> QED
    BY <2>1, <2>2, <2>3, <2>4, <2>5
<1>20. ASSUME NEW o \in Owners, CancelIdle(o) PROVE ScratchInv'
  <2>1. TypeOK' /\ PermitsConserved' /\ PendingInv'
    <3>1. PermitsConserved' /\ PendingInv'
      BY <1>20, CountsUntouched DEF CancelIdle, CleanerStep, opVars
    <3>2. TypeOK'
      BY <1>20
      DEF CancelIdle, CleanerStep, TypeOK, Stages, Cleaners, opVars,
          ownerVars
    <3> QED
      BY <3>1, <3>2
  <2>2. StageInv'
    BY <1>20
    DEF CancelIdle, CleanerStep, TypeOK, StageInv, OpInv, opVars, ownerVars,
        Guarded, Permitted
  <2>3. OpInv'
    BY <1>20
    DEF CancelIdle, CleanerStep, TypeOK, OpInv, StageInv, RemovalInv, opVars,
        ownerVars, Guarded, Permitted
  <2>4. RemovalInv'
    BY <1>20
    DEF CancelIdle, CleanerStep, TypeOK, RemovalInv, OpInv, StageInv, opVars,
        ownerVars, Guarded, Permitted
  <2>5. WakeInv'
    BY <1>20
    DEF CancelIdle, CleanerStep, TypeOK, WakeInv, StageInv, OpsIn, opVars,
        ownerVars
  <2> QED
    BY <2>1, <2>2, <2>3, <2>4, <2>5
<1>21. ASSUME NEW o \in Owners, IdleEnable(o) PROVE ScratchInv'
  <2>1. TypeOK' /\ PermitsConserved' /\ PendingInv'
    <3>1. PermitsConserved' /\ PendingInv'
      BY <1>21, CountsUntouched DEF IdleEnable, CleanerStep, opVars
    <3>2. TypeOK'
      BY <1>21
      DEF IdleEnable, CleanerStep, TypeOK, Stages, Cleaners, opVars,
          ownerVars
    <3> QED
      BY <3>1, <3>2
  <2>2. StageInv'
    BY <1>21
    DEF IdleEnable, CleanerStep, TypeOK, StageInv, OpInv, opVars, ownerVars,
        Guarded, Permitted
  <2>3. OpInv'
    BY <1>21
    DEF IdleEnable, CleanerStep, TypeOK, OpInv, StageInv, RemovalInv, opVars,
        ownerVars, Guarded, Permitted
  <2>4. RemovalInv'
    BY <1>21
    DEF IdleEnable, CleanerStep, TypeOK, RemovalInv, OpInv, StageInv, opVars,
        ownerVars, Guarded, Permitted
  <2>5. WakeInv'
    BY <1>21
    DEF IdleEnable, CleanerStep, TypeOK, WakeInv, StageInv, OpsIn, opVars,
        ownerVars
  <2> QED
    BY <2>1, <2>2, <2>3, <2>4, <2>5
<1>22. ASSUME NEW o \in Owners, IdleCheck(o) PROVE ScratchInv'
  <2>1. TypeOK' /\ PermitsConserved' /\ PendingInv'
    <3>1. PermitsConserved' /\ PendingInv'
      BY <1>22, CountsUntouched DEF IdleCheck, CleanerStep, opVars
    <3>2. TypeOK'
      BY <1>22
      DEF IdleCheck, CleanerStep, TypeOK, Stages, Cleaners, opVars,
          ownerVars
    <3> QED
      BY <3>1, <3>2
  <2>0. /\ pending[o] \in Nat
        /\ pending[o] = 0 => \A j \in Ops : scopeOf[j] = o => phase[j] \notin Guarded
    BY PendingPositive DEF TypeOK
  <2>2. StageInv'
    BY <1>22, <2>0
    DEF IdleCheck, CleanerStep, TypeOK, StageInv, OpInv, opVars, ownerVars,
        Guarded, Permitted
  <2>3. OpInv'
    BY <1>22, <2>0
    DEF IdleCheck, CleanerStep, TypeOK, OpInv, StageInv, RemovalInv, opVars,
        ownerVars, Guarded, Permitted
  <2>4. RemovalInv'
    BY <1>22, <2>0
    DEF IdleCheck, CleanerStep, TypeOK, RemovalInv, OpInv, StageInv, opVars,
        ownerVars, Guarded, Permitted
  <2>5. WakeInv'
    BY <1>22, <2>0
    DEF IdleCheck, CleanerStep, TypeOK, WakeInv, StageInv, OpsIn, opVars,
        ownerVars
  <2> QED
    BY <2>1, <2>2, <2>3, <2>4, <2>5
<1>23. ASSUME NEW o \in Owners, IdleSleep(o) PROVE ScratchInv'
  <2>1. TypeOK' /\ PermitsConserved' /\ PendingInv'
    <3>1. PermitsConserved' /\ PendingInv'
      BY <1>23, CountsUntouched DEF IdleSleep, CleanerStep, opVars
    <3>2. TypeOK'
      BY <1>23
      DEF IdleSleep, CleanerStep, TypeOK, Stages, Cleaners, opVars,
          ownerVars
    <3> QED
      BY <3>1, <3>2
  <2>2. StageInv'
    BY <1>23
    DEF IdleSleep, CleanerStep, TypeOK, StageInv, OpInv, opVars, ownerVars,
        Guarded, Permitted
  <2>3. OpInv'
    BY <1>23
    DEF IdleSleep, CleanerStep, TypeOK, OpInv, StageInv, RemovalInv, opVars,
        ownerVars, Guarded, Permitted
  <2>4. RemovalInv'
    BY <1>23
    DEF IdleSleep, CleanerStep, TypeOK, RemovalInv, OpInv, StageInv, opVars,
        ownerVars, Guarded, Permitted
  <2>5. WakeInv'
    BY <1>23
    DEF IdleSleep, CleanerStep, TypeOK, WakeInv, StageInv, OpsIn, opVars,
        ownerVars
  <2> QED
    BY <2>1, <2>2, <2>3, <2>4, <2>5
<1>24. ASSUME NEW o \in Owners, IdleWake(o) PROVE ScratchInv'
  <2>1. TypeOK' /\ PermitsConserved' /\ PendingInv'
    <3>1. PermitsConserved' /\ PendingInv'
      BY <1>24, CountsUntouched DEF IdleWake, CleanerStep, opVars
    <3>2. TypeOK'
      BY <1>24
      DEF IdleWake, CleanerStep, TypeOK, Stages, Cleaners, opVars, ownerVars
    <3> QED
      BY <3>1, <3>2
  <2>2. StageInv'
    BY <1>24
    DEF IdleWake, CleanerStep, TypeOK, StageInv, OpInv, opVars, ownerVars,
        Guarded, Permitted
  <2>3. OpInv'
    BY <1>24
    DEF IdleWake, CleanerStep, TypeOK, OpInv, StageInv, RemovalInv, opVars,
        ownerVars, Guarded, Permitted
  <2>4. RemovalInv'
    BY <1>24
    DEF IdleWake, CleanerStep, TypeOK, RemovalInv, OpInv, StageInv, opVars,
        ownerVars, Guarded, Permitted
  <2>5. WakeInv'
    BY <1>24
    DEF IdleWake, CleanerStep, TypeOK, WakeInv, StageInv, OpsIn, opVars,
        ownerVars
  <2> QED
    BY <2>1, <2>2, <2>3, <2>4, <2>5
<1>25. ASSUME NEW o \in Owners, NEW j \in Ops, SubmitRemoval(o, j)
       PROVE  ScratchInv'
  <2>1. TypeOK' /\ PermitsConserved' /\ PendingInv'
    <3>1. Submit(o, j, "remove") /\ "remove" \in Kinds
      BY <1>25 DEF SubmitRemoval, Submit, CleanerStep, Kinds
    <3> QED
      <4>1. /\ PermitsConserved' /\ PendingInv'
            /\ phase' \in [Ops -> Phases] /\ kind' \in [Ops -> Kinds]
            /\ awaited' \in [Ops -> BOOLEAN] /\ succeeded' \in [Ops -> BOOLEAN]
            /\ queue' \in Seq(Ops) /\ permits' \in 0 .. Permits
            /\ pending' \in [Owners -> Nat]
        BY <3>1, SubmitKeeps
      <4> QED
        BY <1>25, <4>1
        DEF SubmitRemoval, Submit, CleanerStep, TypeOK, Stages, Cleaners,
            ownerVars
  <2>2. StageInv'
    BY <1>25
    DEF SubmitRemoval, Submit, CleanerStep, TypeOK, StageInv, OpInv, opVars,
        ownerVars, Guarded, Permitted
  <2>3. OpInv'
    BY <1>25
    DEF SubmitRemoval, Submit, CleanerStep, TypeOK, OpInv, StageInv,
        RemovalInv, opVars, ownerVars, Guarded, Permitted
  <2>4. RemovalInv'
    <3>1. /\ scopeOf[j] = o /\ phase[j] = "free" /\ phase'[j] = "queued"
          /\ kind'[j] = "remove" /\ awaited'[j]
          /\ \A i \in Ops : i # j =>
               /\ phase'[i] = phase[i] /\ kind'[i] = kind[i]
               /\ awaited'[i] = awaited[i]
      BY <1>25 DEF SubmitRemoval, Submit, CleanerStep, TypeOK
    <3>2. /\ stage[o] \in {"closing", "dropped"} /\ UNCHANGED stage
          /\ cleaner[o] = "remove"
          /\ \A p \in Owners : cleaner'[p] = IF p = o THEN "removing" ELSE cleaner[p]
      BY <1>25 DEF SubmitRemoval, Submit, CleanerStep, TypeOK, StageInv
    <3>3. \A i \in Ops : scopeOf[i] = o =>
            /\ phase[i] \notin Guarded
            /\ ~(kind[i] = "remove" /\ awaited[i] /\ phase[i] # "free")
      BY <3>2 DEF RemovalInv, OpInv
    <3> QED
      BY <3>1, <3>2, <3>3 DEF RemovalInv, Guarded, Permitted
  <2>5. WakeInv'
    BY <1>25
    DEF SubmitRemoval, Submit, CleanerStep, TypeOK, WakeInv, StageInv, OpsIn,
        opVars, ownerVars
  <2> QED
    BY <2>1, <2>2, <2>3, <2>4, <2>5
<1>26. CASE UNCHANGED vars
  <2>1. TypeOK' /\ PermitsConserved' /\ PendingInv'
    <3>1. PermitsConserved' /\ PendingInv'
      BY <1>26, CountsUntouched DEF vars, opVars
    <3>2. TypeOK'
      BY <1>26 DEF vars, TypeOK, Stages, Cleaners, opVars, ownerVars
    <3> QED
      BY <3>1, <3>2
  <2>2. StageInv'
    BY <1>26
    DEF vars, TypeOK, StageInv, OpInv, opVars, ownerVars, Guarded, Permitted
  <2>3. OpInv'
    BY <1>26
    DEF vars, TypeOK, OpInv, StageInv, RemovalInv, opVars, ownerVars,
        Guarded, Permitted
  <2>4. RemovalInv'
    BY <1>26
    DEF vars, TypeOK, RemovalInv, OpInv, StageInv, opVars, ownerVars,
        Guarded, Permitted
  <2>5. WakeInv'
    BY <1>26 DEF vars, TypeOK, WakeInv, StageInv, OpsIn, opVars, ownerVars
  <2> QED
    BY <2>1, <2>2, <2>3, <2>4, <2>5
<1> QED
  BY <1>1, <1>2, <1>3, <1>4, <1>5, <1>6, <1>7, <1>8, <1>9, <1>10, <1>11,
     <1>12, <1>13, <1>14, <1>15, <1>16, <1>17, <1>18, <1>19, <1>20, <1>21,
     <1>22, <1>23, <1>24, <1>25, <1>26
  DEF Next, OpStep, OwnerNext, CleanerNext

(***************************************************************************)
(* The theorems.                                                           *)
(***************************************************************************)
\* Every reachable state satisfies the inductive invariant
\* (operation.rs:24-104, cleanup.rs:36-126).
LEMMA Invariance == Spec => []ScratchInv
BY InitInv, NextInv, PTL DEF Spec

\* The state stays within its types, the queue of the semaphore and the counts
\* of IoScope included (operation.rs:24-104).
THEOREM ScratchTypes == Spec => []TypeOK
<1>1. ScratchInv => TypeOK
  BY DEF ScratchInv
<1> QED
  BY <1>1, Invariance, PTL

\* The permits of the descriptor semaphore are neither lost nor minted, at
\* whatever await a caller leaves (operation.rs:66-104).
THEOREM PermitsStay == Spec => []PermitsConserved
<1>1. ScratchInv => PermitsConserved
  BY DEF ScratchInv
<1> QED
  BY <1>1, Invariance, PTL

\* Once a cleanup has succeeded nothing can bring its directory back
\* (cleanup.rs:68-126).
THEOREM ClosedStaysClean == Spec => []ClosedIsClean
<1>1. ScratchInv => ClosedIsClean
  BY DEF ScratchInv, StageInv, ClosedIsClean, OpsIn
<1> QED
  BY <1>1, Invariance, PTL

\* The scratch reservation lasts as long as a directory that somebody is going
\* to remove (cleanup.rs:49-126).
THEOREM ReservationLasts == Spec => []ReservedWhilePresent
<1>1. ScratchInv => ReservedWhilePresent
  BY DEF ScratchInv, StageInv, ReservedWhilePresent, TypeOK, Stages
<1> QED
  BY <1>1, Invariance, PTL

\* A cleaner that sleeps will be woken (operation.rs:36-54).
THEOREM NoCleanerStranded == Spec => []CleanerNotStranded
<1>1. ScratchInv => CleanerNotStranded
  BY DEF ScratchInv, WakeInv, CleanerNotStranded
<1> QED
  BY <1>1, Invariance, PTL

(***************************************************************************)
(* The scope of each owner implements ScratchScope.                        *)
(***************************************************************************)
Scope(o) == INSTANCE ScratchScope WITH
  open <- ScopeOpen(o), active <- ScopeActive(o), removing <- ScopeRemoving(o)

ScopeStep(o) == [Scope(o)!ScopeNext]_(Scope(o)!scopeVars)

\* What leaves the operations of a scope as they are, and opens nothing, is at
\* most the end of the owner (operation.rs:24-54).
LEMMA QuietScope ==
  ASSUME NEW o \in Owners, ScopeOpen(o)' => ScopeOpen(o),
         \A j \in Ops : scopeOf[j] = o =>
           /\ phase'[j] \in Guarded <=> phase[j] \in Guarded
           /\ phase[j] \in Guarded => kind'[j] = kind[j]
  PROVE  ScopeStep(o)
<1>1. OpsIn(o, Guarded)' = OpsIn(o, Guarded)
  BY DEF OpsIn
<1>2. Removals(o)' = Removals(o)
  BY <1>1 DEF Removals, OpsIn
<1>3. ScopeActive(o)' = ScopeActive(o) /\ ScopeRemoving(o)' = ScopeRemoving(o)
  BY <1>1, <1>2 DEF ScopeActive, ScopeRemoving
<1>4. ScopeOpen(o)' \in BOOLEAN /\ ScopeOpen(o) \in BOOLEAN
  BY DEF ScopeOpen
<1>5. CASE ScopeOpen(o)' = ScopeOpen(o)
  BY <1>3, <1>5 DEF ScopeStep, Scope!scopeVars
<1>6. CASE ScopeOpen(o) = TRUE /\ ScopeOpen(o)' = FALSE
  <2>1. Scope(o)!Shut
    BY <1>3, <1>6 DEF Scope!Shut
  <2> QED
    BY <2>1 DEF ScopeStep, Scope!ScopeNext
<1> QED
  BY <1>4, <1>5, <1>6

\* A submission starts an operation of an open scope, or the removal that idle
\* let through (operation.rs:24-42, cleanup.rs:79-81).
LEMMA SubmitScope ==
  ASSUME ScratchInv, NEW o \in Owners, NEW p \in Owners, NEW j \in Ops, NEW k,
         Submit(p, j, k),
         \/ k # "remove" /\ ScopeOpen(p) /\ ScopeOpen(p)'
         \/ k = "remove" /\ cleaner[p] = "remove" /\ UNCHANGED stage,
         p # o => stage'[o] = stage[o]
  PROVE  ScopeStep(o)
<1> USE DEF ScratchInv
<1>1. /\ scopeOf[j] = p /\ phase[j] = "free" /\ phase'[j] = "queued"
      /\ kind'[j] = k
      /\ \A i \in Ops : i # j => phase'[i] = phase[i] /\ kind'[i] = kind[i]
  BY DEF Submit, TypeOK
<1>2. CASE p # o
  BY <1>1, <1>2, QuietScope DEF ScopeOpen
<1>3. CASE p = o
  <2>1. /\ j \notin OpsIn(o, Guarded)
        /\ OpsIn(o, Guarded)' = OpsIn(o, Guarded) \cup {j}
    BY <1>1, <1>3 DEF OpsIn, Guarded, Permitted
  <2>2. CASE k # "remove"
    <3>1. Removals(o)' = Removals(o) /\ j \notin Removals(o)
      BY <1>1, <2>1, <2>2 DEF Removals, OpsIn
    <3>2. IsFiniteSet(OpsIn(o, Guarded) \ Removals(o))
      BY OpsAssumption, FS_Subset DEF OpsIn
    <3>3. OpsIn(o, Guarded)' \ Removals(o)' =
            (OpsIn(o, Guarded) \ Removals(o)) \cup {j}
      BY <2>1, <3>1
    <3>4. ScopeActive(o)' = ScopeActive(o) + 1
      BY <2>1, <3>2, <3>3, FS_AddElement DEF ScopeActive
    <3>5. ScopeOpen(o) = TRUE /\ ScopeOpen(o)' = TRUE
      BY <1>3, <2>2 DEF ScopeOpen
    <3>6. Scope(o)!Start
      BY <3>1, <3>4, <3>5 DEF Scope!Start, ScopeRemoving
    <3> QED
      BY <3>6 DEF ScopeStep, Scope!ScopeNext
  <2>3. CASE k = "remove"
    <3>1. OpsIn(o, Guarded) = {}
      BY <1>3, <2>3 DEF RemovalInv, OpsIn
    <3>2. Removals(o) = {} /\ OpsIn(o, Guarded)' = {j} /\ Removals(o)' = {j}
      BY <1>1, <2>1, <2>3, <3>1 DEF Removals
    <3>3. /\ ScopeActive(o) = 0 /\ ScopeActive(o)' = 0
          /\ ScopeRemoving(o) = FALSE /\ ScopeRemoving(o)' = TRUE
      BY <3>1, <3>2, FS_EmptySet DEF ScopeActive, ScopeRemoving
    <3>4. ScopeOpen(o) = FALSE /\ ScopeOpen(o)' = FALSE
      BY <1>3, <2>3 DEF StageInv, ScopeOpen
    <3>5. Scope(o)!Remove
      BY <3>3, <3>4 DEF Scope!Remove
    <3> QED
      BY <3>5 DEF ScopeStep, Scope!ScopeNext
  <2> QED
    BY <2>2, <2>3
<1> QED
  BY <1>2, <1>3

\* A guard that is dropped ends an operation, or the removal, which was alone
\* (operation.rs:29-34, 48-54).
LEMMA DropGuardScope ==
  ASSUME ScratchInv, NEW o \in Owners, NEW j \in Ops, DropGuard(j)
  PROVE  ScopeStep(o)
<1> USE DEF ScratchInv
<1>1. /\ phase[j] = "unpermitted" /\ phase'[j] \notin Guarded /\ UNCHANGED stage
      /\ \A i \in Ops : i # j => phase'[i] = phase[i] /\ kind'[i] = kind[i]
  BY DEF DropGuard, Advance, Settled, TypeOK, ownerVars, Guarded, Permitted
<1>2. CASE scopeOf[j] # o
  BY <1>1, <1>2, QuietScope DEF ScopeOpen
<1>3. CASE scopeOf[j] = o
  <2>1. /\ j \in OpsIn(o, Guarded)
        /\ OpsIn(o, Guarded)' = OpsIn(o, Guarded) \ {j}
    BY <1>1, <1>3 DEF OpsIn, Guarded, Permitted
  <2>2. ScopeOpen(o)' = ScopeOpen(o) /\ ScopeOpen(o) \in BOOLEAN
    BY <1>1 DEF ScopeOpen
  <2>3. CASE kind[j] # "remove"
    <3>1. Removals(o)' = Removals(o) /\ j \notin Removals(o)
      BY <1>1, <2>1, <2>3 DEF Removals, OpsIn
    <3>2. IsFiniteSet(OpsIn(o, Guarded) \ Removals(o))
      BY OpsAssumption, FS_Subset DEF OpsIn
    <3>3. /\ OpsIn(o, Guarded)' \ Removals(o)' =
               (OpsIn(o, Guarded) \ Removals(o)) \ {j}
          /\ j \in OpsIn(o, Guarded) \ Removals(o)
      BY <2>1, <3>1
    <3>4. /\ ScopeActive(o)' = ScopeActive(o) - 1
          /\ ScopeActive(o) \in Nat /\ ScopeActive(o) # 0
      <4> DEFINE A == OpsIn(o, Guarded) \ Removals(o)
      <4>1. Cardinality(A \ {j}) = Cardinality(A) - 1
        BY <3>2, <3>3, FS_RemoveElement
      <4>2. Cardinality(A) \in Nat /\ Cardinality(A) # 0
        BY <3>2, <3>3, FS_CardinalityType, FS_EmptySet
      <4>3. ScopeActive(o) = Cardinality(A)
        BY DEF ScopeActive
      <4>4. ScopeActive(o)' = Cardinality(A \ {j})
        BY <3>3 DEF ScopeActive
      <4> QED
        BY <4>1, <4>2, <4>3, <4>4
    <3>5. Scope(o)!Over
      BY <2>2, <3>1, <3>4 DEF Scope!Over, ScopeRemoving
    <3> QED
      BY <3>5 DEF ScopeStep, Scope!ScopeNext
  <2>4. CASE kind[j] = "remove"
    <3>1. OpsIn(o, Guarded) = {j}
      BY <1>1, <1>3, <2>1, <2>4 DEF RemovalInv, OpsIn
    <3>2. Removals(o) = {j} /\ OpsIn(o, Guarded)' = {} /\ Removals(o)' = {}
      BY <2>1, <2>4, <3>1 DEF Removals
    <3>3. /\ ScopeActive(o) = 0 /\ ScopeActive(o)' = 0
          /\ ScopeRemoving(o) = TRUE /\ ScopeRemoving(o)' = FALSE
      BY <3>1, <3>2, FS_EmptySet DEF ScopeActive, ScopeRemoving
    <3>4. Scope(o)!Removed
      BY <2>2, <3>3 DEF Scope!Removed
    <3> QED
      BY <3>4 DEF ScopeStep, Scope!ScopeNext
  <2> QED
    BY <2>3, <2>4
<1> QED
  BY <1>2, <1>3

\* A caller that leaves changes nobody's count: the guard is dropped later
\* (operation.rs:66-104).
LEMMA AbandonScope ==
  ASSUME ScratchInv, NEW o \in Owners, NEW j \in Ops, Abandon(j),
         ScopeOpen(o)' => ScopeOpen(o)
  PROVE  ScopeStep(o)
<1>1. \A i \in Ops :
        /\ phase'[i] \in Guarded <=> phase[i] \in Guarded
        /\ phase[i] \in Guarded => kind'[i] = kind[i]
  BY DEF ScratchInv, TypeOK, Abandon, Guarded, Permitted
<1> QED
  BY <1>1, QuietScope

\* Every step is a step of the contract, or none, for every owner
\* (operation.rs:24-104, cleanup.rs:36-126).
LEMMA NextScope ==
  ASSUME ScratchInv, [Next]_vars, NEW o \in Owners
  PROVE  ScopeStep(o)
<1> DEFINE Still ==
      \A j \in Ops : scopeOf[j] = o =>
        /\ phase'[j] \in Guarded <=> phase[j] \in Guarded
        /\ phase[j] \in Guarded => kind'[j] = kind[j]
<1> USE DEF ScratchInv
<1>1. CASE Grant
  <2>1. Still
    BY <1>1, HeadTailProperties
    DEF Grant, Advance, TypeOK, Guarded, Permitted
  <2> QED
    BY <1>1, <2>1, QuietScope DEF Grant, ownerVars, ScopeOpen
<1>2. ASSUME NEW j \in Ops, Spawn(j) PROVE ScopeStep(o)
  <2>1. Still
    BY <1>2
    DEF Spawn, Advance, ownerVars, TypeOK, Guarded, Permitted
  <2>2. ScopeOpen(o)' => ScopeOpen(o)
    BY <1>2 DEF Spawn, Advance, ownerVars, TypeOK, ScopeOpen
  <2> QED
    BY <2>1, <2>2, QuietScope
<1>3. ASSUME NEW j \in Ops, NEW ok \in BOOLEAN, Finish(j, ok) PROVE ScopeStep(o)
  <2>1. Still
    BY <1>3
    DEF Finish, Advance, ownerVars, TypeOK, Guarded, Permitted
  <2>2. ScopeOpen(o)' => ScopeOpen(o)
    BY <1>3 DEF Finish, Advance, ownerVars, TypeOK, ScopeOpen
  <2> QED
    BY <2>1, <2>2, QuietScope
<1>4. ASSUME NEW j \in Ops, DropPermit(j) PROVE ScopeStep(o)
  <2>1. Still
    BY <1>4
    DEF DropPermit, Advance, ownerVars, TypeOK, Guarded, Permitted
  <2>2. ScopeOpen(o)' => ScopeOpen(o)
    BY <1>4 DEF DropPermit, Advance, ownerVars, TypeOK, ScopeOpen
  <2> QED
    BY <2>1, <2>2, QuietScope
<1>5. ASSUME NEW j \in Ops, DropGuard(j) PROVE ScopeStep(o)
  BY <1>5, DropGuardScope
<1>6. ASSUME NEW j \in Ops, NotifyIdle(j) PROVE ScopeStep(o)
  <2>1. Still
    BY <1>6
    DEF NotifyIdle, Advance, Settled, ownerVars, TypeOK, Guarded, Permitted
  <2>2. ScopeOpen(o)' => ScopeOpen(o)
    BY <1>6 DEF NotifyIdle, Advance, Settled, ownerVars, TypeOK, ScopeOpen
  <2> QED
    BY <2>1, <2>2, QuietScope
<1>7. ASSUME NEW j \in Ops, Deliver(j) PROVE ScopeStep(o)
  <2>1. Still
    BY <1>7
    DEF Deliver, Advance, TypeOK, Guarded, Permitted
  <2>2. ScopeOpen(o)' => ScopeOpen(o)
    BY <1>7 DEF Deliver, Advance, TypeOK, ScopeOpen, OpInv
  <2> QED
    BY <2>1, <2>2, QuietScope
<1>8. ASSUME NEW j \in Ops, RemovalReturns(j) PROVE ScopeStep(o)
  <2>1. Still
    BY <1>8
    DEF RemovalReturns, Advance, CleanerStep, TypeOK, Guarded, Permitted
  <2>2. ScopeOpen(o)' => ScopeOpen(o)
    BY <1>8 DEF RemovalReturns, Advance, CleanerStep, TypeOK, ScopeOpen, StageInv
  <2> QED
    BY <2>1, <2>2, QuietScope
<1>9. ASSUME NEW j \in Ops, CancelOp(j) PROVE ScopeStep(o)
  <2>1. Abandon(j)
    BY <1>9 DEF CancelOp
  <2>2. ScopeOpen(o)' => ScopeOpen(o)
    BY <1>9 DEF CancelOp, TypeOK, ScopeOpen
  <2> QED
    BY <2>1, <2>2, AbandonScope
<1>10. ASSUME NEW j \in Ops, CancelRemoval(j) PROVE ScopeStep(o)
  <2>1. Abandon(j)
    BY <1>10 DEF CancelRemoval
  <2>2. ScopeOpen(o)' => ScopeOpen(o)
    BY <1>10 DEF CancelRemoval, TypeOK, ScopeOpen
  <2> QED
    BY <2>1, <2>2, AbandonScope
<1>11. ASSUME NEW p \in Owners, NEW j \in Ops, Prepare(p, j) PROVE ScopeStep(o)
  <2>1. /\ Submit(p, j, "mkdir") /\ ScopeOpen(p) /\ ScopeOpen(p)'
        /\ p # o => stage'[o] = stage[o]
    BY <1>11 DEF Prepare, TypeOK, ScopeOpen, ownerVars
  <2> QED
    BY <2>1, SubmitScope
<1>12. ASSUME NEW p \in Owners, NEW j \in Ops, Use(p, j) PROVE ScopeStep(o)
  <2>1. /\ Submit(p, j, "file") /\ ScopeOpen(p) /\ ScopeOpen(p)'
        /\ p # o => stage'[o] = stage[o]
    BY <1>12 DEF Use, TypeOK, ScopeOpen, ownerVars
  <2> QED
    BY <2>1, SubmitScope
<1>13. ASSUME NEW p \in Owners, NEW j \in Ops, SubmitRemoval(p, j)
       PROVE  ScopeStep(o)
  <2>1. /\ Submit(p, j, "remove") /\ cleaner[p] = "remove" /\ UNCHANGED stage
        /\ p # o => stage'[o] = stage[o]
    BY <1>13 DEF SubmitRemoval, CleanerStep
  <2> QED
    BY <2>1, SubmitScope
<1>14. ASSUME NEW p \in Owners, PrepareRefused(p) PROVE ScopeStep(o)
  <2>1. Still
    BY <1>14 DEF PrepareRefused, opVars
  <2>2. ScopeOpen(o)' => ScopeOpen(o)
    BY <1>14 DEF PrepareRefused, TypeOK, ScopeOpen, ownerVars
  <2> QED
    BY <2>1, <2>2, QuietScope
<1>15. ASSUME NEW p \in Owners, Unlink(p) PROVE ScopeStep(o)
  <2>1. Still
    BY <1>15 DEF Unlink, opVars
  <2>2. ScopeOpen(o)' => ScopeOpen(o)
    BY <1>15 DEF Unlink, TypeOK, ScopeOpen, ownerVars, StageInv
  <2> QED
    BY <2>1, <2>2, QuietScope
<1>16. ASSUME NEW p \in Owners, CancelUnlink(p) PROVE ScopeStep(o)
  <2>1. Still
    BY <1>16 DEF CancelUnlink, opVars
  <2>2. ScopeOpen(o)' => ScopeOpen(o)
    BY <1>16 DEF CancelUnlink, TypeOK, ScopeOpen, ownerVars, StageInv
  <2> QED
    BY <2>1, <2>2, QuietScope
<1>17. ASSUME NEW p \in Owners, NEW ok \in BOOLEAN, UnlinkDone(p, ok)
       PROVE  ScopeStep(o)
  <2>1. Still
    BY <1>17 DEF UnlinkDone, opVars
  <2>2. ScopeOpen(o)' => ScopeOpen(o)
    BY <1>17 DEF UnlinkDone, TypeOK, ScopeOpen, ownerVars, StageInv
  <2> QED
    BY <2>1, <2>2, QuietScope
<1>18. ASSUME NEW p \in Owners, Cleanup(p) PROVE ScopeStep(o)
  <2>1. Still
    BY <1>18 DEF Cleanup, opVars
  <2>2. ScopeOpen(o)' => ScopeOpen(o)
    BY <1>18 DEF Cleanup, TypeOK, ScopeOpen, ownerVars
  <2> QED
    BY <2>1, <2>2, QuietScope
<1>19. ASSUME NEW p \in Owners, Drop(p) PROVE ScopeStep(o)
  <2>1. Still
    BY <1>19 DEF Drop, opVars
  <2>2. ScopeOpen(o)' => ScopeOpen(o)
    BY <1>19 DEF Drop, TypeOK, ScopeOpen, ownerVars
  <2> QED
    BY <2>1, <2>2, QuietScope
<1>20. ASSUME NEW p \in Owners, DropOutsideRuntime(p) PROVE ScopeStep(o)
  <2>1. Still
    BY <1>20 DEF DropOutsideRuntime, opVars
  <2>2. ScopeOpen(o)' => ScopeOpen(o)
    BY <1>20 DEF DropOutsideRuntime, TypeOK, ScopeOpen, ownerVars
  <2> QED
    BY <2>1, <2>2, QuietScope
<1>21. ASSUME NEW p \in Owners, IdleEnable(p) PROVE ScopeStep(o)
  <2>1. Still
    BY <1>21 DEF IdleEnable, opVars
  <2>2. ScopeOpen(o)' => ScopeOpen(o)
    BY <1>21 DEF IdleEnable, TypeOK, ScopeOpen, ownerVars
  <2> QED
    BY <2>1, <2>2, QuietScope
<1>22. ASSUME NEW p \in Owners, IdleCheck(p) PROVE ScopeStep(o)
  <2>1. Still
    BY <1>22 DEF IdleCheck, opVars
  <2>2. ScopeOpen(o)' => ScopeOpen(o)
    BY <1>22 DEF IdleCheck, TypeOK, ScopeOpen, ownerVars
  <2> QED
    BY <2>1, <2>2, QuietScope
<1>23. ASSUME NEW p \in Owners, IdleSleep(p) PROVE ScopeStep(o)
  <2>1. Still
    BY <1>23 DEF IdleSleep, opVars
  <2>2. ScopeOpen(o)' => ScopeOpen(o)
    BY <1>23 DEF IdleSleep, TypeOK, ScopeOpen, ownerVars
  <2> QED
    BY <2>1, <2>2, QuietScope
<1>24. ASSUME NEW p \in Owners, IdleWake(p) PROVE ScopeStep(o)
  <2>1. Still
    BY <1>24 DEF IdleWake, opVars
  <2>2. ScopeOpen(o)' => ScopeOpen(o)
    BY <1>24 DEF IdleWake, TypeOK, ScopeOpen, ownerVars
  <2> QED
    BY <2>1, <2>2, QuietScope
<1>25. ASSUME NEW p \in Owners, CancelIdle(p) PROVE ScopeStep(o)
  <2>1. Still
    BY <1>25 DEF CancelIdle, opVars
  <2>2. ScopeOpen(o)' => ScopeOpen(o)
    BY <1>25 DEF CancelIdle, TypeOK, ScopeOpen, ownerVars
  <2> QED
    BY <2>1, <2>2, QuietScope
<1>26. CASE UNCHANGED vars
  <2>1. Still /\ ScopeOpen(o)' = ScopeOpen(o)
    BY <1>26 DEF vars, opVars, ownerVars, ScopeOpen
  <2> QED
    BY <2>1, QuietScope
<1> QED
  BY <1>1, <1>2, <1>3, <1>4, <1>5, <1>6, <1>7, <1>8, <1>9, <1>10, <1>11,
     <1>12, <1>13, <1>14, <1>15, <1>16, <1>17, <1>18, <1>19, <1>20, <1>21,
     <1>22, <1>23, <1>24, <1>25, <1>26
  DEF Next, OpStep, OwnerNext, CleanerNext

\* The IoScope and the cleanup guard of every owner keep the contract of its
\* scratch directory, whatever the others do (operation.rs:24-104,
\* cleanup.rs:36-126).
THEOREM ScopesImplement ==
  ASSUME NEW o \in Owners
  PROVE  Spec => Scope(o)!ScopeSpec
<1>1. Init => Scope(o)!ScopeInit
  <2> SUFFICES ASSUME Init PROVE Scope(o)!ScopeInit
    OBVIOUS
  <2>1. OpsIn(o, Guarded) = {} /\ Removals(o) = {}
    BY DEF Init, OpsIn, Removals, Guarded, Permitted
  <2>2. ScopeActive(o) = 0 /\ ScopeRemoving(o) = FALSE
    BY <2>1, FS_EmptySet DEF ScopeActive, ScopeRemoving
  <2>3. ScopeOpen(o) = TRUE
    BY DEF Init, ScopeOpen
  <2> QED
    BY <2>2, <2>3 DEF Scope!ScopeInit
<1>2. ScratchInv /\ [Next]_vars => [Scope(o)!ScopeNext]_(Scope(o)!scopeVars)
  BY NextScope DEF ScopeStep
<1> QED
  BY <1>1, <1>2, Invariance, PTL DEF Spec, Scope!ScopeSpec
=============================================================================
