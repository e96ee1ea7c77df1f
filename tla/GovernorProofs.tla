--------------------------- MODULE GovernorProofs ---------------------------
(***************************************************************************)
(* Theorems about the governor (module Governor), for any number of calls  *)
(* and of permits, any queue, configuration and readings: the activity     *)
(* count is the number of leases that count, ids are unique, and the       *)
(* descriptors are shared by the sorts that are active, although a plan is *)
(* made from readings that are stale when its sort is admitted.            *)
(***************************************************************************)
EXTENDS Governor, FiniteSetTheorems, SequenceTheorems, TLAPS

Issued  == {c \in Calls : place[c] # "none"}
Counted == {c \in Alive : lease[c].plan = "External"}

(***************************************************************************)
(* The inductive invariant.                                                *)
(***************************************************************************)
\* A command is in one place (handle.rs:63-70, actor.rs:75-84): waiting for the
\* queue, in the queue, or with the actor.
Distinct(s) == \A i, j \in DOMAIN s : s[i] = s[j] => i = j

Queued(c) == c \in Calls /\ call[c] \notin {"unmade", "waiting"}

QueueInv ==
  /\ Distinct(senders) /\ Distinct(queue)
  /\ \A i \in DOMAIN senders : call[senders[i]] = "waiting"
  /\ \A i \in DOMAIN queue : Queued(queue[i]) /\ place[queue[i]] = "none"
  /\ \A c \in Calls : call[c] \in {"unmade", "waiting"} => place[c] = "none"

\* And the one that the actor works on has no lease before it is admitted
\* (actor.rs:86-117).
CurrentInv ==
  /\ pc \notin {"recv", "stopped"} =>
       Queued(current) /\ \A i \in DOMAIN queue : queue[i] # current
  /\ pc \notin {"recv", "stopped", "reply"} => place[current] = "none"

\* The activity count is the number of leases that count (lease.rs:30-34).
ActiveInv == IsFiniteSet(Counted) /\ ActiveExact

\* Ids below next_id have been issued, each once (actor.rs:89-93).
IssueInv ==
  /\ IsFiniteSet(Issued)
  /\ IdsUnique
  /\ \A c \in Issued : lease[c].id < nextId

\* Once a snapshot has counted the active sorts there can only be fewer: leases
\* are dropped at any time, but only the actor issues them (actor.rs:128-135).
SnapshotInv == pc = "admit" => active <= snapshot.active

GovernorInv ==
  TypeOK /\ QueueInv /\ CurrentInv /\ ActiveInv /\ IssueInv /\ SnapshotInv

\* A governor starts with no command and no lease (handle.rs:43-54).
LEMMA InitInv == Init => GovernorInv
<1> SUFFICES ASSUME Init PROVE GovernorInv
  OBVIOUS
<1>1. TypeOK
  BY SpawnAssumption DEF Init, TypeOK, NoLease, NoSnapshot, Plans, Pending
<1>2. QueueInv /\ CurrentInv /\ SnapshotInv
  BY DEF Init, QueueInv, CurrentInv, SnapshotInv, Distinct
<1>3. Issued = {} /\ Counted = {}
  BY DEF Init, Issued, Counted, Alive
<1>4. ActiveInv
  BY <1>3, FS_EmptySet DEF Init, ActiveInv, ActiveExact, Counted
<1>5. IssueInv
  <2>1. counts["InMemory"] + counts["External"] = 0
    BY DEF Init
  <2> QED
    BY <1>3, <2>1, FS_EmptySet DEF IssueInv, IdsUnique, Issued
<1> QED
  BY <1>1, <1>2, <1>4, <1>5 DEF GovernorInv

(***************************************************************************)
(* Sequences.                                                              *)
(***************************************************************************)
\* A sender that goes leaves the others in their order (handle.rs:63-70).
LEMMA RemoveKeeps ==
  ASSUME NEW S, NEW s \in Seq(S), Distinct(s), NEW i \in DOMAIN s
  PROVE  /\ RemoveAt(s, i) \in Seq(S)
         /\ Distinct(RemoveAt(s, i))
         /\ \A j \in DOMAIN RemoveAt(s, i) :
              \E k \in DOMAIN s : k # i /\ RemoveAt(s, i)[j] = s[k]
<1> DEFINE a == SubSeq(s, 1, i - 1)
           b == SubSeq(s, i + 1, Len(s))
           r == a \o b
           at(j) == IF j < i THEN j ELSE j + 1
<1>1. Len(s) \in Nat /\ DOMAIN s = 1 .. Len(s) /\ i \in 1 .. Len(s)
  BY LenProperties
<1>2. /\ a \in Seq(S) /\ Len(a) = i - 1
      /\ \A j \in 1 .. (i - 1) : a[j] = s[j]
  OBVIOUS
<1>3. /\ b \in Seq(S) /\ Len(b) = Len(s) - i
      /\ \A j \in 1 .. (Len(s) - i) : b[j] = s[j + i]
  OBVIOUS
<1> HIDE DEF a, b
<1>4. /\ r \in Seq(S) /\ Len(r) = Len(a) + Len(b)
      /\ \A j \in 1 .. Len(a) + Len(b) :
           r[j] = IF j <= Len(a) THEN a[j] ELSE b[j - Len(a)]
  BY <1>2, <1>3, ConcatProperties, Zenon
<1> HIDE DEF r
<1>5. Len(r) = Len(s) - 1 /\ DOMAIN r = 1 .. (Len(s) - 1)
  BY <1>1, <1>2, <1>3, <1>4, LenProperties
<1>6. ASSUME NEW j \in DOMAIN r
      PROVE  at(j) \in DOMAIN s /\ at(j) # i /\ r[j] = s[at(j)]
  <2>1. CASE j < i
    BY <1>1, <1>2, <1>3, <1>4, <1>5, <2>1
  <2>2. CASE j >= i
    <3>1. j - (i - 1) \in 1 .. (Len(s) - i) /\ (j - (i - 1)) + i = j + 1
      BY <1>1, <1>5, <2>2
    <3>2. r[j] = b[j - (i - 1)]
      BY <1>1, <1>2, <1>3, <1>4, <1>5, <2>2
    <3> QED
      BY <1>1, <1>3, <1>5, <2>2, <3>1, <3>2
  <2> QED
    BY <1>1, <1>5, <2>1, <2>2
<1>7. \A j, k \in DOMAIN r : at(j) = at(k) => j = k
  BY <1>1, <1>5
<1> HIDE DEF at
<1>8. Distinct(r)
  BY <1>6, <1>7 DEF Distinct
<1>9. \A j \in DOMAIN r : \E k \in DOMAIN s : k # i /\ r[j] = s[k]
  BY <1>6
<1> QED
  BY <1>4, <1>8, <1>9 DEF r, RemoveAt, a, b

\* The actor takes the first command of the queue (actor.rs:75),
LEMMA HeadTail ==
  ASSUME NEW S, NEW s \in Seq(S), s # <<>>, Distinct(s)
  PROVE  /\ Head(s) \in S /\ Tail(s) \in Seq(S)
         /\ 1 \in DOMAIN s /\ Head(s) = s[1]
         /\ Len(Tail(s)) = Len(s) - 1
         /\ Distinct(Tail(s))
         /\ \A i \in DOMAIN Tail(s) : /\ i + 1 \in DOMAIN s
                                      /\ Tail(s)[i] = s[i + 1]
                                      /\ Tail(s)[i] # Head(s)
  BY DEF Distinct

\* and a command goes to the end of it, once (handle.rs:63-70).
LEMMA AppendDistinct ==
  ASSUME NEW S, NEW s \in Seq(S), NEW x \in S, Distinct(s),
         \A i \in DOMAIN s : s[i] # x
  PROVE  /\ Append(s, x) \in Seq(S)
         /\ Len(Append(s, x)) = Len(s) + 1
         /\ Distinct(Append(s, x))
         /\ \A i \in DOMAIN Append(s, x) :
              Append(s, x)[i] = x \/ (i \in DOMAIN s /\ Append(s, x)[i] = s[i])
  BY DEF Distinct

(***************************************************************************)
(* Plans.                                                                  *)
(***************************************************************************)
\* ration_fan_in (planner.rs:47-50): more than the smallest fan-in is given only
\* if as many permits are there for each of the sorts that share them.
LEMMA PlanShares ==
  ASSUME NEW e \in Nat,
         NEW s \in [target : Nat, resident : Nat, headroom : 0 .. FdTotal,
                    active : Nat]
  PROVE  LET p == Plan(e, s, Config) IN
         /\ p.kind \in {"InMemory", "External"} /\ p.fan \in Nat
         /\ p.kind = "External" /\ p.fan > 2 =>
              p.fan * (s.active + 1) <= FdTotal
<1> DEFINE f == RationFanIn(s, Config)
           n == Sharers(s)
           q == s.headroom \div n
<1>1. /\ s.headroom \in Nat /\ s.headroom <= FdTotal /\ s.active \in Nat
      /\ FdTotal \in Nat /\ FdTotal <= MaxU32 /\ MaxU32 \in Nat \ {0}
      /\ Config.maxFanIn \in Nat /\ 2 <= Config.maxFanIn
  BY SpawnAssumption, UnitsAssumption
<1>2. n \in Nat \ {0} /\ (n = s.active + 1 \/ n = MaxU32)
  BY <1>1 DEF Sharers, SatNext
<1>3. q \in Nat /\ q * n <= s.headroom
  BY <1>1, <1>2
<1>4. f = Clamp(q, 2, Config.maxFanIn)
  BY DEF RationFanIn
<1> HIDE DEF f, n, q
<1>5. f \in Nat /\ (f > 2 => f <= q)
  BY <1>1, <1>3, <1>4 DEF Clamp, Greater, Lesser
<1>6. f > 2 => f * (s.active + 1) <= FdTotal
  <2> SUFFICES ASSUME f > 2 PROVE f * (s.active + 1) <= FdTotal
    OBVIOUS
  <2>1. f * n <= q * n
    BY <1>2, <1>3, <1>5
  <2>2. f * n <= FdTotal
    BY <1>1, <1>2, <1>3, <1>5, <2>1
  <2>3. CASE n = s.active + 1
    BY <2>2, <2>3
  <2>4. CASE n = MaxU32
    <3>1. f * n >= 3 * n
      BY <1>2, <1>5
    <3>2. FALSE
      BY <1>1, <1>2, <1>5, <2>2, <2>4, <3>1
    <3> QED
      BY <3>2
  <2> QED
    BY <1>2, <2>3, <2>4
<1> QED
  BY <1>5, <1>6 DEF Plan, f

(***************************************************************************)
(* Leases.                                                                 *)
(***************************************************************************)
\* Steps that leave the leases alone.
LEMMA NoLeaseMoves ==
  ASSUME ActiveInv, IssueInv, UNCHANGED <<place, lease, counts, nextId, active>>
  PROVE  ActiveInv' /\ IssueInv'
  BY DEF ActiveInv, ActiveExact, IssueInv, IdsUnique, Issued, Counted, Alive

\* A lease that goes on to its next holder still counts (lease.rs:44-75).
LEMMA MoveKeeps ==
  ASSUME TypeOK, ActiveInv, IssueInv,
         NEW c \in Calls, c \in Alive, NEW p \in {"mail", "lease", "output"},
         place' = [place EXCEPT ![c] = p],
         UNCHANGED <<lease, counts, nextId, active>>
  PROVE  ActiveInv' /\ IssueInv'
<1>1. Alive' = Alive /\ Issued' = Issued
  BY DEF TypeOK, Alive, Issued
<1>2. Counted' = Counted
  BY <1>1 DEF Counted
<1>3. ActiveInv'
  BY <1>2 DEF ActiveInv, ActiveExact, Counted
<1>4. IssueInv'
  BY <1>1 DEF IssueInv, IdsUnique, Issued
<1> QED
  BY <1>3, <1>4

\* Dropping a lease takes back its count, and only its own (lease.rs:30-34).
LEMMA DropKeeps ==
  ASSUME TypeOK, ActiveInv, IssueInv,
         NEW c \in Calls, c \in Alive,
         place' = [place EXCEPT ![c] = "dropped"],
         active' = AfterDrop(c),
         UNCHANGED <<lease, counts, nextId>>
  PROVE  ActiveInv' /\ IssueInv' /\ active' \in Nat /\ active' <= active
<1>1. Alive' = Alive \ {c} /\ Issued' = Issued
  BY DEF TypeOK, Alive, Issued
<1>2. Counted' = Counted \ {c}
  BY <1>1 DEF Counted
<1>3. /\ IsFiniteSet(Counted')
      /\ Cardinality(Counted') =
           IF c \in Counted THEN Cardinality(Counted) - 1 ELSE Cardinality(Counted)
  BY <1>2, FS_RemoveElement DEF ActiveInv
<1>4. c \in Counted <=> lease[c].plan = "External"
  BY DEF Counted
<1>5. active = Cardinality(Counted)
  BY DEF ActiveInv, ActiveExact, Counted
<1>6. Cardinality(Counted) \in Nat /\ Cardinality(Counted') \in Nat
  BY <1>3, FS_CardinalityType DEF ActiveInv
<1>7. active' = Cardinality(Counted') /\ active' \in Nat /\ active' <= active
  BY <1>3, <1>4, <1>5, <1>6 DEF AfterDrop
<1>8. ActiveInv'
  BY <1>3, <1>7 DEF ActiveInv, ActiveExact, Counted
<1>9. IssueInv'
  BY <1>1 DEF IssueInv, IdsUnique, Issued
<1> QED
  BY <1>7, <1>8, <1>9

\* An admission issues one lease, with an id of its own, and counts it
\* (actor.rs:89-117).
LEMMA AdmitKeeps ==
  ASSUME TypeOK, CurrentInv, ActiveInv, IssueInv, Admit
  PROVE  TypeOK' /\ ActiveInv' /\ IssueInv'
<1>1. PICK e \in EstimatesOf(current) :
        /\ lease' = [lease EXCEPT ![current] =
             [id |-> nextId, plan |-> Plan(e, snapshot, Config).kind,
              fan |-> Plan(e, snapshot, Config).fan]]
        /\ counts' = [counts EXCEPT ![Plan(e, snapshot, Config).kind] = @ + 1]
        /\ active' = IF Plan(e, snapshot, Config).kind = "External"
                     THEN active + 1 ELSE active
  BY DEF Admit
<1> DEFINE p == Plan(e, snapshot, Config)
<1>2. p.kind \in {"InMemory", "External"} /\ p.fan \in Nat
  <2>1. e \in Nat
    BY PressureAssumption DEF EstimatesOf
  <2>2. snapshot \in [target : Nat, resident : Nat, headroom : 0 .. FdTotal,
                      active : Nat]
    BY DEF TypeOK
  <2> HIDE DEF p
  <2>3. LET r == Plan(e, snapshot, Config) IN
        r.kind \in {"InMemory", "External"} /\ r.fan \in Nat
    BY <2>1, <2>2, PlanShares
  <2> QED
    BY <2>3 DEF p
<1> DEFINE k == p.kind
           n == [id |-> nextId, plan |-> p.kind, fan |-> p.fan]
<1>3. /\ lease' = [lease EXCEPT ![current] = n]
      /\ counts' = [counts EXCEPT ![k] = @ + 1]
      /\ active' = IF k = "External" THEN active + 1 ELSE active
  BY <1>1
<1>4. n \in [id : 0 .. MaxId, plan : Plans, fan : Nat]
      /\ n.id = nextId /\ n.plan = k /\ k \in {"InMemory", "External"}
  BY <1>2 DEF TypeOK, Plans
<1> HIDE DEF p, k, n
<1>5. /\ current \in Calls /\ place[current] = "none"
      /\ place' = [place EXCEPT ![current] = "actor"]
      /\ nextId \in Nat /\ nextId' = nextId + 1
  BY DEF Admit, CurrentInv, Queued, TypeOK
<1>6. TypeOK'
  <2>1. nextId' \in 0 .. MaxId
    BY SpawnAssumption DEF Admit, TypeOK
  <2>2. NoSnapshot \in [target : Nat, resident : Nat, headroom : 0 .. FdTotal,
                        active : Nat]
    BY SpawnAssumption DEF NoSnapshot
  <2>3. counts' \in [{"InMemory", "External"} -> Nat]
    BY <1>3, <1>4 DEF TypeOK
  <2>4. active' \in Nat
    BY <1>3 DEF TypeOK
  <2>5. lease' \in [Calls -> [id : 0 .. MaxId, plan : Plans, fan : Nat]]
    BY <1>3, <1>4, <1>5 DEF TypeOK
  <2>6. /\ UNCHANGED <<call, senders, queue, handles, current>>
        /\ snapshot' = NoSnapshot /\ pc' = "reply"
        /\ answer' = [answer EXCEPT ![current] = "lease"]
    BY DEF Admit, queueVars
  <2>7. /\ answer' \in [Calls -> {"none", "lease", "limit", "stats"}]
        /\ place' \in [Calls -> {"none", "actor", "mail", "lease", "output",
                                 "dropped"}]
    BY <1>5, <2>6 DEF TypeOK
  <2> QED
    BY <2>1, <2>2, <2>3, <2>4, <2>5, <2>6, <2>7 DEF TypeOK
<1>7. Issued' = Issued \cup {current} /\ current \notin Issued
  BY <1>5 DEF Issued, TypeOK
<1>8. Counted' = IF k = "External" THEN Counted \cup {current} ELSE Counted
  <2>1. Alive' = Alive \cup {current} /\ current \notin Alive
    BY <1>5 DEF Alive, TypeOK
  <2>2. \A c \in Calls : lease'[c] = IF c = current THEN n ELSE lease[c]
    BY <1>3, <1>5 DEF TypeOK
  <2>3. Alive \subseteq Calls
    BY DEF Alive
  <2> QED
    BY <1>4, <1>5, <2>1, <2>2, <2>3 DEF Counted
<1>9. ActiveInv'
  <2>1. current \notin Counted
    BY <1>5 DEF Counted, Alive
  <2>2. IsFiniteSet(Counted') /\ Cardinality(Counted') = active'
    BY <1>3, <1>8, <2>1, FS_AddElement DEF ActiveInv, ActiveExact, Counted
  <2> QED
    BY <2>2 DEF ActiveInv, ActiveExact, Counted
<1>10. IssueInv'
  <2>1. IsFiniteSet(Issued') /\ Cardinality(Issued') = Cardinality(Issued) + 1
    BY <1>7, FS_AddElement DEF IssueInv
  <2>2. counts'["InMemory"] + counts'["External"] =
          counts["InMemory"] + counts["External"] + 1
    BY <1>3, <1>4 DEF TypeOK
  <2>3. \A c \in Issued' : lease'[c].id =
          IF c = current THEN nextId ELSE lease[c].id
    BY <1>3, <1>4, <1>5, <1>7 DEF TypeOK, Issued
  <2>4. \A c \in Issued : lease[c].id \in Nat /\ lease[c].id < nextId
    BY DEF IssueInv, Issued, TypeOK
  <2>5. \A c \in Issued' : lease'[c].id < nextId'
    BY <1>5, <1>7, <2>3, <2>4
  <2>6. \A c, d \in Issued' : c # d => lease'[c].id # lease'[d].id
    BY <1>5, <1>7, <2>3, <2>4 DEF IssueInv, IdsUnique, Issued
  <2>7. counts["InMemory"] + counts["External"] = Cardinality(Issued)
    BY DEF IssueInv, IdsUnique, Issued
  <2>8. IdsUnique'
    BY <2>1, <2>2, <2>6, <2>7 DEF IdsUnique, Issued
  <2> QED
    BY <2>1, <2>5, <2>8 DEF IssueInv
<1> QED
  BY <1>6, <1>9, <1>10

(***************************************************************************)
(* The steps.                                                              *)
(***************************************************************************)
\* Every step of callers, queue and actor keeps the invariant (handle.rs:63-76,
\* actor.rs:74-135, lease.rs:30-34).
LEMMA NextInv == GovernorInv /\ [Next]_vars => GovernorInv'
<1> SUFFICES ASSUME GovernorInv, [Next]_vars PROVE GovernorInv'
  OBVIOUS
<1> USE DEF GovernorInv
<1>1. ASSUME NEW c \in Calls, Call(c) PROVE GovernorInv'
  <2>1. TypeOK'
    <3>1. senders' \in Seq(Calls)
      <4>1. senders \in Seq(Calls) /\ Append(senders, c) \in Seq(Calls)
        BY AppendProperties DEF TypeOK
      <4> QED
        BY <1>1, <4>1 DEF Call
    <3>2. call' \in [Calls -> Pending \cup {"unmade", "done", "gone", "left"}]
      BY <1>1, ZenonT(60) DEF Call, TypeOK, Pending
    <3> QED
      BY <1>1, <3>1, <3>2 DEF Call, TypeOK, actorVars
  <2>2. ActiveInv' /\ IssueInv'
    BY <1>1, NoLeaseMoves DEF Call, actorVars
  <2>3. QueueInv'
    <3>1. CASE pc = "stopped"
      BY <1>1, <3>1, SMTT(60) DEF Call, QueueInv, Queued, TypeOK
    <3>2. CASE pc # "stopped"
      <4>1. /\ call' = [call EXCEPT ![c] = "waiting"] /\ call[c] = "unmade"
            /\ senders' = Append(senders, c) /\ UNCHANGED <<queue, place>>
        BY <1>1, <3>2 DEF Call
      <4>2. \A i \in DOMAIN senders : senders[i] # c
        BY <4>1 DEF QueueInv
      <4>3. /\ Distinct(senders')
            /\ \A i \in DOMAIN senders' :
                 senders'[i] = c \/ (i \in DOMAIN senders /\ senders'[i] = senders[i])
        BY <4>1, <4>2, AppendDistinct DEF QueueInv, TypeOK
      <4>4. \A i \in DOMAIN senders : senders[i] \in Calls
        BY DEF TypeOK
      <4> QED
        BY <4>1, <4>3, <4>4, SMTT(60) DEF QueueInv, Queued, TypeOK
    <3> QED
      BY <3>1, <3>2
  <2>4. CurrentInv' /\ SnapshotInv'
    BY <1>1 DEF Call, CurrentInv, SnapshotInv, Queued, TypeOK, actorVars
  <2> QED
    BY <2>1, <2>2, <2>3, <2>4
<1>2. ASSUME NEW c \in Calls, Receive(c) PROVE GovernorInv'
  <2>1. TypeOK'
    BY <1>2 DEF Receive, TypeOK, actorVars, queueVars, Pending
  <2>2. ActiveInv' /\ IssueInv'
    <3>1. CASE place[c] # "mail"
      <4>1. UNCHANGED <<place, lease, counts, nextId, active>>
        BY <1>2, <3>1 DEF Receive, TypeOK, actorVars
      <4> QED
        BY <4>1, NoLeaseMoves
    <3>2. CASE place[c] = "mail"
      <4>1. /\ c \in Alive
            /\ \E p \in {"mail", "lease", "output"} :
                 place' = [place EXCEPT ![c] = p]
            /\ UNCHANGED <<lease, counts, nextId, active>>
        BY <1>2, <3>2 DEF Receive, Alive, actorVars
      <4> QED
        BY <4>1, MoveKeeps
    <3> QED
      BY <3>1, <3>2
  <2>3. QueueInv' /\ CurrentInv' /\ SnapshotInv'
    BY <1>2 DEF Receive, QueueInv, CurrentInv, SnapshotInv, Queued, TypeOK,
                actorVars, queueVars
  <2> QED
    BY <2>1, <2>2, <2>3
<1>3. ASSUME NEW c \in Calls, IntoSession(c) PROVE GovernorInv'
  <2>1. TypeOK'
    BY <1>3 DEF IntoSession, TypeOK, actorVars, queueVars
  <2>2. ActiveInv' /\ IssueInv'
    <3>1. /\ c \in Alive /\ place' = [place EXCEPT ![c] = "output"]
          /\ UNCHANGED <<lease, counts, nextId, active>>
      BY <1>3 DEF IntoSession, Alive, actorVars
    <3> QED
      BY <3>1, MoveKeeps
  <2>3. QueueInv' /\ CurrentInv' /\ SnapshotInv'
    BY <1>3 DEF IntoSession, QueueInv, CurrentInv, SnapshotInv, Queued, TypeOK,
                actorVars, queueVars
  <2> QED
    BY <2>1, <2>2, <2>3
<1>4. ASSUME NEW c \in Calls, Release(c) PROVE GovernorInv'
  <2>1. ActiveInv' /\ IssueInv' /\ active' \in Nat /\ active' <= active
    <3>1. /\ c \in Alive /\ place' = [place EXCEPT ![c] = "dropped"]
          /\ active' = AfterDrop(c) /\ UNCHANGED <<lease, counts, nextId>>
      BY <1>4 DEF Release, Alive, actorVars
    <3> QED
      BY <3>1, DropKeeps
  <2>2. TypeOK'
    BY <1>4, <2>1 DEF Release, TypeOK, actorVars, queueVars
  <2>3. SnapshotInv'
    BY <1>4, <2>1 DEF Release, SnapshotInv, TypeOK, actorVars
  <2>4. QueueInv' /\ CurrentInv'
    BY <1>4 DEF Release, QueueInv, CurrentInv, Queued, TypeOK, actorVars, queueVars
  <2> QED
    BY <2>1, <2>2, <2>3, <2>4
<1>5. ASSUME NEW c \in Calls, Abandon(c) PROVE GovernorInv'
  <2>1. /\ ActiveInv' /\ IssueInv' /\ active' \in Nat /\ active' <= active
        /\ place' \in [Calls -> {"none", "actor", "mail", "lease", "output",
                                 "dropped"}]
        /\ \A d \in Calls : place[d] = "none" => place'[d] = "none"
    <3>1. CASE place[c] = "mail"
      <4>1. /\ c \in Alive /\ place' = [place EXCEPT ![c] = "dropped"]
            /\ active' = AfterDrop(c) /\ UNCHANGED <<lease, counts, nextId>>
        BY <1>5, <3>1 DEF Abandon, Alive, actorVars
      <4> QED
        BY <3>1, <4>1, DropKeeps DEF TypeOK
    <3>2. CASE place[c] # "mail"
      <4>1. UNCHANGED <<place, lease, counts, nextId, active>>
        BY <1>5, <3>2 DEF Abandon, actorVars
      <4> QED
        BY <4>1, NoLeaseMoves DEF TypeOK
    <3> QED
      BY <3>1, <3>2
  <2>2. /\ senders' \in Seq(Calls) /\ Distinct(senders')
        /\ \A i \in DOMAIN senders' :
             senders'[i] # c /\ \E k \in DOMAIN senders : senders'[i] = senders[k]
    <3>1. ASSUME NEW i \in DOMAIN senders, senders[i] = c,
                 senders' = RemoveAt(senders, i)
          PROVE  /\ senders' \in Seq(Calls) /\ Distinct(senders')
                 /\ \A j \in DOMAIN senders' :
                      \E k \in DOMAIN senders : k # i /\ senders'[j] = senders[k]
      BY <3>1, RemoveKeeps DEF TypeOK, QueueInv
    <3>2. CASE call[c] # "waiting" /\ senders' = senders
      BY <3>2, SMTT(60) DEF TypeOK, QueueInv
    <3> QED
      BY <1>5, <3>1, <3>2 DEF Abandon, QueueInv, Distinct
  <2>3. TypeOK'
    BY <1>5, <2>1, <2>2 DEF Abandon, TypeOK, actorVars, Pending
  <2>4. SnapshotInv'
    BY <1>5, <2>1 DEF Abandon, SnapshotInv, TypeOK, actorVars
  <2>5. QueueInv'
    BY <1>5, <2>1, <2>2 DEF Abandon, QueueInv, Queued, TypeOK
  <2>6. CurrentInv'
    BY <1>5, <2>1 DEF Abandon, CurrentInv, Queued, TypeOK, actorVars
  <2> QED
    BY <2>1, <2>3, <2>4, <2>5, <2>6
<1>6. CASE Send
  <2> DEFINE h == Head(senders)
  <2>1. /\ h \in Calls /\ call[h] = "waiting" /\ Tail(senders) \in Seq(Calls)
        /\ Distinct(Tail(senders))
        /\ \A i \in DOMAIN Tail(senders) :
             /\ i + 1 \in DOMAIN senders /\ Tail(senders)[i] = senders[i + 1]
             /\ Tail(senders)[i] # h
    BY <1>6, HeadTail DEF Send, TypeOK, QueueInv
  <2>2. /\ call' = [call EXCEPT ![h] = "queued"] /\ queue' = Append(queue, h)
        /\ senders' = Tail(senders) /\ Len(queue) < Capacity
        /\ UNCHANGED <<answer, place, lease, handles, actorVars, active>>
    BY <1>6 DEF Send
  <2> HIDE DEF h
  <2>3. \A i \in DOMAIN queue : queue[i] # h
    BY <2>1 DEF QueueInv, Queued
  <2>4. /\ queue' \in Seq(Calls) /\ Len(queue') = Len(queue) + 1
        /\ Distinct(queue')
        /\ \A i \in DOMAIN queue' :
             queue'[i] = h \/ (i \in DOMAIN queue /\ queue'[i] = queue[i])
    <3>1. queue \in Seq(Calls) /\ Distinct(queue)
      BY DEF TypeOK, QueueInv
    <3> QED
      BY <2>1, <2>2, <2>3, <3>1, AppendDistinct
  <2>5. TypeOK'
    <3>1. Len(queue') <= Capacity
      BY <2>2, <2>4, SpawnAssumption DEF TypeOK
    <3> QED
      BY <2>1, <2>2, <2>4, <3>1 DEF TypeOK, actorVars, Pending
  <2>6. ActiveInv' /\ IssueInv'
    BY <2>2, NoLeaseMoves DEF actorVars
  <2>7. QueueInv'
    <3>1. /\ call'[h] = "queued" /\ \A c \in Calls : c # h => call'[c] = call[c]
          /\ place[h] = "none"
      BY <2>1, <2>2 DEF TypeOK, QueueInv
    <3>2. \A i \in DOMAIN senders' :
            senders'[i] \in Calls /\ call'[senders'[i]] = "waiting"
      <4>1. \A i \in DOMAIN senders : senders[i] \in Calls
        BY DEF TypeOK
      <4> QED
        BY <2>1, <2>2, <3>1, <4>1 DEF QueueInv
    <3>3. \A i \in DOMAIN queue' :
            /\ queue'[i] \in Calls /\ call'[queue'[i]] \notin {"unmade", "waiting"}
            /\ place'[queue'[i]] = "none"
      BY <2>1, <2>2, <2>3, <2>4, <3>1 DEF QueueInv, Queued
    <3>4. \A c \in Calls : call'[c] \in {"unmade", "waiting"} => place'[c] = "none"
      BY <2>2, <3>1 DEF QueueInv
    <3> QED
      BY <2>1, <2>2, <2>4, <3>2, <3>3, <3>4 DEF QueueInv, Queued
  <2>8. CurrentInv' /\ SnapshotInv'
    BY <2>1, <2>2, <2>4 DEF CurrentInv, SnapshotInv, Queued, TypeOK, actorVars
  <2> QED
    BY <2>5, <2>6, <2>7, <2>8
<1>7. CASE DropHandles
  <2>1. TypeOK'
    BY <1>7 DEF DropHandles, TypeOK, callerVars, actorVars
  <2>2. ActiveInv' /\ IssueInv'
    BY <1>7, NoLeaseMoves DEF DropHandles, callerVars, actorVars
  <2>3. QueueInv' /\ CurrentInv' /\ SnapshotInv'
    BY <1>7 DEF DropHandles, QueueInv, CurrentInv, SnapshotInv, Queued,
                callerVars, actorVars
  <2> QED
    BY <2>1, <2>2, <2>3
<1>8. CASE Recv
  <2> DEFINE h == Head(queue)
  <2>1. /\ h \in Calls /\ Queued(h) /\ place[h] = "none"
        /\ Tail(queue) \in Seq(Calls) /\ Len(Tail(queue)) = Len(queue) - 1
        /\ Distinct(Tail(queue))
        /\ \A i \in DOMAIN Tail(queue) :
             /\ i + 1 \in DOMAIN queue /\ Tail(queue)[i] = queue[i + 1]
             /\ Tail(queue)[i] # h
    BY <1>8, HeadTail DEF Recv, TypeOK, QueueInv
  <2>2. /\ current' = h /\ queue' = Tail(queue) /\ pc' \in {"stats", "read"}
        /\ UNCHANGED <<callerVars, senders, handles, snapshot, nextId, counts,
                       active>>
    BY <1>8 DEF Recv
  <2> HIDE DEF h
  <2>3. TypeOK'
    <3>1. Len(queue') <= Capacity
      BY <2>1, <2>2, SpawnAssumption DEF TypeOK
    <3> QED
      BY <2>1, <2>2, <3>1 DEF TypeOK, callerVars
  <2>4. ActiveInv' /\ IssueInv'
    BY <2>2, NoLeaseMoves DEF callerVars
  <2>5. QueueInv'
    BY <2>1, <2>2 DEF QueueInv, Queued, callerVars
  <2>6. CurrentInv' /\ SnapshotInv'
    BY <2>1, <2>2 DEF CurrentInv, SnapshotInv, Queued, callerVars
  <2> QED
    BY <2>3, <2>4, <2>5, <2>6
<1>9. CASE ReadPressure
  <2>1. TypeOK'
    <3>1. snapshot' \in [target : Nat, resident : Nat, headroom : 0 .. FdTotal,
                         active : Nat]
      BY <1>9, PressureAssumption DEF ReadPressure
    <3> QED
      BY <1>9, <3>1 DEF ReadPressure, TypeOK, callerVars, queueVars
  <2>2. ActiveInv' /\ IssueInv'
    BY <1>9, NoLeaseMoves DEF ReadPressure, callerVars
  <2>3. QueueInv' /\ CurrentInv' /\ SnapshotInv'
    BY <1>9 DEF ReadPressure, QueueInv, CurrentInv, SnapshotInv, Queued,
                callerVars, queueVars
  <2> QED
    BY <2>1, <2>2, <2>3
<1>10. CASE ReadActive
  <2>1. TypeOK'
    BY <1>10 DEF ReadActive, TypeOK, callerVars, queueVars
  <2>2. ActiveInv' /\ IssueInv'
    BY <1>10, NoLeaseMoves DEF ReadActive, callerVars
  <2>3. QueueInv' /\ CurrentInv' /\ SnapshotInv'
    BY <1>10 DEF ReadActive, QueueInv, CurrentInv, SnapshotInv, Queued, TypeOK,
                 callerVars, queueVars
  <2> QED
    BY <2>1, <2>2, <2>3
<1>11. CASE RunLimit
  <2>1. TypeOK'
    <3>1. NoSnapshot \in [target : Nat, resident : Nat, headroom : 0 .. FdTotal,
                          active : Nat]
      BY SpawnAssumption DEF NoSnapshot
    <3>2. answer' \in [Calls -> {"none", "lease", "limit", "stats"}]
      BY <1>11 DEF RunLimit, TypeOK
    <3> QED
      BY <1>11, <3>1, <3>2 DEF RunLimit, TypeOK, queueVars
  <2>2. ActiveInv' /\ IssueInv'
    BY <1>11, NoLeaseMoves DEF RunLimit
  <2>3. QueueInv' /\ CurrentInv' /\ SnapshotInv'
    BY <1>11 DEF RunLimit, QueueInv, CurrentInv, SnapshotInv, Queued, queueVars
  <2> QED
    BY <2>1, <2>2, <2>3
<1>12. CASE Admit
  <2>1. TypeOK' /\ ActiveInv' /\ IssueInv'
    BY <1>12, AdmitKeeps
  <2>2. QueueInv' /\ CurrentInv' /\ SnapshotInv'
    BY <1>12 DEF Admit, QueueInv, CurrentInv, SnapshotInv, Queued, TypeOK, queueVars
  <2> QED
    BY <2>1, <2>2
<1>13. CASE Reply
  <2>1. current \in Calls /\ Queued(current)
    BY <1>13 DEF Reply, CurrentInv, Queued
  <2>2. /\ ActiveInv' /\ IssueInv' /\ active' \in Nat
        /\ \A d \in Calls : place[d] = "none" => place'[d] = "none"
        /\ place' \in [Calls -> {"none", "actor", "mail", "lease", "output",
                                 "dropped"}]
    <3>1. CASE place[current] # "actor"
      <4>1. UNCHANGED <<place, lease, counts, nextId, active>>
        BY <1>13, <2>1, <3>1 DEF Reply, TypeOK
      <4> QED
        BY <4>1, NoLeaseMoves DEF TypeOK
    <3>2. CASE place[current] = "actor" /\ call[current] = "queued"
      <4>1. /\ current \in Alive /\ place' = [place EXCEPT ![current] = "mail"]
            /\ UNCHANGED <<lease, counts, nextId, active>>
        BY <1>13, <2>1, <3>2 DEF Reply, Alive
      <4>2. ActiveInv' /\ IssueInv'
        BY <2>1, <4>1, MoveKeeps
      <4> QED
        BY <3>2, <4>1, <4>2 DEF TypeOK
    <3>3. CASE place[current] = "actor" /\ call[current] # "queued"
      <4>1. /\ current \in Alive
            /\ place' = [place EXCEPT ![current] = "dropped"]
            /\ active' = AfterDrop(current) /\ UNCHANGED <<lease, counts, nextId>>
        BY <1>13, <2>1, <3>3 DEF Reply, Alive
      <4>2. ActiveInv' /\ IssueInv' /\ active' \in Nat
        BY <2>1, <4>1, DropKeeps
      <4> QED
        BY <3>3, <4>1, <4>2 DEF TypeOK
    <3> QED
      BY <3>1, <3>2, <3>3
  <2>3. /\ call' \in [Calls -> Pending \cup {"unmade", "done", "gone", "left"}]
        /\ \A d \in Calls : call'[d] = call[d] \/ (d = current /\ call'[d] = "answered")
    BY <1>13, <2>1 DEF Reply, TypeOK, Pending
  <2>4. TypeOK'
    BY <1>13, <2>2, <2>3 DEF Reply, TypeOK, queueVars
  <2>5. QueueInv'
    <3>1. /\ \A i \in DOMAIN senders : senders[i] \in Calls /\ senders[i] # current
          /\ \A i \in DOMAIN queue : queue[i] \in Calls
      BY <2>1 DEF QueueInv, Queued, TypeOK
    <3>2. UNCHANGED <<senders, queue>>
      BY <1>13 DEF Reply, queueVars
    <3> QED
      BY <2>1, <2>2, <2>3, <3>1, <3>2 DEF QueueInv, Queued
  <2>6. CurrentInv' /\ SnapshotInv'
    BY <1>13 DEF Reply, CurrentInv, SnapshotInv
  <2> QED
    BY <2>2, <2>4, <2>5, <2>6
<1>14. CASE ReportStats
  <2>1. TypeOK'
    BY <1>14 DEF ReportStats, TypeOK, queueVars
  <2>2. ActiveInv' /\ IssueInv'
    BY <1>14, NoLeaseMoves DEF ReportStats
  <2>3. QueueInv' /\ CurrentInv' /\ SnapshotInv'
    BY <1>14 DEF ReportStats, QueueInv, CurrentInv, SnapshotInv, Queued, queueVars
  <2> QED
    BY <2>1, <2>2, <2>3
<1>15. CASE Stop
  <2>1. TypeOK'
    BY <1>15 DEF Stop, TypeOK, callerVars, queueVars
  <2>2. ActiveInv' /\ IssueInv'
    BY <1>15, NoLeaseMoves DEF Stop, callerVars
  <2>3. QueueInv' /\ CurrentInv' /\ SnapshotInv'
    BY <1>15 DEF Stop, QueueInv, CurrentInv, SnapshotInv, Queued, callerVars,
                 queueVars
  <2> QED
    BY <2>1, <2>2, <2>3
<1>16. CASE Shutdown
  <2>1. TypeOK'
    <3>1. /\ call' \in [Calls -> Pending \cup {"unmade", "done", "gone", "left"}]
          /\ senders' \in Seq(Calls)
      BY <1>16 DEF Shutdown, TypeOK, Pending
    <3>2. queue' \in Seq(Calls) /\ Len(queue') <= Capacity
      BY <1>16, SpawnAssumption DEF Shutdown
    <3> QED
      BY <1>16, <3>1, <3>2 DEF Shutdown, TypeOK
  <2>2. ActiveInv' /\ IssueInv'
    BY <1>16, NoLeaseMoves DEF Shutdown
  <2>3. QueueInv' /\ CurrentInv' /\ SnapshotInv'
    BY <1>16 DEF Shutdown, QueueInv, CurrentInv, SnapshotInv, Distinct, TypeOK
  <2> QED
    BY <2>1, <2>2, <2>3
<1>17. CASE UNCHANGED vars
  <2>1. ActiveInv' /\ IssueInv'
    BY <1>17, NoLeaseMoves DEF vars, callerVars, actorVars
  <2>2. TypeOK'
    BY <1>17 DEF vars, callerVars, actorVars, queueVars, TypeOK
  <2>3. QueueInv' /\ CurrentInv' /\ SnapshotInv'
    BY <1>17 DEF vars, callerVars, actorVars, queueVars, QueueInv, CurrentInv,
                 SnapshotInv, Queued
  <2> QED
    BY <2>1, <2>2, <2>3
<1> QED
  BY <1>1, <1>2, <1>3, <1>4, <1>5, <1>6, <1>7, <1>8, <1>9, <1>10, <1>11, <1>12,
     <1>13, <1>14, <1>15, <1>16, <1>17
  DEF Next, ActorNext

(***************************************************************************)
(* The theorems.                                                           *)
(***************************************************************************)
LEMMA Invariance == Spec => []GovernorInv
  BY InitInv, NextInv, PTL DEF Spec

\* The types of the governor (actor.rs:33-46, handle.rs:25-54); the queue never
\* holds more commands than it has places for.
THEOREM GovernorTypes == Spec => []TypeOK
<1>1. GovernorInv => TypeOK
  BY DEF GovernorInv
<1> QED
  BY <1>1, Invariance, PTL

\* The count that leases share is the number of external leases that exist,
\* whoever holds them and whoever left without his (actor.rs:106-117,
\* lease.rs:30-34).
THEOREM ActivityCounted == Spec => []ActiveExact
<1>1. GovernorInv => ActiveExact
  BY DEF GovernorInv, ActiveInv
<1> QED
  BY <1>1, Invariance, PTL

\* No id is given twice, and both counters together count the leases
\* (actor.rs:87-107).
THEOREM DirectoriesApart == Spec => []IdsUnique
<1>1. GovernorInv => IdsUnique
  BY DEF GovernorInv, IssueInv
<1> QED
  BY <1>1, Invariance, PTL

\* A sort that is admitted has no more than its share of the descriptors, if it
\* has more than the least (planner.rs:42-50), although its share was computed
\* from readings that were taken before (actor.rs:128-135).
THEOREM DescriptorsShared == Spec => FanInShared
<1> DEFINE Fair == \A c \in Calls :
                     place[c] = "none" /\ place'[c] = "actor"
                       /\ lease'[c].plan = "External" /\ lease'[c].fan > 2 =>
                         lease'[c].fan * active' <= FdTotal
<1>1. GovernorInv /\ [Next]_vars => Fair
  <2> SUFFICES ASSUME GovernorInv, [Next]_vars, NEW c \in Calls,
                      place[c] = "none", place'[c] = "actor",
                      lease'[c].plan = "External", lease'[c].fan > 2
               PROVE  lease'[c].fan * active' <= FdTotal
    OBVIOUS
  <2>1. Admit /\ c = current
    <3>1. place \in [Calls -> {"none", "actor", "mail", "lease", "output",
                              "dropped"}]
      BY DEF GovernorInv, TypeOK
    <3>2. ASSUME NEW d \in Calls,
                 Call(d) \/ Receive(d) \/ IntoSession(d) \/ Release(d) \/ Abandon(d)
          PROVE  FALSE
      BY <3>1, <3>2 DEF Call, Receive, IntoSession, Release, Abandon
    <3>3. ~Reply
      BY <3>1 DEF Reply
    <3>4. ~(\/ Send \/ DropHandles \/ Recv \/ ReadPressure \/ ReadActive
            \/ RunLimit \/ ReportStats \/ Stop \/ Shutdown \/ UNCHANGED vars)
      BY DEF Send, DropHandles, Recv, ReadPressure, ReadActive, RunLimit,
             ReportStats, Stop, Shutdown, vars, callerVars
    <3>5. Admit
      BY <3>2, <3>3, <3>4 DEF Next, ActorNext
    <3> QED
      BY <3>1, <3>5 DEF Admit
  <2>2. PICK e \in EstimatesOf(current) :
          /\ lease' = [lease EXCEPT ![current] =
               [id |-> nextId, plan |-> Plan(e, snapshot, Config).kind,
                fan |-> Plan(e, snapshot, Config).fan]]
          /\ active' = IF Plan(e, snapshot, Config).kind = "External"
                       THEN active + 1 ELSE active
    BY <2>1 DEF Admit
  <2> DEFINE p == Plan(e, snapshot, Config)
  <2>3. lease'[c].plan = p.kind /\ lease'[c].fan = p.fan
    BY <2>1, <2>2 DEF GovernorInv, TypeOK
  <2>4. active' = active + 1
    BY <2>2, <2>3
  <2>5. /\ e \in Nat
        /\ snapshot \in [target : Nat, resident : Nat, headroom : 0 .. FdTotal,
                         active : Nat]
    BY PressureAssumption DEF EstimatesOf, GovernorInv, TypeOK
  <2> HIDE DEF p
  <2>6. p.fan \in Nat /\ p.fan * (snapshot.active + 1) <= FdTotal
    <3>1. LET r == Plan(e, snapshot, Config) IN
          r.fan \in Nat
            /\ (r.kind = "External" /\ r.fan > 2 =>
                   r.fan * (snapshot.active + 1) <= FdTotal)
      BY <2>5, PlanShares
    <3> QED
      BY <2>3, <3>1 DEF p
  <2>7. active \in Nat /\ active <= snapshot.active /\ snapshot.active \in Nat
    BY <2>1, <2>5 DEF GovernorInv, TypeOK, SnapshotInv, Admit
  <2>8. p.fan * (active + 1) <= p.fan * (snapshot.active + 1)
    BY <2>6, <2>7
  <2> QED
    BY <2>3, <2>4, <2>6, <2>7, <2>8, SpawnAssumption
<1>2. GovernorInv /\ [Next]_vars => [Fair]_vars
  BY <1>1
<1> QED
  BY <1>2, Invariance, PTL DEF Spec, FanInShared
=============================================================================
