------------------------------ MODULE Governor ------------------------------
(***************************************************************************)
(* The governor (service/): calls of a handle become commands in a bounded *)
(* queue, one actor answers them in turn, and a lease that it issues       *)
(* counts as an active sort until whatever consumed it is dropped.         *)
(*                                                                         *)
(* A call is made once; the caller may drop its future at any await.  The  *)
(* memory readings and the permits available are what other parts of the   *)
(* process make them: each snapshot may find any value.  The plan itself   *)
(* is Planner's.                                                           *)
(***************************************************************************)
EXTENDS Planner, Integers, Sequences, SequencesExt, FiniteSets

CONSTANTS
  Calls,     \* calls that are made on handles
  Kind,      \* of each: "submit", "replay" (replay_writer) or "stats"
  Capacity,  \* COMMAND_CHANNEL_CAPACITY
  MaxId,     \* u64::MAX, where next_id ends
  FdTotal,   \* fd_budget, the permits that the semaphore starts with
  Config,    \* the configuration given to spawn
  Estimates, \* byte estimates of the sorts submitted
  Targets,   \* readings of the memory pressure
  Residents

ASSUME CallsAssumption == Kind \in [Calls -> {"submit", "replay", "stats"}]
ASSUME SpawnAssumption ==
  /\ Capacity \in Nat \ {0} /\ FdTotal \in 1 .. MaxU32 /\ MaxId \in Nat
  /\ {Config.ceiling, Config.maxFanIn, Config.minBuffer, Config.maxBuffer}
       \subseteq Nat
  /\ 2 <= Config.maxFanIn /\ Config.minBuffer <= Config.maxBuffer
ASSUME PressureAssumption == UNION {Estimates, Targets, Residents} \subseteq Nat

VARIABLES
  call,     \* where each call stands with its caller
  answer,   \* what the oneshot of the call was sent, or its caller received
  place,    \* where the lease issued for the call is
  lease,    \* and what it says: its directory's id, and its plan
  senders,  \* calls waiting for a place in the queue, in order
  queue,    \* commands
  handles,  \* some handle exists
  pc,       \* SorterActor::run
  current,  \* the command that it works on
  snapshot, \* and the snapshot taken for it
  nextId,   \* next_id
  counts,   \* in_memory_count and external_count
  active    \* the active sorts, which leases share

callerVars == <<call, answer, place, lease>>
queueVars  == <<senders, queue, handles>>
actorVars  == <<pc, current, snapshot, nextId, counts>>
vars == <<callerVars, queueVars, actorVars, active>>

Pending  == {"waiting", "queued", "answered"}
Plans    == {"none", "InMemory", "External"}
NoLease  == [id |-> 0, plan |-> "none", fan |-> 0]
NoSnapshot == [target |-> 0, resident |-> 0, headroom |-> 0, active |-> 0]
NoCall   == "none"

TypeOK ==
  /\ call \in [Calls -> Pending \cup {"unmade", "done", "gone", "left"}]
  /\ answer \in [Calls -> {"none", "lease", "limit", "stats"}]
  /\ place \in [Calls -> {"none", "actor", "mail", "lease", "output", "dropped"}]
  /\ lease \in [Calls -> [id : 0 .. MaxId, plan : Plans, fan : Nat]]
  /\ senders \in Seq(Calls)
  /\ queue \in Seq(Calls) /\ Len(queue) <= Capacity
  /\ handles \in BOOLEAN
  /\ pc \in {"recv", "read", "count", "admit", "reply", "stats", "stopped"}
  /\ current \in Calls \cup {NoCall}
  /\ snapshot \in [target : Nat, resident : Nat, headroom : 0 .. FdTotal,
                   active : Nat]
  /\ nextId \in 0 .. MaxId
  /\ counts \in [{"InMemory", "External"} -> Nat]
  /\ active \in Nat

\* SorterHandle::spawn
Init ==
  /\ call = [c \in Calls |-> "unmade"]
  /\ answer = [c \in Calls |-> "none"]
  /\ place = [c \in Calls |-> "none"]
  /\ lease = [c \in Calls |-> NoLease]
  /\ senders = <<>>
  /\ queue = <<>>
  /\ handles = TRUE
  /\ pc = "recv"
  /\ current = NoCall
  /\ snapshot = NoSnapshot
  /\ nextId = 0
  /\ counts = [p \in {"InMemory", "External"} |-> 0]
  /\ active = 0
-----------------------------------------------------------------------------
(***************************************************************************)
(* The caller's side (handle.rs).                                          *)
(***************************************************************************)
\* submit, replay_writer and stats: the command queues for a place,
Call(c) ==
  /\ call[c] = "unmade"
  /\ handles
  /\ IF pc = "stopped"
     THEN call' = [call EXCEPT ![c] = "gone"] /\ UNCHANGED senders
     ELSE call' = [call EXCEPT ![c] = "waiting"] /\ senders' = Append(senders, c)
  /\ UNCHANGED <<answer, place, lease, queue, handles, actorVars, active>>

\* which places are given to in order.
Send ==
  /\ senders # <<>>
  /\ Len(queue) < Capacity
  /\ call' = [call EXCEPT ![Head(senders)] = "queued"]
  /\ queue' = Append(queue, Head(senders))
  /\ senders' = Tail(senders)
  /\ UNCHANGED <<answer, place, lease, handles, actorVars, active>>

\* The answer is received; replay_writer turns its lease into a writer at once.
Receive(c) ==
  /\ call[c] = "answered"
  /\ call' = [call EXCEPT ![c] = "done"]
  /\ place' = [place EXCEPT ![c] =
       IF @ # "mail" THEN @ ELSE IF Kind[c] = "replay" THEN "output" ELSE "lease"]
  /\ UNCHANGED <<answer, lease, queueVars, actorVars, active>>

\* SortLease::into_session: the lease follows the session and its stream.
IntoSession(c) ==
  /\ place[c] = "lease"
  /\ place' = [place EXCEPT ![c] = "output"]
  /\ UNCHANGED <<call, answer, lease, queueVars, actorVars, active>>

\* Drop for ActiveGuard; an in-memory lease has none.
AfterDrop(c) == IF lease[c].plan = "External" THEN active - 1 ELSE active

\* The lease, or whatever it went into, is dropped.
Release(c) ==
  /\ place[c] \in {"lease", "output"}
  /\ place' = [place EXCEPT ![c] = "dropped"]
  /\ active' = AfterDrop(c)
  /\ UNCHANGED <<call, answer, lease, queueVars, actorVars>>

\* The caller drops its future: before its command has a place, while it is in
\* the queue or with the actor, or with the answer in the mail.
Abandon(c) ==
  /\ call[c] \in Pending
  /\ call' = [call EXCEPT ![c] = "left"]
  /\ \/ \E i \in DOMAIN senders :
          senders[i] = c /\ senders' = RemoveAt(senders, i)
     \/ call[c] # "waiting" /\ UNCHANGED senders
  /\ IF place[c] = "mail"
     THEN place' = [place EXCEPT ![c] = "dropped"] /\ active' = AfterDrop(c)
     ELSE UNCHANGED <<place, active>>
  /\ UNCHANGED <<answer, lease, queue, handles, actorVars>>

\* The last handle goes; a call borrows the handle that it is made on.
DropHandles ==
  /\ handles
  /\ \A c \in Calls : call[c] \notin Pending
  /\ handles' = FALSE
  /\ UNCHANGED <<callerVars, senders, queue, actorVars, active>>
-----------------------------------------------------------------------------
(***************************************************************************)
(* SorterActor::run and admit.                                             *)
(***************************************************************************)
Recv ==
  /\ pc = "recv"
  /\ queue # <<>>
  /\ current' = Head(queue)
  /\ queue' = Tail(queue)
  /\ pc' = IF Kind[current'] = "stats" THEN "stats" ELSE "read"
  /\ UNCHANGED <<callerVars, senders, handles, snapshot, nextId, counts, active>>

\* snapshot(): the target, the residency and the permits, each when it is read,
ReadPressure ==
  /\ pc = "read"
  /\ \E t \in Targets, r \in Residents, h \in 0 .. FdTotal :
       snapshot' = [target |-> t, resident |-> r, headroom |-> h, active |-> 0]
  /\ pc' = "count"
  /\ UNCHANGED <<callerVars, queueVars, current, nextId, counts, active>>

\* and the active sorts last: leases may be dropped before and after.
ReadActive ==
  /\ pc = "count"
  /\ snapshot' = [snapshot EXCEPT !.active = active]
  /\ pc' = "admit"
  /\ UNCHANGED <<callerVars, queueVars, current, nextId, counts, active>>

\* The spec of the command; replay_writer knows nothing of its size.
EstimatesOf(c) == IF Kind[c] = "replay" THEN {0} ELSE Estimates

\* checked_add fails: the ids are used up.
RunLimit ==
  /\ pc = "admit"
  /\ nextId = MaxId
  /\ answer' = [answer EXCEPT ![current] = "limit"]
  /\ pc' = "reply"
  /\ snapshot' = NoSnapshot
  /\ UNCHANGED <<call, place, lease, queueVars, current, nextId, counts, active>>

\* Mutant: the id does not advance for a sort in memory.
Admit_ReusesId ==
  /\ pc = "admit"
  /\ nextId < MaxId
  /\ \E est \in EstimatesOf(current) :
       LET plan == Plan(est, snapshot, Config) IN
       /\ nextId' = IF plan.kind = "External" THEN nextId + 1 ELSE nextId
       /\ lease' = [lease EXCEPT ![current] =
            [id |-> nextId, plan |-> plan.kind, fan |-> plan.fan]]
       /\ counts' = [counts EXCEPT ![plan.kind] = @ + 1]
       /\ active' = IF plan.kind = "External" THEN active + 1 ELSE active
  /\ answer' = [answer EXCEPT ![current] = "lease"]
  /\ place' = [place EXCEPT ![current] = "actor"]
  /\ pc' = "reply"
  /\ snapshot' = NoSnapshot
  /\ UNCHANGED <<call, queueVars, current>>

Admit ==
  /\ pc = "admit"
  /\ nextId < MaxId
  /\ \E est \in EstimatesOf(current) :
       LET plan == Plan(est, snapshot, Config) IN
       /\ lease' = [lease EXCEPT ![current] =
            [id |-> nextId, plan |-> plan.kind, fan |-> plan.fan]]
       /\ counts' = [counts EXCEPT ![plan.kind] = @ + 1]
       /\ active' = IF plan.kind = "External" THEN active + 1 ELSE active
  /\ nextId' = nextId + 1
  /\ answer' = [answer EXCEPT ![current] = "lease"]
  /\ place' = [place EXCEPT ![current] = "actor"]
  /\ pc' = "reply"
  /\ snapshot' = NoSnapshot
  /\ UNCHANGED <<call, queueVars, current>>

\* Mutant: the actor waits for the caller to take the answer.
Reply_Waits ==
  /\ pc = "reply"
  /\ call[current] = "queued"
  /\ call' = [call EXCEPT ![current] = "answered"]
  /\ place' = [place EXCEPT ![current] = IF @ = "actor" THEN "mail" ELSE @]
  /\ pc' = "recv"
  /\ current' = NoCall
  /\ UNCHANGED <<answer, lease, queueVars, snapshot, nextId, counts, active>>

\* Mutant: a lease that nobody waits for stays counted.
Reply_Forgets ==
  /\ pc = "reply"
  /\ IF call[current] = "queued"
     THEN /\ call' = [call EXCEPT ![current] = "answered"]
          /\ place' = [place EXCEPT ![current] = IF @ = "actor" THEN "mail" ELSE @]
     ELSE /\ place' = [place EXCEPT ![current] =
               IF @ = "actor" THEN "dropped" ELSE @]
          /\ UNCHANGED call
  /\ pc' = "recv"
  /\ current' = NoCall
  /\ UNCHANGED <<answer, lease, queueVars, snapshot, nextId, counts, active>>

\* reply.send: without a receiver the answer, and the lease in it, is dropped.
Reply ==
  /\ pc = "reply"
  /\ IF call[current] = "queued"
     THEN /\ call' = [call EXCEPT ![current] = "answered"]
          /\ place' = [place EXCEPT ![current] = IF @ = "actor" THEN "mail" ELSE @]
          /\ UNCHANGED active
     ELSE /\ place' = [place EXCEPT ![current] =
               IF @ = "actor" THEN "dropped" ELSE @]
          /\ active' = IF place[current] = "actor" THEN AfterDrop(current)
                       ELSE active
          /\ UNCHANGED call
  /\ pc' = "recv"
  /\ current' = NoCall
  /\ UNCHANGED <<answer, lease, queueVars, snapshot, nextId, counts>>

\* SorterActor::stats
ReportStats ==
  /\ pc = "stats"
  /\ answer' = [answer EXCEPT ![current] = "stats"]
  /\ pc' = "reply"
  /\ UNCHANGED <<call, place, lease, queueVars, current, snapshot,
                 nextId, counts, active>>

\* recv returns None: no sender is left, and the queue has been emptied.
Stop ==
  /\ pc = "recv"
  /\ ~handles
  /\ queue = <<>>
  /\ pc' = "stopped"
  /\ UNCHANGED <<callerVars, queueVars, current, snapshot, nextId, counts, active>>

\* The runtime drops the actor's task, at its only await: commands go with it.
Shutdown ==
  /\ pc = "recv"
  /\ pc' = "stopped"
  /\ call' = [c \in Calls |-> IF call[c] \in {"waiting", "queued"} THEN "gone"
                              ELSE call[c]]
  /\ senders' = <<>>
  /\ queue' = <<>>
  /\ UNCHANGED <<answer, place, lease, handles, current, snapshot, nextId,
                 counts, active>>
-----------------------------------------------------------------------------
ActorNext ==
  Recv \/ ReadPressure \/ ReadActive \/ RunLimit \/ Admit \/ Reply
  \/ ReportStats \/ Stop

Next ==
  \/ \E c \in Calls : Call(c) \/ Receive(c) \/ IntoSession(c) \/ Release(c)
                      \/ Abandon(c)
  \/ Send \/ DropHandles
  \/ ActorNext \/ Shutdown

Spec == Init /\ [][Next]_vars

\* The actor's task and futures that were woken are polled.
FairSpec ==
  /\ Spec
  /\ WF_vars(ActorNext) /\ WF_vars(Send)
  /\ \A c \in Calls : WF_vars(Receive(c))
-----------------------------------------------------------------------------
(***************************************************************************)
(* Properties.                                                             *)
(***************************************************************************)
Alive == {c \in Calls : place[c] \in {"actor", "mail", "lease", "output"}}

\* "External sorts currently admitted, including their live output streams"
\* (stats.rs:10): the count that leases share is the number of external leases
\* that exist anywhere, also those that no caller will ever receive
\* (actor.rs:106-117, lease.rs:30-34).
ActiveExact == active = Cardinality({c \in Alive : lease[c].plan = "External"})

\* No two sorts ever share a scratch directory, and the two counters together
\* are the number of leases issued, also after the ids ran out
\* (actor.rs:87-107).
IdsUnique ==
  LET issued == {c \in Calls : place[c] # "none"} IN
  /\ \A c, d \in issued : c # d => lease[c].id # lease[d].id
  /\ counts["InMemory"] + counts["External"] = Cardinality(issued)

\* Descriptors are shared by all active sorts (planner.rs:42-50): the fan-in
\* of a sort fits its share of them among those active once it is admitted,
\* whatever was dropped since the four readings were taken (actor.rs:128-135).
FanInShared ==
  [][\A c \in Calls :
       place[c] = "none" /\ place'[c] = "actor"
         /\ lease'[c].plan = "External" /\ lease'[c].fan > 2 =>
           lease'[c].fan * active' <= FdTotal]_vars

\* Every call is answered unless its caller leaves (handle.rs:63-70), however
\* many wait for the queue and whoever leaves in between.
CallsAnswered ==
  \A c \in Calls : call[c] = "waiting" ~> call[c] \in {"done", "gone", "left"}
=============================================================================
