----------------------------- MODULE ScratchIo -----------------------------
(***************************************************************************)
(* File operations and scratch directories (engine/operation.rs and        *)
(* engine/cleanup.rs).  Sorts and replays, the owners, share a semaphore   *)
(* of descriptor permits.  An operation counts in its owner's IoScope from *)
(* before it queues for a permit until after its permit is back, and       *)
(* outlives the caller that submitted it.  The owner's cleanup guard waits *)
(* for its scope to be idle and then removes the directory: in-band, by a  *)
(* caller that may give up at any await, or deferred, in the task that the *)
(* guard's Drop spawns.                                                    *)
(*                                                                         *)
(* The one file call that bypasses all this, the unlink of merged runs     *)
(* (engine/merge.rs), is modelled beside it.                               *)
(***************************************************************************)
EXTENDS Naturals, FiniteSets, Sequences, SequencesExt

CONSTANTS
  Owners,   \* objects with a scratch directory of their own
  Sorts,    \* the owners that are sorts, the others being replays
  Ops,      \* bound: as many operations exist at a time
  scopeOf,  \* the owner in whose IoScope each operation counts
  Permits   \* permits of the shared descriptor semaphore

ASSUME OwnersAssumption == Sorts \subseteq Owners
ASSUME OpsAssumption == IsFiniteSet(Ops) /\ scopeOf \in [Ops -> Owners]
ASSUME PermitsAssumption == Permits \in Nat \ {0}

VARIABLES
  phase,     \* where each operation stands
  kind,      \* what it does to the scratch directory
  awaited,   \* its caller still awaits it
  succeeded, \* its result, while there is one to deliver
  queue,     \* the operations waiting for a permit, first come first served
  permits,   \* permits that nobody holds
  pending,   \* IoScope.pending
  stage,     \* where the owner stands in its life
  armed,     \* AsyncCleanupGuard.dir.is_some()
  reserved,  \* who holds the scratch reservation: the guard, the task, nobody
  dir,       \* the scratch directory exists
  cleaner,   \* where cleanup, or the deferred task, stands
  woken,     \* the cleaner's Notified future was notified since it was enabled
  unlinking  \* the owner's unlink of merged inputs: none, awaited or orphan

opVars    == <<phase, kind, awaited, succeeded, queue, permits>>
ownerVars == <<stage, armed, reserved, dir, cleaner, unlinking>>
vars == <<opVars, pending, ownerVars, woken>>

Phases   == {"free", "queued", "granted", "running", "finished",
             "unpermitted", "waking", "done"}
Kinds    == {"none", "mkdir", "file", "remove"}
Stages   == {"fresh", "preparing", "ready", "failed", "closing", "dropped",
             "closed", "leaked"}
Cleaners == {"none", "enable", "check", "poll", "await", "remove", "removing"}

TypeOK ==
  /\ phase \in [Ops -> Phases]
  /\ kind \in [Ops -> Kinds]
  /\ awaited \in [Ops -> BOOLEAN]
  /\ succeeded \in [Ops -> BOOLEAN]
  /\ queue \in Seq(Ops)
  /\ permits \in 0 .. Permits
  /\ pending \in [Owners -> Nat]
  /\ stage \in [Owners -> Stages]
  /\ armed \in [Owners -> BOOLEAN]
  /\ reserved \in [Owners -> {"guard", "task", "none"}]
  /\ dir \in [Owners -> BOOLEAN]
  /\ cleaner \in [Owners -> Cleaners]
  /\ woken \in [Owners -> BOOLEAN]
  /\ unlinking \in [Owners -> {"none", "awaited", "orphan"}]

Init ==
  /\ phase = [j \in Ops |-> "free"]
  /\ kind = [j \in Ops |-> "none"]
  /\ awaited = [j \in Ops |-> FALSE]
  /\ succeeded = [j \in Ops |-> FALSE]
  /\ queue = <<>>
  /\ permits = Permits
  /\ pending = [o \in Owners |-> 0]
  /\ stage = [o \in Owners |-> "fresh"]
  /\ armed = [o \in Owners |-> FALSE]
  /\ reserved = [o \in Owners |-> "none"]
  /\ dir = [o \in Owners |-> FALSE]
  /\ cleaner = [o \in Owners |-> "none"]
  /\ woken = [o \in Owners |-> FALSE]
  /\ unlinking = [o \in Owners |-> "none"]
-----------------------------------------------------------------------------
(***************************************************************************)
(* Which operations hold what.                                             *)
(***************************************************************************)
\* Operations of owner o in one of the phases P.
OpsIn(o, P) == {j \in Ops : scopeOf[j] = o /\ phase[j] \in P}

Permitted == {"granted", "running", "finished"}
Guarded   == {"queued", "unpermitted"} \cup Permitted

\* Operations of o whose result somebody is still waiting for.
Awaited(o) == {j \in Ops : scopeOf[j] = o /\ phase[j] # "free" /\ awaited[j]}
-----------------------------------------------------------------------------
(***************************************************************************)
(* operation.rs: an operation from submission to result.                   *)
(***************************************************************************)
\* perform_reserved up to its first await: IoScope::start, then the queue.
Submit(o, j, k) ==
  /\ scopeOf[j] = o
  /\ phase[j] = "free"
  /\ phase' = [phase EXCEPT ![j] = "queued"]
  /\ kind' = [kind EXCEPT ![j] = k]
  /\ awaited' = [awaited EXCEPT ![j] = TRUE]
  /\ queue' = Append(queue, j)
  /\ pending' = [pending EXCEPT ![o] = @ + 1]
  /\ UNCHANGED <<succeeded, permits>>

Advance(j, from, to) ==
  /\ phase[j] = from
  /\ phase' = [phase EXCEPT ![j] = to]
  /\ kind' = [kind EXCEPT ![j] = IF to = "free" THEN "none" ELSE @]

\* The semaphore hands a permit to the first in the queue.
Grant ==
  /\ queue # <<>>
  /\ permits > 0
  /\ Advance(Head(queue), "queued", "granted")
  /\ queue' = Tail(queue)
  /\ permits' = permits - 1
  /\ UNCHANGED <<awaited, succeeded, pending, ownerVars, woken>>

\* The caller, polled with its permit, spawns the operation.
Spawn(j) ==
  /\ awaited[j]
  /\ Advance(j, "granted", "running")
  /\ UNCHANGED <<awaited, succeeded, queue, permits, pending, ownerVars, woken>>

\* The file call returns; from here on nobody touches the directory for it.
Finish(j, ok) ==
  /\ Advance(j, "running", "finished")
  /\ succeeded' = [succeeded EXCEPT ![j] = ok /\ awaited[j]]
  /\ dir' = [dir EXCEPT ![scopeOf[j]] =
              CASE ok /\ kind[j] = "mkdir"  -> TRUE
                [] ok /\ kind[j] = "remove" -> FALSE
                [] OTHER                    -> @]
  /\ UNCHANGED <<awaited, queue, permits, pending, stage, armed, reserved,
                 cleaner, unlinking, woken>>

DropPermit(j) ==
  /\ Advance(j, "finished", "unpermitted")
  /\ permits' = permits + 1
  /\ UNCHANGED <<awaited, succeeded, queue, pending, ownerVars, woken>>

\* What becomes of an operation whose guard is gone.
Settled(j) == IF awaited[j] THEN "done" ELSE "free"

\* Mutant: fetch_sub is taken to return the new count.
DropGuard_ComparesNew(j) ==
  LET o == scopeOf[j] IN
  /\ Advance(j, "unpermitted", IF pending[o] = 0 THEN "waking" ELSE Settled(j))
  /\ pending' = [pending EXCEPT ![o] = @ - 1]
  /\ UNCHANGED <<awaited, succeeded, queue, permits, ownerVars, woken>>

\* IoGuard::drop: the decrement, and then the wakeup if it was the last one.
DropGuard(j) ==
  LET o == scopeOf[j] IN
  /\ Advance(j, "unpermitted", IF pending[o] = 1 THEN "waking" ELSE Settled(j))
  /\ pending' = [pending EXCEPT ![o] = @ - 1]
  /\ UNCHANGED <<awaited, succeeded, queue, permits, ownerVars, woken>>

\* Mutant: only a cleaner already asleep is woken, as if idle did not enable
\* its Notified future before it looks.
NotifyIdle_SleepersOnly(j) ==
  LET o == scopeOf[j] IN
  /\ Advance(j, "waking", Settled(j))
  /\ woken' = [woken EXCEPT ![o] = @ \/ cleaner[o] = "await"]
  /\ UNCHANGED <<awaited, succeeded, queue, permits, pending, ownerVars>>

NotifyIdle(j) ==
  /\ Advance(j, "waking", Settled(j))
  /\ woken' = [woken EXCEPT ![scopeOf[j]] = TRUE]
  /\ UNCHANGED <<awaited, succeeded, queue, permits, pending, ownerVars>>

\* Mutant: a caller that leaves with a permit it was granted keeps it.
Abandon_KeepsPermit(j) ==
  /\ phase[j] # "free"
  /\ awaited[j]
  /\ awaited' = [awaited EXCEPT ![j] = FALSE]
  /\ phase' = [phase EXCEPT ![j] = CASE @ \in {"queued", "granted"} -> "unpermitted"
                                     [] @ = "done" -> "free"
                                     [] OTHER      -> @]
  /\ kind' = [kind EXCEPT ![j] = IF phase[j] = "done" THEN "none" ELSE @]
  /\ succeeded' = [succeeded EXCEPT ![j] = FALSE]
  /\ \/ phase[j] # "queued" /\ UNCHANGED queue
     \/ \E i \in DOMAIN queue : queue[i] = j /\ queue' = RemoveAt(queue, i)
  /\ UNCHANGED <<permits, pending, woken>>

\* The caller drops its future.  Not yet spawned, the operation gives back its
\* place or its permit, and then its guard; spawned, it goes on alone.
Abandon(j) ==
  /\ phase[j] # "free"
  /\ awaited[j]
  /\ awaited' = [awaited EXCEPT ![j] = FALSE]
  /\ phase' = [phase EXCEPT ![j] = CASE @ = "queued"  -> "unpermitted"
                                     [] @ = "granted" -> "finished"
                                     [] @ = "done"    -> "free"
                                     [] OTHER         -> @]
  /\ kind' = [kind EXCEPT ![j] = IF phase[j] = "done" THEN "none" ELSE @]
  /\ succeeded' = [succeeded EXCEPT ![j] = FALSE]
  /\ \/ phase[j] # "queued" /\ UNCHANGED queue
     \/ \E i \in DOMAIN queue : queue[i] = j /\ queue' = RemoveAt(queue, i)
  /\ UNCHANGED <<permits, pending, woken>>
-----------------------------------------------------------------------------
(***************************************************************************)
(* The owners: what sessions, streams, writers and cursors do with their   *)
(* scratch directory.  A failed owner accepts nothing but its cleanup.     *)
(***************************************************************************)
\* The guard is armed before the directory's creation is submitted.
Prepare(o, j) ==
  /\ stage[o] = "fresh"
  /\ stage' = [stage EXCEPT ![o] = "preparing"]
  /\ armed' = [armed EXCEPT ![o] = TRUE]
  /\ reserved' = [reserved EXCEPT ![o] = "guard"]
  /\ Submit(o, j, "mkdir")
  /\ UNCHANGED <<dir, cleaner, unlinking, woken>>

\* The same, when the budget refuses the operation's own bookkeeping.
PrepareRefused(o) ==
  /\ stage[o] = "fresh"
  /\ stage' = [stage EXCEPT ![o] = "failed"]
  /\ armed' = [armed EXCEPT ![o] = TRUE]
  /\ reserved' = [reserved EXCEPT ![o] = "guard"]
  /\ UNCHANGED <<opVars, pending, dir, cleaner, unlinking, woken>>

\* A read or a write.  A sort awaits one at a time; a replay has as many
\* callers as it has cursors, and its writer.
Use(o, j) ==
  /\ stage[o] = "ready"
  /\ unlinking[o] # "awaited"
  /\ o \in Sorts => Awaited(o) = {}
  /\ Submit(o, j, "file")
  /\ UNCHANGED <<ownerVars, woken>>

\* perform returns to the caller that awaited it.
Deliver(j) ==
  LET o == scopeOf[j] IN
  /\ kind[j] # "remove"
  /\ awaited[j]
  /\ Advance(j, "done", "free")
  /\ awaited' = [awaited EXCEPT ![j] = FALSE]
  /\ succeeded' = [succeeded EXCEPT ![j] = FALSE]
  /\ \/ succeeded[j] /\ stage' = [stage EXCEPT ![o] =
                                    IF @ = "preparing" THEN "ready" ELSE @]
     \/ ~succeeded[j] /\ stage' = [stage EXCEPT ![o] = "failed"]
     \/ ~succeeded[j] /\ kind[j] = "file" /\ UNCHANGED stage
  /\ UNCHANGED <<queue, permits, pending, armed, reserved, dir, cleaner,
                 unlinking, woken>>

\* A cancelled write fails its owner for good, a cancelled read does not.
CancelOp(j) ==
  LET o == scopeOf[j] IN
  /\ kind[j] # "remove"
  /\ Abandon(j)
  /\ \/ stage' = [stage EXCEPT ![o] = "failed"]
     \/ kind[j] = "file" /\ UNCHANGED stage
  /\ UNCHANGED <<armed, reserved, dir, cleaner, unlinking>>

(***************************************************************************)
(* merge_group_to_file removes its inputs with direct calls: no permit, no *)
(* scope, and the file-system pool finishes what a dropped future started. *)
(***************************************************************************)
Unlink(o) ==
  /\ o \in Sorts
  /\ stage[o] = "ready"
  /\ unlinking[o] = "none"
  /\ Awaited(o) = {}
  /\ unlinking' = [unlinking EXCEPT ![o] = "awaited"]
  /\ UNCHANGED <<opVars, pending, stage, armed, reserved, dir, cleaner, woken>>

CancelUnlink(o) ==
  /\ unlinking[o] = "awaited"
  /\ unlinking' = [unlinking EXCEPT ![o] = "orphan"]
  /\ stage' = [stage EXCEPT ![o] = "failed"]
  /\ UNCHANGED <<opVars, pending, armed, reserved, dir, cleaner, woken>>

UnlinkDone(o, ok) ==
  /\ unlinking[o] # "none"
  /\ unlinking' = [unlinking EXCEPT ![o] = "none"]
  /\ stage' = [stage EXCEPT ![o] =
                 IF unlinking[o] = "awaited" /\ ~ok THEN "failed" ELSE @]
  /\ UNCHANGED <<opVars, pending, armed, reserved, dir, cleaner, woken>>
-----------------------------------------------------------------------------
(***************************************************************************)
(* cleanup.rs.  The guard's owner has exclusive access to it: nobody else  *)
(* can submit, and nobody awaits an operation of this scope any more.      *)
(***************************************************************************)
Exclusive(o) ==
  /\ stage[o] \in {"fresh", "ready", "failed", "closing"}
  /\ Awaited(o) = {}
  /\ unlinking[o] # "awaited"
  /\ cleaner[o] = "none"

\* AsyncCleanupGuard::cleanup, first of all its early return.  A sort cancelled
\* in its merge is only ever dropped.
Cleanup(o) ==
  /\ Exclusive(o)
  /\ unlinking[o] = "none"
  /\ stage' = [stage EXCEPT ![o] = IF armed[o] THEN "closing" ELSE "closed"]
  /\ cleaner' = [cleaner EXCEPT ![o] = IF armed[o] THEN "enable" ELSE "none"]
  /\ UNCHANGED <<opVars, pending, armed, reserved, dir, unlinking, woken>>

\* Mutant: the reservation is dropped with the guard, not moved to the task.
Drop_ReleasesReservation(o) ==
  /\ Exclusive(o)
  /\ armed[o]
  /\ stage' = [stage EXCEPT ![o] = "dropped"]
  /\ armed' = [armed EXCEPT ![o] = FALSE]
  /\ reserved' = [reserved EXCEPT ![o] = "none"]
  /\ cleaner' = [cleaner EXCEPT ![o] = "enable"]
  /\ UNCHANGED <<opVars, pending, dir, unlinking, woken>>

\* Drop for AsyncCleanupGuard: an armed guard spawns the removal.
Drop(o) ==
  /\ Exclusive(o)
  /\ IF armed[o]
     THEN /\ stage' = [stage EXCEPT ![o] = "dropped"]
          /\ armed' = [armed EXCEPT ![o] = FALSE]
          /\ reserved' = [reserved EXCEPT ![o] = "task"]
          /\ cleaner' = [cleaner EXCEPT ![o] = "enable"]
     ELSE /\ stage' = [stage EXCEPT ![o] = "closed"]
          /\ UNCHANGED <<armed, reserved, cleaner>>
  /\ UNCHANGED <<opVars, pending, dir, unlinking, woken>>

\* The same outside a Tokio runtime: logged, and the directory stays.
DropOutsideRuntime(o) ==
  /\ Exclusive(o)
  /\ armed[o]
  /\ stage' = [stage EXCEPT ![o] = "leaked"]
  /\ armed' = [armed EXCEPT ![o] = FALSE]
  /\ reserved' = [reserved EXCEPT ![o] = "none"]
  /\ UNCHANGED <<opVars, pending, dir, cleaner, unlinking, woken>>

CleanerStep(o, from, to) ==
  /\ cleaner[o] = from
  /\ cleaner' = [cleaner EXCEPT ![o] = to]

\* IoScope::idle registers for the wakeup before it reads the count.
IdleEnable(o) ==
  /\ CleanerStep(o, "enable", "check")
  /\ woken' = [woken EXCEPT ![o] = FALSE]
  /\ UNCHANGED <<opVars, pending, stage, armed, reserved, dir, unlinking>>

\* Mutant: the removal is submitted whatever is pending.
IdleCheck_Skipped(o) ==
  /\ CleanerStep(o, "check", "remove")
  /\ UNCHANGED <<opVars, pending, stage, armed, reserved, dir, unlinking, woken>>

IdleCheck(o) ==
  /\ CleanerStep(o, "check", IF pending[o] = 0 THEN "remove" ELSE "poll")
  /\ UNCHANGED <<opVars, pending, stage, armed, reserved, dir, unlinking, woken>>

\* The enabled future is polled, and the cleaner sleeps unless it was notified.
IdleSleep(o) ==
  /\ CleanerStep(o, "poll", IF woken[o] THEN "enable" ELSE "await")
  /\ UNCHANGED <<opVars, pending, stage, armed, reserved, dir, unlinking, woken>>

IdleWake(o) ==
  /\ woken[o]
  /\ CleanerStep(o, "await", "enable")
  /\ UNCHANGED <<opVars, pending, stage, armed, reserved, dir, unlinking, woken>>

\* perform_reserved(remove_dir_all), from the reservation already held.
SubmitRemoval(o, j) ==
  /\ CleanerStep(o, "remove", "removing")
  /\ Submit(o, j, "remove")
  /\ UNCHANGED <<stage, armed, reserved, dir, unlinking, woken>>

\* Mutant: the result of the removal is not looked at.
RemovalReturns_Unchecked(j) ==
  LET o == scopeOf[j] IN
  /\ kind[j] = "remove"
  /\ awaited[j]
  /\ Advance(j, "done", "free")
  /\ awaited' = [awaited EXCEPT ![j] = FALSE]
  /\ succeeded' = [succeeded EXCEPT ![j] = FALSE]
  /\ CleanerStep(o, "removing", "none")
  /\ stage' = [stage EXCEPT ![o] = "closed"]
  /\ armed' = [armed EXCEPT ![o] = FALSE]
  /\ reserved' = [reserved EXCEPT ![o] = "none"]
  /\ UNCHANGED <<queue, permits, pending, dir, unlinking, woken>>

\* The removal's result.  In-band, only success disarms the guard; the task
\* logs a failure and lets go of the reservation either way.
RemovalReturns(j) ==
  LET o == scopeOf[j] IN
  /\ kind[j] = "remove"
  /\ awaited[j]
  /\ Advance(j, "done", "free")
  /\ awaited' = [awaited EXCEPT ![j] = FALSE]
  /\ succeeded' = [succeeded EXCEPT ![j] = FALSE]
  /\ CleanerStep(o, "removing", "none")
  /\ IF succeeded[j]
     THEN stage' = [stage EXCEPT ![o] = "closed"]
     ELSE stage' = [stage EXCEPT ![o] = IF @ = "dropped" THEN "leaked" ELSE @]
  /\ armed' = [armed EXCEPT ![o] = @ /\ ~succeeded[j]]
  /\ reserved' = [reserved EXCEPT ![o] =
                    IF succeeded[j] \/ stage[o] = "dropped" THEN "none" ELSE @]
  /\ UNCHANGED <<queue, permits, pending, dir, unlinking, woken>>

\* The in-band cleanup future is dropped: while it waits for the scope,
CancelIdle(o) ==
  /\ stage[o] = "closing"
  /\ CleanerStep(o, "await", "none")
  /\ UNCHANGED <<opVars, pending, stage, armed, reserved, dir, unlinking, woken>>

\* or while it waits for the removal.
CancelRemoval(j) ==
  LET o == scopeOf[j] IN
  /\ kind[j] = "remove"
  /\ stage[o] = "closing"
  /\ CleanerStep(o, "removing", "none")
  /\ Abandon(j)
  /\ UNCHANGED <<stage, armed, reserved, dir, unlinking>>
-----------------------------------------------------------------------------
OpStep(j) ==
  \/ Spawn(j)
  \/ \E ok \in BOOLEAN : Finish(j, ok)
  \/ DropPermit(j) \/ DropGuard(j) \/ NotifyIdle(j)
  \/ Deliver(j) \/ RemovalReturns(j)

CleanerNext(o) ==
  \/ IdleEnable(o) \/ IdleCheck(o) \/ IdleSleep(o) \/ IdleWake(o)
  \/ \E j \in Ops : SubmitRemoval(o, j)

OwnerNext(o) ==
  \/ \E j \in Ops : Prepare(o, j) \/ Use(o, j)
  \/ PrepareRefused(o)
  \/ Unlink(o) \/ CancelUnlink(o)
  \/ \E ok \in BOOLEAN : UnlinkDone(o, ok)
  \/ Cleanup(o) \/ Drop(o) \/ DropOutsideRuntime(o) \/ CancelIdle(o)

Next ==
  \/ Grant
  \/ \E j \in Ops : OpStep(j) \/ CancelOp(j) \/ CancelRemoval(j)
  \/ \E o \in Owners : OwnerNext(o) \/ CleanerNext(o)

Spec == Init /\ [][Next]_vars

(***************************************************************************)
(* The semaphore serves its queue, spawned tasks run to their end, and a   *)
(* cleanup that is ready is polled.  Operations return: the file-system    *)
(* pool is assumed not to hang.  No caller has to make or cancel a call.   *)
(***************************************************************************)
Fairness ==
  /\ WF_vars(Grant)
  /\ \A j \in Ops : WF_vars(OpStep(j))
  /\ \A o \in Owners : WF_vars(CleanerNext(o))

FairSpec == Spec /\ Fairness
-----------------------------------------------------------------------------
(***************************************************************************)
(* Properties.                                                             *)
(***************************************************************************)
\* No permit is lost or minted (operation.rs:99-104), at whatever await the
\* callers go away.
PermitsConserved ==
  permits + Cardinality({j \in Ops : phase[j] \in Permitted}) = Permits

\* Once cleanup has returned, or the deferred removal succeeded, the directory
\* is gone and no operation is left that could bring it back.
ClosedIsClean ==
  \A o \in Owners : stage[o] = "closed" =>
    ~dir[o] /\ OpsIn(o, Guarded) = {} /\ reserved[o] = "none"

\* The scratch reservation (cleanup.rs:49-62) stays charged as long as the
\* directory exists and anybody is still going to remove it (README: deferred
\* cleanup keeps its metadata reservation until its work completes).
ReservedWhilePresent ==
  \A o \in Owners :
    dir[o] /\ stage[o] # "leaked" => reserved[o] # "none"

\* A sleeping cleaner that was not woken has an operation to wait for, or a
\* wakeup on its way: idle enables its future before it reads the count
\* (operation.rs:36-42).
CleanerNotStranded ==
  \A o \in Owners : cleaner[o] = "await" /\ ~woken[o] =>
    pending[o] > 0 \/ OpsIn(o, {"waking"}) # {}

\* What is dropped gets removed: the deferred task ends, in success or with a
\* logged failure.
DroppedIsCleaned ==
  \A o \in Owners :
    stage[o] = "dropped" ~> stage[o] \in {"closed", "leaked"}

\* An operation that waits for a permit gets its turn, or its caller leaves.
QueueServed ==
  \A j \in Ops : phase[j] = "queued" ~> phase[j] # "queued"

(***************************************************************************)
(* The scope of one owner, as ScratchScope sees it.                        *)
(***************************************************************************)
ScopeOpen(o)     == stage[o] \in {"fresh", "preparing", "ready"}
Removals(o)      == {j \in OpsIn(o, Guarded) : kind[j] = "remove"}
ScopeActive(o)   == Cardinality(OpsIn(o, Guarded) \ Removals(o))
ScopeRemoving(o) == Removals(o) # {}

\* README.md:183 says "Cleanup waits for this scratch directory's operations
\* before removing it".
CleanupWaitsForAll ==
  \A j \in Ops :
    kind[j] = "remove" /\ phase[j] = "running" => unlinking[scopeOf[j]] = "none"
=============================================================================
