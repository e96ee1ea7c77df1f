# sort-governor in TLA+

Specifications, model-checking configurations and machine-checked proofs for
`sort-governor`, a process-wide external-sort governor: an actor plans sorts
under shared memory and descriptor budgets, an engine executes them by spilling
sorted runs and merging them, and the same engine keeps *replays*, append-only
row logs that are read while they are still being written.

Everything here is translated from the Rust source. Paths are relative to the
repository's root (`src/engine/...`); `PROJECT.json` maps each definition to
the lines it models.

## 1. The system

| Component | Source | State | Operations | Module |
|---|---|---|---|---|
| Governor | `service/` | bounded queue, next id, counters, activity | `submit`, `replay_writer`, `stats` and their cancellation, admission, lease drop, the end of the actor | `Governor` |
| Planner | `plan/`, `config.rs`, `snapshot.rs`, `spec.rs` | none | `plan`, `from_fd_limit`, `available_memory_bytes` | `Planner`; its answers as readings move in `PlanPressure` |
| Memory budget | `engine/budget.rs` | `used`, `peak` | `reserve`, `MemoryCharge::drop`, `limit` | `MemoryBudget`; a session's charges, and its merges', in `RunBuffer`; the contract of both is `Ledger` |
| Sort session | `engine/session.rs`, `session/buffer.rs` | buffer and its charges, frontier of runs by level, spill counter, `failed` | `push_with_size`, `spill`, `finish` | `SpillSession` (which rows are where), `RunBuffer` (what they weigh) |
| Merge and value stream | `engine/merge.rs` | sources, heap, last key; the stream's state | `cascade_and_stream`, `MergeState::open`, `next_row`, `value_stream`, `merge_group_to_file` | `MergeStream`; a group into one file in `GroupMerge`; what merges weigh in `RunBuffer`; the cascade in `SpillSession`; the unlink in `ScratchIo`; a whole sort in `SortPipeline` |
| Run files | `engine/run.rs`, `row.rs` | header and frames on disk; reader's offset and remaining count | `create`, `write_row`, `finish`, `open`, `from_position`, `next_row` | `RunFile` |
| Codec | `engine/codec.rs` | none | `encode` | `RunFile` (`Encoded`) |
| File operations | `engine/operation.rs` | permits of a semaphore, `IoScope.pending` and its `Notify` | `perform`, `perform_reserved`, `idle` | `ScratchIo`, `ScratchScope` |
| Cleanup guard | `engine/cleanup.rs` | armed directory, reservation, scope | `retain`, `arm`, `cleanup`, `Drop` | `ScratchIo` (wait and removal), `Replay` (ownership), `ScratchScope` (the contract) |
| Replay | `engine/replay/` | two atomics (`rows`, `state`) and a `Notify`; the file; who holds the `Arc<ReplayInner>`; each cursor's `(position, offset)` | `append_with_size`, `seal`, `abort`, `close`, cursor `next_committed`, `next`, `clone`, `rewind`, drops | `Replay`, `ReplayLog` |

How they interact:

- A handle sends commands through a bounded queue to one actor, which reads the
  pressure, plans, counts and answers by a oneshot with a lease. The lease counts
  as an active sort until whatever consumed it is gone.
- A lease shares one semaphore and one `MemoryBudget` with every other lease.
  A session or a replay writer consumes its lease and keeps it until its output
  is gone.
- Every file operation of a session or replay goes through `perform`, which
  reserves memory, counts in the owner's `IoScope`, queues for a permit and
  spawns the job. The job outlives a caller that is dropped.
- The cleanup guard travels with whatever owns the directory: session, then
  stream; replay writer, then `Replay` and its cursors, as a field of the
  shared `ReplayInner`. It waits for the scope to be idle and removes the
  directory by one more operation of the same kind.
- Replay cursors read concurrently with the writer. They learn of new rows, of
  the seal and of failures by two atomics and a `Notify`.

What is hard about it: futures that may be dropped at any await while the file
operation they started goes on; two wait/notify protocols; two atomics read one
after the other; state that is read before an await and used after it; removal
of a directory that others may still be writing to; a compare-and-swap loop
against a limit that moves; a failure half-way through a spill that has already
taken runs apart. `PROJECT.json` lists each of these hazards at its line with
the properties that would catch it going wrong.

What makes each part correct:

- *Governor*: every call is answered while its caller waits, ids are unique, the
  activity count is the number of external leases that exist, and a lease is
  admitted with a fan-in that is at most an even share of the descriptors (or the
  floor of 2); what was granted before is not shrunk.
- *Planner*: no reading makes it panic, the run count stays within the square of
  the fan-in unless a cap forbids it, and it answers scarcity the right way round.
- *Run files*: a reader sees exactly the rows that were written, whatever was
  left behind them by a write that failed.
- *Replay*: readers see whole rows in order, `Exhausted` only at the true end,
  no row after a failure is visible, no sleeping reader is forgotten, and the
  scratch directory outlives its readers and nothing else.
- *Operations and cleanup*: no permit is lost, the pending count is exact, a
  removal overlaps with no other permitted operation, a reservation lasts as
  long as its directory, and whatever is dropped gets removed.
- *Budget*: the ledger equals the sum of the charges and stays within the limit;
  what a session holds is what it has charged, and it returns all of it.
- *Session*: each accepted row is in exactly one place, older rows in older
  runs, and a failed session never gets as far as a stream.
- *Merge*: the stream is a prefix of the reference sort, the whole of it unless
  an error was yielded; no input of an intermediate merge is deleted before all of
  its rows are in the output.

## 2. Modules

Read a component's module first. The `MC` modules only add what TLC needs, and
definitions named `X_Something` just before `X` are mutants: plausible bugs in
the code behind `X`, each of which one property must catch.

**`ReplayLog`** states what a replay promises: a log that only grows while its
source writes, one terminal status, and checkpoints that are answered one call
at a time. **`Replay`** implements it (`ImplementsLog`, with `committed` mapped
to `rows` and `status` to `state`). Each atomic access of `publication.rs` is an
action: `LoadState` and `LoadRows` are the two loads of `snapshot`,
`NotifyWaiters` is apart from the store that it follows (`owed` remembers that
it is due, and blocks the thread that owes it). `wpc` and `cpc` stand for the
await at which a call is suspended; `GiveUp`, `CancelCall` and `CancelCleanup`
are the failures and the dropped futures at those awaits. A frame is its index
and an offset counts frames, so that `offset = position` is the agreement of a
checkpoint's two halves and not an identity of the model: they are updated apart
in `Enrol`, `Rewind` and `Recheck`. `owner` and `alive` are the holders of the
`Arc`: `Arc::get_mut` and `Arc::try_unwrap` succeed when nobody else is there.

**`ScratchIo`** has the operation (`phase`: queued, granted, running, finished,
and the two destructors that follow), the scope, and the guard's life (`stage`,
`cleaner`). Submission is one step because the code has no await between
`IoScope::start` and the queue; `DropPermit`, `DropGuard` and `NotifyIdle` are
three because they are three accesses. Where the code of an owner uses the
directory is reduced to `Prepare`, `Use` and their outcomes: a write that fails
or is cancelled fails its owner, a read may not. `Replay` abstracts all of this
to a count of `detached` operations and the guard `ScopeIdle`.

**`MemoryBudget`** has a step for the first load, for reading the limit, for the
exchange (which may fail spuriously) and for raising the peak. Its history variable
`answer` is the limit as computed since the task last saw the ledger: a grant must
fit it (`GrantIsFresh`), on a retry as much as at first.

**`Ledger`** is what the budget promises to those who charge it: reservations and
releases are atomic, each moves the ledger by what its holder is charged, and a
grant fits the limit, at some reading of it, with all that is held at that
moment. `MemoryBudget` implements it for its tasks (`ImplementsLedger`): the loop
of `reserve` is one step of the ledger, its exchange, whatever happened between
the reading of the limit and then. `RunBuffer` implements it with two holders, a
session with all of its charges and everybody else: each step of a session makes
one reservation at most or only releases.

**`SpillSession`** treats a row as its ordinal and a run as a set of rows. What
a merge does to the order of rows belongs to `MergeStream`; here it matters
which rows a run holds and in which order runs are merged. `level`, `hand` and
`older` are the loop of `spill`. A run that was taken off the frontier and lost
to an error is lost in the model too. It is run as a part of `SortPipeline`.

**`MergeStream`** has the heap, refills, dedup and errors of the lazy final
merge, and the stream's cleanup. `InMemoryStream` is the second implementation of
dedup, over the sorted buffer, which stands as the only one of the files. It is
run as a part of `SortPipeline`.

**`GroupMerge`** is `merge_group_to_file`: it drives the merge of `MergeStream`
without dedup, as both of its callers do (`session.rs:335`, `merge.rs:274`), writes
what that returns to a new file, finishes it and deletes the inputs one by one.
Any of the calls may fail or be the last. `SpillSession` takes all of this as one
step, of a carry (`MergeOlder`) or of a pass of the cascade (`MergeGroup`).

**`Planner`** is arithmetic: the saturating, clamping and rounding operations of
the code as operators, and `plan` on top of them. **`PlanPressure`** keeps one
request and lets every reading move by itself, so that its properties compare
the plans before and after a move.

**`Governor`** follows a call from its handle through the queue, the actor and the
oneshot, and the lease in the answer through its holders (`place`: actor, mail,
lease, output). The four readings of a snapshot are two steps, the pressure and
then the activity count, because leases are dropped in between. `Abandon` drops
the caller's future at any await; `Reply` to a caller who has left drops the
lease there and then.

**`RunFile`** has a writer and its readers over a file of *cells*: a header, the
length of a frame, and the cells of its payload, written one step each. A write
that fails or is cancelled leaves what it wrote. A replay cursor starts a reader
at its own position below the watermark, a merge opens a finished file.

**`SortOrder`** and **`Sorting`** say what a sort promises: rows are accepted in
a session that may fail, delivered once, yielded in order of key and then of
arrival, and the end is reported only after the last. **`SortPipeline`** composes
`SpillSession` and `MergeStream`, extending both (`pc` is the session's and `mpc` the
merge's): `finish` opens the merge on the runs that the cascade left, or streams
the buffer. `ImplementsSorting` is its refinement.

**`ScratchScope`** is the contract of a scratch directory: operations start only
while its owner is there, and a removal starts only when none is under way.
`ScratchIo` implements it once for the sort and once for the replay
(`ScopesKept`), `Replay` by its count of detached
operations (`ImplementsScope`): what `Replay` assumes of `ScopeIdle` is what the
counters and wakeups of `ScratchIo` provide.

**`RunBuffer`** weighs a session: sizes of rows, the growth of the buffer by
doubling, metadata, the charge of each, the threshold for spilling that moves
with the pressure, and the other users of the same budget. It weighs the merges
of the session too, from `MergeState::new` to the drop of its state: the two
arrays, the row and the key of each head (`heads`, with one size for both, which
are charged alike), the row that is read, the row that is given out, and the key
that dedup remembers. `goal` says whose merge it is: that of a carry, which runs
while the push that needs its spill still holds the charge of its row; of a pass
of the cascade; or the last one, which goes on as the stream. Which rows a run has,
how many runs there are and in which order rows leave the heap is left open here.
A reservation is one step, and so is what one operation reserves (its future, its
frame, and the row that it reads); `MemoryBudget` takes reservations apart.
`refused` is a history variable: something was refused that neither others nor
the pressure stood against.

Each module with state has a type invariant `TypeOK`; it documents the variables,
and the proofs build on it. These are proved in section 5 and not run. That of
`MergeStream`, `StreamTypeOK`, is documentation only: what the proofs need of the
types of a merge is part of `StreamInv` and `GroupInv`.

**`ReplayProofs`**, **`ScratchProofs`**, **`SortProofs`** (of sessions, whole sorts and
merges of a group), **`BudgetProofs`**, **`RunProofs`**, **`PlannerProofs`**,
**`GovernorProofs`** and **`RunBufferProofs`** prove the theorems of section 5.

## 3. Runs

| Run | Question | Bounds |
|---|---|---|
| `replay` | is the replay safe, does it implement the log and keep the contract of its directory | 2 cursors, 2 rows, 1 detached operation |
| `replay_live` | are readers woken and directories reclaimed | 2 cursors, 1 row |
| `scratch_io` | are permits and reservations conserved, do counters and wakeups implement the contract of a scratch directory for each owner | a sort and a replay with 2 operation slots each, 1 permit, slots of an owner symmetric |
| `scratch_io_live` | is the queue served, is what is dropped removed | 1 slot each, 1 permit |
| `scratch_io_unlink` | does cleanup wait for *all* operations | as `scratch_io`; a counterexample is expected |
| `memory_budget` | the ledger and its contract under contention and moving pressure | 3 tasks, sizes 1 and 2, limit 3, readings above and below it |
| `sort_pipeline` | carry, cascade, failure, order of runs; does a whole sort keep the contract of a sort | 8 rows, 2 keys, 3 levels, planned fan-in 1, dedup on and off, failures at every step |
| `group_merge` | may an input of an intermediate merge be deleted | 3 files, up to 5 rows, 2 keys, some of the rows in no file of the group |
| `run_file` | do readers see exactly what was written | 2 readers, 3 rows, payloads of 1 to 4 cells with both limits among them |
| `run_buffer` | do a session and its merges charge and return what they hold, is the buffer bounded, does the session stand in its own way | rows of 1, 2, 7 and 11 units, merges of up to 2 runs, a limit of 90 that moves, other users of the budget |
| `plan_pressure` | planning over all readings and their moves | limits, estimates and readings around the thresholds |
| `governor` | activity, ids, shares of descriptors, answers | a sort, 2 replays, a reader of statistics, a queue of 1, 2 ids, 6 permits |

Why the bounds are enough to be interesting:

- *Replay.* Two cursors are the first number at which one keeps the storage
  while another closes, and at which a clone differs from its origin. Two rows
  make "one more row" differ from "the last row". One detached operation is all
  that `ScopeIdle` can tell from none. The proofs lift all three bounds.
- *ScratchIo.* Two slots per owner let an abandoned operation coexist with the
  removal, or with another caller of the same replay; a single permit makes the
  two owners compete, which is what the README's one-descriptor guarantee is
  about.
- *MemoryBudget.* Three tasks: two whose exchanges collide and one that releases
  between. `Targets` and `Resident` include saturation (resident above target),
  and headroom below, at and above the static limit.
- *SortPipeline.* Three levels stand for the code's 64, with the counter equally
  wide: seven spills succeed and the eighth is refused. A row per spill is
  possible, so eight rows reach the end of the counter. Planned fan-in 1 exercises
  the clamp to 2 and a cascade in front of the final merge; two keys give ties
  within and across runs.
- *GroupMerge.* Three files are the first number at which a row may come after
  rows of two others and a deletion may stop between two. Five rows over three
  files leave room for an empty file, ties across files and rows outside the group.
- *RunFile.* A payload may fit its limit exactly or exceed it, and its two
  encodings may differ. Two readers: one behind and one at the watermark.
- *RunBuffer.* A row may fit, need a spill first, or exceed everything; the limit
  moves below what is charged already, down to nothing. Two runs are what a carry
  merges. The limit of 90 is the least that the hypothesis of `NeverRefusedAlone`
  admits for items of 11 units (8 * 11 + 2): with 89, TLC finds a push whose spill
  carries and that is refused alone, holding metadata, the pushed row, two heads and
  their keys and the row that was popped, for the frame of the merged run.
- *PlanPressure.* `Mib` is small, so that each cap of the configuration lies
  within the estimates and each threshold is met, missed by one and passed.
- *Governor.* One place in the queue makes the second caller wait; three leases
  for two ids make the ids run out; two replays share six permits, where a
  fan-in of four for each would not fit. The sort fits into memory: the external
  plan is the replays'.

Symmetry is used in runs of invariants and of step properties only, never of
liveness. In `scratch_io` the step property relates `open`, `active` and
`removing` of one owner, which a permutation of that owner's slots leaves as
they are.

Deadlock checking is off in every run: each of these components really stops
when its callers have finished or have no more calls to make. "Everyone waiting
on everyone" is what `WaitEnds`, `QueueServed`, `DroppedIsCleaned`, `CascadeEnds`
and `CallsAnswered` exclude.

## 4. Fairness

Only what the runtime does by itself is fair:

- *A thread that is running keeps running* (`NotifyWaiters`, the steps of an
  operation after its file call).
- *A task that is ready or woken is polled.* For a caller's own future this
  means that the caller polls or drops it. A caller that is handed a permit and
  then keeps its future without ever polling it would hold that permit; the
  code cannot prevent it, and `QueueServed` assumes it away through the fairness
  of `Spawn`.
- *A file operation returns* (`Finish`, `DetachedDone`, `RemovalDone`), with
  success or with an error. A hung file system hangs the cleanup.
- *The actor's task is polled* (`ActorNext`), and so are futures of callers that
  were given a place in the queue or an answer (`Send`, `Receive`). `Shutdown` is
  not fair: a runtime need not end.
- *The semaphore serves its queue* in order (`Grant`), as Tokio documents.
- *A `finish` that was called is polled to its end* (`FinishStep` of
  `SortPipeline`), with whatever outcome of the merges of its cascade; pushes and
  polls of the stream are the caller's.

No fairness is given to the calls themselves, to cancellation, or to drops:
nobody has to append, seal, finish or close.

## 5. Theorems

`ReplayProofs` proves, for any finite set of cursors and any bounds, from
`BoundsAssumption` (the bounds are natural numbers) and, for the last theorem,
`CursorsAssumption` (the cursors that are open can be counted):

| Theorem | Property |
|---|---|
| `TypeCorrect` | `Spec => []TypeOK` |
| `FinalEof` | `Spec => []ExhaustedIsFinal` |
| `ReadableRows` | `Spec => []CommittedRowReadable` |
| `Checkpoints` | `Spec => []CheckpointConsistent` |
| `RetainedOnce` | `Spec => []ArmedOnce` |
| `ExclusiveRemoval` | `Spec => []RemovalExclusive` |
| `NoLostWakeup` | `Spec => []NoReaderStranded` |
| `TerminalStates` | `Spec => EndedIsForever` |
| `Refinement` | `Spec => ImplementsLog` |
| `ScopeRefinement` | `Spec => ImplementsScope` |

None of the properties is inductive by itself. `IInv` adds, in named parts:

- `WriterInv`: a call of the writer is under way only while the publication is
  writing and the writer holds the storage, and the watermark is never ahead of
  the frames. It is why no guard inside a call has to be checked again, and why
  a retry never reaches `prepare` with an armed guard.
- `ScratchInv`: the directory exists from the first frame on, and a removal in
  flight or done excludes cursors, detached operations and every way to obtain a
  new cursor. Without the last part another cursor could appear during it.
- `CursorInv`: what a cursor loaded still holds when it acts on it. In particular
  `sawSealed` implies that the publication *is* sealed, hence that the watermark
  read afterwards is final: this is the whole argument for loading the state
  before the rows.
- `WakeInv`: a registered reader that was not notified, and will not be, has seen
  the current publication. It spans the steps between the look and the wait,
  where `NoReaderStranded` says nothing.

`InitInv` and `NextInv` then prove it
inductive, one step per action and under each one per part that the action can
disturb; the invariance theorems follow by temporal logic. `StepSimulation`
shows that each step of `Replay` is a step of `ReplayLog` or a stutter;
revalidation in `Recheck` is what makes `Item` possible only from a source that
has not failed. `ScopeRefinement` goes the same way, by `WriterScope`,
`OwnerScope` and `CursorScope`: each step starts an operation, ends one, lets go
of the storage, starts or ends a removal, or does nothing that the directory
notices. `ReadingMoves` counts the readers; `ScratchInv` excludes them when the
removal starts.

`SortProofs` proves, for a frontier of any length and any number of rows, keys
and failures, from `LevelsAssumption` (the frontier has at least one level),
`BoundsAssumption` and `GroupAssumption` (the bounds are natural numbers) and, for
the last two theorems, `KeysAssumption` (keys are natural numbers: what the code
asks of them is a total order); `GroupIsKept` is for a group of any number of files:

| Theorem | Property |
|---|---|
| `SessionTypes` | `Spec => []TypeOK` |
| `RowsKept` | `Spec => []NothingLost` |
| `LevelsOrdered` | `Spec => []HigherIsOlder` |
| `CarryFindsLevel` | `Spec => []CarryEnds` |
| `StaysFailed` | `Spec => FailedIsForever` |
| `SortIsKept` | `PipeSpec => ImplementsSorting` |
| `GroupIsKept` | `GroupSpec => []GroupKept` |

The invariant of a session is `SpillInv`, in four parts. `SessionInv` is about places:
`PlaceInv` says where rows can be in each step of a call: nothing is in hand outside
the carry, nothing is buffered during it, and every level below the one it has
reached is empty. The last is what makes storing the carried run keep the order
of `OrderInv`. `KeptInv` is the half of `NothingLost` that a failure may break.
`CountInv` reads the frontier as a binary counter: a run at level `l` weighs
`Pow2[l]`, and the weights of all levels, with what is on its way, are the spills
made so far. `Weighs` gives a function of partial sums as the witness; a step that
changes one level changes every sum above it by the same difference (`Recounted`).
A carry past the last level would then have counted `Pow2[Levels]` spills, which
the `checked_add` of `next_run` at the head of `spill` refuses (`session.rs:291`):
that is `CarryEnds`, and the `unreachable!` at the end of `spill`
(`session.rs:345`) is never reached. `LimitsInv` bounds the counters on the way, and
`CascadeInv` says that the cascade keeps its runs in order and passes on every row
(`GroupLines`).

`SortIsKept` is about whole sorts: whatever is spilled, carried, cascaded and
merged, with and without dedup and whichever calls fail, the caller gets what
`Sorting` promises. Its invariant is `PipeInv`, which is `SpillInv` (a step of the
pipeline is a step of its session or none: `SessionStep`) and three parts. `KeyInv`
gives each row accepted its key, `CallsInv` ties the stream to the session that it
came from, and `StreamInv` is the merge. The argument goes as follows.

- The session hands over every row, in runs of which the older hold the older
  rows. Sorted, these are `Queues` (`RunFiles`). While the merge opens them and
  takes rows, *there is* a sequence of what is left of each, such that the sources
  are the `Readers` of these remainders and the heap has the first of each
  (`Merging`; `RunOpened`, `HeadTaken`).
- The least entry of the heap is the foremost of all rows left (`LeastHead`). The
  heap compares keys and then the index of the source, and not ordinals; that this
  is the order of arrival rests on older runs having lower indices, thus on
  `HigherIsOlder`.
- So the rows taken are always the first ones (`Taken`). `Reference` puts a row
  where it has as many rows before it (`SortedAt`), which is a matter of
  cardinalities and not of recursion: the next row to take is at the next place
  (`YieldNext`). With dedup, the last key kept is that of the row taken last, so the
  next row is dropped exactly if an equal key came before (`DuplicateIsLater`,
  `SkipNext`).
- `BufferStream` shows the same for the buffer, by induction over its rows: the
  two implementations of dedup agree with one reference.
- `SortStep` is the simulation: an item of the stream is the next of the reference,
  the end comes only after the last, and a session that failed reaches no stream.

`GroupIsKept` is about intermediate merges, whose inputs are deleted: before the
first of them is, all rows of the group are in the new file, in order. It uses
the same `Merging`, `OpenStep` and `TakeStep`, but a group has only some of the
rows of its sort, so `Taken` and its places in the sort are of no use. `GroupInv`
has `Written` instead: each row of the group that is not left comes before each
that is, and what was written is as long as there are such rows and a beginning
of the sorted group. The next row then goes to the next place (`WrittenNext`, on
`SortedAt`), and when none is left the file is the sorted group (`WrittenAll`).
That the one step of `SpillSession` is a run of `GroupMerge` is not stated formally:
a run is there a set, which stands for the rows of `items`.

`BudgetProofs` proves, for any number of tasks and any sizes, limit and pressure
readings (natural numbers, by the three assumptions of `MemoryBudget`):

| Theorem | Property |
|---|---|
| `BudgetTypes` | `Spec => []TypeOK` |
| `LedgerIsExact` | `Spec => []LedgerExact` |
| `LimitHolds` | `Spec => []WithinLimit` |
| `PeakRecorded` | `Spec => []PeakExact` |
| `GrantsFit` | `Spec => GrantIsFresh` |
| `LedgerKept` | `Spec => ImplementsLedger` |

`BudgetInv` keeps the highest value that the ledger ever had below the limit, and
between `peak` and it the reservations that have swapped and not yet raised the
peak (`PeakInv`). That the ledger is never negative is not assumed: it follows from
`LedgerExact` (`ChargesInv`), a sum over the tasks that hold a charge. `SumsAgree`
shows that the sum does not depend on the order in which the fold takes the
tasks; `SumMove` and `SumRemove` say what a charge that is added or dropped
makes of it.

`LedgerKept` maps each task to a holder. A step of the ledger is an exchange that
succeeded or a drop of a charge; all else moves nothing (`Moves`, `NoMove`). A
reservation of nothing is such a step too, which neither `used` nor the charges
show. What needs an invariant is the limit: `CapsInv` says that what a task compares
with is something `limit` did answer, while it may answer otherwise by now, and
that it answered since the task last saw the ledger (`answer`, a history variable).
The second half is `GrantIsFresh`: the contract allows any limit, so it alone would
not tell a retry against the limit of the first attempt.

Some properties are proved and not run, since others that are both run and
proved imply what TLC could find: `EndedIsForever` (by `ImplementsLog`),
`WithinLimit` (by `ImplementsLedger`), `FailedIsForever` (by `ImplementsSorting`),
`AllCharged` (by `ImplementsLedger`) and the types. The strengthened invariants are
proved inductive instead of being run.

`RunBufferProofs` proves, for rows, frames, budgets and pressures of any size, any
number of rows and merges of any width (`SizesAssumption`, `MergeAssumption`,
`OthersAssumption`: sizes are natural numbers, a row has at least one byte in the
vector, a merge reads at least two runs if it may):

| Theorem | Property |
|---|---|
| `BufferTypes` | `Spec => []TypeOK` |
| `ChargesAreExact` | `Spec => []AllCharged` |
| `BufferIsBounded` | `Spec => []BoundedBetweenCalls` |
| `NothingRefusedAlone` | `Spec => []NeverRefusedAlone` |
| `SessionKeepsLedger` | `Spec => ImplementsLedger` |

`BufferInv` has `Ledger`, which is the types with `AllCharged`, and five parts.
`CallInv` says which charges exist at each await of a call, so that a call that is
dropped there gives back what it held and nothing else; `MergeInv` says the same
of a merge, and `SlotInv` that the heads not yet opened, and the one that is being
refilled, are empty. `SizeInv` bounds the vector: a row is charged its frame at
least, so there are no more rows than the threshold has room for, and doubling goes
at most twice as far.

`RoomInv` adds up what is held together. It assumes (`Roomy`) that the budget has
room for the arrays of a merge and `2 * FanIn + 4` times the largest row, metadata or
operation with its frame (`Unit`). `FanIn` is 2 at least, so each of those is an
eighth of the budget at most. There are two peaks:

- While rows are buffered, the metadata (an eighth), the row at hand (one), the
  rows buffered (one), the vector (two) and the vector that it is copied to (two)
  fit together. A spill holds the buffer with one row more, and an operation.
- While a merge runs, the buffer is empty. The metadata, the row of the push that
  waits for the carry (or the key that dedup remembers: a stream has no push), the
  row popped, the operation, and two units for each of at most `FanIn` heads
  (`HeadRoom`, `MergeHeld`, on `TotalBound`) fit beside the arrays. A head that is
  refilled left room for its row and its key when it was popped, which is what
  `SlotInv` is for.

So only the others or the pressure can refuse. The hypothesis is tight for two
runs (section 3); a session for which it does not hold may refuse its own carry and
be failed by it. The sum of the charges of a buffer, or of the heads of a merge,
is a recursive function over its prefixes; `TotalAppend`, `TotalTail` and
`TotalExcept` say what a row more, less or replaced makes of it.

`SessionKeepsLedger` goes through the steps of a session: each of them changes
the sum of its charges by one reservation, which fits the limit as it is read then,
or by releases (`LedgerMoves`, on `OneMoves` and, for the vector that doubles,
`Growth`). `ChargesAreExact` then says what that sum is made of, and the two
together that nothing is charged twice or returned to nobody.

`SortProofs`, `BudgetProofs` and `RunBufferProofs` need induction over data. The
library's induction theorems take an operator as a parameter; `Least` (a set of
naturals that is not empty has a least element) takes a set in its place, and
follows from the well-foundedness of `<`. `UpTo` and `Recursion` rest on it: what
holds at 0 and is passed on holds up to a bound, and a recursive function
over an interval exists. This is why the recursive definitions of those modules
are functions over intervals.

`PlannerProofs` proves, for any unit of memory, descriptor limits, estimates and
readings (`UnitsAssumption`: the unit and the width are positive;
`ReadingsAssumption`: readings are natural numbers):

| Theorem | Property |
|---|---|
| `RunCountBounded` | `Spec => []TwoPasses` |
| `AvailableMemory` | `Spec => []AvailableButFloor` |
| `ScarceDescriptors` | `Spec => DescriptorPressure` |

Here the invariant is just the types, and the work is arithmetic. `CeilCovers` and
`CeilLeast` characterise the rounded-up division: the buffer for f² runs makes at
most f² runs. `ShareMonotone` and `CeilAntitone` carry a move of the readings
through the ration of the fan-in (`ScarcerFanIn`) to the size of the buffer
(`NarrowerBuffer`), the clamps on the way being monotone.

`GovernorProofs` proves, for any number of calls, any queue, configuration and
readings, from the assumptions of `Governor` (the constructor's: the queue has a
place, the permits are counted by a `u32`, a configuration has a fan-in of at
least 2) and `UnitsAssumption`:

| Theorem | Property |
|---|---|
| `GovernorTypes` | `Spec => []TypeOK` |
| `ActivityCounted` | `Spec => []ActiveExact` |
| `DirectoriesApart` | `Spec => []IdsUnique` |
| `DescriptorsShared` | `Spec => FanInShared` |

`FanInShared` needs the others. Its own part is `SnapshotInv`: between the reading
of the activity count and the admission, leases are only dropped, so the snapshot
never shows fewer sorts than there are; with `PlanShares` the stale share is then
small enough. But the division by the number of sharers means something only if
the count is not negative, which is `ActiveExact`; that in turn needs that an
admission issues the *first* lease of its call, hence `QueueInv` and `CurrentInv`:
a command is waiting, queued or with the actor, once, whoever leaves in between.

`ScratchProofs` proves, for any owners, any finite set of operations and any
positive number of permits (the three assumptions of `ScratchIo`):

| Theorem | Property |
|---|---|
| `ScratchTypes` | `Spec => []TypeOK` |
| `PermitsStay` | `Spec => []PermitsConserved` |
| `ClosedStaysClean` | `Spec => []ClosedIsClean` |
| `ReservationLasts` | `Spec => []ReservedWhilePresent` |
| `NoCleanerStranded` | `Spec => []CleanerNotStranded` |
| `ScopesImplement` | `Spec => Scope(o)!ScopeSpec`, for every owner `o` |

Its invariant (also called `ScratchInv`, and not the part of `ReplayProofs` with
that name) starts from `PendingInv`: the counter of a scope is the number of
operations of that scope whose guard is alive. A counter and a cardinality meet in
`CountMoves`: an operation that moves from one phase to the next changes the
number of operations in each set of phases by one or not at all, which is also
all there is to the conservation of permits. On it rests `RemovalInv`: once a
cleaner has seen the counter at zero, and while it removes, no other guard of the
scope is alive, and none can come to life, because `StageInv` says that an owner
that is cleaned up submits nothing. `WakeInv` is the argument against the lost
wakeup: a cleaner that polls or sleeps without having been woken has an operation
before its decrement, or one between decrement and notification. `OpInv` relates
what an operation did to the directory to who is told so, for `ClosedIsClean`.
`ScopesImplement` is `ScopesKept` for each owner; TLC checks the conjunction of
the two owners in `MCScratchIo`.

`RunProofs` proves, for any sizes and weights, limit and number of rows
(`SizesAssumption`, `BoundsAssumption`: natural numbers):

| Theorem | Property |
|---|---|
| `RunTypes` | `Spec => []TypeOK` |
| `RowsAreExact` | `Spec => []RowsExact` |
| `FramesAreWhole` | `Spec => []NoShortRead` |
| `RunsEndAtTheirEnd` | `Spec => []RunComplete` |

Where a row starts is the sum of the frames before it, which would have to be
defined by recursion, and its lemmas proved by induction. `FileInv` says instead
that *there is* a function of starting offsets, one for each accepted row and one
for the end, such that each row's frame lies between its offset and the next
(`Layout`), and every reader stands at the offset of the row after those it has
(`Places`). A write extends the function by one value; a read moves a reader from
one value to the next. `ReaderInv` adds what a reader may still take: all the
rest of a finished run, and of a growing file no more than what was accepted. Neither
speaks of what lies behind the last offset, so a frame that was abandoned there
is nothing to them.

## 6. Only model-checked

- Liveness under fairness, which is out of reach of the prover: the properties of
  `replay_live` and `scratch_io_live`, `CascadeEnds` and `CallsAnswered`.
- `ScopesKept` is the conjunction, over the two owners of `MCScratchIo`, of what
  `ScopesImplement` proves for every owner.

## 7. Where code and documentation disagree

`merge_group_to_file` deletes its inputs by `async_fs_io::remove_if_exists`
directly (`engine/merge.rs:234-236`): no permit, no `IoScope`. README line 183
says "Cleanup waits for this scratch directory's operations before removing it",
and line 172 that every actual file operation acquires a permit. Run
`scratch_io_unlink` finds the trace: a push is dropped while its spill unlinks
merged runs, the unlink goes on in the file-system pool, the deferred cleanup
finds the scope idle and removes the directory concurrently. The effect is mild,
since both delete; the removal may fail on an entry that vanishes under it, and
is then only logged.

Two smaller ones have no run of their own:

- `size_run_buffer` floors the cap that memory sets by the smallest run buffer
  (`plan/planner.rs:67-69`), while its comment says "without requesting more
  memory than is available" (`planner.rs:52-54`). `AvailableButFloor` states
  exactly this exception.
- `stats` loads `used` and then `peak` (`service/actor.rs:144-145`), and `reserve`
  raises `peak` after the exchange that raised `used` (`engine/budget.rs:83-89`). A
  report taken in between shows more in use than the "Highest simultaneously
  reserved byte count since governor creation" (`service/stats.rs:18`). `PeakExact`
  says when the recorded peak lags.

## 8. Abstractions

- Row sizes are not modelled in `SpillSession`: whether a push spills depends on
  sizes and on a limit that moves with memory pressure, so either may happen at
  every push, and every reservation may fail. The sizes are `RunBuffer`'s, which
  in turn leaves out the rows' places: its merges have any number of runs that a
  merge may have, with any rows, and so more of both than a session has spilled.
- A call of `Governor` is made once. A sender that holds a place when the receiver
  goes is told so like one that waits. The channel and the oneshots are Tokio's.
- `Governor` plans in units rather than bytes, as `Planner` does (`Mib`).
  Its activity count is a natural number, the 32 bits of the code's are not modelled.
- CBOR is not modelled: what a payload holds is its number of cells, and whether
  the second serialization agrees with the first.
- `remove_dir_all` succeeds or fails without effect; a partial removal is not
  distinguished. Removing a directory that was never created may go either way.
- A guard dropped outside a Tokio runtime, which only logs, is modelled in
  `ScratchIo` (`DropOutsideRuntime`, stage `leaked`) and assumed away in `Replay`.
- Panics (poisoned mutex, `expect`, `unreachable!`) are not steps. Those that a caller's sequence
  of operations could reach are properties: `ArmedOnce`, `CarryEnds`.
- Atomics are sequentially consistent. The code's acquire/release pairs suffice
  for the orders that the properties use: the state is loaded with acquire before
  the rows, and rows are stored with release before the state is sealed.
- `checked_add` on 64-bit row counters is not modelled, the spill counter is.

## 9. Plan

Done: every component of section 1, in the order `ReplayLog`, `Replay`,
`ScratchIo`, `MemoryBudget`, `SpillSession`, `MergeStream`, `Planner`,
`PlanPressure`, `Governor`, `RunFile`, `SortPipeline`, `ScratchScope`, `RunBuffer`,
`GroupMerge`, `Ledger`, with the proofs of section 5.

Every invariant and every step property that a run checks is also proved, and so
are the refinements: of `ReplayLog` and `Sorting`, and of `ScratchScope` and `Ledger`
by two modules each. What `SortPipeline` takes for granted of intermediate merges is
what `GroupIsKept` proves of `GroupMerge`; that the one step of `SpillSession` is
composed of the steps of `GroupMerge` stays an argument in words.

Not modelled, and not planned: tests, benches and scripts; error messages; the
contents of rows beyond their key.
