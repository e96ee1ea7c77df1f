------------------------------- MODULE Replay -------------------------------
(***************************************************************************)
(* A replay (engine/replay): one sequential writer appends complete frames *)
(* to a scratch file and publishes how many of them readers may consume;   *)
(* any number of cursors read the committed prefix concurrently.           *)
(*                                                                         *)
(* Publication is two atomics (rows, state) and a Notify.  Every atomic    *)
(* access is a step of its own, so that readers interleave with the store  *)
(* of the rows, the compare-and-swap of the state and the wakeup that      *)
(* follows, and read the two atomics at different times.                   *)
(*                                                                         *)
(* A frame stands for itself by its index: the frame at offset n is the    *)
(* (n+1)th row appended, so a byte offset is modelled by the number of     *)
(* frames before it.  Ownership of the scratch directory is modelled by    *)
(* who still holds the Arc<ReplayInner>: writer, Replay or cursors.        *)
(***************************************************************************)
EXTENDS Naturals, FiniteSets

CONSTANTS
  Cursors,     \* the cursors and checkpoint clones that readers may hold
  MaxRows,     \* bound: rows that the writer appends
  MaxDetached  \* bound: file operations in flight whose caller was cancelled

ASSUME CursorsAssumption == IsFiniteSet(Cursors)
ASSUME BoundsAssumption == MaxRows \in Nat /\ MaxDetached \in Nat

VARIABLES
  rows,       \* Publication.rows, the watermark
  state,      \* Publication.state
  owed,       \* a change was stored and its notify_waiters is still to come
  frames,     \* complete frames in the file
  wpc,        \* where the writer's call stands
  task,       \* the call that the writer is in: append or seal
  writerRows, \* ReplayWriter.rows
  hasFile,    \* ReplayWriter.writer.is_some()
  owner,      \* who holds the Arc<ReplayInner> besides the cursors
  armed,      \* the cleanup guard has a directory to remove
  scratch,    \* the scratch directory itself
  removal,    \* the remove_dir_all in flight, and who awaits it
  detached,   \* other operations in flight that nobody awaits
  alive,      \* the cursors that exist
  position,   \* ReplayCursor.position
  offset,     \* ReplayCursor.offset, in frames
  cpc,        \* where the cursor's call stands
  blocking,   \* the call is next, which waits, and not next_committed
  sawSealed,  \* the state that the cursor's snapshot loaded was SEALED
  woken,      \* the Notified future enabled by next was notified since
  answer      \* what the cursor's last call returned

pubVars     == <<rows, state, owed>>
writerVars  == <<wpc, task, writerRows, hasFile>>
scratchVars == <<owner, armed, scratch, removal, detached>>
cursorVars  == <<alive, position, offset, cpc, blocking, sawSealed, woken,
                 answer>>
vars == <<pubVars, frames, writerVars, scratchVars, cursorVars>>

Log == INSTANCE ReplayLog WITH committed <- rows, status <- state

WriterPcs == {"idle", "prepare", "mkdir", "create", "ready", "publish",
              "sealing", "abort", "removing"}
CursorPcs == {"idle", "enable", "state", "rows", "reading", "recheck", "wait"}
Owners    == {"writer", "replay", "closing", "none"}

TypeOK ==
  /\ rows \in Nat
  /\ state \in Log!Statuses
  /\ owed \in BOOLEAN
  /\ frames \in Nat
  /\ wpc \in WriterPcs
  /\ task \in {"append", "seal"}
  /\ writerRows \in Nat
  /\ hasFile \in BOOLEAN
  /\ owner \in Owners
  /\ armed \in BOOLEAN
  /\ scratch \in {"none", "present", "removed"}
  /\ removal \in {"none", "inband", "orphan", "deferred"}
  /\ detached \in Nat
  /\ alive \subseteq Cursors
  /\ position \in [Cursors -> Nat]
  /\ offset \in [Cursors -> Nat]
  /\ cpc \in [Cursors -> CursorPcs]
  /\ blocking \in [Cursors -> BOOLEAN]
  /\ sawSealed \in [Cursors -> BOOLEAN]
  /\ woken \in [Cursors -> BOOLEAN]
  /\ answer \in [Cursors -> Log!Answers]

Init ==
  /\ rows = 0
  /\ state = "writing"
  /\ owed = FALSE
  /\ frames = 0
  /\ wpc = "idle"
  /\ task = "append"
  /\ writerRows = 0
  /\ hasFile = FALSE
  /\ owner = "writer"
  /\ armed = FALSE
  /\ scratch = "none"
  /\ removal = "none"
  /\ detached = 0
  /\ alive = {}
  /\ position = [c \in Cursors |-> 0]
  /\ offset = [c \in Cursors |-> 0]
  /\ cpc = [c \in Cursors |-> "idle"]
  /\ blocking = [c \in Cursors |-> FALSE]
  /\ sawSealed = [c \in Cursors |-> FALSE]
  /\ woken = [c \in Cursors |-> FALSE]
  /\ answer = [c \in Cursors |-> "none"]
-----------------------------------------------------------------------------
(***************************************************************************)
(* Publication.  Only the writer's thread changes it, and the notification *)
(* is the next thing that thread does: while it is owed, no other step of  *)
(* the writer (or of the Replay that seal returns) is enabled.             *)
(***************************************************************************)
WriterAt(pc) == owner = "writer" /\ wpc = pc /\ ~owed

\* Mutant: only readers already asleep are woken, as if next did not enable its
\* Notified future before it looks.
NotifyWaiters_SleepersOnly ==
  /\ owed
  /\ owed' = FALSE
  /\ woken' = [c \in Cursors |-> woken[c] \/ cpc[c] = "wait"]
  /\ UNCHANGED <<rows, state, frames, writerVars, scratchVars, alive,
                 position, offset, cpc, blocking, sawSealed, answer>>

NotifyWaiters ==
  /\ owed
  /\ owed' = FALSE
  /\ woken' = [c \in Cursors |-> TRUE]
  /\ UNCHANGED <<rows, state, frames, writerVars, scratchVars, alive,
                 position, offset, cpc, blocking, sawSealed, answer>>

\* Publication::fail: a compare-and-swap that only WRITING loses to.
Fail ==
  /\ state' = IF state = "writing" THEN "failed" ELSE state
  /\ owed' = (state = "writing")
  /\ UNCHANGED rows

\* An operation whose caller goes away finishes on its own, if it had started.
MayDetach == detached' \in {detached, detached + 1} \cap 0 .. MaxDetached
-----------------------------------------------------------------------------
(***************************************************************************)
(* The writer: append_with_size and seal.                                  *)
(***************************************************************************)
\* Publication::begin; a publication that is not writing refuses the call.
Begin(t) ==
  /\ WriterAt("idle")
  /\ state = "writing"
  /\ t = "append" => writerRows < MaxRows
  /\ wpc' = "prepare"
  /\ task' = t
  /\ UNCHANGED <<pubVars, frames, writerRows, hasFile, scratchVars, cursorVars>>

\* prepare, when an earlier append has created the file.
Prepared ==
  /\ WriterAt("prepare")
  /\ hasFile
  /\ wpc' = "ready"
  /\ UNCHANGED <<pubVars, frames, task, writerRows, hasFile, scratchVars,
                 cursorVars>>

\* ReplayInner::arm, once its metadata is reserved.
Arm ==
  /\ WriterAt("prepare")
  /\ ~hasFile
  /\ armed' = TRUE
  /\ wpc' = "mkdir"
  /\ UNCHANGED <<pubVars, frames, task, writerRows, hasFile, owner, scratch,
                 removal, detached, cursorVars>>

MakeDir ==
  /\ WriterAt("mkdir")
  /\ scratch' = "present"
  /\ wpc' = "create"
  /\ UNCHANGED <<pubVars, frames, task, writerRows, hasFile, owner, armed,
                 removal, detached, cursorVars>>

CreateFile ==
  /\ WriterAt("create")
  /\ hasFile' = TRUE
  /\ wpc' = "ready"
  /\ UNCHANGED <<pubVars, frames, task, writerRows, scratchVars, cursorVars>>

\* Mutant: the watermark may advance before the frame is complete.
WriteFrame_Unflushed ==
  /\ WriterAt("ready")
  /\ task = "append"
  /\ wpc' = "publish"
  /\ UNCHANGED <<pubVars, frames, task, writerRows, hasFile, scratchVars,
                 cursorVars>>

\* RunWriter::write_row returns: the frame is written and flushed.
WriteFrame ==
  /\ WriterAt("ready")
  /\ task = "append"
  /\ frames' = frames + 1
  /\ wpc' = "publish"
  /\ UNCHANGED <<pubVars, task, writerRows, hasFile, scratchVars, cursorVars>>

\* self.rows = next and Publication::publish, which checks the state again.
Publish ==
  /\ WriterAt("publish")
  /\ state = "writing"
  /\ writerRows' = writerRows + 1
  /\ rows' = writerRows + 1
  /\ owed' = TRUE
  /\ wpc' = "idle"
  /\ UNCHANGED <<state, frames, task, hasFile, scratchVars, cursorVars>>

\* RunWriter::finish rewrites the header of the file it consumes.
FinishFile ==
  /\ WriterAt("ready")
  /\ task = "seal"
  /\ hasFile' = FALSE
  /\ wpc' = "sealing"
  /\ UNCHANGED <<pubVars, frames, task, writerRows, scratchVars, cursorVars>>

\* Mutant: seal does not notify.
Seal_Silent ==
  /\ WriterAt("sealing")
  /\ state = "writing"
  /\ state' = "sealed"
  /\ owner' = "replay"
  /\ wpc' = "idle"
  /\ UNCHANGED <<rows, owed, frames, task, writerRows, hasFile, armed, scratch,
                 removal, detached, cursorVars>>

\* Publication::seal; the Arc moves into the Replay that seal returns.
Seal ==
  /\ WriterAt("sealing")
  /\ state = "writing"
  /\ state' = "sealed"
  /\ owed' = TRUE
  /\ owner' = "replay"
  /\ wpc' = "idle"
  /\ UNCHANGED <<rows, frames, task, writerRows, hasFile, armed, scratch,
                 removal, detached, cursorVars>>

\* Mutant: a failed or cancelled call leaves the publication writing.
GiveUp_Retryable ==
  /\ \E pc \in {"prepare", "mkdir", "create", "ready"} : WriterAt(pc)
  /\ wpc' = "idle"
  /\ UNCHANGED <<pubVars, frames, task, writerRows, hasFile, scratchVars,
                 cursorVars>>

(***************************************************************************)
(* A reservation or an operation fails, or the caller drops the future at  *)
(* one of its awaits: the PublicationGuard fails the publication.  The     *)
(* operation that was awaited may take effect all the same.                *)
(***************************************************************************)
GiveUp ==
  /\ \E pc \in {"prepare", "mkdir", "create", "ready"} : WriterAt(pc)
  /\ Fail
  /\ wpc' = "idle"
  /\ IF wpc = "prepare" THEN detached' = detached ELSE MayDetach
  /\ scratch' \in IF wpc = "mkdir" THEN {scratch, "present"} ELSE {scratch}
  /\ frames' \in IF wpc = "ready" /\ task = "append"
                 THEN {frames, frames + 1} ELSE {frames}
  /\ hasFile' = (hasFile /\ ~(wpc = "ready" /\ task = "seal"))
  /\ UNCHANGED <<task, writerRows, owner, armed, removal, cursorVars>>

\* Drop for ReplayWriter: fail, then give up the Arc.
DropWriter ==
  /\ WriterAt("idle")
  /\ Fail
  /\ owner' = "none"
  /\ hasFile' = FALSE
  /\ UNCHANGED <<frames, wpc, task, writerRows, armed, scratch, removal,
                 detached, cursorVars>>
-----------------------------------------------------------------------------
\* Mutant: cleanup does not wait for abandoned operations.
ScopeIdle_IgnoresDetached == removal = "none"

(***************************************************************************)
(* Ownership of the scratch directory.  IoScope::idle, awaited before any  *)
(* removal, is ScopeIdle; module ScratchIo models its wait in full.        *)
(***************************************************************************)
ScopeIdle == detached = 0 /\ removal = "none"

Abort ==
  /\ WriterAt("idle")
  /\ Fail
  /\ hasFile' = FALSE
  /\ wpc' = "abort"
  /\ UNCHANGED <<frames, task, writerRows, scratchVars, cursorVars>>

\* Arc::get_mut fails (ReplayInUse), or there is nothing to remove.
AbortReturns ==
  /\ WriterAt("abort")
  /\ alive # {} \/ ~armed
  /\ wpc' = "idle"
  /\ UNCHANGED <<pubVars, frames, task, writerRows, hasFile, scratchVars,
                 cursorVars>>

AbortRemoves ==
  /\ WriterAt("abort")
  /\ alive = {}
  /\ armed
  /\ ScopeIdle
  /\ removal' = "inband"
  /\ wpc' = "removing"
  /\ UNCHANGED <<pubVars, frames, task, writerRows, hasFile, owner, armed,
                 scratch, detached, cursorVars>>

\* Replay::close, when another owner keeps the storage: only its Arc goes.
CloseInUse ==
  /\ owner = "replay"
  /\ ~owed
  /\ alive # {}
  /\ owner' = "none"
  /\ UNCHANGED <<pubVars, frames, writerVars, armed, scratch, removal,
                 detached, cursorVars>>

\* Replay::close as the last owner: the guard is cleaned up in-band.
Close ==
  /\ owner = "replay"
  /\ ~owed
  /\ alive = {}
  /\ owner' = "closing"
  /\ UNCHANGED <<pubVars, frames, writerVars, armed, scratch, removal,
                 detached, cursorVars>>

CloseRemoves ==
  /\ owner = "closing"
  /\ ScopeIdle
  /\ removal' = "inband"
  /\ UNCHANGED <<pubVars, frames, writerVars, owner, armed, scratch,
                 detached, cursorVars>>

DropReplay ==
  /\ owner = "replay"
  /\ ~owed
  /\ owner' = "none"
  /\ UNCHANGED <<pubVars, frames, writerVars, armed, scratch, removal,
                 detached, cursorVars>>

\* The abort or close future is dropped at an await.
CancelCleanup ==
  /\ wpc \in {"abort", "removing"} \/ owner = "closing"
  /\ ~owed
  /\ alive = {} /\ armed
  /\ wpc' = "idle"
  /\ owner' = IF owner = "closing" THEN "none" ELSE owner
  /\ removal' \in IF removal = "inband" THEN {"orphan"} ELSE {removal}
  /\ UNCHANGED <<pubVars, frames, task, writerRows, hasFile, armed, scratch,
                 detached, cursorVars>>

\* The last Arc<ReplayInner> is gone: its guard's Drop spawned the removal.
DeferredRemoves ==
  /\ owner = "none"
  /\ ~owed
  /\ alive = {}
  /\ armed
  /\ ScopeIdle
  /\ removal' = "deferred"
  /\ UNCHANGED <<pubVars, frames, writerVars, owner, armed, scratch,
                 detached, cursorVars>>

\* remove_dir_all returns.  Only success, or the deferred task, disarms.
RemovalDone(ok) ==
  /\ removal # "none"
  /\ removal' = "none"
  /\ scratch' = IF ok THEN "removed" ELSE scratch
  /\ armed' = CASE removal = "inband"   -> ~ok
                [] removal = "deferred" -> FALSE
                [] OTHER                -> armed
  /\ wpc' = IF wpc = "removing" THEN "idle" ELSE wpc
  /\ owner' = IF removal = "inband" /\ owner = "closing" THEN "none" ELSE owner
  /\ UNCHANGED <<pubVars, frames, task, writerRows, hasFile, detached,
                 cursorVars>>

\* Mutant: the guard of a detached operation is never dropped.
DetachedDone_Never ==
  /\ detached > 1
  /\ detached' = detached - 1
  /\ UNCHANGED <<pubVars, frames, writerVars, owner, armed, scratch, removal,
                 cursorVars>>

DetachedDone ==
  /\ detached > 0
  /\ detached' = detached - 1
  /\ UNCHANGED <<pubVars, frames, writerVars, owner, armed, scratch, removal,
                 cursorVars>>
-----------------------------------------------------------------------------
(***************************************************************************)
(* Cursors.                                                                *)
(***************************************************************************)
\* A new checkpoint with position p and offset o.
Enrol(c, p, o) ==
  /\ c \notin alive
  /\ alive' = alive \cup {c}
  /\ position' = [position EXCEPT ![c] = p]
  /\ offset' = [offset EXCEPT ![c] = o]
  /\ answer' = [answer EXCEPT ![c] = "none"]
  /\ UNCHANGED <<cpc, blocking, sawSealed, woken>>
  /\ UNCHANGED <<pubVars, frames, writerVars, scratchVars>>

\* ReplayWriter::prefix_cursor: a snapshot error refuses it.
PrefixCursor(c) ==
  /\ WriterAt("idle")
  /\ state # "failed"
  /\ Enrol(c, 0, 0)

\* Replay::cursor
SealedCursor(c) ==
  /\ owner = "replay" /\ ~owed
  /\ Enrol(c, 0, 0)

CloneCursor(c, d) ==
  /\ d \in alive
  /\ cpc[d] = "idle"
  /\ Enrol(c, position[d], offset[d])

\* Mutant: rewind forgets the offset.
Rewind_PositionOnly(c) ==
  /\ c \in alive
  /\ cpc[c] = "idle"
  /\ position' = [position EXCEPT ![c] = 0]
  /\ answer' = [answer EXCEPT ![c] = "none"]
  /\ UNCHANGED <<alive, offset, cpc, blocking, sawSealed, woken>>
  /\ UNCHANGED <<pubVars, frames, writerVars, scratchVars>>

Rewind(c) ==
  /\ c \in alive
  /\ cpc[c] = "idle"
  /\ position' = [position EXCEPT ![c] = 0]
  /\ offset' = [offset EXCEPT ![c] = 0]
  /\ answer' = [answer EXCEPT ![c] = "none"]
  /\ UNCHANGED <<alive, cpc, blocking, sawSealed, woken>>
  /\ UNCHANGED <<pubVars, frames, writerVars, scratchVars>>

DropCursor(c) ==
  /\ c \in alive
  /\ cpc[c] = "idle"
  /\ alive' = alive \ {c}
  /\ UNCHANGED <<position, offset, cpc, blocking, sawSealed, woken, answer>>
  /\ UNCHANGED <<pubVars, frames, writerVars, scratchVars>>

\* A call moves from one of its steps to the next.
Step(c, from, to) ==
  /\ cpc[c] = from
  /\ cpc' = [cpc EXCEPT ![c] = to]
  /\ UNCHANGED <<pubVars, frames, writerVars, alive, blocking>>

Return(c, result) == answer' = [answer EXCEPT ![c] = result]

\* next_committed (b false) or next (b true) is called.
CallNext(c, b) ==
  /\ c \in alive
  /\ cpc[c] = "idle"
  /\ cpc' = [cpc EXCEPT ![c] = IF b THEN "enable" ELSE "state"]
  /\ blocking' = [blocking EXCEPT ![c] = b]
  /\ Return(c, "none")
  /\ UNCHANGED <<pubVars, frames, writerVars, scratchVars, alive, position,
                 offset, sawSealed, woken>>

\* next registers for the notification before it looks at the publication.
Enable(c) ==
  /\ Step(c, "enable", "state")
  /\ woken' = [woken EXCEPT ![c] = FALSE]
  /\ UNCHANGED <<scratchVars, position, offset, sawSealed, answer>>

\* Publication::snapshot loads the state first.
LoadState(c) ==
  /\ state # "failed"
  /\ Step(c, "state", "rows")
  /\ sawSealed' = [sawSealed EXCEPT ![c] = (state = "sealed")]
  /\ UNCHANGED <<scratchVars, position, offset, woken, answer>>

SourceFailed(c) ==
  /\ state = "failed"
  /\ Step(c, "state", "idle")
  /\ Return(c, "error")
  /\ UNCHANGED <<scratchVars, position, offset, sawSealed, woken>>

\* Mutant: snapshot loads the rows first and the state last, so that the rows
\* may be from before a seal that the state already shows.
LoadRows_RowsFirst(c) ==
  \E published \in position[c] .. rows :
    /\ position[c] >= published
    /\ state = "sealed"
    /\ Step(c, "rows", "idle")
    /\ Return(c, "exhausted")
    /\ UNCHANGED <<scratchVars, position, offset, sawSealed, woken>>

\* Publication::snapshot then loads the rows; next_committed looks at both.
LoadRows(c) ==
  /\ \/ /\ position[c] < rows
        /\ Step(c, "rows", "reading")
        /\ UNCHANGED answer
     \/ /\ position[c] >= rows
        /\ sawSealed[c]
        /\ Step(c, "rows", "idle")
        /\ Return(c, "exhausted")
     \/ /\ position[c] >= rows
        /\ ~sawSealed[c]
        /\ ~blocking[c]
        /\ Step(c, "rows", "idle")
        /\ Return(c, "await")
     \/ /\ position[c] >= rows
        /\ ~sawSealed[c]
        /\ blocking[c]
        /\ Step(c, "rows", "wait")
        /\ UNCHANGED answer
  /\ UNCHANGED <<scratchVars, position, offset, sawSealed, woken>>

\* The one-row read at the checkpoint's offset returns.
ReadRow(c) ==
  /\ Step(c, "reading", "recheck")
  /\ UNCHANGED <<scratchVars, position, offset, sawSealed, woken, answer>>

\* A reservation, the read or the decoding fails.
ReadFails(c) ==
  /\ Step(c, "reading", "idle")
  /\ Return(c, "error")
  /\ UNCHANGED <<scratchVars, position, offset, sawSealed, woken>>

\* Mutant: the source is not revalidated after the read.
Recheck_Trusting(c) ==
  /\ Step(c, "recheck", "idle")
  /\ Return(c, "item")
  /\ position' = [position EXCEPT ![c] = @ + 1]
  /\ offset' = [offset EXCEPT ![c] = @ + 1]
  /\ UNCHANGED <<scratchVars, sawSealed, woken>>

\* The source is revalidated after the await; only then does the cursor move.
Recheck(c) ==
  /\ Step(c, "recheck", "idle")
  /\ IF state = "failed"
     THEN /\ Return(c, "error")
          /\ UNCHANGED <<position, offset>>
     ELSE /\ Return(c, "item")
          /\ position' = [position EXCEPT ![c] = @ + 1]
          /\ offset' = [offset EXCEPT ![c] = @ + 1]
  /\ UNCHANGED <<scratchVars, sawSealed, woken>>

Wake(c) ==
  /\ woken[c]
  /\ Step(c, "wait", "enable")
  /\ UNCHANGED <<scratchVars, position, offset, sawSealed, woken, answer>>

\* The reader drops its future while the call waits or reads.
CancelCall(c) ==
  /\ \/ /\ Step(c, "wait", "idle")
        /\ UNCHANGED detached
     \/ /\ Step(c, "reading", "idle")
        /\ MayDetach
  /\ UNCHANGED <<owner, armed, scratch, removal>>
  /\ UNCHANGED <<position, offset, sawSealed, woken, answer>>
-----------------------------------------------------------------------------
WriterNext ==
  \/ \E t \in {"append", "seal"} : Begin(t)
  \/ Prepared \/ Arm \/ MakeDir \/ CreateFile \/ WriteFrame \/ Publish
  \/ FinishFile \/ Seal \/ GiveUp \/ DropWriter

OwnerNext ==
  \/ Abort \/ AbortReturns \/ AbortRemoves
  \/ CloseInUse \/ Close \/ CloseRemoves \/ DropReplay
  \/ CancelCleanup \/ DeferredRemoves
  \/ \E ok \in BOOLEAN : RemovalDone(ok)
  \/ DetachedDone

\* The steps of a call that the runtime takes once the reader polls it.
CallStep(c) ==
  \/ Enable(c) \/ LoadState(c) \/ SourceFailed(c) \/ LoadRows(c)
  \/ ReadRow(c) \/ ReadFails(c) \/ Recheck(c) \/ Wake(c)

CursorNext(c) ==
  \/ PrefixCursor(c) \/ SealedCursor(c)
  \/ \E d \in Cursors : CloneCursor(c, d)
  \/ Rewind(c) \/ DropCursor(c)
  \/ \E b \in BOOLEAN : CallNext(c, b)
  \/ CallStep(c)
  \/ CancelCall(c)

Next ==
  \/ NotifyWaiters
  \/ WriterNext
  \/ OwnerNext
  \/ \E c \in Cursors : CursorNext(c)

Spec == Init /\ [][Next]_vars

(***************************************************************************)
(* A thread that is running keeps running, a woken or ready task is polled *)
(* again, and an operation handed to the file-system pool returns.         *)
(* Nothing forces a caller to make, or to cancel, a call.                  *)
(***************************************************************************)
Fairness ==
  /\ WF_vars(NotifyWaiters)
  /\ WF_vars(DetachedDone)
  /\ WF_vars(DeferredRemoves)
  /\ WF_vars(CloseRemoves)
  /\ WF_vars(\E ok \in BOOLEAN : RemovalDone(ok))
  /\ \A c \in Cursors : WF_vars(CallStep(c))

FairSpec == Spec /\ Fairness
-----------------------------------------------------------------------------
(***************************************************************************)
(* Properties.                                                             *)
(***************************************************************************)
\* Final EOF is final: a cursor told Exhausted (cursor.rs:67-70) stands at the
\* last row that the source ever committed, and the source sealed.  It rests
\* on snapshot loading the state before the rows (publication.rs:71-75).
ExhaustedIsFinal ==
  \A c \in alive : answer[c] = "exhausted" =>
    /\ state = "sealed"
    /\ position[c] = rows

\* A row that readers are let at (publication.rs:47) is a complete frame, in
\* the file of a directory that still exists, for as long as it is being read
\* (cursor.rs:77-89): "committed replay row is missing" cannot be reached.
CommittedRowReadable ==
  \A c \in Cursors : cpc[c] \in {"reading", "recheck"} =>
    /\ position[c] < rows
    /\ rows <= frames
    /\ scratch = "present"

\* A checkpoint's two halves agree (cursor.rs:92-93): the frame it reads next
\* is the row that it says comes next, whatever was cloned, rewound, failed or
\* cancelled before.
CheckpointConsistent ==
  \A c \in alive : offset[c] = position[c] /\ position[c] <= rows

\* The scratch reservation is assigned once (cleanup.rs:50-53 asserts it): no
\* retry after a failed or cancelled append can arm the guard again.
ArmedOnce == wpc = "prepare" /\ ~hasFile => ~armed

\* Directory removal is exclusive (storage.rs:85-94, writer.rs:178-191): while
\* it runs, and after it has succeeded, no cursor exists and no other
\* operation of the directory is in flight.
RemovalExclusive ==
  removal # "none" \/ scratch = "removed" => alive = {} /\ detached = 0

\* A reader asleep in next (cursor.rs:104-112) that nobody has woken, and that
\* no pending notification will wake, has nothing to wake up for.
NoReaderStranded ==
  \A c \in Cursors : cpc[c] = "wait" /\ ~woken[c] /\ ~owed =>
    /\ state = "writing"
    /\ position[c] = rows

\* An ended publication never changes again (publication.rs:43-68): neither
\* its state nor its watermark.
EndedIsForever == [][state # "writing" => UNCHANGED <<state, rows>>]_vars

\* A reader waiting in next is answered or woken once there is something to
\* see: a row past its position, the seal, or the failure of the source.
WaitEnds ==
  \A c \in Cursors :
    cpc[c] = "wait" /\ (state # "writing" \/ position[c] < rows)
      ~> cpc[c] # "wait"

\* Once the last owner is gone the scratch directory's removal is attempted,
\* whatever operations of cancelled callers were still in flight.
ScratchReclaimed == owner = "none" /\ alive = {} /\ armed ~> ~armed

\* The replay implements the log: every reader sees rows in order, one by one,
\* and only the final end as Exhausted.
ImplementsLog == Log!LogSpec

\* The scratch directory of the replay, as ScratchScope sees it: who may start
\* an operation, and whose operations are in flight.
WriterOps == IF owner = "writer" /\ wpc \in {"mkdir", "create", "ready"}
             THEN 1 ELSE 0

Reading == {c \in Cursors : cpc[c] = "reading"}

ScopeOpen     == \/ alive # {}
                 \/ owner = "replay"
                 \/ owner = "writer" /\ state = "writing"
ScopeActive   == detached + WriterOps + Cardinality(Reading)
ScopeRemoving == removal # "none"

Scope == INSTANCE ScratchScope WITH
  open <- ScopeOpen, active <- ScopeActive, removing <- ScopeRemoving

\* Writer, Replay, cursors and deferred cleanup together keep the contract of
\* the directory that they share (storage.rs:56-94, writer.rs:178-191).
ImplementsScope == Scope!ScopeSpec
-----------------------------------------------------------------------------
(***************************************************************************)
(* The inductive invariant: what every step relies on for the properties   *)
(* above to survive the next one.                                          *)
(***************************************************************************)
Working == {"prepare", "mkdir", "create", "ready", "publish", "sealing"}

\* The writer works only on a publication that is still writing, and holds the
\* storage for as long as it does; the storage passes on only once it ended.
WriterInv ==
  /\ rows = writerRows /\ rows <= frames
  /\ wpc = "publish" => rows < frames
  /\ wpc \in Working => state = "writing" /\ owner = "writer" /\ ~owed
  /\ wpc \in {"abort", "removing"} => state = "failed" /\ owner = "writer"
  /\ wpc \in {"ready", "publish"} => hasFile
  /\ owner = "writer" => state # "sealed"
  /\ owner \in {"replay", "closing"} => state = "sealed"
  /\ owner = "none" => state # "writing"

\* The directory exists from the first frame on, and is removed only when
\* nobody can obtain a cursor any more.
ScratchInv ==
  /\ hasFile => owner = "writer" /\ scratch = "present" /\ removal = "none"
  /\ frames > 0 => scratch # "none"
  /\ wpc \in {"create", "sealing"} => scratch = "present"
  /\ wpc \in {"abort", "removing", "sealing"} => ~hasFile
  /\ armed /\ state = "writing" =>
       hasFile \/ wpc \in {"mkdir", "create", "sealing"}
  /\ wpc = "removing" => removal = "inband"
  /\ owner = "closing" => alive = {}
  /\ removal # "none" \/ scratch = "removed" =>
       /\ alive = {} /\ detached = 0
       /\ owner # "replay" /\ (owner = "writer" => state = "failed")

\* What a cursor loaded from the publication still holds when it acts on it.
CursorInv ==
  \A c \in Cursors :
    /\ cpc[c] # "idle" => c \in alive /\ answer[c] = "none"
    /\ c \in alive => offset[c] = position[c] /\ position[c] <= rows
    /\ cpc[c] = "rows" /\ sawSealed[c] => state = "sealed"
    /\ cpc[c] \in {"reading", "recheck"} => position[c] < rows
    /\ c \in alive /\ answer[c] = "exhausted" =>
         state = "sealed" /\ position[c] = rows

\* A registered reader that was not notified has seen the current publication.
WakeInv ==
  \A c \in Cursors : ~woken[c] /\ ~owed =>
    /\ cpc[c] = "rows" /\ blocking[c] /\ ~sawSealed[c] => state = "writing"
    /\ cpc[c] = "wait" => state = "writing" /\ position[c] = rows

\* The inductive invariant of the replay (writer.rs, cursor.rs, storage.rs and
\* publication.rs taken together).
IInv == TypeOK /\ WriterInv /\ ScratchInv /\ CursorInv /\ WakeInv
=============================================================================
