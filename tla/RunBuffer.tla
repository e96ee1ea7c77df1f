------------------------------ MODULE RunBuffer ------------------------------
(***************************************************************************)
(* The memory of a sort session (engine/session.rs, session/buffer.rs) and *)
(* of its merges (engine/merge.rs): what it charges to the shared budget   *)
(* for its rows, for the capacity of its buffer, for its metadata, for the *)
(* arrays, heads and keys of the merge that runs and for the file operation*)
(* in flight, until the stream or the cleanup of its directory gives the   *)
(* last byte back.  A reservation is one step here: MemoryBudget has the   *)
(* steps of its loop.  What an operation, its frame and the row that it    *)
(* reads ask for is one reservation.  Which runs are merged, and how many  *)
(* times, is the business of SpillSession; which rows they have, of        *)
(* GroupMerge: here a run has any rows, in any order.                      *)
(***************************************************************************)
EXTENDS Naturals, Sequences

CONSTANTS
  Sizes,     \* what callers declare as the retained size of a row
  RowSize,   \* size_of::<RunRow<K, V>>()
  RunBytes,  \* the plan's run buffer, or 8 MiB for an in-memory plan
  Metadata,  \* what reserve_metadata asks for
  Works,     \* what one file operation and its frame ask for
  Limit,     \* the static limit of the budget
  Headrooms, \* what the pressure source may leave of it
  Others,    \* what the other users of the budget may hold
  FanIn,     \* how many runs a merge reads at most: fan_in.max(2)
  SourceBytes, \* size_of MergeSource and of its entry in the heap
  Dedup      \* SortSession.dedup

ASSUME SizesAssumption ==
  /\ Sizes \subseteq Nat /\ Works \subseteq Nat \ {0} /\ RowSize \in Nat \ {0}
  /\ Metadata \in Nat \ {0} /\ {RunBytes, Limit} \subseteq Nat
ASSUME MergeAssumption ==
  /\ FanIn \in Nat \ {0, 1} /\ SourceBytes \in Nat \ {0}
ASSUME OthersAssumption ==
  /\ Headrooms \subseteq Nat /\ Others \subseteq Nat /\ 0 \in Others
  /\ Dedup \in BOOLEAN

VARIABLES
  buffer,       \* the charge of each buffered row
  bufferBytes,  \* buffer_bytes
  capacity,     \* buffer.capacity()
  bufferCharge, \* buffer_charge
  metadata,     \* the reservation that the cleanup guard retains
  row,          \* the charge of the row that push_with_size holds
  work,         \* the charges of the file operation in flight
  last,         \* the charge of the key that a stream with dedup remembers
  heads,        \* MergeState.sources: the charge of each head row, which is
                \* that of its key too; 0 where there is none (any more)
  at,           \* the source that is opened or refilled
  fresh,        \* the charge of the row that is read, before its key's
  popped,       \* the charge of the row that next_row is to return
  goal,         \* what the merge is for; "stream" once it is the stream's
  used,         \* MemoryBudget.used
  others,       \* the part of it that is not this session's
  armed,        \* the cleanup guard is armed: the session has spilled
  failed,
  pc,           \* where the current call stands
  resume,       \* where it goes on after its spill
  refused       \* history: the session was refused something that nobody else
                \* held, and that the pressure did not forbid

rowVars == <<buffer, bufferBytes, capacity, bufferCharge>>
mergeVars == <<heads, at, fresh, popped, goal>>
vars == <<rowVars, metadata, row, work, last, mergeVars, used, others, armed,
          failed, pc, resume, refused>>

MergePcs == {"open", "head", "key", "merge", "out", "written", "done"}
Pcs == {"idle", "metadata", "row", "full", "grow", "spill", "carry", "cascade",
        "stream", "ended", "gone"} \cup MergePcs
Goals == {"carry", "cascade", "final", "stream"}

TypeOK ==
  /\ buffer \in Seq(Nat) /\ heads \in Seq(Nat)
  /\ {bufferBytes, capacity, bufferCharge, metadata, row, work, last, at, fresh,
      popped, used, others} \subseteq Nat
  /\ {armed, failed, refused} \subseteq BOOLEAN
  /\ pc \in Pcs
  /\ goal \in Goals
  /\ resume \in {"idle", "grow", "cascade"}

Init ==
  /\ buffer = <<>>
  /\ bufferBytes = 0 /\ capacity = 0 /\ bufferCharge = 0
  /\ metadata = 0 /\ row = 0 /\ work = 0 /\ last = 0
  /\ heads = <<>> /\ at = 0 /\ fresh = 0 /\ popped = 0 /\ goal = "carry"
  /\ used = 0 /\ others = 0
  /\ armed = FALSE /\ failed = FALSE /\ refused = FALSE
  /\ pc = "idle" /\ resume = "idle"

Low(a, b)  == IF a <= b THEN a ELSE b
High(a, b) == IF a >= b THEN a ELSE b

\* What the rows of a buffer, or the heads of a merge, are charged together.
Total(s) ==
  LET sum[n \in 0 .. Len(s)] == IF n = 0 THEN 0 ELSE sum[n - 1] + s[n]
  IN  sum[Len(s)]
-----------------------------------------------------------------------------
(***************************************************************************)
(* The budget: limit(), reserve and what others do with it.                *)
(***************************************************************************)
Limits == {Low(Limit, h) : h \in Headrooms}

Reserve(bytes) ==
  /\ \E limit \in Limits : used + bytes <= limit
  /\ used' = used + bytes
  /\ UNCHANGED refused

Refuse(bytes) ==
  \E limit \in Limits :
    /\ used + bytes > limit
    /\ refused' = (refused \/ (others = 0 /\ limit = Limit))

OthersMove ==
  /\ others' \in Others
  /\ used' = used - others + others'
  /\ used' <= used \/ \E limit \in Limits : used' <= limit
  /\ UNCHANGED <<rowVars, metadata, row, work, last, mergeVars, armed, failed,
                 pc, resume, refused>>

\* buffer_limit, at one reading of the pressure.
BufferLimit(limit) == Low(High(limit \div 8, 1), High(RunBytes, 1))
-----------------------------------------------------------------------------
(***************************************************************************)
(* push_with_size.  It may return an error at each of its reservations,    *)
(* and drops the charge of its row when it does.                           *)
(***************************************************************************)
Push ==
  /\ pc = "idle"
  /\ ~failed
  /\ pc' = IF metadata = 0 THEN "metadata" ELSE "row"
  /\ UNCHANGED <<rowVars, metadata, row, work, last, mergeVars, used, others,
                 armed, failed, resume, refused>>

ReserveMetadata ==
  /\ pc = "metadata"
  /\ \/ Reserve(Metadata) /\ metadata' = Metadata /\ pc' = "row"
     \/ Refuse(Metadata) /\ pc' = "idle" /\ UNCHANGED <<used, metadata>>
  /\ UNCHANGED <<rowVars, row, work, last, mergeVars, others, armed, failed,
                 resume>>

ReserveRow(size) ==
  LET bytes == High(size, RowSize) IN
  /\ pc = "row"
  /\ \/ Reserve(bytes) /\ row' = bytes /\ pc' = "full"
     \/ Refuse(bytes) /\ pc' = "idle" /\ UNCHANGED <<used, row>>
  /\ UNCHANGED <<rowVars, metadata, work, last, mergeVars, others, armed,
                 failed, resume>>

\* A row that does not fit beside the buffered ones waits for their spill.
Fits(limit) ==
  /\ pc = "full"
  /\ limit \in Limits
  /\ IF buffer # <<>> /\ bufferBytes + row > BufferLimit(limit)
     THEN pc' = "spill" /\ resume' = "grow" /\ failed' = TRUE /\ armed' = TRUE
     ELSE pc' = "grow" /\ UNCHANGED <<resume, failed, armed>>
  /\ UNCHANGED <<rowVars, metadata, row, work, last, mergeVars, used, others,
                 refused>>

\* grow_buffer: both capacities are charged until the rows have moved.
Grow ==
  /\ pc = "grow"
  /\ Len(buffer) = capacity
  /\ LET bytes == 2 * High(capacity, 1) * RowSize IN
     \/ /\ \E limit \in Limits : used + bytes <= limit
        /\ used' = used + bytes - bufferCharge
        /\ capacity' = 2 * High(capacity, 1)
        /\ bufferCharge' = bytes
        /\ UNCHANGED <<row, pc, refused>>
     \/ /\ Refuse(bytes)
        /\ used' = used - row
        /\ row' = 0
        /\ pc' = "idle"
        /\ UNCHANGED <<capacity, bufferCharge>>
  /\ UNCHANGED <<buffer, bufferBytes, metadata, work, last, mergeVars, others,
                 armed, failed, resume>>

\* Mutant: a full buffer is left to the next push.
PushRow_Lazy(limit) ==
  /\ pc = "grow"
  /\ Len(buffer) < capacity
  /\ limit \in Limits
  /\ buffer' = Append(buffer, row)
  /\ bufferBytes' = bufferBytes + row
  /\ row' = 0
  /\ pc' = "idle"
  /\ UNCHANGED <<capacity, bufferCharge, metadata, work, last, mergeVars, used,
                 others, armed, failed, resume, refused>>

\* The buffer takes the row and its charge, and is spilled when that fills it.
PushRow(limit) ==
  /\ pc = "grow"
  /\ Len(buffer) < capacity
  /\ limit \in Limits
  /\ buffer' = Append(buffer, row)
  /\ bufferBytes' = bufferBytes + row
  /\ row' = 0
  /\ IF bufferBytes' >= BufferLimit(limit)
     THEN pc' = "spill" /\ resume' = "idle" /\ failed' = TRUE /\ armed' = TRUE
     ELSE pc' = "idle" /\ UNCHANGED <<resume, failed, armed>>
  /\ UNCHANGED <<capacity, bufferCharge, metadata, work, last, mergeVars, used,
                 others, refused>>
-----------------------------------------------------------------------------
(***************************************************************************)
(* spill: one file operation after the other, from the buffered rows.  The *)
(* run that is finished then goes up the frontier, from file to file.      *)
(***************************************************************************)
\* What a merge holds, beside the row that it reads: two arrays, a row and a
\* key for each head, and the row that it gives out.
InMerge == Len(heads) * SourceBytes + 2 * Total(heads) + popped

\* A merge is dropped.  What is being read belongs to the operation.
DropMerge ==
  /\ heads' = <<>> /\ at' = 0 /\ popped' = 0 /\ goal' = "carry"
  /\ fresh' = IF work > 0 THEN fresh ELSE 0

\* What is left of a session that is dropped: the guard's reservation, when a
\* directory is to be removed, and the operation that runs on without it.
Vanish ==
  /\ buffer' = <<>> /\ bufferBytes' = 0 /\ capacity' = 0 /\ bufferCharge' = 0
  /\ row' = 0
  /\ last' = 0
  /\ DropMerge
  /\ metadata' = IF armed THEN metadata ELSE 0
  /\ used' = ((used - Total(buffer) - bufferCharge) - row - last)
               - (metadata - metadata') - InMerge - (fresh - fresh')
  /\ pc' = "gone"
  /\ UNCHANGED <<work, others, armed, failed, resume>>

\* A spill that fails, or whose caller goes away, ends the push or the finish
\* that it belongs to.  What the session still holds stays charged.
SpillAborts ==
  \/ /\ resume # "cascade"
     /\ row' = 0
     /\ DropMerge
     /\ used' = used - row - InMerge - (fresh - fresh')
     /\ pc' = "idle"
     /\ UNCHANGED <<rowVars, metadata, work, last, others, armed, failed,
                    resume>>
  \/ resume = "cascade" /\ Vanish

SpillOp(bytes) ==
  /\ pc = "spill"
  /\ work = 0
  /\ \/ /\ Reserve(bytes)
        /\ work' = bytes
        /\ UNCHANGED <<rowVars, metadata, row, last, mergeVars, others, armed,
                       failed, pc, resume>>
     \/ Refuse(bytes) /\ SpillAborts

SpillFails ==
  /\ pc \in {"spill", "carry", "cascade"}
  /\ SpillAborts
  /\ UNCHANGED refused

\* An operation ends, with its caller, who then has the row that was read, or
\* without.
OpDone ==
  LET kept == IF pc = "key" THEN fresh ELSE 0 IN
  /\ work > 0
  /\ work' = 0
  /\ fresh' = kept
  /\ used' = used - work - (fresh - kept)
  /\ UNCHANGED <<rowVars, metadata, row, last, heads, at, popped, goal, others,
                 armed, failed, pc, resume, refused>>

\* The run is finished: rows, capacity and their charges go.
RunWritten ==
  /\ pc = "spill"
  /\ work = 0
  /\ buffer' = <<>> /\ bufferBytes' = 0 /\ capacity' = 0 /\ bufferCharge' = 0
  /\ used' = used - Total(buffer) - bufferCharge
  /\ pc' = "carry"
  /\ UNCHANGED <<metadata, row, work, last, mergeVars, others, armed, failed,
                 resume, refused>>

\* The run has found a free level; before, it may be merged with older ones.
Carried ==
  /\ pc = "carry"
  /\ pc' = resume
  /\ failed' = FALSE
  /\ UNCHANGED <<rowVars, metadata, row, work, last, mergeVars, used, others,
                 armed, resume, refused>>
-----------------------------------------------------------------------------
(***************************************************************************)
(* Merges: those of the carry of a spill, beside the row that waits for    *)
(* it, those of the cascade, and the last one, which the stream reads.     *)
(***************************************************************************)
\* Two runs in a carry; groups in a cascade, and then all that are left.
MayMerge(n, g) ==
  \/ pc = "carry" /\ g = "carry" /\ n = 2
  \/ pc = "cascade" /\ g = "cascade" /\ n >= 2
  \/ pc = "cascade" /\ g = "final"

\* MergeState::new: the arrays are charged before there are any.
NewMerge(n, g) ==
  \/ /\ Reserve(n * SourceBytes)
     /\ heads' = [i \in 1 .. n |-> 0]
     /\ at' = 1
     /\ goal' = g
     /\ pc' = "open"
     /\ UNCHANGED <<rowVars, metadata, row, work, last, fresh, popped, others,
                    armed, failed, resume>>
  \/ Refuse(n * SourceBytes) /\ SpillAborts

\* Mutant: the cascade stops when one run too many is left.
MergeBegins_OneMore(n, g) ==
  MayMerge(n, g) /\ NewMerge(IF g = "final" THEN n + 1 ELSE n, g)

MergeBegins(n, g) == MayMerge(n, g) /\ NewMerge(n, g)

\* An error ends the call, or the merge of a stream that goes on to its cleanup.
MergeAborts ==
  \/ goal # "stream" /\ SpillAborts
  \/ /\ goal = "stream"
     /\ DropMerge
     /\ last' = 0
     /\ used' = used - last - InMerge - (fresh - fresh')
     /\ pc' = "ended"
     /\ UNCHANGED <<rowVars, metadata, row, work, others, armed, failed,
                    resume>>

\* The caller of a stream that does not wait for its row drops the stream.
MergeFails ==
  /\ pc \in MergePcs
  /\ goal = "stream" => work = 0
  /\ MergeAborts
  /\ UNCHANGED refused

\* RunReader::open, RunWriter::create, write_row and finish; where the merge
\* stands once the operation has ended.
Operates(next) ==
  \/ pc = "open" /\ at <= Len(heads) /\ next = "head"
  \/ pc = "open" /\ at > Len(heads) /\ goal # "final" /\ next = "merge"
  \/ pc = "out" /\ goal # "stream" /\ next = "written"
  \/ pc = "merge" /\ goal # "stream" /\ Total(heads) = 0 /\ next = "done"

MergeOp(bytes, next) ==
  /\ work = 0
  /\ Operates(next)
  /\ \/ /\ Reserve(bytes)
        /\ work' = bytes
        /\ pc' = next
        /\ UNCHANGED <<rowVars, metadata, row, last, mergeVars, others, armed,
                       failed, resume>>
     \/ Refuse(bytes) /\ MergeAborts

\* RunReader::next_row, for a row of this size.
ReadHead(bytes, size) ==
  LET head == High(size, RowSize) IN
  /\ pc = "head"
  /\ work = 0
  /\ \/ /\ Reserve(bytes + head)
        /\ work' = bytes
        /\ fresh' = head
        /\ pc' = "key"
        /\ UNCHANGED <<rowVars, metadata, row, last, heads, at, popped, goal,
                       others, armed, failed, resume>>
     \/ Refuse(bytes + head) /\ MergeAborts

\* The next source is opened, or the row that left this one is returned.
Refilled ==
  IF popped = 0 THEN pc' = "open" /\ at' = at + 1 ELSE pc' = "out" /\ at' = at

Exhausted ==
  /\ pc = "head"
  /\ work = 0
  /\ Refilled
  /\ UNCHANGED <<rowVars, metadata, row, work, last, heads, fresh, popped, goal,
                 used, others, armed, failed, resume, refused>>

\* The copy of the key goes to the heap.
ChargeKey ==
  /\ pc = "key"
  /\ work = 0
  /\ \/ /\ Reserve(fresh)
        /\ heads' = [heads EXCEPT ![at] = fresh]
        /\ fresh' = 0
        /\ Refilled
        /\ UNCHANGED <<rowVars, metadata, row, work, last, popped, goal, others,
                       armed, failed, resume>>
     \/ Refuse(fresh) /\ MergeAborts

\* The least key leaves the heap, and its row the source.
Pop(source) ==
  /\ pc = "merge"
  /\ work = 0
  /\ heads[source] > 0
  /\ popped' = heads[source]
  /\ heads' = [heads EXCEPT ![source] = 0]
  /\ at' = source
  /\ used' = used - heads[source]
  /\ pc' = "head"
  /\ UNCHANGED <<rowVars, metadata, row, work, last, fresh, goal, others, armed,
                 failed, resume, refused>>

Written ==
  /\ pc = "written"
  /\ work = 0
  /\ popped' = 0
  /\ used' = used - popped
  /\ pc' = "merge"
  /\ UNCHANGED <<rowVars, metadata, row, work, last, heads, at, fresh, goal,
                 others, armed, failed, resume, refused>>

\* The merged file is finished: the state goes, and then the input files.
MergeDone ==
  /\ pc = "done"
  /\ work = 0
  /\ DropMerge
  /\ used' = used - InMerge - (fresh - fresh')
  /\ pc' = goal
  /\ UNCHANGED <<rowVars, metadata, row, work, last, others, armed, failed,
                 resume, refused>>
-----------------------------------------------------------------------------
(***************************************************************************)
(* The stream of the last merge.                                           *)
(***************************************************************************)
\* All sources are open: finish returns the stream.
StreamBegins ==
  /\ pc = "open"
  /\ at > Len(heads)
  /\ goal = "final"
  /\ goal' = "stream"
  /\ pc' = "merge"
  /\ UNCHANGED <<rowVars, metadata, row, work, last, heads, at, fresh, popped,
                 used, others, armed, failed, resume, refused>>

\* A popped row reaches the consumer, unless its key is the one before; with
\* dedup its key is charged while the one before still is.
MergedRow(equal) ==
  /\ pc = "out"
  /\ goal = "stream"
  /\ equal => Dedup /\ last > 0
  /\ \/ /\ Dedup /\ ~equal
        /\ \E limit \in Limits : used + popped <= limit
        /\ last' = popped
        /\ used' = used - last
     \/ /\ Dedup => equal
        /\ last' = last
        /\ used' = used - popped
  /\ popped' = 0
  /\ pc' = "merge"
  /\ UNCHANGED <<rowVars, metadata, row, work, heads, at, fresh, goal, others,
                 armed, failed, resume, refused>>

DedupRefused ==
  /\ pc = "out"
  /\ goal = "stream"
  /\ Dedup
  /\ Refuse(popped)
  /\ MergeAborts

\* Nothing is left to merge: the stream cleans up before it ends.
StreamDrained ==
  /\ pc = "merge"
  /\ goal = "stream"
  /\ Total(heads) = 0
  /\ pc' = "ended"
  /\ UNCHANGED <<rowVars, metadata, row, work, last, mergeVars, used, others,
                 armed, failed, resume, refused>>
-----------------------------------------------------------------------------
(***************************************************************************)
(* finish, the in-memory stream, and the end.                              *)
(***************************************************************************)
Finish ==
  /\ pc = "idle"
  /\ \/ /\ ~failed /\ ~armed
        /\ pc' = "stream"
        /\ UNCHANGED <<rowVars, metadata, row, work, last, mergeVars, used,
                       others, armed, failed, resume>>
     \/ /\ ~failed /\ armed
        /\ resume' = "cascade"
        /\ IF buffer = <<>>
           THEN pc' = "cascade" /\ UNCHANGED failed
           ELSE pc' = "spill" /\ failed' = TRUE
        /\ UNCHANGED <<rowVars, metadata, row, work, last, mergeVars, used,
                       others, armed>>
     \/ failed /\ Vanish
  /\ UNCHANGED refused

\* Mutant: the stream drops the key's charge and keeps the key.
StreamRow_Uncharged(equal) ==
  /\ pc = "stream"
  /\ buffer # <<>>
  /\ buffer' = Tail(buffer)
  /\ last' = IF ~Dedup \/ equal THEN last ELSE Head(buffer)
  /\ used' = used - Head(buffer)
  /\ UNCHANGED <<bufferBytes, capacity, bufferCharge, metadata, row, work,
                 mergeVars, others, armed, failed, pc, resume, refused>>

\* The next row of the buffer.  Its value is the consumer's from now on; with
\* dedup the key, and the charge with it, stays until the next one.
StreamRow(equal) ==
  LET kept == IF ~Dedup \/ equal THEN last ELSE Head(buffer) IN
  /\ pc = "stream"
  /\ buffer # <<>>
  /\ equal => last > 0
  /\ buffer' = Tail(buffer)
  /\ last' = kept
  /\ used' = (used - Head(buffer) - last) + kept
  /\ UNCHANGED <<bufferBytes, capacity, bufferCharge, metadata, row, work,
                 mergeVars, others, armed, failed, pc, resume, refused>>

\* The stream ends, or session or stream are dropped between two calls, or the
\* stream in the middle of one.
DropIt ==
  /\ \/ pc \in {"idle", "stream", "ended"}
     \/ pc \in MergePcs /\ goal = "stream"
  /\ Vanish
  /\ UNCHANGED refused

\* Cleanup, which waits for the operations, lets go of the guard's reservation.
CleanedUp ==
  /\ pc \in {"ended", "gone"}
  /\ armed /\ work = 0
  /\ metadata' = 0
  /\ used' = used - metadata
  /\ armed' = FALSE
  /\ UNCHANGED <<rowVars, row, work, last, mergeVars, others, failed, pc,
                 resume, refused>>

Next ==
  \/ OthersMove
  \/ Push \/ ReserveMetadata
  \/ \E size \in Sizes : ReserveRow(size)
  \/ \E limit \in Limits : Fits(limit) \/ PushRow(limit)
  \/ Grow
  \/ \E bytes \in Works : SpillOp(bytes)
  \/ SpillFails \/ OpDone \/ RunWritten \/ Carried
  \/ \E n \in 1 .. FanIn, g \in Goals : MergeBegins(n, g)
  \/ \E bytes \in Works, next \in MergePcs : MergeOp(bytes, next)
  \/ \E bytes \in Works, size \in Sizes : ReadHead(bytes, size)
  \/ Exhausted \/ ChargeKey \/ Written \/ MergeDone \/ MergeFails
  \/ \E source \in DOMAIN heads : Pop(source)
  \/ StreamBegins \/ DedupRefused \/ StreamDrained
  \/ \E equal \in BOOLEAN : MergedRow(equal)
  \/ Finish
  \/ \E equal \in BOOLEAN : StreamRow(equal)
  \/ DropIt \/ CleanedUp

Spec == Init /\ [][Next]_vars
-----------------------------------------------------------------------------
(***************************************************************************)
(* Properties.                                                             *)
(***************************************************************************)
\* What exists in a session, by weight.
Retained ==
  metadata + row + work + last + Total(buffer) + capacity * RowSize
    + (InMerge + fresh)

\* Whatever a session retains is charged, and nothing else is (session.rs:161-
\* 194, 255-324; buffer.rs:35-57): at every step, after every refusal, failure
\* and cancellation, the ledger is the sum of what exists.
AllCharged ==
  /\ used = others + Retained
  /\ bufferCharge = capacity * RowSize

Contract == INSTANCE Ledger WITH
  Holders <- {"session", "others"},
  charge <- [h \in {"session", "others"} |->
               IF h = "session" THEN Retained ELSE others]

\* A session is an orderly user of the budget that it shares: by as many bytes
\* as it comes to retain, or ceases to, the ledger moves in the same step, and
\* it retains more only when a limit allowed it (budget.rs:72-113), rows that
\* move from the caller to the buffer and to the stream included.
ImplementsLedger == Contract!LedgerSpec

\* The most that a buffer may hold by the static limit.
MostBuffered == BufferLimit(Limit)

\* Between two calls a session that is usable is below its local threshold, and
\* its vector is at most twice as large as rows of that many bytes need
\* (buffer.rs:59-69, session.rs:171-193), however the pressure moved.
BoundedBetweenCalls ==
  pc = "idle" /\ ~failed =>
    /\ Total(buffer) = bufferBytes
    /\ bufferBytes < MostBuffered \/ buffer = <<>>
    /\ capacity * RowSize <= 2 * High(MostBuffered, RowSize)

\* Where the budget has room for the arrays of a merge and 2 * FanIn + 4 times
\* the largest row, frame or metadata, whatever a session asks for is refused
\* only because of what others hold or what the pressure forbids: the share of
\* the buffer (buffer.rs:59-69) leaves room for the growth of its vector, for
\* its spills and for the row that waits for one while the carry merges
\* (session.rs:325-344, merge.rs:117, 159, 182), and the last merge for the two
\* keys of a row that is not a duplicate (merge.rs:198).
NeverRefusedAlone ==
  (\A n \in Sizes \cup Works \cup {Metadata, RowSize} :
     (2 * FanIn + 4) * n + FanIn * SourceBytes <= Limit)
    => ~refused
=============================================================================
