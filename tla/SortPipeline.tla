---------------------------- MODULE SortPipeline ----------------------------
(***************************************************************************)
(* A whole sort: a session (SpillSession) whose runs its final merge       *)
(* (MergeStream) streams, or whose buffer is streamed when nothing was     *)
(* spilled, against what a sort promises (Sorting).                        *)
(*                                                                         *)
(* The session treats a run as a set of rows; the file that the merge      *)
(* reads holds them in order, because spill sorts the buffer, and because  *)
(* of what a merge of a group of runs into one does (GroupMerge).          *)
(***************************************************************************)
EXTENDS SpillSession, MergeStream

\* mpc is "none" before finish is called, and "memory" for the buffer's stream.
streamVars == <<mergeVars, items>>

PipeInit ==
  /\ Init
  /\ keyOf = <<>>
  /\ dedup \in BOOLEAN
  /\ files = <<>>
  /\ opened = 0
  /\ sources = <<>>
  /\ heap = {}
  /\ last = None
  /\ items = <<>>
  /\ mpc = "none"

\* A push that returns Ok, with its key.
AcceptRow ==
  /\ PushRow
  /\ \E k \in Keys : keyOf' = Append(keyOf, k)
  /\ UNCHANGED <<dedup, files, streamVars, mpc>>

\* finish without a spill: the buffer is sorted and becomes the stream, as the
\* only one of its files.
StreamBuffer ==
  /\ FinishInMemory
  /\ files' = <<Sorted(keyOf, {r + 1 : r \in buffer})>>
  /\ mpc' = "memory"
  /\ UNCHANGED <<keyOf, dedup, streamVars>>

\* cascade_and_stream opens the final merge, run by run.
OpenMerge ==
  /\ OpenStream
  /\ files' = [i \in DOMAIN runs |-> Sorted(keyOf, {r + 1 : r \in runs[i]})]
  /\ mpc' = "opening"
  /\ UNCHANGED <<keyOf, dedup, streamVars>>

\* All that does not touch the rows accepted or the stream.
InSession ==
  /\ \/ Push \/ GrowRefused \/ FinishRefused \/ Finish \/ DropSession
     \/ SpillNext
     \/ Collect \/ MergeGroup \/ NextPass \/ CascadeFails
  /\ UNCHANGED pipeVars

\* A poll of the merge's stream, or a step of finish that opens it.
InMerge == pc = "stream" /\ StreamNext /\ UNCHANGED vars

\* A poll of in_memory_stream, which has nothing that could fail.
YieldBuffered ==
  /\ mpc = "memory"
  /\ Len(items) < Len(InMemoryStream)
  /\ items' = Append(items, InMemoryStream[Len(items) + 1])
  /\ UNCHANGED <<vars, keyOf, dedup, files, opened, sources, heap, last, mpc>>

BufferEnds ==
  /\ mpc = "memory"
  /\ Len(items) = Len(InMemoryStream)
  /\ mpc' = "ended"
  /\ UNCHANGED <<vars, keyOf, dedup, files, streamVars>>

PipeNext ==
  \/ AcceptRow \/ StreamBuffer \/ OpenMerge \/ InSession
  \/ InMerge \/ YieldBuffered \/ BufferEnds

PipeSpec == PipeInit /\ [][PipeNext]_<<vars, pipeVars>>

FinishStep == OpenMerge \/ (CascadeNext /\ InSession)

\* A call that was made is polled to its end; pushes and polls of the stream
\* are the caller's.
FairPipeSpec == PipeSpec /\ WF_<<vars, pipeVars>>(FinishStep)
-----------------------------------------------------------------------------
(***************************************************************************)
(* Properties.                                                             *)
(***************************************************************************)
\* A session is void from a spill that fails on, and once a call consumed it
\* with an error; a stream exists when finish has returned it.
Phase ==
  CASE mpc \in {"memory", "merging", "broken", "exhausted", "reported"} ->
         "streaming"
    [] mpc = "ended" -> "ended"
    [] mpc = "refused" \/ pc = "gone" \/ (pc = "idle" /\ failed) -> "void"
    [] OTHER -> "open"

Contract == INSTANCE Sorting
              WITH keys <- keyOf, phase <- Phase, out <- items

\* Whatever is spilled, carried, cascaded and merged (session.rs, merge.rs),
\* with any fan-in and whichever calls fail, the caller gets the rows that were
\* accepted, in order, or an error, or nothing.
ImplementsSorting == Contract!SortSpec
=============================================================================
