---------------------------- MODULE MergeStream ----------------------------
(***************************************************************************)
(* The final merge of a sort (engine/merge.rs): a k-way merge of run files *)
(* through a heap of their heads, driven lazily by the consumer of the     *)
(* value stream, which also cleans the scratch directory up.               *)
(*                                                                         *)
(* A row is its ordinal; keyOf gives its key.  A run file is the sequence  *)
(* of its rows, and a RunReader the rows of its file that remain.  Which   *)
(* rows a sort has and how its files come to be is SortPipeline's, which   *)
(* hands them over in the state "opening".                                 *)
(***************************************************************************)
EXTENDS SortOrder, SequencesExt

CONSTANT Keys \* the keys of rows, naturals for their order

ASSUME KeysAssumption == Keys \subseteq Nat

VARIABLES
  keyOf,   \* input: the key of each row
  files,   \* the run files, in the order of their paths, or the sorted buffer
  dedup,   \* input
  opened,  \* how many of the files open has looked at
  sources, \* MergeState.sources: head, 0 for None, and what its reader has left
  heap,    \* MergeState.heap, of key and source index
  last,    \* MergeState.last_key, as the row it was cloned from, 0 for None
  mpc,     \* what the next poll of the stream finds
  items    \* what the stream has yielded: rows, and 0 for an error

inputVars == <<keyOf, files, dedup>>
mergeVars == <<opened, sources, heap, last>>
pipeVars == <<inputVars, mergeVars, mpc, items>>

Keyed == DOMAIN keyOf \* the rows of the sort
Error == 0
None  == 0
Mpcs  == {"none", "memory"} \* before finish, and the stream of a buffer
         \cup {"opening", "refused", "merging", "broken", "exhausted",
               "reported", "ended"}

StreamTypeOK ==
  /\ keyOf \in Seq(Keys)
  /\ files \in Seq(Seq(Keyed))
  /\ dedup \in BOOLEAN
  /\ opened \in 0 .. Len(files)
  /\ sources \in Seq([head : Keyed \cup {None}, rest : Seq(Keyed)])
  /\ heap \subseteq Keys \X DOMAIN sources
  /\ last \in Keyed \cup {None}
  /\ mpc \in Mpcs
  /\ items \in Seq(Keyed \cup {Error})
-----------------------------------------------------------------------------
\* RunReader::next_row: the next of the rows that remain, or none.
ReadRow(rest) ==
  IF rest = <<>> THEN [head |-> None, rest |-> <<>>]
  ELSE [head |-> Head(rest), rest |-> Tail(rest)]

\* The entry of the source at index idx, if it has a head.
Entry(source, idx) ==
  IF source.head = None THEN {} ELSE {<<keyOf[source.head], idx>>}

\* MergeState::open, one path: an empty run gets no source.
OpenSource ==
  /\ mpc = "opening"
  /\ opened < Len(files)
  /\ opened' = opened + 1
  /\ LET source == ReadRow(files[opened + 1])
     IN IF source.head = None
        THEN UNCHANGED <<sources, heap>>
        ELSE /\ sources' = Append(sources, source)
             /\ heap' = heap \cup Entry(source, Len(sources) + 1)
  /\ UNCHANGED <<inputVars, last, mpc, items>>

Opened ==
  /\ mpc = "opening"
  /\ opened = Len(files)
  /\ mpc' = "merging"
  /\ UNCHANGED <<inputVars, mergeVars, items>>

\* finish returns the error, and there is no stream.
OpenFails ==
  /\ mpc = "opening"
  /\ mpc' = "refused"
  /\ UNCHANGED <<inputVars, mergeVars, items>>

\* Mutant: ties go to the newest run.
Smallest_NewestFirst ==
  CHOOSE e \in heap :
    \A f \in heap : e[1] < f[1] \/ (e[1] = f[1] /\ e[2] >= f[2])

\* BinaryHeap::pop under Reverse: by key, ties by source index.
Smallest ==
  CHOOSE e \in heap :
    \A f \in heap : e[1] < f[1] \/ (e[1] = f[1] /\ e[2] <= f[2])

\* The head that next_row takes, and its source afterwards.
Popped   == sources[Smallest[2]].head
Refilled == ReadRow(sources[Smallest[2]].rest)

\* Mutant: the head that refills a source is not pushed.
Take_ForgetsSource ==
  /\ mpc = "merging"
  /\ heap # {}
  /\ sources' = [sources EXCEPT ![Smallest[2]] = Refilled]
  /\ heap' = heap \ {Smallest}
  /\ UNCHANGED <<inputVars, opened, mpc>>

\* One turn of the loop in next_row: the head is taken and its source refilled.
Take ==
  /\ mpc = "merging"
  /\ heap # {}
  /\ sources' = [sources EXCEPT ![Smallest[2]] = Refilled]
  /\ heap' = (heap \ {Smallest}) \cup Entry(Refilled, Smallest[2])
  /\ UNCHANGED <<inputVars, opened, mpc>>

Duplicate == dedup /\ last # None /\ keyOf[last] = keyOf[Popped]

SkipRow ==
  /\ Take
  /\ Duplicate
  /\ UNCHANGED <<last, items>>

YieldRow ==
  /\ Take
  /\ ~Duplicate
  /\ last' = IF dedup THEN Popped ELSE last
  /\ items' = Append(items, Popped)

\* Mutant: the merge is kept after an error.
RowFails_Continues ==
  /\ mpc = "merging"
  /\ heap # {}
  /\ Len(items) <= Len(keyOf)
  /\ items' = Append(items, Error)
  /\ UNCHANGED <<inputVars, mergeVars, mpc>>

\* The refill, or the reservation for a cloned key, fails: the merge is gone.
RowFails ==
  /\ mpc = "merging"
  /\ heap # {}
  /\ items' = Append(items, Error)
  /\ mpc' = "broken"
  /\ UNCHANGED <<inputVars, mergeVars>>

AllTaken ==
  /\ mpc = "merging"
  /\ heap = {}
  /\ mpc' = "exhausted"
  /\ UNCHANGED <<inputVars, mergeVars, items>>

\* value_stream cleans up after the last row, and after an error.
CleanupDone ==
  /\ mpc \in {"broken", "exhausted"}
  /\ mpc' = "ended"
  /\ UNCHANGED <<inputVars, mergeVars, items>>

CleanupFails ==
  /\ mpc \in {"broken", "exhausted"}
  /\ items' = Append(items, Error)
  /\ mpc' = "reported"
  /\ UNCHANGED <<inputVars, mergeVars>>

EndReported ==
  /\ mpc = "reported"
  /\ mpc' = "ended"
  /\ UNCHANGED <<inputVars, mergeVars, items>>

StreamNext ==
  \/ OpenSource \/ Opened \/ OpenFails
  \/ SkipRow \/ YieldRow \/ RowFails \/ AllTaken
  \/ CleanupDone \/ CleanupFails \/ EndReported

\* Mutant: the buffer is streamed without looking at dedup.
InMemoryStream_Plain == files[1]

\* in_memory_stream: the sorted buffer, which is the only file here, a row
\* dropped when it has the key of the last row kept.
InMemoryStream ==
  LET rows == files[1]
      kept[n \in 0 .. Len(rows)] ==
        IF n = 0 THEN <<>>
        ELSE IF /\ dedup /\ kept[n - 1] # <<>>
                /\ keyOf[Last(kept[n - 1])] = keyOf[rows[n]]
        THEN kept[n - 1]
        ELSE Append(kept[n - 1], rows[n])
  IN  kept[Len(rows)]
=============================================================================
