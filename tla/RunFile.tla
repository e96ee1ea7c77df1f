------------------------------- MODULE RunFile -------------------------------
(***************************************************************************)
(* A run file (engine/run.rs), the frames that codec::encode measures and  *)
(* makes, and its readers: those of a finished run, which believe its      *)
(* header, and replay cursors, which follow the rows published so far.     *)
(*                                                                         *)
(* The file's body is a sequence of cells.  A frame is a cell for its      *)
(* length, one for its weight, and as many payload cells as its length     *)
(* says: offsets advance by what a reader finds in the file.  Writes of a  *)
(* frame reach the file cell by cell, also after the caller has gone.      *)
(***************************************************************************)
EXTENDS Naturals, Sequences

CONSTANTS
  Readers, \* readers of the file
  Sizes,   \* lengths that serializing a row may give
  Weights, \* retained bytes of rows
  MaxLen,  \* u32::MAX, the longest frame
  Limit,   \* MemoryBudget::limit, which may be beyond that
  MaxRows  \* bound: rows written

ASSUME SizesAssumption == Sizes \subseteq Nat /\ Weights \subseteq Nat
ASSUME BoundsAssumption == MaxLen \in Nat /\ Limit \in Nat /\ MaxRows \in Nat

VARIABLES
  header,   \* the row count at the start of the file
  cells,    \* the rest of it
  wpc,      \* where the writer stands
  row,      \* the row that write_row was called with
  job,      \* cells of its frame that are still to be written
  accepted, \* the rows for which write_row returned: RunWriter.count of them
  reader    \* RunReader, or what a cursor makes its readers from

writerVars == <<header, cells, wpc, row, job, accepted>>
vars == <<writerVars, reader>>

Rows  == [id : 1 .. MaxRows, len : Sizes, weight : Weights]
NoRow == [id |-> 0, len |-> 0, weight |-> 0]

TypeOK ==
  /\ header \in 0 .. MaxRows
  /\ cells \in Seq(Nat)
  /\ wpc \in {"none", "ready", "writing", "finishing", "finished", "dead"}
  /\ row \in Rows \cup {NoRow}
  /\ job \in Seq(Nat)
  /\ accepted \in Seq(Rows)
  /\ reader \in [Readers -> [kind : {"none", "run", "cursor"}, offset : Nat,
                             remaining : Nat, got : Seq(Seq(Nat))]]

Init ==
  /\ header = 0
  /\ cells = <<>>
  /\ wpc = "none"
  /\ row = NoRow
  /\ job = <<>>
  /\ accepted = <<>>
  /\ reader = [r \in Readers |->
                 [kind |-> "none", offset |-> 0, remaining |-> 0, got |-> <<>>]]
-----------------------------------------------------------------------------
\* RunWriter::create, which writes a header that says zero.
Create ==
  /\ wpc = "none"
  /\ wpc' = "ready"
  /\ UNCHANGED <<header, cells, row, job, accepted, reader>>

\* What write_row writes: u32 length, u64 weight, and the encoded bytes.
Frame(r, size) ==
  <<r.len % (MaxLen + 1), r.weight>> \o [i \in 1 .. size |-> r.id]

\* Mutant: the length is cast to a u32.
Encoded_Cast(sizing, encoding) == sizing <= Limit /\ encoding = sizing

\* codec::encode serializes twice, to size the frame within the budget and to
\* make it, and fails unless both gave as much; write_row wants a u32.
Encoded(sizing, encoding) ==
  /\ sizing <= Limit
  /\ encoding = sizing
  /\ sizing <= MaxLen

\* write_row up to its operation; every caller drops the writer on an error.
BeginRow ==
  /\ wpc = "ready"
  /\ Len(accepted) < MaxRows
  /\ \E sizing, encoding \in Sizes, weight \in Weights :
       IF Encoded(sizing, encoding)
       THEN /\ row' = [id |-> Len(accepted) + 1, len |-> sizing,
                       weight |-> weight]
            /\ job' = Frame(row', encoding)
            /\ wpc' = "writing"
       ELSE wpc' = "dead" /\ UNCHANGED <<row, job>>
  /\ UNCHANGED <<header, cells, accepted, reader>>

\* The operation goes on writing, whether it is awaited or not.
WriteCell ==
  /\ job # <<>>
  /\ cells' = Append(cells, Head(job))
  /\ job' = Tail(job)
  /\ UNCHANGED <<header, wpc, row, accepted, reader>>

\* It fails, or was cancelled before it had a permit.
WriteFails ==
  /\ job # <<>>
  /\ job' = <<>>
  /\ wpc' = "dead"
  /\ UNCHANGED <<header, cells, row, accepted, reader>>

\* Mutant: the row counts as soon as its operation is on its way.
RowWritten_Early ==
  /\ wpc = "writing"
  /\ accepted' = Append(accepted, row)
  /\ wpc' = "ready"
  /\ UNCHANGED <<header, cells, row, job, reader>>

\* The operation returned: the row counts, and a replay publishes it.
RowWritten ==
  /\ wpc = "writing"
  /\ job = <<>>
  /\ accepted' = Append(accepted, row)
  /\ wpc' = "ready"
  /\ UNCHANGED <<header, cells, row, job, reader>>

Finish ==
  /\ wpc = "ready"
  /\ wpc' = "finishing"
  /\ UNCHANGED <<header, cells, row, job, accepted, reader>>

\* Mutant: the count is written where the file was opened, at its end.
WriteHeader_AtEnd ==
  /\ wpc = "finishing"
  /\ cells' = Append(cells, Len(accepted))
  /\ wpc' \in {"finished", "dead"}
  /\ UNCHANGED <<header, row, job, accepted, reader>>

\* The operation of finish: seek to the start, write the count.  Its caller
\* may not be there any more to receive the path.
WriteHeader ==
  /\ wpc = "finishing"
  /\ header' = Len(accepted)
  /\ wpc' \in {"finished", "dead"}
  /\ UNCHANGED <<cells, row, job, accepted, reader>>

\* The writer is dropped between or during its calls, or finish fails.
DropWriter ==
  /\ wpc \in {"ready", "writing", "finishing"}
  /\ wpc' = "dead"
  /\ UNCHANGED <<header, cells, row, job, accepted, reader>>
-----------------------------------------------------------------------------
\* RunReader::open: a path is only returned by finish.
Open(r) ==
  /\ reader[r].kind = "none"
  /\ wpc = "finished"
  /\ reader' = [reader EXCEPT ![r].kind = "run", ![r].remaining = header]
  /\ UNCHANGED writerVars

\* A cursor of a replay: at its first row, or where another cursor is.
NewCursor(r) ==
  /\ reader[r].kind = "none"
  /\ wpc # "none"
  /\ \/ reader' = [reader EXCEPT ![r].kind = "cursor"]
     \/ \E c \in Readers : /\ reader[c].kind = "cursor"
                           /\ reader' = [reader EXCEPT ![r] = reader[c]]
  /\ UNCHANGED writerVars

\* RunReader::from_position, with what is left up to the watermark.
Continue(r) ==
  /\ reader[r].kind = "cursor"
  /\ reader' = [reader EXCEPT ![r].remaining =
                  Len(accepted) - Len(reader[r].got)]
  /\ UNCHANGED writerVars

\* The frame at an offset as the file says, and whether it is all there.
LenAt(offset)   == cells[offset + 1]
FrameAt(offset) == SubSeq(cells, offset + 1, offset + 2 + LenAt(offset))
Whole(offset) ==
  /\ offset + 2 <= Len(cells)
  /\ offset + 2 + LenAt(offset) <= Len(cells)

\* The offset of the next frame: 12 bytes and the length.
After(offset) == offset + 2 + LenAt(offset)

\* next_row.  Any failure leaves the position as it was.
NextRow(r) ==
  /\ reader[r].remaining > 0
  /\ Whole(reader[r].offset)
  /\ reader' = [reader EXCEPT ![r] =
       [kind      |-> @.kind,
        offset    |-> After(@.offset),
        remaining |-> @.remaining - 1,
        got       |-> Append(@.got, FrameAt(@.offset))]]
  /\ UNCHANGED writerVars

Next ==
  \/ Create \/ BeginRow \/ WriteCell \/ WriteFails \/ RowWritten
  \/ Finish \/ WriteHeader \/ DropWriter
  \/ \E r \in Readers : Open(r) \/ NewCursor(r) \/ Continue(r) \/ NextRow(r)

Spec == Init /\ [][Next]_vars
-----------------------------------------------------------------------------
(***************************************************************************)
(* Properties.                                                             *)
(***************************************************************************)
FrameOf(r) == Frame(r, r.len)

\* A reader gets the rows that were accepted, in order, each with its own bytes
\* and weight, whatever was cut off, or is being written, behind them
\* (run.rs:85-94, 196-231, codec.rs:52-66).
RowsExact ==
  \A r \in Readers :
    /\ Len(reader[r].got) <= Len(accepted)
    /\ \A i \in DOMAIN reader[r].got : reader[r].got[i] = FrameOf(accepted[i])

\* A reader that may take another row finds the whole frame in the file
\* (run.rs:94, 179-202): it never runs into the end of the file, nor into a
\* frame that is only partly written.
NoShortRead ==
  \A r \in Readers : reader[r].remaining > 0 => Whole(reader[r].offset)

\* The reader of a run (run.rs:98-116, 184-186) is told the end after the last
\* row that the writer wrote, and not before.
RunComplete ==
  \A r \in Readers :
    reader[r].kind = "run" =>
      Len(reader[r].got) + reader[r].remaining = Len(accepted)
=============================================================================
