----------------------------- MODULE RunProofs -----------------------------
(***************************************************************************)
(* Theorems about run files (module RunFile), for any readers, rows and    *)
(* limits: readers get what was accepted, never meet a frame that is not   *)
(* all there, and are told the end of a run exactly at its end.            *)
(***************************************************************************)
EXTENDS RunFile, SequenceTheorems, TLAPS

(***************************************************************************)
(* The inductive invariant.                                                *)
(***************************************************************************)
\* What write_row and finish may still do (run.rs:85-116).
WriterInv ==
  /\ wpc \notin {"writing", "dead"} => job = <<>>
  /\ wpc \in {"none", "ready", "writing", "finishing"} => header = 0
  /\ wpc = "none" => accepted = <<>>
  /\ wpc = "writing" => row \in Rows /\ Len(accepted) < MaxRows
                          /\ row.len <= MaxLen
  /\ wpc = "finished" => header = Len(accepted)
  /\ Len(accepted) <= MaxRows
  /\ \A i \in 1 .. Len(accepted) : accepted[i].len <= MaxLen

\* The file has frame f behind the offset (run.rs:85-94).
Holds(offset, f) == \A k \in 1 .. Len(f) : cells[offset + k] = f[k]

\* Row i of the accepted ones has its frame at s[i] (run.rs:85-94).
Packed(s) ==
  /\ s[1] = 0
  /\ \A i \in 1 .. Len(accepted) :
       /\ s[i + 1] = s[i] + 2 + accepted[i].len
       /\ s[i + 1] <= Len(cells)
       /\ Holds(s[i], FrameOf(accepted[i]))

\* Between rows, nothing is behind them; while one is written, what is there of
\* its frame and what is to come make the frame (run.rs:85-94).
Ends(s) ==
  LET end == s[Len(accepted) + 1] IN
  /\ wpc \in {"none", "ready"} => Len(cells) = end
  /\ wpc = "writing" =>
       /\ end <= Len(cells)
       /\ Len(cells) + Len(job) = end + 2 + row.len
       /\ \A k \in 1 .. Len(cells) - end : cells[end + k] = FrameOf(row)[k]
       /\ \A k \in 1 .. Len(job) :
            job[k] = FrameOf(row)[Len(cells) - end + k]

Layout(s) == Packed(s) /\ Ends(s)

\* A reader is where the frame of its next row starts, or will start
\* (run.rs:160-231).
Places(s) ==
  \A r \in Readers : reader[r].offset = s[Len(reader[r].got) + 1]

\* What a reader has and may still take are accepted rows (run.rs:160-231).
ReaderInv ==
  \A r \in Readers :
    /\ reader[r].kind = "none" => reader[r].got = <<>> /\ reader[r].remaining = 0
    /\ Len(reader[r].got) + reader[r].remaining <= Len(accepted)
    /\ \A i \in 1 .. Len(reader[r].got) :
         reader[r].got[i] = FrameOf(accepted[i])
    /\ reader[r].kind = "run" =>
         /\ wpc = "finished"
         /\ Len(reader[r].got) + reader[r].remaining = Len(accepted)

\* There are offsets at which the accepted rows start (run.rs:85-94), and the
\* readers stand at them (run.rs:196-231).
FileInv ==
  \E s \in [1 .. Len(accepted) + 1 -> Nat] : Layout(s) /\ Places(s)

RunInv == TypeOK /\ WriterInv /\ ReaderInv /\ FileInv

(***************************************************************************)
(* Frames.                                                                 *)
(***************************************************************************)
\* A frame that Encoded lets through says its own length (run.rs:88-94,
\* codec.rs:52-66).
LEMMA FrameFacts ==
  ASSUME NEW r \in Rows, r.len <= MaxLen
  PROVE  /\ FrameOf(r) \in Seq(Nat)
         /\ Len(FrameOf(r)) = 2 + r.len
         /\ FrameOf(r)[1] = r.len
         /\ r.len \in Nat
<1>1. r.len \in Nat /\ r.weight \in Nat /\ r.id \in Nat
  <2>1. r.len \in Sizes /\ r.weight \in Weights /\ r.id \in 1 .. MaxRows
    BY DEF Rows
  <2>2. r.len \in Nat /\ r.weight \in Nat
    BY <2>1, SizesAssumption
  <2>3. r.id \in Nat
    BY <2>1, BoundsAssumption
  <2> QED
    BY <2>2, <2>3
<1>2. r.len % (MaxLen + 1) = r.len
  BY <1>1, BoundsAssumption
<1> DEFINE a == <<r.len % (MaxLen + 1), r.weight>>
           b == [i \in 1 .. r.len |-> r.id]
<1>3. a \in Seq(Nat) /\ Len(a) = 2 /\ a[1] = r.len
  BY <1>1, <1>2
<1>4. b \in Seq(Nat) /\ Len(b) = r.len
  BY <1>1
<1>5. FrameOf(r) = a \o b
  BY DEF FrameOf, Frame
<1> HIDE DEF a, b
<1>6. /\ a \o b \in Seq(Nat)
      /\ Len(a \o b) = Len(a) + Len(b)
      /\ \A i \in 1 .. Len(a) + Len(b) :
           (a \o b)[i] = IF i <= Len(a) THEN a[i] ELSE b[i - Len(a)]
  BY <1>3, <1>4, ConcatProperties
<1> QED
  BY <1>1, <1>3, <1>4, <1>5, <1>6

\* Where a whole frame is, next_row finds it and reads it (run.rs:179-231).
LEMMA FrameRead ==
  ASSUME TypeOK, NEW r \in Rows, r.len <= MaxLen, NEW offset \in Nat,
         offset + 2 + r.len <= Len(cells), Holds(offset, FrameOf(r))
  PROVE  /\ Whole(offset)
         /\ FrameAt(offset) = FrameOf(r)
         /\ After(offset) = offset + 2 + r.len
<1>1. /\ FrameOf(r) \in Seq(Nat) /\ Len(FrameOf(r)) = 2 + r.len
      /\ FrameOf(r)[1] = r.len /\ r.len \in Nat
  BY FrameFacts
<1>2. LenAt(offset) = r.len
  BY <1>1 DEF Holds, LenAt
<1>3. cells \in Seq(Nat) /\ Len(cells) \in Nat
  BY DEF TypeOK
<1>4. FrameAt(offset) = FrameOf(r)
  <2>1. \A i \in offset + 1 .. offset + 2 + r.len : cells[i] \in Nat
    <3>1. \A i \in 1 .. Len(cells) : cells[i] \in Nat
      BY <1>3
    <3>2. \A i \in offset + 1 .. offset + 2 + r.len : i \in 1 .. Len(cells)
      BY <1>1, <1>3
    <3> QED
      BY <3>1, <3>2
  <2>2. offset + 1 \in Int /\ offset + 2 + r.len \in Int
    BY <1>1
  <2> DEFINE f == SubSeq(cells, offset + 1, offset + 2 + r.len)
  <2> HIDE DEF f
  <2>3. /\ f \in Seq(Nat)
        /\ Len(f) = IF offset + 1 <= offset + 2 + r.len
                    THEN (offset + 2 + r.len) - (offset + 1) + 1 ELSE 0
        /\ \A k \in 1 .. (offset + 2 + r.len) - (offset + 1) + 1 :
             f[k] = cells[(offset + 1) + k - 1]
    BY <2>1, <2>2, SubSeqProperties DEF f
  <2>4. Len(f) = 2 + r.len
    BY <1>1, <2>3, SMTT(60)
  <2>5. \A k \in 1 .. 2 + r.len : f[k] = FrameOf(r)[k]
    <3> SUFFICES ASSUME NEW k \in 1 .. 2 + r.len PROVE f[k] = FrameOf(r)[k]
      OBVIOUS
    <3>1. k \in 1 .. (offset + 2 + r.len) - (offset + 1) + 1
      BY <1>1
    <3>2. (offset + 1) + k - 1 = offset + k
      BY <1>1
    <3> QED
      BY <1>1, <2>3, <3>1, <3>2 DEF Holds
  <2>6. f = FrameOf(r)
    BY <1>1, <2>3, <2>4, <2>5, SeqEqual
  <2> QED
    BY <1>2, <2>6 DEF FrameAt, f
<1> QED
  BY <1>1, <1>2, <1>3, <1>4 DEF Whole, After

\* A reader that may take another row is at the frame of an accepted one
\* (run.rs:179-231).
LEMMA NextFrame ==
  ASSUME RunInv, NEW r \in Readers, reader[r].remaining > 0
  PROVE  /\ Whole(reader[r].offset)
         /\ Len(reader[r].got) < Len(accepted)
         /\ FrameAt(reader[r].offset) = FrameOf(accepted[Len(reader[r].got) + 1])
         /\ \A s \in [1 .. Len(accepted) + 1 -> Nat] : Layout(s) /\ Places(s) =>
              After(reader[r].offset) = s[Len(reader[r].got) + 2]
<1> DEFINE m == Len(reader[r].got)
<1>1. /\ m \in Nat /\ reader[r].remaining \in Nat /\ Len(accepted) \in Nat
      /\ accepted \in Seq(Rows)
  BY DEF RunInv, TypeOK
<1>2. m < Len(accepted) /\ m + 1 \in 1 .. Len(accepted)
  BY <1>1 DEF RunInv, ReaderInv
<1>3. accepted[m + 1] \in Rows /\ accepted[m + 1].len <= MaxLen
  BY <1>1, <1>2 DEF RunInv, WriterInv
<1>4. ASSUME NEW s \in [1 .. Len(accepted) + 1 -> Nat], Layout(s), Places(s)
      PROVE  /\ Whole(reader[r].offset)
             /\ FrameAt(reader[r].offset) = FrameOf(accepted[m + 1])
             /\ After(reader[r].offset) = s[m + 2]
  <2>1. reader[r].offset = s[m + 1] /\ s[m + 1] \in Nat
    BY <1>1, <1>2, <1>4 DEF Places
  <2>2. /\ s[m + 2] = s[m + 1] + 2 + accepted[m + 1].len
        /\ s[m + 2] <= Len(cells)
        /\ Holds(s[m + 1], FrameOf(accepted[m + 1]))
    BY <1>1, <1>2, <1>4 DEF Layout, Packed
  <2> QED
    BY <1>3, <2>1, <2>2, FrameRead DEF RunInv
<1> QED
  BY <1>2, <1>4 DEF RunInv, FileInv

(***************************************************************************)
(* The initial state, and the steps.                                       *)
(***************************************************************************)
\* A file that does not exist holds no row (run.rs:50-83).
LEMMA InitInv == Init => RunInv
<1> SUFFICES ASSUME Init PROVE RunInv
  OBVIOUS
<1>1. TypeOK
  BY BoundsAssumption DEF Init, TypeOK
<1>2. WriterInv /\ ReaderInv
  BY BoundsAssumption DEF Init, WriterInv, ReaderInv
<1>3. FileInv
  <2> DEFINE s == [i \in 1 .. Len(accepted) + 1 |-> 0]
  <2>1. s \in [1 .. Len(accepted) + 1 -> Nat] /\ Len(accepted) = 0 /\ s[1] = 0
    BY DEF Init
  <2>2. accepted = <<>> /\ cells = <<>> /\ wpc = "none"
    BY DEF Init
  <2>3. \A r \in Readers : Len(reader[r].got) + 1 = 1 /\ reader[r].offset = 0
    <3>1. \A r \in Readers : reader[r].got = <<>> /\ reader[r].offset = 0
      BY DEF Init
    <3>2. Len(<<>>) + 1 = 1
      OBVIOUS
    <3> QED
      BY <3>1, <3>2
  <2> HIDE DEF s
  <2>4. Packed(s)
    BY <2>1 DEF Packed
  <2>5. Ends(s)
    BY <2>1, <2>2 DEF Ends
  <2>6. Places(s)
    BY <2>1, <2>3 DEF Places
  <2> QED
    BY <2>1, <2>4, <2>5, <2>6 DEF FileInv, Layout
<1> QED
  BY <1>1, <1>2, <1>3 DEF RunInv

\* What leaves rows and cells alone, and starts no row, leaves the file in order
\* (run.rs:85-116).
LEMMA FileKept ==
  ASSUME RunInv, UNCHANGED <<cells, accepted, reader>>,
         wpc' \in {"none", "ready"} => wpc \in {"none", "ready"},
         wpc' = "writing" => wpc = "writing" /\ UNCHANGED <<row, job>>
  PROVE  FileInv'
<1>1. PICK s \in [1 .. Len(accepted) + 1 -> Nat] : Layout(s) /\ Places(s)
  BY DEF RunInv, FileInv
<1>2. Layout(s)'
  <2>1. Packed(s)'
    BY <1>1 DEF Layout, Packed, Holds, FrameOf
  <2>2. Ends(s)'
    BY <1>1 DEF Layout, Ends, FrameOf
  <2> QED
    BY <2>1, <2>2 DEF Layout
<1>3. Places(s)'
  BY <1>1 DEF Places
<1> QED
  BY <1>1, <1>2, <1>3 DEF FileInv

\* A reader that starts, or takes another row, moves along the same file
\* (run.rs:160-231).
LEMMA ReaderMoves ==
  ASSUME RunInv, UNCHANGED writerVars, NEW r \in Readers, NEW v,
         reader' = [reader EXCEPT ![r] = v],
         v \in [kind : {"none", "run", "cursor"}, offset : Nat,
                remaining : Nat, got : Seq(Seq(Nat))],
         v.kind = "none" => v.got = <<>> /\ v.remaining = 0,
         Len(v.got) + v.remaining <= Len(accepted),
         \A i \in 1 .. Len(v.got) : v.got[i] = FrameOf(accepted[i]),
         v.kind = "run" => /\ wpc = "finished"
                           /\ Len(v.got) + v.remaining = Len(accepted),
         \A s \in [1 .. Len(accepted) + 1 -> Nat] : Layout(s) /\ Places(s) =>
           v.offset = s[Len(v.got) + 1]
  PROVE  RunInv'
<1>1. \A c \in Readers : reader'[c] = IF c = r THEN v ELSE reader[c]
  BY DEF RunInv, TypeOK
<1>2. TypeOK'
  BY DEF RunInv, TypeOK, writerVars, Rows, NoRow
<1>3. WriterInv'
  BY DEF RunInv, WriterInv, writerVars
<1>4. ReaderInv'
  BY <1>1 DEF RunInv, ReaderInv, writerVars, FrameOf
<1>5. FileInv'
  <2>1. PICK s \in [1 .. Len(accepted) + 1 -> Nat] : Layout(s) /\ Places(s)
    BY DEF RunInv, FileInv
  <2>2. Layout(s)'
    <3>1. Packed(s)'
      BY <2>1 DEF Layout, Packed, Holds, FrameOf, writerVars
    <3>2. Ends(s)'
      BY <2>1 DEF Layout, Ends, FrameOf, writerVars
    <3> QED
      BY <3>1, <3>2 DEF Layout
  <2>3. v.offset = s[Len(v.got) + 1]
    BY <2>1
  <2>4. Places(s)'
    <3>1. \A c \in Readers : reader'[c].offset = s[Len(reader'[c].got) + 1]
      BY <1>1, <2>1, <2>3 DEF Places
    <3> QED
      BY <3>1 DEF Places
  <2> QED
    BY <2>1, <2>2, <2>4 DEF FileInv, writerVars
<1> QED
  BY <1>2, <1>3, <1>4, <1>5 DEF RunInv

\* write_row hands its operation a frame that belongs behind the last row
\* (run.rs:85-92, codec.rs:52-66).
LEMMA BeginRowKeeps == ASSUME RunInv, BeginRow PROVE RunInv'
<1>1. CASE wpc' = "dead" /\ UNCHANGED <<row, job>>
  <2>1. TypeOK' /\ WriterInv' /\ ReaderInv'
    BY <1>1 DEF RunInv, BeginRow, TypeOK, WriterInv, ReaderInv, FrameOf, Rows
  <2>2. FileInv'
    BY <1>1, FileKept DEF BeginRow
  <2> QED
    BY <2>1, <2>2 DEF RunInv
<1>2. CASE wpc' # "dead"
  <2>1. PICK size \in Sizes, weight \in Weights :
          /\ size <= MaxLen
          /\ row' = [id |-> Len(accepted) + 1, len |-> size, weight |-> weight]
          /\ job' = Frame(row', size)
          /\ wpc' = "writing"
    BY <1>2 DEF BeginRow, Encoded
  <2>2. /\ wpc = "ready" /\ Len(accepted) < MaxRows
        /\ UNCHANGED <<header, cells, accepted, reader>>
    BY DEF BeginRow
  <2>3. row' \in Rows /\ row'.len = size /\ job' = FrameOf(row')
    <3>1. Len(accepted) + 1 \in 1 .. MaxRows
      BY <2>2, BoundsAssumption DEF RunInv, TypeOK
    <3> QED
      BY <2>1, <3>1 DEF Rows, FrameOf
  <2>4. job' \in Seq(Nat) /\ Len(job') = 2 + size /\ size \in Nat
    BY <2>1, <2>3, FrameFacts
  <2>5. TypeOK'
    BY <2>1, <2>2, <2>3, <2>4 DEF RunInv, TypeOK
  <2>6. WriterInv'
    BY <2>1, <2>2, <2>3 DEF RunInv, WriterInv
  <2>7. ReaderInv'
    BY <2>1, <2>2 DEF RunInv, ReaderInv, FrameOf
  <2>8. FileInv'
    <3>1. PICK s \in [1 .. Len(accepted) + 1 -> Nat] : Layout(s) /\ Places(s)
      BY DEF RunInv, FileInv
    <3>2. Len(cells) = s[Len(accepted) + 1] /\ Len(cells) \in Nat
      BY <2>2, <3>1 DEF Layout, Ends, RunInv, TypeOK
    <3>3. Layout(s)'
      <4>1. \A k \in 1 .. Len(job') :
              job'[k] = FrameOf(row')[Len(cells) - s[Len(accepted) + 1] + k]
        BY <2>3, <2>4, <3>2
      <4>2. Packed(s)'
        BY <2>2, <3>1 DEF Layout, Packed, Holds, FrameOf
      <4>3. \A k \in 1 .. Len(cells) - s[Len(accepted) + 1] : FALSE
        BY <3>2
      <4>4. Ends(s)'
        <5>1. /\ Len(cells') = Len(cells) /\ Len(accepted') = Len(accepted)
              /\ Len(cells) + Len(job') = Len(cells) + 2 + row'.len
          BY <2>2, <2>3, <2>4, <3>2
        <5> QED
          BY <2>1, <3>2, <4>1, <4>3, <5>1 DEF Ends
      <4> QED
        BY <4>2, <4>4 DEF Layout
    <3>4. Places(s)'
      BY <2>2, <3>1 DEF Places
    <3> QED
      BY <2>2, <3>1, <3>3, <3>4 DEF FileInv
  <2> QED
    BY <2>5, <2>6, <2>7, <2>8 DEF RunInv
<1> QED
  BY <1>1, <1>2 DEF BeginRow

\* What is there of a frame grows by a cell, and what is to come shrinks, with
\* or without a writer (run.rs:88-94).
LEMMA WriteCellKeeps == ASSUME RunInv, WriteCell PROVE RunInv'
<1>1. /\ job # <<>> /\ cells' = Append(cells, Head(job)) /\ job' = Tail(job)
      /\ UNCHANGED <<header, wpc, row, accepted, reader>>
  BY DEF WriteCell
<1>2. /\ cells \in Seq(Nat) /\ job \in Seq(Nat) /\ accepted \in Seq(Rows)
      /\ Len(accepted) \in Nat /\ Len(cells) \in Nat
  BY DEF RunInv, TypeOK
<1>3. /\ Head(job) \in Nat /\ Head(job) = job[1] /\ Len(job) \in Nat \ {0}
      /\ Tail(job) \in Seq(Nat) /\ Len(job') = Len(job) - 1
      /\ \A k \in 1 .. Len(job') : job'[k] = job[k + 1]
  BY <1>1, <1>2, HeadTailProperties
<1>4. /\ cells' \in Seq(Nat) /\ Len(cells') = Len(cells) + 1
      /\ cells'[Len(cells) + 1] = job[1]
      /\ \A k \in 1 .. Len(cells) : cells'[k] = cells[k]
  BY <1>1, <1>2, <1>3
<1>5. TypeOK'
  BY <1>1, <1>3, <1>4 DEF RunInv, TypeOK, Rows, NoRow
<1>6. WriterInv' /\ ReaderInv'
  BY <1>1 DEF RunInv, WriterInv, ReaderInv, FrameOf
<1>7. FileInv'
  <2>1. PICK s \in [1 .. Len(accepted) + 1 -> Nat] : Layout(s) /\ Places(s)
    BY DEF RunInv, FileInv
  <2>2. Packed(s)'
    <3>1. s[1] = 0
      BY <2>1 DEF Layout, Packed
    <3>2. ASSUME NEW i \in 1 .. Len(accepted)
          PROVE  /\ s[i + 1] = s[i] + 2 + accepted[i].len
                 /\ s[i + 1] <= Len(cells')
                 /\ \A k \in 1 .. Len(FrameOf(accepted[i])) :
                      cells'[s[i] + k] = FrameOf(accepted[i])[k]
      <4>1. /\ s[i + 1] = s[i] + 2 + accepted[i].len
            /\ s[i + 1] <= Len(cells)
            /\ \A k \in 1 .. Len(FrameOf(accepted[i])) :
                 cells[s[i] + k] = FrameOf(accepted[i])[k]
        BY <2>1 DEF Layout, Packed, Holds
      <4>2. Len(FrameOf(accepted[i])) = 2 + accepted[i].len
              /\ accepted[i].len \in Nat
        BY <1>2, FrameFacts DEF RunInv, WriterInv
      <4>3. s[i] \in Nat /\ s[i + 1] \in Nat
        <5>1. i \in 1 .. Len(accepted) + 1 /\ i + 1 \in 1 .. Len(accepted) + 1
          BY <1>2
        <5> QED
          BY <5>1
      <4>4. s[i] + (2 + accepted[i].len) <= Len(cells)
        BY <4>1, <4>2, <4>3, SMTT(60)
      <4>5. \A k \in 1 .. 2 + accepted[i].len : s[i] + k \in 1 .. Len(cells)
        <5>1. ASSUME NEW a \in Nat, NEW m \in Nat, NEW c \in Nat, a + m <= c
              PROVE  \A k \in 1 .. m : a + k \in 1 .. c
          BY <5>1
        <5>2. 2 + accepted[i].len \in Nat
          BY <4>2
        <5> QED
          BY <1>2, <4>3, <4>4, <5>1, <5>2
      <4>6. \A k \in 1 .. Len(FrameOf(accepted[i])) :
              cells'[s[i] + k] = FrameOf(accepted[i])[k]
        BY <1>4, <4>1, <4>2, <4>5
      <4>7. s[i + 1] <= Len(cells')
        BY <1>2, <1>4, <4>1, <4>3
      <4> QED
        BY <4>1, <4>6, <4>7
    <3> QED
      BY <1>1, <3>1, <3>2 DEF Packed, Holds
  <2>3. Ends(s)'
    <3>1. wpc \notin {"none", "ready"}
      BY <1>1 DEF RunInv, WriterInv
    <3> DEFINE end == s[Len(accepted) + 1]
    <3>2. end \in Nat
      BY <1>2
    <3>3. ASSUME wpc = "writing"
          PROVE  /\ end <= Len(cells')
                 /\ Len(cells') + Len(job') = end + 2 + row.len
                 /\ \A k \in 1 .. Len(cells') - end :
                      cells'[end + k] = FrameOf(row)[k]
                 /\ \A k \in 1 .. Len(job') :
                      job'[k] = FrameOf(row)[Len(cells') - end + k]
      <4>1. /\ end <= Len(cells)
            /\ Len(cells) + Len(job) = end + 2 + row.len
            /\ \A k \in 1 .. Len(cells) - end :
                 cells[end + k] = FrameOf(row)[k]
            /\ \A k \in 1 .. Len(job) :
                 job[k] = FrameOf(row)[Len(cells) - end + k]
        BY <2>1, <3>3 DEF Layout, Ends
      <4>2. row.len \in Nat
        BY <3>3, FrameFacts DEF RunInv, WriterInv
      <4> HIDE DEF end
      <4>3. end <= Len(cells') /\ Len(cells') + Len(job') = end + 2 + row.len
        BY <1>2, <1>3, <1>4, <3>2, <4>1, <4>2
      <4>4. ASSUME NEW k \in 1 .. Len(cells') - end
            PROVE  cells'[end + k] = FrameOf(row)[k]
        <5>1. CASE k \in 1 .. Len(cells) - end
          <6>1. end + k \in 1 .. Len(cells)
            BY <1>2, <3>2, <4>1, <5>1
          <6> QED
            BY <1>4, <4>1, <5>1, <6>1
        <5>2. CASE k = Len(cells) - end + 1
          <6>1. end + k = Len(cells) + 1
            BY <1>2, <3>2, <5>2
          <6>2. job[1] = FrameOf(row)[Len(cells) - end + 1]
            BY <1>3, <4>1
          <6>3. cells'[end + k] = job[1]
            BY <1>4, <6>1
          <6> QED
            BY <5>2, <6>2, <6>3
        <5>3. k \in 1 .. Len(cells) + 1 - end
          BY <1>2, <1>4, <3>2, <4>4
        <5>4. k \in 1 .. Len(cells) - end \/ k = Len(cells) - end + 1
          BY <1>2, <3>2, <4>1, <5>3
        <5> QED
          BY <5>1, <5>2, <5>4
      <4>5. ASSUME NEW k \in 1 .. Len(job')
            PROVE  job'[k] = FrameOf(row)[Len(cells') - end + k]
        <5>1. k + 1 \in 1 .. Len(job)
          BY <1>3, <4>5
        <5>2. Len(cells') - end + k = Len(cells) - end + (k + 1)
          BY <1>2, <1>4, <3>2
        <5> QED
          BY <1>3, <4>1, <5>1, <5>2
      <4> QED
        BY <4>3, <4>4, <4>5
    <3> QED
      BY <1>1, <3>1, <3>3 DEF Ends
  <2>4. Places(s)'
    BY <1>1, <2>1 DEF Places
  <2> QED
    BY <1>1, <2>1, <2>2, <2>3, <2>4 DEF FileInv, Layout
<1> QED
  BY <1>5, <1>6, <1>7 DEF RunInv

\* A row that counts has all of its frame in the file (run.rs:94).
LEMMA RowWrittenKeeps == ASSUME RunInv, RowWritten PROVE RunInv'
<1> DEFINE n == Len(accepted)
<1>1. /\ wpc = "writing" /\ job = <<>> /\ accepted' = Append(accepted, row)
      /\ wpc' = "ready" /\ UNCHANGED <<header, cells, row, job, reader>>
  BY DEF RowWritten
<1>2. /\ accepted \in Seq(Rows) /\ n \in Nat /\ cells \in Seq(Nat)
      /\ Len(cells) \in Nat /\ row \in Rows /\ row.len <= MaxLen
      /\ n < MaxRows
  BY <1>1 DEF RunInv, TypeOK, WriterInv
<1>3. /\ accepted' \in Seq(Rows) /\ Len(accepted') = n + 1
      /\ accepted'[n + 1] = row
      /\ \A i \in 1 .. n : accepted'[i] = accepted[i]
  BY <1>1, <1>2
<1>4. TypeOK'
  BY <1>1, <1>3 DEF RunInv, TypeOK, Rows, NoRow
<1>5. WriterInv'
  <2>1. \A i \in 1 .. n + 1 : accepted'[i].len <= MaxLen
    BY <1>2, <1>3 DEF RunInv, WriterInv
  <2> QED
    BY <1>1, <1>2, <1>3, <2>1, BoundsAssumption DEF RunInv, WriterInv
<1>6. ReaderInv'
  <2> SUFFICES ASSUME NEW r \in Readers PROVE ReaderInv!(r)'
    BY DEF ReaderInv
  <2>1. /\ Len(reader[r].got) \in Nat /\ reader[r].remaining \in Nat
        /\ Len(reader[r].got) + reader[r].remaining <= n
        /\ reader[r].kind # "run"
    BY <1>1 DEF RunInv, TypeOK, ReaderInv
  <2>2. \A i \in 1 .. Len(reader[r].got) :
          reader[r].got[i] = FrameOf(accepted'[i])
    BY <1>2, <1>3, <2>1 DEF RunInv, ReaderInv
  <2> QED
    BY <1>1, <1>2, <1>3, <2>1, <2>2 DEF RunInv, ReaderInv
<1>7. FileInv'
  <2>1. PICK s \in [1 .. n + 1 -> Nat] : Layout(s) /\ Places(s)
    BY DEF RunInv, FileInv
  <2>2. /\ Len(FrameOf(row)) = 2 + row.len /\ row.len \in Nat
    BY <1>2, FrameFacts
  <2>3. /\ Len(cells) = s[n + 1] + 2 + row.len /\ s[n + 1] \in Nat
        /\ \A k \in 1 .. Len(FrameOf(row)) :
             cells[s[n + 1] + k] = FrameOf(row)[k]
    BY <1>1, <1>2, <2>1, <2>2, SMTT(60) DEF Layout, Ends
  <2>4. PICK t \in [1 .. n + 2 -> Nat] : /\ \A i \in 1 .. n + 1 : t[i] = s[i]
                                       /\ t[n + 2] = Len(cells)
    <3> DEFINE u == [i \in 1 .. n + 2 |-> IF i <= n + 1 THEN s[i] ELSE Len(cells)]
    <3>1. /\ u \in [1 .. n + 2 -> Nat]
          /\ \A i \in 1 .. n + 1 : u[i] = s[i]
          /\ u[n + 2] = Len(cells)
      BY <1>2
    <3> HIDE DEF u
    <3> QED
      BY <3>1
  <2>5. Packed(t)'
    <3>1. t[1] = 0
      BY <1>2, <2>1, <2>4 DEF Layout, Packed
    <3>2. ASSUME NEW i \in 1 .. n
          PROVE  /\ t[i + 1] = t[i] + 2 + accepted'[i].len
                 /\ t[i + 1] <= Len(cells)
                 /\ Holds(t[i], FrameOf(accepted'[i]))
      <4>1. i \in 1 .. n + 1 /\ i + 1 \in 1 .. n + 1
        BY <1>2
      <4> QED
        BY <1>3, <2>1, <2>4, <4>1 DEF Layout, Packed
    <3>3. /\ t[n + 2] = t[n + 1] + 2 + accepted'[n + 1].len
          /\ t[n + 2] <= Len(cells)
          /\ Holds(t[n + 1], FrameOf(accepted'[n + 1]))
      <4>1. n + 1 \in 1 .. n + 1
        BY <1>2
      <4>2. t[n + 1] = s[n + 1]
        BY <2>4, <4>1
      <4>3. Len(cells) <= Len(cells)
        BY <1>2
      <4> QED
        BY <1>3, <2>3, <2>4, <4>2, <4>3 DEF Holds
    <3>4. \A i \in 1 .. n + 1 : i \in 1 .. n \/ i = n + 1
      BY <1>2
    <3>5. (n + 1) + 1 = n + 2
      BY <1>2
    <3>6. \A i \in 1 .. n + 1 :
            /\ t[i + 1] = t[i] + 2 + accepted'[i].len
            /\ t[i + 1] <= Len(cells)
            /\ Holds(t[i], FrameOf(accepted'[i]))
      BY <3>2, <3>3, <3>4, <3>5
    <3> QED
      BY <1>1, <1>3, <3>1, <3>6 DEF Packed, Holds
  <2>6. Ends(t)'
    <3>1. (n + 1) + 1 = n + 2
      BY <1>2
    <3> QED
      BY <1>1, <1>3, <2>4, <3>1 DEF Ends
  <2>7. Places(t)'
    <3>1. ASSUME NEW r \in Readers
          PROVE  reader[r].offset = t[Len(reader[r].got) + 1]
      <4>1. Len(reader[r].got) + 1 \in 1 .. n + 1
        BY <1>2 DEF RunInv, TypeOK, ReaderInv
      <4> QED
        BY <2>1, <2>4, <4>1 DEF Places
    <3> QED
      BY <1>1, <3>1 DEF Places
  <2>8. Len(accepted') + 1 = n + 2
    BY <1>2, <1>3
  <2> QED
    BY <2>5, <2>6, <2>7, <2>8 DEF FileInv, Layout
<1> QED
  BY <1>4, <1>5, <1>6, <1>7 DEF RunInv

\* Every step of the writer, of the operations it left behind, and of the
\* readers keeps the invariant (run.rs:50-231).
LEMMA NextInv == RunInv /\ [Next]_vars => RunInv'
<1> SUFFICES ASSUME RunInv, [Next]_vars PROVE RunInv'
  OBVIOUS
<1>1. CASE Create
  <2>1. TypeOK' /\ WriterInv' /\ ReaderInv'
    BY <1>1
    DEF Create, RunInv, TypeOK, WriterInv, ReaderInv, Rows, NoRow
  <2>2. FileInv'
    BY <1>1, FileKept DEF Create
  <2> QED
    BY <2>1, <2>2 DEF RunInv
<1>2. CASE BeginRow
  BY <1>2, BeginRowKeeps
<1>3. CASE WriteCell
  BY <1>3, WriteCellKeeps
<1>4. CASE WriteFails
  <2>1. TypeOK' /\ WriterInv' /\ ReaderInv'
    BY <1>4
    DEF WriteFails, RunInv, TypeOK, WriterInv, ReaderInv, Rows, NoRow
  <2>2. FileInv'
    BY <1>4, FileKept DEF WriteFails
  <2> QED
    BY <2>1, <2>2 DEF RunInv
<1>5. CASE RowWritten
  BY <1>5, RowWrittenKeeps
<1>6. CASE Finish
  <2>1. TypeOK' /\ WriterInv' /\ ReaderInv'
    BY <1>6
    DEF Finish, RunInv, TypeOK, WriterInv, ReaderInv, Rows, NoRow
  <2>2. FileInv'
    BY <1>6, FileKept DEF Finish
  <2> QED
    BY <2>1, <2>2 DEF RunInv
<1>7. CASE WriteHeader
  <2>1. Len(accepted) \in 0 .. MaxRows
    BY BoundsAssumption DEF RunInv, TypeOK, WriterInv
  <2>2. TypeOK' /\ WriterInv' /\ ReaderInv'
    BY <1>7, <2>1
    DEF WriteHeader, RunInv, TypeOK, WriterInv, ReaderInv, Rows, NoRow
  <2>3. FileInv'
    BY <1>7, FileKept DEF WriteHeader
  <2> QED
    BY <2>2, <2>3 DEF RunInv
<1>8. CASE DropWriter
  <2>1. TypeOK' /\ WriterInv' /\ ReaderInv'
    BY <1>8
    DEF DropWriter, RunInv, TypeOK, WriterInv, ReaderInv, Rows, NoRow
  <2>2. FileInv'
    BY <1>8, FileKept DEF DropWriter
  <2> QED
    BY <2>1, <2>2 DEF RunInv
<1>9. ASSUME NEW r \in Readers, Open(r) PROVE RunInv'
  <2> DEFINE v == [reader[r] EXCEPT !.kind = "run", !.remaining = header]
  <2>1. reader' = [reader EXCEPT ![r] = v] /\ UNCHANGED writerVars
    BY <1>9 DEF Open, RunInv, TypeOK
  <2>2. /\ v.kind = "run" /\ v.remaining = Len(accepted) /\ wpc = "finished"
        /\ v.offset = reader[r].offset /\ v.got = reader[r].got
        /\ reader[r].got = <<>> /\ header \in Nat
    BY <1>9, BoundsAssumption
    DEF Open, RunInv, TypeOK, WriterInv, ReaderInv
  <2>3. v \in [kind : {"none", "run", "cursor"}, offset : Nat,
               remaining : Nat, got : Seq(Seq(Nat))]
    BY <2>2 DEF RunInv, TypeOK
  <2> HIDE DEF v
  <2>4. Len(v.got) = 0 /\ Len(v.got) + v.remaining = Len(accepted)
    BY <2>2 DEF RunInv, TypeOK
  <2>5. \A s \in [1 .. Len(accepted) + 1 -> Nat] : Layout(s) /\ Places(s) =>
          v.offset = s[Len(v.got) + 1]
    BY <2>2 DEF Places
  <2>6. Len(v.got) + v.remaining <= Len(accepted)
    BY <2>4 DEF RunInv, TypeOK
  <2>7. v.kind # "none" /\ 1 .. Len(v.got) = {}
    BY <2>2, <2>4
  <2> QED
    BY <2>1, <2>2, <2>3, <2>4, <2>5, <2>6, <2>7, ReaderMoves
<1>10. ASSUME NEW r \in Readers, NewCursor(r) PROVE RunInv'
  <2>1. CASE reader' = [reader EXCEPT ![r].kind = "cursor"]
    <3> DEFINE v == [reader[r] EXCEPT !.kind = "cursor"]
    <3>1. reader' = [reader EXCEPT ![r] = v] /\ UNCHANGED writerVars
      BY <1>10, <2>1 DEF NewCursor, RunInv, TypeOK
    <3>2. /\ v.kind = "cursor" /\ v.remaining = reader[r].remaining
          /\ v.offset = reader[r].offset /\ v.got = reader[r].got
          /\ v \in [kind : {"none", "run", "cursor"}, offset : Nat,
                    remaining : Nat, got : Seq(Seq(Nat))]
      BY DEF RunInv, TypeOK
    <3> HIDE DEF v
    <3>3. /\ Len(v.got) + v.remaining <= Len(accepted)
          /\ \A i \in 1 .. Len(v.got) : v.got[i] = FrameOf(accepted[i])
      BY <3>2 DEF RunInv, ReaderInv
    <3>4. \A s \in [1 .. Len(accepted) + 1 -> Nat] : Layout(s) /\ Places(s) =>
            v.offset = s[Len(v.got) + 1]
      BY <3>2 DEF Places
    <3> QED
      BY <3>1, <3>2, <3>3, <3>4, ReaderMoves
  <2>2. ASSUME NEW c \in Readers, reader[c].kind = "cursor",
               reader' = [reader EXCEPT ![r] = reader[c]]
        PROVE  RunInv'
    <3>1. UNCHANGED writerVars
      BY <1>10 DEF NewCursor
    <3>2. reader[c] \in [kind : {"none", "run", "cursor"}, offset : Nat,
                         remaining : Nat, got : Seq(Seq(Nat))]
      BY DEF RunInv, TypeOK
    <3>3. /\ Len(reader[c].got) + reader[c].remaining <= Len(accepted)
          /\ \A i \in 1 .. Len(reader[c].got) :
               reader[c].got[i] = FrameOf(accepted[i])
      BY DEF RunInv, ReaderInv
    <3>4. \A s \in [1 .. Len(accepted) + 1 -> Nat] : Layout(s) /\ Places(s) =>
            reader[c].offset = s[Len(reader[c].got) + 1]
      BY DEF Places
    <3> QED
      BY <2>2, <3>1, <3>2, <3>3, <3>4, ReaderMoves
  <2> QED
    BY <1>10, <2>1, <2>2 DEF NewCursor
<1>11. ASSUME NEW r \in Readers, Continue(r) PROVE RunInv'
  <2> DEFINE m == Len(accepted) - Len(reader[r].got)
             v == [reader[r] EXCEPT !.remaining = m]
  <2>1. reader' = [reader EXCEPT ![r] = v] /\ UNCHANGED writerVars
    BY <1>11 DEF Continue, RunInv, TypeOK
  <2>2. /\ m \in Nat /\ Len(reader[r].got) + m = Len(accepted)
        /\ reader[r].kind = "cursor"
    BY <1>11 DEF Continue, RunInv, TypeOK, ReaderInv
  <2> HIDE DEF m
  <2>3. /\ v.kind = "cursor" /\ v.remaining = m
        /\ v.offset = reader[r].offset /\ v.got = reader[r].got
        /\ v \in [kind : {"none", "run", "cursor"}, offset : Nat,
                  remaining : Nat, got : Seq(Seq(Nat))]
    BY <2>2 DEF RunInv, TypeOK
  <2> HIDE DEF v
  <2>4. /\ Len(v.got) + v.remaining <= Len(accepted)
        /\ \A i \in 1 .. Len(v.got) : v.got[i] = FrameOf(accepted[i])
    BY <2>2, <2>3 DEF RunInv, TypeOK, ReaderInv
  <2>5. \A s \in [1 .. Len(accepted) + 1 -> Nat] : Layout(s) /\ Places(s) =>
          v.offset = s[Len(v.got) + 1]
    BY <2>3 DEF Places
  <2> QED
    BY <2>1, <2>3, <2>4, <2>5, ReaderMoves
<1>12. ASSUME NEW r \in Readers, NextRow(r) PROVE RunInv'
  <2> DEFINE m == Len(reader[r].got)
             f == FrameAt(reader[r].offset)
             g == Append(reader[r].got, f)
             v == [kind |-> reader[r].kind, offset |-> After(reader[r].offset),
                   remaining |-> reader[r].remaining - 1, got |-> g]
  <2>1. reader' = [reader EXCEPT ![r] = v] /\ UNCHANGED writerVars
    BY <1>12 DEF NextRow, RunInv, TypeOK
  <2>2. reader[r].remaining > 0
    BY <1>12 DEF NextRow
  <2>3. /\ m \in Nat /\ reader[r].remaining \in Nat /\ Len(accepted) \in Nat
        /\ accepted \in Seq(Rows) /\ reader[r].got \in Seq(Seq(Nat))
        /\ reader[r].kind \in {"none", "run", "cursor"}
    BY DEF RunInv, TypeOK
  <2>4. /\ m < Len(accepted) /\ f = FrameOf(accepted[m + 1])
        /\ \A s \in [1 .. Len(accepted) + 1 -> Nat] : Layout(s) /\ Places(s) =>
             After(reader[r].offset) = s[m + 2]
    BY <2>2, NextFrame
  <2>5. f \in Seq(Nat)
    <3>1. m + 1 \in 1 .. Len(accepted)
      BY <2>3, <2>4
    <3>2. accepted[m + 1] \in Rows /\ accepted[m + 1].len <= MaxLen
      BY <2>3, <3>1 DEF RunInv, WriterInv
    <3> QED
      BY <2>4, <3>2, FrameFacts
  <2>6. After(reader[r].offset) \in Nat
    <3>1. PICK s \in [1 .. Len(accepted) + 1 -> Nat] : Layout(s) /\ Places(s)
      BY DEF RunInv, FileInv
    <3>2. m + 2 \in 1 .. Len(accepted) + 1
      BY <2>3, <2>4
    <3> QED
      BY <2>4, <3>1, <3>2
  <2> HIDE DEF f
  <2>7. /\ g \in Seq(Seq(Nat)) /\ Len(g) = m + 1 /\ g[m + 1] = f
        /\ \A i \in 1 .. m : g[i] = reader[r].got[i]
    BY <2>3, <2>5
  <2> HIDE DEF g
  <2>8. /\ v.kind = reader[r].kind /\ v.remaining = reader[r].remaining - 1
        /\ v.offset = After(reader[r].offset) /\ v.got = g
        /\ v \in [kind : {"none", "run", "cursor"}, offset : Nat,
                  remaining : Nat, got : Seq(Seq(Nat))]
    <3>1. reader[r].remaining - 1 \in Nat
      BY <2>2, <2>3
    <3> QED
      BY <2>3, <2>6, <2>7, <3>1
  <2> HIDE DEF v
  <2>9. /\ reader[r].kind # "none"
        /\ Len(v.got) + v.remaining = m + reader[r].remaining
    <3>1. reader[r].kind # "none"
      BY <2>2, <2>3 DEF RunInv, ReaderInv
    <3>2. Len(v.got) = m + 1
      BY <2>7, <2>8
    <3>3. v.remaining = reader[r].remaining - 1
      BY <2>8
    <3> HIDE DEF m
    <3>4. m + 1 + (reader[r].remaining - 1) = m + reader[r].remaining
      <4>1. ASSUME NEW a \in Nat, NEW b \in Nat PROVE a + 1 + (b - 1) = a + b
        OBVIOUS
      <4>2. m \in Nat /\ reader[r].remaining \in Nat
        BY <2>3
      <4> QED
        BY <4>1, <4>2
    <3> QED
      BY <3>1, <3>2, <3>3, <3>4
  <2>10. \A i \in 1 .. Len(v.got) : v.got[i] = FrameOf(accepted[i])
    <3>1. \A i \in 1 .. m : reader[r].got[i] = FrameOf(accepted[i])
      BY DEF RunInv, ReaderInv
    <3>2. \A i \in 1 .. m + 1 : i \in 1 .. m \/ i = m + 1
      BY <2>3
    <3> HIDE DEF m
    <3> QED
      BY <2>4, <2>7, <2>8, <3>1, <3>2
  <2>11. \A s \in [1 .. Len(accepted) + 1 -> Nat] : Layout(s) /\ Places(s) =>
           v.offset = s[Len(v.got) + 1]
    <3>1. (m + 1) + 1 = m + 2
      BY <2>3
    <3> HIDE DEF m
    <3> QED
      BY <2>4, <2>7, <2>8, <3>1
  <2>12. /\ m + reader[r].remaining <= Len(accepted)
         /\ reader[r].kind = "run" =>
              wpc = "finished" /\ m + reader[r].remaining = Len(accepted)
    BY DEF RunInv, ReaderInv
  <2> QED
    BY <2>1, <2>8, <2>9, <2>10, <2>11, <2>12, ReaderMoves
<1>13. CASE UNCHANGED vars
  <2>1. TypeOK' /\ WriterInv' /\ ReaderInv'
    BY <1>13
    DEF vars, writerVars, RunInv, TypeOK, WriterInv, ReaderInv, Rows, NoRow
  <2>2. FileInv'
    BY <1>13, FileKept DEF vars, writerVars
  <2> QED
    BY <2>1, <2>2 DEF RunInv
<1> QED
  BY <1>1, <1>2, <1>3, <1>4, <1>5, <1>6, <1>7, <1>8, <1>9, <1>10, <1>11,
     <1>12, <1>13
  DEF Next

(***************************************************************************)
(* The theorems.                                                           *)
(***************************************************************************)
\* Every reachable state satisfies the inductive invariant (run.rs:50-231).
LEMMA Invariance == Spec => []RunInv
BY InitInv, NextInv, PTL DEF Spec

\* Header, rows, positions and counts stay within their types (run.rs:50-231).
THEOREM RunTypes == Spec => []TypeOK
<1>1. RunInv => TypeOK
  BY DEF RunInv
<1> QED
  BY <1>1, Invariance, PTL

\* A reader gets the rows that were accepted, each with its own bytes and
\* weight, also from a file that is still being written or was left half
\* written (run.rs:85-94, 196-231, codec.rs:52-66).
THEOREM RowsAreExact == Spec => []RowsExact
<1>1. RunInv => RowsExact
  <2> SUFFICES ASSUME RunInv, NEW r \in Readers
               PROVE  /\ Len(reader[r].got) <= Len(accepted)
                      /\ \A i \in DOMAIN reader[r].got :
                           reader[r].got[i] = FrameOf(accepted[i])
    BY DEF RowsExact
  <2>1. /\ Len(reader[r].got) \in Nat /\ reader[r].remaining \in Nat
        /\ Len(accepted) \in Nat
        /\ DOMAIN reader[r].got = 1 .. Len(reader[r].got)
    BY DEF RunInv, TypeOK
  <2> QED
    BY <2>1 DEF RunInv, ReaderInv
<1> QED
  BY <1>1, Invariance, PTL

\* A reader that may take another row finds all of its frame in the file
\* (run.rs:94, 179-202).
THEOREM FramesAreWhole == Spec => []NoShortRead
<1>1. RunInv => NoShortRead
  BY NextFrame DEF NoShortRead
<1> QED
  BY <1>1, Invariance, PTL

\* The reader of a finished run ends after its last row (run.rs:98-116,
\* 184-186).
THEOREM RunsEndAtTheirEnd == Spec => []RunComplete
<1>1. RunInv => RunComplete
  BY DEF RunInv, ReaderInv, RunComplete
<1> QED
  BY <1>1, Invariance, PTL
=============================================================================
