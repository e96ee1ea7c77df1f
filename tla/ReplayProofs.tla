---------------------------- MODULE ReplayProofs ----------------------------
(***************************************************************************)
(* Proofs about module Replay, for every set of cursors and every bound.   *)
(* IInv is inductive (InitInv, NextInv); every safety property follows     *)
(* from it, and so do the refinements of ReplayLog and of ScratchScope.    *)
(***************************************************************************)
EXTENDS Replay, FiniteSetTheorems, TLAPS

USE DEF WriterPcs, CursorPcs, Owners, Log!Statuses, Log!Answers

\* Every fresh writer (ReplayWriter::new) satisfies the inductive invariant.
LEMMA InitInv == Init => IInv
<1> SUFFICES ASSUME Init PROVE IInv
  OBVIOUS
<1> USE DEF Init
<1>1. TypeOK
  BY DEF TypeOK
<1>2. WriterInv /\ ScratchInv
  BY DEF WriterInv, ScratchInv, Working
<1>3. CursorInv /\ WakeInv
  BY DEF CursorInv, WakeInv
<1>4. QED
  BY <1>1, <1>2, <1>3 DEF IInv

\* No step of writer, owners or cursors breaks the inductive invariant.
LEMMA NextInv == IInv /\ [Next]_vars => IInv'
<1> SUFFICES ASSUME IInv, [Next]_vars PROVE IInv'
  OBVIOUS
<1> USE DEF IInv, TypeOK, WriterInv, ScratchInv, CursorInv, WakeInv, Working
<1>1. CASE NotifyWaiters
  <2> USE <1>1 DEF NotifyWaiters, writerVars, scratchVars
  <2>1. TypeOK'
    OBVIOUS
  <2>2. WriterInv'
    OBVIOUS
  <2>3. ScratchInv'
    OBVIOUS
  <2>4. CursorInv'
    OBVIOUS
  <2>5. WakeInv'
    OBVIOUS
  <2>6. QED
    BY <2>1, <2>2, <2>3, <2>4, <2>5
<1>2. ASSUME NEW t \in {"append", "seal"}, Begin(t) PROVE IInv'
  BY <1>2 DEF Begin, WriterAt, pubVars, scratchVars, cursorVars
<1>3. CASE Prepared
  BY <1>3 DEF Prepared, WriterAt, pubVars, scratchVars, cursorVars
<1>4. CASE Arm
  BY <1>4 DEF Arm, WriterAt, pubVars, cursorVars
<1>5. CASE MakeDir
  BY <1>5 DEF MakeDir, WriterAt, pubVars, cursorVars
<1>6. CASE CreateFile
  BY <1>6 DEF CreateFile, WriterAt, pubVars, scratchVars, cursorVars
<1>7. CASE WriteFrame
  BY <1>7 DEF WriteFrame, WriterAt, pubVars, scratchVars, cursorVars
<1>8. CASE Publish
  <2> USE <1>8 DEF Publish, WriterAt, scratchVars, cursorVars
  <2>1. TypeOK'
    OBVIOUS
  <2>2. WriterInv'
    OBVIOUS
  <2>3. ScratchInv'
    OBVIOUS
  <2>4. CursorInv'
    OBVIOUS
  <2>5. WakeInv'
    OBVIOUS
  <2>6. QED
    BY <2>1, <2>2, <2>3, <2>4, <2>5
<1>9. CASE FinishFile
  BY <1>9 DEF FinishFile, WriterAt, pubVars, scratchVars, cursorVars
<1>10. CASE Seal
  <2> USE <1>10 DEF Seal, WriterAt, cursorVars
  <2>1. TypeOK'
    OBVIOUS
  <2>2. WriterInv'
    OBVIOUS
  <2>3. ScratchInv'
    OBVIOUS
  <2>4. CursorInv'
    OBVIOUS
  <2>5. WakeInv'
    OBVIOUS
  <2>6. QED
    BY <2>1, <2>2, <2>3, <2>4, <2>5
<1>11. CASE GiveUp
  <2> USE <1>11 DEF GiveUp, WriterAt, Fail, MayDetach, cursorVars
  <2>1. TypeOK'
    OBVIOUS
  <2>2. WriterInv'
    OBVIOUS
  <2>3. ScratchInv'
    OBVIOUS
  <2>4. CursorInv'
    OBVIOUS
  <2>5. WakeInv'
    OBVIOUS
  <2>6. QED
    BY <2>1, <2>2, <2>3, <2>4, <2>5
<1>12. CASE DropWriter
  BY <1>12 DEF DropWriter, WriterAt, Fail, cursorVars
<1>13. CASE Abort
  BY <1>13 DEF Abort, WriterAt, Fail, scratchVars, cursorVars
<1>14. CASE AbortReturns
  BY <1>14 DEF AbortReturns, WriterAt, pubVars, scratchVars, cursorVars
<1>15. CASE AbortRemoves
  BY <1>15 DEF AbortRemoves, WriterAt, ScopeIdle, pubVars, cursorVars
<1>16. CASE CloseInUse
  BY <1>16 DEF CloseInUse, pubVars, writerVars, cursorVars
<1>17. CASE Close
  BY <1>17 DEF Close, pubVars, writerVars, cursorVars
<1>18. CASE CloseRemoves
  BY <1>18 DEF CloseRemoves, ScopeIdle, pubVars, writerVars, cursorVars
<1>19. CASE DropReplay
  BY <1>19 DEF DropReplay, pubVars, writerVars, cursorVars
<1>20. CASE CancelCleanup
  BY <1>20 DEF CancelCleanup, pubVars, cursorVars
<1>21. CASE DeferredRemoves
  BY <1>21 DEF DeferredRemoves, ScopeIdle, pubVars, writerVars, cursorVars
<1>22. ASSUME NEW ok \in BOOLEAN, RemovalDone(ok) PROVE IInv'
  <2> USE <1>22 DEF RemovalDone, pubVars, cursorVars
  <2>1. TypeOK'
    OBVIOUS
  <2>2. WriterInv'
    OBVIOUS
  <2>3. ScratchInv'
    OBVIOUS
  <2>4. CursorInv'
    OBVIOUS
  <2>5. WakeInv'
    OBVIOUS
  <2>6. QED
    BY <2>1, <2>2, <2>3, <2>4, <2>5
<1>23. CASE DetachedDone
  BY <1>23 DEF DetachedDone, pubVars, writerVars, cursorVars
<1>24. ASSUME NEW c \in Cursors, PrefixCursor(c) PROVE IInv'
  BY <1>24 DEF PrefixCursor, WriterAt, Enrol, pubVars, writerVars, scratchVars
<1>25. ASSUME NEW c \in Cursors, SealedCursor(c) PROVE IInv'
  BY <1>25 DEF SealedCursor, Enrol, pubVars, writerVars, scratchVars
<1>26. ASSUME NEW c \in Cursors, NEW d \in Cursors, CloneCursor(c, d) PROVE IInv'
  BY <1>26 DEF CloneCursor, Enrol, pubVars, writerVars, scratchVars
<1>27. ASSUME NEW c \in Cursors, Rewind(c) PROVE IInv'
  BY <1>27 DEF Rewind, pubVars, writerVars, scratchVars
<1>28. ASSUME NEW c \in Cursors, DropCursor(c) PROVE IInv'
  BY <1>28 DEF DropCursor, pubVars, writerVars, scratchVars
<1>29. ASSUME NEW c \in Cursors, NEW b \in BOOLEAN, CallNext(c, b) PROVE IInv'
  BY <1>29 DEF CallNext, Return, pubVars, writerVars, scratchVars
<1>30. ASSUME NEW c \in Cursors, Enable(c) PROVE IInv'
  BY <1>30 DEF Enable, Step, pubVars, writerVars, scratchVars
<1>31. ASSUME NEW c \in Cursors, LoadState(c) PROVE IInv'
  BY <1>31, ZenonT(60) DEF LoadState, Step, pubVars, writerVars, scratchVars
<1>32. ASSUME NEW c \in Cursors, SourceFailed(c) PROVE IInv'
  BY <1>32 DEF SourceFailed, Step, Return, pubVars, writerVars, scratchVars
<1>33. ASSUME NEW c \in Cursors, LoadRows(c) PROVE IInv'
  <2> USE <1>33 DEF LoadRows, Step, Return, pubVars, writerVars, scratchVars
  <2>1. TypeOK'
    OBVIOUS
  <2>2. WriterInv'
    OBVIOUS
  <2>3. ScratchInv'
    OBVIOUS
  <2>4. CursorInv'
    OBVIOUS
  <2>5. WakeInv'
    OBVIOUS
  <2>6. QED
    BY <2>1, <2>2, <2>3, <2>4, <2>5
<1>34. ASSUME NEW c \in Cursors, ReadRow(c) PROVE IInv'
  BY <1>34 DEF ReadRow, Step, pubVars, writerVars, scratchVars
<1>35. ASSUME NEW c \in Cursors, ReadFails(c) PROVE IInv'
  BY <1>35 DEF ReadFails, Step, Return, pubVars, writerVars, scratchVars
<1>36. ASSUME NEW c \in Cursors, Recheck(c) PROVE IInv'
  <2> USE <1>36 DEF Recheck, Step, Return, pubVars, writerVars, scratchVars
  <2>1. TypeOK'
    OBVIOUS
  <2>2. WriterInv'
    OBVIOUS
  <2>3. ScratchInv'
    OBVIOUS
  <2>4. CursorInv'
    OBVIOUS
  <2>5. WakeInv'
    OBVIOUS
  <2>6. QED
    BY <2>1, <2>2, <2>3, <2>4, <2>5
<1>37. ASSUME NEW c \in Cursors, Wake(c) PROVE IInv'
  BY <1>37 DEF Wake, Step, pubVars, writerVars, scratchVars
<1>38. ASSUME NEW c \in Cursors, CancelCall(c) PROVE IInv'
  <2> USE <1>38 DEF CancelCall, MayDetach, Step, pubVars, writerVars
  <2>1. TypeOK'
    OBVIOUS
  <2>2. WriterInv'
    OBVIOUS
  <2>3. ScratchInv'
    OBVIOUS
  <2>4. CursorInv'
    OBVIOUS
  <2>5. WakeInv'
    OBVIOUS
  <2>6. QED
    BY <2>1, <2>2, <2>3, <2>4, <2>5
<1>39. CASE UNCHANGED vars
  BY <1>39 DEF vars, pubVars, writerVars, scratchVars, cursorVars
<1>40. QED
  BY ZenonT(60), <1>1, <1>2, <1>3, <1>4, <1>5, <1>6, <1>7, <1>8, <1>9,
         <1>10, <1>11, <1>12, <1>13, <1>14, <1>15, <1>16, <1>17, <1>18, <1>19,
         <1>20, <1>21, <1>22, <1>23, <1>24, <1>25, <1>26, <1>27, <1>28, <1>29,
         <1>30, <1>31, <1>32, <1>33, <1>34, <1>35, <1>36, <1>37, <1>38, <1>39
     DEF Next, WriterNext, OwnerNext, CursorNext, CallStep

\* The inductive invariant holds in every reachable state of every replay.
LEMMA Invariance == Spec => []IInv
<1>1. Init => IInv
  BY InitInv
<1>2. IInv /\ [Next]_vars => IInv'
  BY NextInv
<1>3. QED
  BY <1>1, <1>2, PTL DEF Spec

\* Type correctness: every variable of the replay keeps to its type; in
\* particular the count of operations in flight never goes below zero.
THEOREM TypeCorrect == Spec => []TypeOK
<1>1. IInv => TypeOK
  BY DEF IInv
<1>2. QED
  BY <1>1, Invariance, PTL

\* Exhausted (cursor.rs:67-70) is only ever returned at the last row that the
\* source committed, and stays true from then on.
THEOREM FinalEof == Spec => []ExhaustedIsFinal
<1>1. IInv => ExhaustedIsFinal
  BY DEF IInv, TypeOK, CursorInv, ExhaustedIsFinal
<1>2. QED
  BY <1>1, Invariance, PTL

\* A row that a cursor reads (cursor.rs:77-88) is complete and in the file of
\* an existing directory, until the cursor has answered.
THEOREM ReadableRows == Spec => []CommittedRowReadable
<1>1. IInv => CommittedRowReadable
  <2> SUFFICES ASSUME IInv,
                      NEW c \in Cursors, cpc[c] \in {"reading", "recheck"}
               PROVE  position[c] < rows /\ rows <= frames /\ scratch = "present"
    BY DEF CommittedRowReadable
  <2>1. position[c] < rows /\ rows <= frames /\ c \in alive
    BY DEF IInv, CursorInv, WriterInv
  <2>2. frames > 0
    BY <2>1 DEF IInv, TypeOK
  <2>3. scratch # "none" /\ scratch # "removed"
    BY <2>1, <2>2 DEF IInv, ScratchInv
  <2>4. QED
    BY <2>1, <2>3 DEF IInv, TypeOK
<1>2. QED
  BY <1>1, Invariance, PTL

\* Offset and position of a checkpoint never part, whatever was cloned,
\* rewound, refused or cancelled (cursor.rs:22-32, 52-55, 91-93).
THEOREM Checkpoints == Spec => []CheckpointConsistent
<1>1. IInv => CheckpointConsistent
  BY DEF IInv, TypeOK, CursorInv, CheckpointConsistent
<1>2. QED
  BY <1>1, Invariance, PTL

\* The assertion in AsyncCleanupGuard::retain (cleanup.rs:50-53) cannot fail
\* in a replay.
THEOREM RetainedOnce == Spec => []ArmedOnce
<1>1. IInv => ArmedOnce
  BY DEF IInv, WriterInv, ScratchInv, ArmedOnce, Working
<1>2. QED
  BY <1>1, Invariance, PTL

\* No cursor and no other file operation coexists with the removal of the
\* directory, in-band or deferred (storage.rs:85-94, writer.rs:178-191).
THEOREM ExclusiveRemoval == Spec => []RemovalExclusive
<1>1. IInv => RemovalExclusive
  BY DEF IInv, ScratchInv, RemovalExclusive
<1>2. QED
  BY <1>1, Invariance, PTL

\* No reader sleeps through a publication, a seal or a failure
\* (cursor.rs:102-112 against publication.rs:43-68).
THEOREM NoLostWakeup == Spec => []NoReaderStranded
<1>1. IInv => NoReaderStranded
  BY DEF IInv, WakeInv, NoReaderStranded
<1>2. QED
  BY <1>1, Invariance, PTL

\* An ended publication (publication.rs:43-68) changes neither its state nor
\* its watermark.
THEOREM TerminalStates == Spec => EndedIsForever
<1>1. IInv /\ [Next]_vars => [state # "writing" => UNCHANGED <<state, rows>>]_vars
  <2> SUFFICES ASSUME IInv, Next, state # "writing"
               PROVE  UNCHANGED <<state, rows>>
    OBVIOUS
  <2>1. wpc \notin Working
    BY DEF IInv, WriterInv
  <2>2. CASE NotifyWaiters
    BY <2>2 DEF NotifyWaiters
  <2>3. CASE WriterNext
    BY <2>1, <2>3 DEF WriterNext, Begin, Prepared, Arm, MakeDir, CreateFile,
         WriteFrame, Publish, FinishFile, Seal, GiveUp, DropWriter, WriterAt,
         Fail, Working, pubVars
  <2>4. CASE OwnerNext
    BY <2>4 DEF OwnerNext, Abort, AbortReturns, AbortRemoves, CloseInUse,
         Close, CloseRemoves, DropReplay, CancelCleanup, DeferredRemoves,
         RemovalDone, DetachedDone, Fail, pubVars
  <2>5. CASE \E c \in Cursors : CursorNext(c)
    BY <2>5 DEF CursorNext, PrefixCursor, SealedCursor, CloneCursor, Enrol,
         Rewind, DropCursor, CallNext, CallStep, Enable, LoadState,
         SourceFailed, LoadRows, ReadRow, ReadFails, Recheck, Wake,
         CancelCall, Step, pubVars
  <2>6. QED
    BY <2>2, <2>3, <2>4, <2>5 DEF Next
<1>2. QED
  BY <1>1, Invariance, PTL DEF Spec, EndedIsForever

\* Every step of the replay is a step of the log, or leaves the log alone.
LEMMA StepSimulation ==
  IInv /\ [Next]_vars => [Log!LogNext]_(Log!logVars)
<1> SUFFICES ASSUME IInv, [Next]_vars
             PROVE  [Log!LogNext]_(Log!logVars)
  OBVIOUS
<1> USE DEF Log!LogNext, Log!logVars
<1>1. CASE NotifyWaiters
  BY <1>1 DEF NotifyWaiters
<1>2. CASE WriterNext
  <2>1. CASE Publish
    BY <2>1 DEF Publish, WriterAt, cursorVars, Log!Commit, IInv, WriterInv,
         Working
  <2>2. CASE Seal
    BY <2>2 DEF Seal, WriterAt, cursorVars, Log!End, IInv, WriterInv, Working
  <2>3. CASE GiveUp \/ DropWriter
    BY <2>3 DEF GiveUp, DropWriter, Fail, cursorVars, Log!End
  <2>4. CASE \/ \E t \in {"append", "seal"} : Begin(t)
             \/ Prepared \/ Arm \/ MakeDir \/ CreateFile \/ WriteFrame
             \/ FinishFile
    BY <2>4 DEF Begin, Prepared, Arm, MakeDir, CreateFile, WriteFrame,
         FinishFile, pubVars, cursorVars
  <2>5. QED
    BY <1>2, <2>1, <2>2, <2>3, <2>4 DEF WriterNext
<1>3. CASE OwnerNext
  <2>1. CASE Abort
    BY <2>1 DEF Abort, Fail, cursorVars, Log!End
  <2>2. CASE ~Abort
    BY <1>3, <2>2 DEF OwnerNext, AbortReturns, AbortRemoves, CloseInUse,
         Close, CloseRemoves, DropReplay, CancelCleanup, DeferredRemoves,
         RemovalDone, DetachedDone, pubVars, cursorVars
  <2>3. QED
    BY <2>1, <2>2
<1>4. ASSUME NEW c \in Cursors, CursorNext(c)
      PROVE  [Log!LogNext]_(Log!logVars)
  <2> USE DEF Step, Return, pubVars
  <2>1. CASE PrefixCursor(c) \/ SealedCursor(c)
    BY <2>1 DEF PrefixCursor, SealedCursor, Enrol, Log!Checkpoint
  <2>2. ASSUME NEW d \in Cursors, CloneCursor(c, d)
        PROVE  Log!LogNext
    BY <2>2 DEF CloneCursor, Enrol, Log!Checkpoint
  <2>3. CASE Rewind(c)
    BY <2>3 DEF Rewind, Log!Checkpoint
  <2>4. CASE \E b \in BOOLEAN : CallNext(c, b)
    BY <2>4 DEF CallNext, Log!Call
  <2>5. CASE SourceFailed(c) \/ ReadFails(c)
    BY <2>5 DEF SourceFailed, ReadFails, Log!Refuse
  <2>6. CASE LoadRows(c)
    <3>1. cpc[c] = "rows" /\ position[c] <= rows
      BY <2>6 DEF LoadRows, IInv, CursorInv
    <3>2. position[c] >= rows => position[c] = rows
      BY <3>1 DEF IInv, TypeOK
    <3>3. sawSealed[c] => state = "sealed"
      BY <3>1 DEF IInv, CursorInv
    <3>4. QED
      BY <2>6, <3>2, <3>3 DEF LoadRows, Log!Exhausted, Log!Await
  <2>7. CASE Recheck(c)
    <3>1. position[c] < rows
      BY <2>7 DEF Recheck, IInv, CursorInv
    <3>2. QED
      BY <2>7, <3>1 DEF Recheck, Log!Item, Log!Refuse
  <2>8. CASE DropCursor(c) \/ Enable(c) \/ LoadState(c) \/ ReadRow(c)
             \/ Wake(c) \/ CancelCall(c)
    BY <2>8 DEF DropCursor, Enable, LoadState, ReadRow, Wake, CancelCall
  <2>9. QED
    BY <1>4, <2>1, <2>2, <2>3, <2>4, <2>5, <2>6, <2>7, <2>8
       DEF CursorNext, CallStep
<1>5. CASE UNCHANGED vars
  BY <1>5 DEF vars, pubVars, cursorVars
<1>6. QED
  BY <1>1, <1>2, <1>3, <1>4, <1>5 DEF Next

\* The replay of engine/replay implements the log that readers are promised.
THEOREM Refinement == Spec => ImplementsLog
<1>1. Init => Log!LogInit
  BY DEF Init, Log!LogInit
<1>2. IInv /\ [Next]_vars => [Log!LogNext]_(Log!logVars)
  BY StepSimulation
<1>3. QED
  BY <1>1, <1>2, Invariance, PTL DEF Spec, ImplementsLog, Log!LogSpec

(***************************************************************************)
(* The scratch directory: the steps of ScratchScope.                       *)
(***************************************************************************)
ScopeStep == [Scope!ScopeNext]_(Scope!scopeVars)

\* Readers come and go one by one (cursor.rs:77-89).
LEMMA ReadingMoves ==
  ASSUME IInv, NEW c \in Cursors, NEW to, cpc' = [cpc EXCEPT ![c] = to]
  PROVE  /\ Cardinality(Reading) \in Nat
         /\ (cpc[c] = "reading" <=> to = "reading") => Reading' = Reading
         /\ cpc[c] # "reading" /\ to = "reading" =>
              Cardinality(Reading)' = Cardinality(Reading) + 1
         /\ cpc[c] = "reading" /\ to # "reading" =>
              /\ Cardinality(Reading) > 0
              /\ Cardinality(Reading)' = Cardinality(Reading) - 1
<1>1. \A d \in Cursors : cpc'[d] = IF d = c THEN to ELSE cpc[d]
  BY DEF IInv, TypeOK
<1>2. IsFiniteSet(Reading) /\ Cardinality(Reading) \in Nat
  BY CursorsAssumption, FS_Subset, FS_CardinalityType DEF Reading
<1>3. ASSUME cpc[c] = "reading" <=> to = "reading" PROVE Reading' = Reading
  BY <1>1, <1>3 DEF Reading
<1>4. ASSUME cpc[c] # "reading", to = "reading"
      PROVE  Cardinality(Reading)' = Cardinality(Reading) + 1
  <2>1. Reading' = Reading \cup {c} /\ c \notin Reading
    BY <1>1, <1>4 DEF Reading
  <2>2. Cardinality(Reading \cup {c}) = Cardinality(Reading) + 1
    BY <1>2, <2>1, FS_AddElement
  <2>3. QED
    BY <2>1, <2>2
<1>5. ASSUME cpc[c] = "reading", to # "reading"
      PROVE  /\ Cardinality(Reading) > 0
             /\ Cardinality(Reading)' = Cardinality(Reading) - 1
  <2>1. Reading' = Reading \ {c} /\ c \in Reading
    BY <1>1, <1>5 DEF Reading
  <2>2. Cardinality(Reading \ {c}) = Cardinality(Reading) - 1
    BY <1>2, <2>1, FS_RemoveElement
  <2>3. Cardinality(Reading) # 0
    BY <1>2, <2>1, FS_EmptySet
  <2>4. QED
    BY <1>2, <2>1, <2>2, <2>3
<1>6. QED
  BY <1>2, <1>3, <1>4, <1>5

\* Nobody reads from a replay that no cursor is left of (cursor.rs:77-89).
LEMMA NobodyReads ==
  ASSUME IInv, alive = {} PROVE Reading = {} /\ Cardinality(Reading) = 0
<1>1. Reading = {}
  BY DEF IInv, CursorInv, Reading
<1>2. QED
  BY <1>1, FS_EmptySet

\* At most, the last one who could start an operation went
\* (storage.rs:56-94).
LEMMA ScopeQuiet ==
  ASSUME ScopeOpen' => ScopeOpen, ScopeActive' = ScopeActive,
         ScopeRemoving' = ScopeRemoving
  PROVE  ScopeStep
<1>1. ScopeOpen' \in BOOLEAN /\ ScopeOpen \in BOOLEAN
  BY DEF ScopeOpen
<1>2. CASE ScopeOpen' = ScopeOpen
  BY <1>2 DEF ScopeStep, Scope!scopeVars
<1>3. CASE ScopeOpen = TRUE /\ ScopeOpen' = FALSE
  BY <1>3 DEF ScopeStep, Scope!ScopeNext, Scope!Shut
<1>4. QED
  BY <1>1, <1>2, <1>3

\* Somebody who may starts an operation (writer.rs:103-125, cursor.rs:77-89).
LEMMA ScopeStarts ==
  ASSUME ScopeOpen, ScopeOpen', ScopeActive' = ScopeActive + 1,
         ScopeRemoving' = ScopeRemoving
  PROVE  ScopeStep
<1>1. ScopeOpen = TRUE /\ ScopeOpen' = TRUE
  BY DEF ScopeOpen
<1>2. QED
  BY <1>1 DEF ScopeStep, Scope!ScopeNext, Scope!Start

\* An operation ends, and with a failure perhaps the last one who could start
\* another (writer.rs:103-125).
LEMMA ScopeEnds ==
  ASSUME ScopeOpen' => ScopeOpen, ScopeActive > 0,
         ScopeActive' = ScopeActive - 1, ScopeRemoving' = ScopeRemoving
  PROVE  ScopeStep
<1>1. ScopeOpen' \in {ScopeOpen, FALSE}
  BY DEF ScopeOpen
<1>2. QED
  BY <1>1 DEF ScopeStep, Scope!ScopeNext, Scope!Over

\* The last owner removes the directory when nothing is in flight
\* (storage.rs:85-94, writer.rs:178-191).
LEMMA ScopeRemoves ==
  ASSUME IInv, alive = {}, owner # "replay",
         owner = "writer" => wpc = "abort", ScopeIdle,
         removal' # "none", UNCHANGED <<detached, cpc, alive, state, owner>>,
         WriterOps' = 0
  PROVE  ScopeStep
<1>1. ~ScopeOpen /\ ~ScopeOpen'
  BY DEF ScopeOpen, IInv, WriterInv
<1>2. WriterOps = 0
  BY DEF WriterOps
<1>3. ScopeActive = 0 /\ ScopeActive' = 0
  <2>1. detached = 0 /\ detached' = 0 /\ Reading' = Reading
    BY DEF ScopeIdle, Reading
  <2>2. QED
    BY <1>2, <2>1, NobodyReads DEF ScopeActive
<1>4. ScopeRemoving = FALSE /\ ScopeRemoving' = TRUE
  BY DEF ScopeRemoving, ScopeIdle
<1>5. ScopeOpen = FALSE /\ ScopeOpen' = FALSE
  BY <1>1 DEF ScopeOpen
<1>6. QED
  BY <1>3, <1>4, <1>5 DEF ScopeStep, Scope!ScopeNext, Scope!Remove

\* The readers count for nothing in a step that no cursor takes, and the
\* counts are numbers (storage.rs:56-94).
LEMMA Counts ==
  ASSUME IInv
  PROVE  /\ detached \in Nat /\ WriterOps \in {0, 1}
         /\ Cardinality(Reading) \in Nat
         /\ UNCHANGED cpc => Cardinality(Reading)' = Cardinality(Reading)
<1>1. IsFiniteSet(Reading)
  BY CursorsAssumption, FS_Subset DEF Reading
<1>2. UNCHANGED cpc => Reading' = Reading
  BY DEF Reading
<1>3. QED
  BY <1>1, <1>2, FS_CardinalityType DEF IInv, TypeOK, WriterOps

\* The writer's operations are those of prepare and of write_row and finish
\* (writer.rs:53-125); a failure ends one, or leaves it to end on its own.
LEMMA WriterScope == IInv /\ (NotifyWaiters \/ WriterNext) => ScopeStep
<1> SUFFICES ASSUME IInv, NotifyWaiters \/ WriterNext PROVE ScopeStep
  OBVIOUS
<1> USE Counts
<1>1. CASE \/ NotifyWaiters \/ MakeDir \/ CreateFile \/ Publish \/ Seal
           \/ DropWriter \/ \E t \in {"append", "seal"} : Begin(t)
  <2>1. (ScopeOpen' => ScopeOpen) /\ UNCHANGED removal
    BY <1>1 DEF NotifyWaiters, MakeDir, CreateFile, Publish, Seal, DropWriter,
       Begin, WriterAt, Fail, ScopeOpen, IInv, WriterInv, Working, pubVars,
       scratchVars, cursorVars
  <2>2. WriterOps' = WriterOps /\ UNCHANGED <<detached, cpc>>
    BY <1>1 DEF NotifyWaiters, MakeDir, CreateFile, Publish, Seal, DropWriter,
       Begin, WriterAt, WriterOps, writerVars, scratchVars, cursorVars
  <2>3. QED
    BY <2>1, <2>2, ScopeQuiet DEF ScopeActive, ScopeRemoving
<1>2. CASE Prepared \/ Arm
  <2>1. ScopeOpen /\ ScopeOpen' /\ UNCHANGED removal
    BY <1>2 DEF Prepared, Arm, WriterAt, ScopeOpen, IInv, WriterInv, Working,
       pubVars, scratchVars
  <2>2. WriterOps = 0 /\ WriterOps' = 1 /\ UNCHANGED <<detached, cpc>>
    BY <1>2 DEF Prepared, Arm, WriterAt, WriterOps, scratchVars, cursorVars
  <2>3. QED
    BY <2>1, <2>2, ScopeStarts DEF ScopeActive, ScopeRemoving
<1>3. CASE WriteFrame \/ FinishFile
  <2>1. (ScopeOpen' => ScopeOpen) /\ UNCHANGED removal
    BY <1>3 DEF WriteFrame, FinishFile, ScopeOpen, pubVars, scratchVars,
       cursorVars
  <2>2. WriterOps = 1 /\ WriterOps' = 0 /\ UNCHANGED <<detached, cpc>>
    BY <1>3 DEF WriteFrame, FinishFile, WriterAt, WriterOps, scratchVars,
       cursorVars
  <2>3. QED
    BY <2>1, <2>2, ScopeEnds DEF ScopeActive, ScopeRemoving
<1>4. CASE GiveUp
  <2>1. (ScopeOpen' => ScopeOpen) /\ UNCHANGED <<removal, cpc>>
    BY <1>4 DEF GiveUp, WriterAt, Fail, ScopeOpen, cursorVars
  <2>2. CASE wpc = "prepare"
    <3>1. WriterOps = 0 /\ WriterOps' = 0 /\ UNCHANGED detached
      BY <1>4, <2>2 DEF GiveUp, WriterOps
    <3>2. QED
      BY <2>1, <3>1, ScopeQuiet DEF ScopeActive, ScopeRemoving
  <2>3. CASE wpc # "prepare"
    <3>1. /\ WriterOps = 1 /\ WriterOps' = 0
          /\ detached' \in {detached, detached + 1}
      BY <1>4, <2>3 DEF GiveUp, WriterAt, WriterOps, MayDetach
    <3>2. CASE detached' = detached
      BY <2>1, <3>1, <3>2, ScopeEnds DEF ScopeActive, ScopeRemoving
    <3>3. CASE detached' = detached + 1
      BY <2>1, <3>1, <3>3, ScopeQuiet DEF ScopeActive, ScopeRemoving
    <3>4. QED
      BY <3>1, <3>2, <3>3
  <2>4. QED
    BY <2>2, <2>3
<1>5. QED
  BY <1>1, <1>2, <1>3, <1>4 DEF WriterNext

\* Only the last owner removes, and waits for the scope to be idle first
\* (storage.rs:85-94, writer.rs:178-191).
LEMMA OwnerScope == IInv /\ OwnerNext => ScopeStep
<1> SUFFICES ASSUME IInv, OwnerNext PROVE ScopeStep
  OBVIOUS
<1> USE Counts
<1>1. CASE \/ Abort \/ AbortReturns \/ CloseInUse \/ Close \/ DropReplay
           \/ CancelCleanup
  <2>1. ScopeOpen' => ScopeOpen
    BY <1>1 DEF Abort, AbortReturns, CloseInUse, Close, DropReplay,
       CancelCleanup, WriterAt, Fail, ScopeOpen, pubVars, scratchVars,
       cursorVars, writerVars
  <2>2. WriterOps' = WriterOps /\ UNCHANGED <<detached, cpc>>
    BY <1>1 DEF Abort, AbortReturns, CloseInUse, Close, DropReplay,
       CancelCleanup, WriterAt, WriterOps, IInv, WriterInv, writerVars,
       scratchVars, cursorVars
  <2>3. ScopeRemoving' = ScopeRemoving
    BY <1>1 DEF Abort, AbortReturns, CloseInUse, Close, DropReplay,
       CancelCleanup, scratchVars, ScopeRemoving
  <2>4. QED
    BY <2>1, <2>2, <2>3, ScopeQuiet DEF ScopeActive
<1>2. CASE AbortRemoves \/ CloseRemoves \/ DeferredRemoves
  <2>1. /\ alive = {} /\ owner # "replay" /\ (owner = "writer" => wpc = "abort")
        /\ ScopeIdle
    BY <1>2 DEF AbortRemoves, CloseRemoves, DeferredRemoves, WriterAt, IInv,
       ScratchInv
  <2>2. /\ removal' # "none" /\ WriterOps' = 0
        /\ UNCHANGED <<detached, cpc, alive, state, owner>>
    BY <1>2 DEF AbortRemoves, CloseRemoves, DeferredRemoves, WriterAt,
       WriterOps, pubVars, writerVars, cursorVars
  <2>3. QED
    BY <2>1, <2>2, ScopeRemoves
<1>3. ASSUME NEW ok \in BOOLEAN, RemovalDone(ok) PROVE ScopeStep
  <2>1. ScopeRemoving = TRUE /\ ScopeRemoving' = FALSE
    BY <1>3 DEF RemovalDone, ScopeRemoving
  <2>2. ScopeOpen' = ScopeOpen
    BY <1>3 DEF RemovalDone, ScopeOpen, pubVars, cursorVars
  <2>3. WriterOps' = WriterOps /\ UNCHANGED <<detached, cpc>>
    BY <1>3 DEF RemovalDone, WriterOps, cursorVars
  <2>4. QED
    BY <2>1, <2>2, <2>3
       DEF ScopeActive, ScopeStep, Scope!ScopeNext, Scope!Removed
<1>4. CASE DetachedDone
  <2>1. (ScopeOpen' => ScopeOpen) /\ UNCHANGED removal
    BY <1>4 DEF DetachedDone, ScopeOpen, pubVars, writerVars, cursorVars
  <2>2. /\ detached > 0 /\ detached' = detached - 1
        /\ WriterOps' = WriterOps /\ UNCHANGED cpc
    BY <1>4 DEF DetachedDone, WriterOps, writerVars, cursorVars
  <2>3. QED
    BY <2>1, <2>2, ScopeEnds DEF ScopeActive, ScopeRemoving
<1>5. QED
  BY <1>1, <1>2, <1>3, <1>4 DEF OwnerNext

\* A cursor keeps the directory in use; its reads are operations in it
\* (cursor.rs:77-89).
LEMMA CursorScope ==
  ASSUME IInv, NEW c \in Cursors, CursorNext(c) PROVE ScopeStep
<1> USE Counts
<1>1. CASE \/ PrefixCursor(c) \/ SealedCursor(c) \/ Rewind(c) \/ DropCursor(c)
           \/ \E d \in Cursors : CloneCursor(c, d)
  <2>1. ScopeOpen' => ScopeOpen
    BY <1>1 DEF PrefixCursor, SealedCursor, Rewind, DropCursor, CloneCursor,
       Enrol, WriterAt, ScopeOpen, pubVars, writerVars, scratchVars, IInv,
       WriterInv, Log!Statuses, TypeOK
  <2>2. WriterOps' = WriterOps /\ UNCHANGED <<detached, removal, cpc>>
    BY <1>1 DEF PrefixCursor, SealedCursor, Rewind, DropCursor, CloneCursor,
       Enrol, WriterOps, writerVars, scratchVars
  <2>3. QED
    BY <2>1, <2>2, ScopeQuiet DEF ScopeActive, ScopeRemoving
<1>2. ASSUME CallStep(c) \/ CancelCall(c) \/ \E b \in BOOLEAN : CallNext(c, b)
      PROVE  /\ ScopeOpen' = ScopeOpen /\ WriterOps' = WriterOps
             /\ ScopeRemoving' = ScopeRemoving
  BY <1>2 DEF CallStep, CallNext, Enable, LoadState, SourceFailed, LoadRows,
     ReadRow, ReadFails, Recheck, Wake, CancelCall, Step, pubVars, writerVars,
     scratchVars, ScopeOpen, ScopeRemoving, WriterOps
<1>3. CASE LoadRows(c) /\ position[c] < rows
  <2>1. cpc' = [cpc EXCEPT ![c] = "reading"] /\ cpc[c] # "reading"
    BY <1>3 DEF LoadRows, Step, IInv, TypeOK
  <2>2. UNCHANGED detached /\ ScopeOpen
    BY <1>3 DEF LoadRows, Step, scratchVars, ScopeOpen, IInv, CursorInv
  <2>3. Cardinality(Reading)' = Cardinality(Reading) + 1
    BY <2>1, ReadingMoves
  <2>4. ScopeOpen' /\ WriterOps' = WriterOps /\ ScopeRemoving' = ScopeRemoving
    BY <1>2, <1>3, <2>2 DEF CallStep
  <2>5. ScopeActive' = ScopeActive + 1
    BY <2>2, <2>3, <2>4 DEF ScopeActive
  <2>6. QED
    BY <2>2, <2>4, <2>5, ScopeStarts
<1>4. CASE \/ ReadRow(c) \/ ReadFails(c)
           \/ (CancelCall(c) /\ cpc[c] = "reading")
  <2>1. PICK to \in {"recheck", "idle"} : cpc' = [cpc EXCEPT ![c] = to]
    BY <1>4 DEF ReadRow, ReadFails, CancelCall, Step
  <2>2. cpc[c] = "reading" /\ detached' \in {detached, detached + 1}
    BY <1>4 DEF ReadRow, ReadFails, CancelCall, MayDetach, Step, scratchVars
  <2>3. /\ Cardinality(Reading) > 0
        /\ Cardinality(Reading)' = Cardinality(Reading) - 1
    BY <2>1, <2>2, ReadingMoves
  <2>4. /\ ScopeOpen' = ScopeOpen /\ WriterOps' = WriterOps
        /\ ScopeRemoving' = ScopeRemoving
    BY <1>2, <1>4 DEF CallStep
  <2>5. CASE detached' = detached
    <3>1. ScopeActive > 0 /\ ScopeActive' = ScopeActive - 1
      BY <2>3, <2>4, <2>5 DEF ScopeActive
    <3>2. QED
      BY <2>4, <3>1, ScopeEnds
  <2>6. CASE detached' = detached + 1
    <3>1. ScopeActive' = ScopeActive
      BY <2>3, <2>4, <2>6 DEF ScopeActive
    <3>2. QED
      BY <2>4, <3>1, ScopeQuiet
  <2>7. QED
    BY <2>2, <2>5, <2>6
<1>5. CASE \/ Enable(c) \/ LoadState(c) \/ SourceFailed(c) \/ Recheck(c)
           \/ Wake(c) \/ (LoadRows(c) /\ ~(position[c] < rows))
           \/ (CancelCall(c) /\ cpc[c] # "reading")
           \/ \E b \in BOOLEAN : CallNext(c, b)
  <2>1. PICK to \in CursorPcs \ {"reading"} : cpc' = [cpc EXCEPT ![c] = to]
    BY <1>5 DEF Enable, LoadState, SourceFailed, Recheck, Wake, LoadRows,
       CancelCall, CallNext, Step
  <2>2. cpc[c] # "reading" /\ UNCHANGED detached
    BY <1>5 DEF Enable, LoadState, SourceFailed, Recheck, Wake, LoadRows,
       CancelCall, CallNext, Step, scratchVars
  <2>3. Reading' = Reading
    BY <2>1, <2>2, ReadingMoves
  <2>4. /\ ScopeOpen' = ScopeOpen /\ WriterOps' = WriterOps
        /\ ScopeRemoving' = ScopeRemoving
    BY <1>2, <1>5 DEF CallStep
  <2>5. ScopeActive' = ScopeActive
    BY <2>2, <2>3, <2>4 DEF ScopeActive
  <2>6. QED
    BY <2>4, <2>5, ScopeQuiet
<1>6. CASE CallStep(c)
  <2>1. CASE LoadRows(c)
    BY <1>3, <1>5, <2>1
  <2>2. CASE ReadRow(c) \/ ReadFails(c)
    BY <1>4, <2>2
  <2>3. QED
    BY <1>5, <1>6, <2>1, <2>2 DEF CallStep
<1>7. CASE CancelCall(c)
  BY <1>4, <1>5, <1>7
<1>8. QED
  BY <1>1, <1>5, <1>6, <1>7 DEF CursorNext

\* Every step of the replay is one of the directory's, or none.
LEMMA ScopeSimulation == IInv /\ [Next]_vars => ScopeStep
<1> SUFFICES ASSUME IInv, [Next]_vars PROVE ScopeStep
  OBVIOUS
<1>1. CASE UNCHANGED vars
  <2>1. UNCHANGED <<ScopeOpen, ScopeActive, ScopeRemoving>>
    BY <1>1 DEF vars, pubVars, writerVars, scratchVars, cursorVars, ScopeOpen,
       ScopeActive, ScopeRemoving, WriterOps, Reading
  <2>2. QED
    BY <2>1, ScopeQuiet
<1>2. QED
  BY <1>1, WriterScope, OwnerScope, CursorScope DEF Next

\* Writer, Replay, cursors and deferred cleanup together keep the contract of
\* the scratch directory that they share: it is removed only once nobody can
\* start an operation and none is in flight (storage.rs:56-94,
\* writer.rs:178-191).
THEOREM ScopeRefinement == Spec => ImplementsScope
<1>1. Init => Scope!ScopeInit
  <2> SUFFICES ASSUME Init PROVE Scope!ScopeInit
    OBVIOUS
  <2>1. Reading = {}
    BY DEF Init, Reading
  <2>2. ScopeActive = 0
    BY <2>1, FS_EmptySet DEF Init, ScopeActive, WriterOps
  <2>3. ScopeOpen = TRUE /\ ScopeRemoving = FALSE
    BY DEF Init, ScopeOpen, ScopeRemoving
  <2>4. QED
    BY <2>2, <2>3 DEF Scope!ScopeInit
<1>2. IInv /\ [Next]_vars => [Scope!ScopeNext]_(Scope!scopeVars)
  BY ScopeSimulation DEF ScopeStep
<1>3. QED
  BY <1>1, <1>2, Invariance, PTL DEF Spec, ImplementsScope, Scope!ScopeSpec
=============================================================================
