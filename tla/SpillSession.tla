---------------------------- MODULE SpillSession ----------------------------
(***************************************************************************)
(* A sort session (engine/session.rs) from its pushes to the runs that its *)
(* stream merges (cascade_and_stream in engine/merge.rs).                  *)
(*                                                                         *)
(* A row is its ordinal, a run the set of the rows it holds: what merging  *)
(* does to their order is the business of the merge, here it matters that  *)
(* every row is in exactly one run and that runs are merged older first,   *)
(* which is what makes ties come out in the order they were pushed.        *)
(*                                                                         *)
(* Row sizes are abstracted: whether a push spills before or after its row *)
(* depends on sizes and on a limit that moves with the memory pressure, so *)
(* either may happen.                                                      *)
(***************************************************************************)
EXTENDS Naturals, Sequences, FiniteSets, Functions

CONSTANTS
  Levels,   \* length of the frontier, and width of the counter of spills
  MaxFanIn, \* SortPlan's max_fan_in; an in-memory plan that spilled merges by 2
  MaxRows   \* bound: rows pushed

ASSUME LevelsAssumption == Levels \in Nat \ {0}
ASSUME BoundsAssumption == MaxFanIn \in Nat /\ MaxRows \in Nat

VARIABLES
  nextRow, \* next_row
  buffer,  \* rows not spilled yet
  spills,  \* the frontier: the run at each level, the empty set for None
  nextRun, \* next_run
  failed,
  pc,      \* where the current call stands
  resume,  \* where it goes on after its spill
  hand,    \* the run being carried up the frontier
  older,   \* the run taken from a level to be merged before it
  level,
  runs,    \* cascade_and_stream: runs of this pass still to be grouped
  merged   \* and the runs of the next one

frontierVars == <<spills, hand, older, level>>
vars == <<nextRow, buffer, frontierVars, nextRun, failed, pc, resume, runs,
          merged>>

Rows  == 0 .. MaxRows - 1
Slots == 0 .. Levels - 1
Pcs   == {"idle", "grow", "spill", "write", "carry", "merge", "collect",
          "cascade", "stream", "gone"}

\* How many values n bits have, and how many runs are merged into one at level n.
Pow2[n \in 0 .. Levels] == IF n = 0 THEN 1 ELSE 2 * Pow2[n - 1]

TypeOK ==
  /\ nextRow \in 0 .. MaxRows
  /\ buffer \subseteq Rows
  /\ spills \in [Slots -> SUBSET Rows]
  /\ nextRun \in 0 .. Pow2[Levels] - 1
  /\ failed \in BOOLEAN
  /\ pc \in Pcs
  /\ resume \in {"idle", "grow", "collect"}
  /\ hand \subseteq Rows
  /\ older \subseteq Rows
  /\ level \in 0 .. Levels
  /\ runs \in Seq(SUBSET Rows)
  /\ merged \in Seq(SUBSET Rows)

Init ==
  /\ nextRow = 0
  /\ buffer = {}
  /\ spills = [l \in Slots |-> {}]
  /\ nextRun = 0
  /\ failed = FALSE
  /\ pc = "idle"
  /\ resume = "idle"
  /\ hand = {}
  /\ older = {}
  /\ level = 0
  /\ runs = <<>>
  /\ merged = <<>>

\* Mutant: the planned fan-in is used as it is.
FanIn_Unclamped == MaxFanIn

\* fan_in.max(2)
FanIn == IF MaxFanIn < 2 THEN 2 ELSE MaxFanIn
-----------------------------------------------------------------------------
(***************************************************************************)
(* push_with_size.  A failed session refuses it, and so may the budget,    *)
(* without any change.                                                     *)
(***************************************************************************)
\* The row does not fit beside the buffered ones, or it does.
Push ==
  /\ pc = "idle"
  /\ ~failed
  /\ nextRow < MaxRows
  /\ \/ buffer # {} /\ pc' = "spill" /\ resume' = "grow"
     \/ pc' = "grow" /\ UNCHANGED resume
  /\ UNCHANGED <<nextRow, buffer, frontierVars, nextRun, failed, runs, merged>>

\* The budget refuses the buffer's growth: the row is lost to the caller's
\* error, whatever was spilled before it stays.
GrowRefused ==
  /\ pc = "grow"
  /\ pc' = "idle"
  /\ UNCHANGED <<nextRow, buffer, frontierVars, nextRun, failed, resume, runs,
                 merged>>

\* The row is buffered; the buffer is then full, or not.
PushRow ==
  /\ pc = "grow"
  /\ buffer' = buffer \cup {nextRow}
  /\ nextRow' = nextRow + 1
  /\ pc' \in {"idle", "spill"}
  /\ resume' = "idle"
  /\ UNCHANGED <<frontierVars, nextRun, failed, runs, merged>>
-----------------------------------------------------------------------------
\* Mutant: it wraps around.
Spill_Wraps ==
  /\ pc = "spill"
  /\ failed' = TRUE
  /\ nextRun' = (nextRun + 1) % Pow2[Levels]
  /\ pc' = "write"
  /\ UNCHANGED <<nextRow, buffer, frontierVars, resume, runs, merged>>

(***************************************************************************)
(* spill                                                                   *)
(***************************************************************************)
\* failed is set first.  The counter is as wide as the frontier is long, and
\* its exhaustion (RunLimit) leaves it set before any file is created.
Spill ==
  /\ pc = "spill"
  /\ failed' = TRUE
  /\ IF nextRun < Pow2[Levels] - 1
     THEN nextRun' = nextRun + 1 /\ pc' = "write"
     ELSE UNCHANGED nextRun /\ pc' = IF resume = "collect" THEN "gone" ELSE "idle"
  /\ UNCHANGED <<nextRow, buffer, frontierVars, resume, runs, merged>>

\* The run file is complete: the buffer is released.
WriteRun ==
  /\ pc = "write"
  /\ hand' = buffer
  /\ buffer' = {}
  /\ level' = 0
  /\ pc' = "carry"
  /\ UNCHANGED <<nextRow, spills, older, nextRun, failed, resume, runs, merged>>

\* Mutant: an occupied level is passed over, not merged.
TakeOlder_PassesOver ==
  /\ pc = "carry"
  /\ level < Levels
  /\ spills[level] # {}
  /\ level' = level + 1
  /\ UNCHANGED <<nextRow, buffer, spills, hand, older, nextRun, failed, pc,
                 resume, runs, merged>>

\* slot.take() finds a run, which leaves the frontier before it is merged,
TakeOlder ==
  /\ pc = "carry"
  /\ level < Levels
  /\ spills[level] # {}
  /\ older' = spills[level]
  /\ spills' = [spills EXCEPT ![level] = {}]
  /\ pc' = "merge"
  /\ UNCHANGED <<nextRow, buffer, hand, level, nextRun, failed, resume, runs,
                 merged>>

\* merge_group_to_file(&[older, run], ..)
MergeOlder ==
  /\ pc = "merge"
  /\ hand' = older \cup hand
  /\ older' = {}
  /\ level' = level + 1
  /\ pc' = "carry"
  /\ UNCHANGED <<nextRow, buffer, spills, nextRun, failed, resume, runs, merged>>

\* or it finds none, and the run stays there.
Store ==
  /\ pc = "carry"
  /\ level < Levels
  /\ spills[level] = {}
  /\ spills' = [spills EXCEPT ![level] = hand]
  /\ hand' = {}
  /\ failed' = FALSE
  /\ pc' = resume
  /\ UNCHANGED <<nextRow, buffer, older, level, nextRun, resume, runs, merged>>

\* Mutant: the flag is cleared when the spill returns, also with an error.
SpillFails_Usable ==
  /\ pc \in {"write", "merge"}
  /\ hand' = {}
  /\ older' = {}
  /\ failed' = FALSE
  /\ pc' = IF resume = "collect" THEN "gone" ELSE "idle"
  /\ UNCHANGED <<nextRow, buffer, spills, level, nextRun, resume, runs, merged>>

\* A reservation or an operation fails, or the caller drops the future, at any
\* await of the spill.  A run in hand is lost.
SpillFails ==
  /\ pc \in {"write", "merge"}
  /\ hand' = {}
  /\ older' = {}
  /\ pc' = IF resume = "collect" THEN "gone" ELSE "idle"
  /\ UNCHANGED <<nextRow, buffer, spills, level, nextRun, failed, resume, runs,
                 merged>>
-----------------------------------------------------------------------------
(***************************************************************************)
(* finish, which consumes the session, and cascade_and_stream.             *)
(***************************************************************************)
FinishRefused ==
  /\ pc = "idle"
  /\ failed
  /\ pc' = "gone"
  /\ UNCHANGED <<nextRow, buffer, frontierVars, nextRun, failed, resume, runs,
                 merged>>

\* Nothing was ever spilled: the buffer itself is the stream.
FinishInMemory ==
  /\ pc = "idle"
  /\ ~failed
  /\ nextRun = 0
  /\ runs' = <<buffer>>
  /\ buffer' = {}
  /\ pc' = "stream"
  /\ UNCHANGED <<nextRow, frontierVars, nextRun, failed, resume, merged>>

Finish ==
  /\ pc = "idle"
  /\ ~failed
  /\ nextRun > 0
  /\ pc' = IF buffer # {} THEN "spill" ELSE "collect"
  /\ resume' = "collect"
  /\ UNCHANGED <<nextRow, buffer, frontierVars, nextRun, failed, runs, merged>>

\* The frontier from its highest level down, empty levels left out.
Frontier ==
  LET top[n \in 0 .. Levels] ==
        IF n = 0 THEN <<>>
        ELSE IF spills[Levels - n] = {} THEN top[n - 1]
        ELSE Append(top[n - 1], spills[Levels - n])
  IN  top[Levels]

Collect ==
  /\ pc = "collect"
  /\ runs' = Frontier
  /\ spills' = [l \in Slots |-> {}]
  /\ pc' = "cascade"
  /\ UNCHANGED <<nextRow, buffer, hand, older, level, nextRun, failed, resume,
                 merged>>

\* The next group of this pass; a group of one run passes through unmerged.
MergeGroup ==
  LET size == IF Len(runs) < FanIn THEN Len(runs) ELSE FanIn IN
  /\ pc = "cascade"
  /\ runs # <<>>
  /\ merged # <<>> \/ Len(runs) > FanIn
  /\ merged' = Append(merged, UNION Range(SubSeq(runs, 1, size)))
  /\ runs' = SubSeq(runs, size + 1, Len(runs))
  /\ UNCHANGED <<nextRow, buffer, frontierVars, nextRun, failed, pc, resume>>

NextPass ==
  /\ pc = "cascade"
  /\ runs = <<>>
  /\ merged # <<>>
  /\ runs' = merged
  /\ merged' = <<>>
  /\ UNCHANGED <<nextRow, buffer, frontierVars, nextRun, failed, pc, resume>>

\* The runs left are few enough to be merged into the stream.
OpenStream ==
  /\ pc = "cascade"
  /\ merged = <<>>
  /\ Len(runs) <= FanIn
  /\ pc' = "stream"
  /\ UNCHANGED <<nextRow, buffer, frontierVars, nextRun, failed, resume, runs,
                 merged>>

CascadeFails ==
  /\ pc = "cascade"
  /\ pc' = "gone"
  /\ UNCHANGED <<nextRow, buffer, frontierVars, nextRun, failed, resume, runs,
                 merged>>

\* The caller drops the session between two calls.
DropSession ==
  /\ pc = "idle"
  /\ pc' = "gone"
  /\ UNCHANGED <<nextRow, buffer, frontierVars, nextRun, failed, resume, runs,
                 merged>>
-----------------------------------------------------------------------------
SpillNext == Spill \/ WriteRun \/ TakeOlder \/ MergeOlder \/ Store \/ SpillFails

CascadeNext == Collect \/ MergeGroup \/ NextPass \/ OpenStream \/ CascadeFails

Next ==
  \/ Push \/ GrowRefused \/ PushRow
  \/ SpillNext
  \/ FinishRefused \/ FinishInMemory \/ Finish \/ DropSession
  \/ CascadeNext

Spec == Init /\ [][Next]_vars
-----------------------------------------------------------------------------
(***************************************************************************)
(* Properties.                                                             *)
(***************************************************************************)
\* All rows of run a were pushed before all rows of run b.
Before(a, b) == \A x \in a, y \in b : x < y

\* Where a row accepted by push_with_size can be, short of the stream.
Held == buffer \cup hand \cup older \cup UNION {spills[l] : l \in Slots}

\* As long as the session is usable, or a spill is under way (session.rs:
\* 283-343), every row accepted is held, and nothing else; HigherIsOlder orders
\* the places strictly, so that no row is held twice.
NothingLost ==
  pc \in {"idle", "grow", "spill", "write", "carry", "merge", "collect"}
    /\ (failed => pc \notin {"idle", "grow", "collect"}) =>
      Held = 0 .. nextRow - 1

\* "higher levels are older" (session.rs:50), and what is carried up is newer
\* than all of them: older runs come first in every merge (session.rs:334-336).
HigherIsOlder ==
  pc # "gone" =>
    /\ \A l, m \in Slots : l < m => Before(spills[m], spills[l])
    /\ \A l \in Slots : Before(spills[l], older \cup hand \cup buffer)
    /\ Before(older, hand)
    /\ Before(older \cup hand, buffer)

\* unreachable!() (session.rs:345) is not reached: a carry always finds an
\* empty level, up to the last spill that the counter admits.
CarryEnds == pc = "carry" => level < Levels

\* A failed session (session.rs:289, 348-353) accepts no row ever after, and
\* nothing but the end of the very spill that set the flag clears it.
FailedIsForever ==
  [][failed => nextRow' = nextRow /\ (failed' \/ pc = "carry")]_vars

\* The cascade (merge.rs:264-287) comes to an end: every pass leaves fewer
\* runs, even with a planned fan-in below two.
CascadeEnds == pc = "cascade" ~> pc \in {"stream", "gone"}
=============================================================================
