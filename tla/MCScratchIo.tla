---------------------------- MODULE MCScratchIo ----------------------------
(* ScratchIo for TLC: a sort and a replay, each with operation slots of its *)
(* own; the slots of one owner are interchangeable.                         *)
EXTENDS ScratchIo, TLC

CONSTANTS sort, replay, SortOps, ReplayOps

MCOwners == {sort, replay}
MCSorts  == {sort}
MCOps    == SortOps \cup ReplayOps
MCScopeOf == [j \in MCOps |-> IF j \in SortOps THEN sort ELSE replay]

Sort == INSTANCE ScratchScope WITH
  open <- ScopeOpen(sort), active <- ScopeActive(sort),
  removing <- ScopeRemoving(sort)

Replay == INSTANCE ScratchScope WITH
  open <- ScopeOpen(replay), active <- ScopeActive(replay),
  removing <- ScopeRemoving(replay)

\* The IoScope and the cleanup guard of each owner (operation.rs:29-54,
\* cleanup.rs:68-126) keep the contract of its scratch directory, whatever the
\* other does with the permits and at whatever await the callers leave.
ScopesKept == Sort!ScopeSpec /\ Replay!ScopeSpec

OpSymmetry == Permutations(SortOps) \cup Permutations(ReplayOps)
=============================================================================
