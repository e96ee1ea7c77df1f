--------------------------- MODULE MCMemoryBudget ---------------------------
(* MemoryBudget for TLC: the callers of reserve are interchangeable.        *)
EXTENDS MemoryBudget, TLC

TaskSymmetry == Permutations(Tasks)
=============================================================================
