----------------------------- MODULE GroupMerge -----------------------------
(***************************************************************************)
(* merge_group_to_file (engine/merge.rs): a group of run files is merged   *)
(* into one, by the merge of module MergeStream without dedup, and then    *)
(* deleted.  A carry and every pass of the cascade consist of this;        *)
(* SpillSession takes it as one step on sets of rows.                      *)
(*                                                                         *)
(* items are here the rows written to the new file.                        *)
(***************************************************************************)
EXTENDS MergeStream

CONSTANTS
  SortRows, \* rows of the sort, of which the group has some
  MaxFiles \* files of the group

ASSUME GroupAssumption ==
  SortRows \in Nat /\ MaxFiles \in Nat

VARIABLE removed \* how many of the files have been deleted

groupVars == <<pipeVars, removed>>

\* Where the rows of the sort may be: 0 for a row that is not in the group, or
\* one of its files, and those pushed first in the first.
Places ==
  {place \in [Keyed -> 0 .. MaxFiles] :
     \A r, s \in Keyed :
       r < s /\ place[r] # 0 /\ place[s] # 0 => place[r] <= place[s]}

GroupInit ==
  /\ \E n \in 0 .. SortRows : keyOf \in [1 .. n -> Keys]
  /\ \E place \in Places :
       files = [i \in 1 .. MaxFiles |->
                  Sorted(keyOf, {r \in Keyed : place[r] = i})]
  /\ dedup = FALSE
  /\ opened = 0 /\ sources = <<>> /\ heap = {} /\ last = None
  /\ mpc = "opening"
  /\ items = <<>>
  /\ removed = 0

OpenGroup == (OpenSource \/ Opened) /\ UNCHANGED removed

\* A row that next_row returns is written.
WriteRow == YieldRow /\ UNCHANGED removed

\* next_row returns none, and the writer finishes.
FinishFile == AllTaken /\ UNCHANGED removed

\* Any of the calls may fail, or be the last before the caller goes: nobody is
\* told of the new file, and what is left of the old ones is no run any more.
GroupFails ==
  /\ mpc \in {"opening", "merging", "exhausted"}
  /\ mpc' = "refused"
  /\ UNCHANGED <<inputVars, mergeVars, items, removed>>

\* Mutant: a file may go as soon as a single source has rows left.
Unlink_WhenRead ==
  /\ mpc = "exhausted" \/ (mpc = "merging" /\ Cardinality(heap) <= 1)
  /\ removed < Len(files)
  /\ removed' = removed + 1
  /\ UNCHANGED pipeVars

Unlink ==
  /\ mpc = "exhausted"
  /\ removed < Len(files)
  /\ removed' = removed + 1
  /\ UNCHANGED pipeVars

\* The path of the new file is returned.
Merged ==
  /\ mpc = "exhausted"
  /\ removed = Len(files)
  /\ mpc' = "ended"
  /\ UNCHANGED <<inputVars, mergeVars, items, removed>>

GroupNext ==
  \/ OpenGroup \/ WriteRow \/ FinishFile
  \/ GroupFails
  \/ Unlink \/ Merged

GroupSpec == GroupInit /\ [][GroupNext]_groupVars
-----------------------------------------------------------------------------
GroupRows ==
  UNION {{files[i][j] : j \in DOMAIN files[i]} : i \in DOMAIN files}

\* Once the first file of a group is deleted, and when the new one is handed
\* over, the new one has all the rows of the group, in order and none twice
\* (merge.rs:219-237): whatever fails and when, no row was only in a file that
\* is gone.
GroupKept ==
  removed > 0 \/ mpc \in {"exhausted", "ended"}
    => items = Sorted(keyOf, GroupRows)
=============================================================================
