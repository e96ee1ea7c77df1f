---------------------------- MODULE ScratchScope ----------------------------
(***************************************************************************)
(* What a scratch directory promises to everything that uses it: the       *)
(* contract between IoScope (engine/operation.rs) and AsyncCleanupGuard    *)
(* (engine/cleanup.rs).  Operations start only while the directory has an  *)
(* owner that may use it, an owner that is done is done for good, and the  *)
(* directory is removed only when no operation is left, abandoned ones     *)
(* included.  The removal may fail, and be tried again.                    *)
(*                                                                         *)
(* ScratchIo shows that the semaphore, the counter and the wakeups keep    *)
(* it; Replay shows that the ownership of a replay's storage keeps it.     *)
(***************************************************************************)
EXTENDS Naturals

VARIABLES
  open,    \* somebody may still start an operation in the directory
  active,  \* operations that have started and are not known to be over
  removing \* the directory is being removed

scopeVars == <<open, active, removing>>

ScopeInit ==
  /\ open = TRUE
  /\ active = 0
  /\ removing = FALSE

\* IoScope::start
Start ==
  /\ open
  /\ active' = active + 1
  /\ UNCHANGED <<open, removing>>

\* Drop for IoGuard; the failure that ends an operation may end its owner too.
Over ==
  /\ active > 0
  /\ active' = active - 1
  /\ open' \in {open, FALSE}
  /\ UNCHANGED removing

Shut ==
  /\ open
  /\ open' = FALSE
  /\ UNCHANGED <<active, removing>>

\* IoScope::idle has returned: the removal is the only operation left.
Remove ==
  /\ ~open
  /\ active = 0
  /\ ~removing
  /\ removing' = TRUE
  /\ UNCHANGED <<open, active>>

Removed ==
  /\ removing
  /\ removing' = FALSE
  /\ UNCHANGED <<open, active>>

ScopeNext == Start \/ Over \/ Shut \/ Remove \/ Removed

ScopeSpec == ScopeInit /\ [][ScopeNext]_scopeVars
=============================================================================
