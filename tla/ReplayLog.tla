----------------------------- MODULE ReplayLog -----------------------------
(***************************************************************************)
(* What a replay promises its readers, without saying how: a log of rows   *)
(* that only grows while its single source is writing, a terminal status   *)
(* that never changes once reached, and independent checkpoints that are   *)
(* answered one call at a time.  The atomics, the file and the wakeups of  *)
(* engine/replay are the business of module Replay, which implements this. *)
(***************************************************************************)
EXTENDS Naturals

CONSTANT Cursors  \* the checkpoints that readers hold

VARIABLES
  committed,  \* how many rows of the log readers may consume
  status,     \* whether the source is still writing, and how it ended
  position,   \* how many rows each checkpoint has consumed
  answer      \* what the last call on each checkpoint returned

logVars == <<committed, status, position, answer>>

Statuses == {"writing", "sealed", "failed"}
Answers  == {"none", "item", "await", "exhausted", "error"}

LogInit ==
  /\ committed = 0
  /\ status = "writing"
  /\ position = [c \in Cursors |-> 0]
  /\ answer = [c \in Cursors |-> "none"]

Commit ==
  /\ status = "writing"
  /\ committed' = committed + 1
  /\ UNCHANGED <<status, position, answer>>

\* The source ends once, for good, in one of the two terminal statuses.
End(s) ==
  /\ status = "writing"
  /\ s \in {"sealed", "failed"}
  /\ status' = s
  /\ UNCHANGED <<committed, position, answer>>

\* A checkpoint starts over, or copies another one.
Checkpoint(c, p) ==
  /\ p \in {0} \cup {position[d] : d \in Cursors}
  /\ position' = [position EXCEPT ![c] = p]
  /\ answer' = [answer EXCEPT ![c] = "none"]
  /\ UNCHANGED <<committed, status>>

Call(c) ==
  /\ answer' = [answer EXCEPT ![c] = "none"]
  /\ UNCHANGED <<committed, status, position>>

\* The next committed row, never one of a source that has failed.
Item(c) ==
  /\ status # "failed"
  /\ position[c] < committed
  /\ position' = [position EXCEPT ![c] = @ + 1]
  /\ answer' = [answer EXCEPT ![c] = "item"]
  /\ UNCHANGED <<committed, status>>

\* Provisional end of the prefix: every row committed so far is consumed.
Await(c) ==
  /\ position[c] = committed
  /\ answer' = [answer EXCEPT ![c] = "await"]
  /\ UNCHANGED <<committed, status, position>>

\* Final end: the source sealed and every row it ever committed is consumed.
Exhausted(c) ==
  /\ status = "sealed"
  /\ position[c] = committed
  /\ answer' = [answer EXCEPT ![c] = "exhausted"]
  /\ UNCHANGED <<committed, status, position>>

\* A failed source, a budget, an I/O or a decoding error; nothing is consumed.
Refuse(c) ==
  /\ answer' = [answer EXCEPT ![c] = "error"]
  /\ UNCHANGED <<committed, status, position>>

LogNext ==
  \/ Commit
  \/ \E s \in {"sealed", "failed"} : End(s)
  \/ \E c \in Cursors :
       \/ \E p \in {0} \cup {position[d] : d \in Cursors} : Checkpoint(c, p)
       \/ Call(c)
       \/ Item(c)
       \/ Await(c)
       \/ Exhausted(c)
       \/ Refuse(c)

LogSpec == LogInit /\ [][LogNext]_logVars
=============================================================================
