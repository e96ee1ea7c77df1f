----------------------------- MODULE MCGovernor -----------------------------
(* Governor for TLC: a sort, two replays and a reader of statistics.  The    *)
(* sort is small enough for memory, the replays are external.                *)
EXTENDS Governor

CONSTANTS submitter, replayer1, replayer2, observer

MCCalls == {submitter, replayer1, replayer2, observer}
MCKind  == [c \in MCCalls |->
              CASE c = submitter -> "submit"
                [] c \in {replayer1, replayer2} -> "replay"
                [] c = observer -> "stats"]

\* One unit of memory per MiB; the ceiling and the buffers are of no account
\* here.
MCConfig == [ceiling |-> 8, maxFanIn |-> 4, minBuffer |-> 1, maxBuffer |-> 16]
=============================================================================
