------------------------------- MODULE Sorting -------------------------------
(***************************************************************************)
(* What a sort promises its caller (README: deterministic order, no        *)
(* incomplete results): rows are accepted, and then either nothing ever    *)
(* comes of it, or a stream yields them in order, all of them unless it    *)
(* yields an error.                                                        *)
(***************************************************************************)
EXTENDS SortOrder

CONSTANT Keys

VARIABLES
  keys,  \* the keys of the rows accepted, in the order of the pushes
  dedup, \* equal keys are collapsed to their first row
  phase, \* open for pushes, streaming its output, ended, or void for ever
  out    \* what the stream has yielded: rows, and 0 for an error

Error    == 0
Expected == Reference(keys, dedup)
Reported == \E i \in DOMAIN out : out[i] = Error

SortInit ==
  /\ keys = <<>>
  /\ dedup \in BOOLEAN
  /\ phase = "open"
  /\ out = <<>>

\* push_with_size returns Ok.
Accept ==
  /\ phase = "open"
  /\ \E k \in Keys : keys' = Append(keys, k)
  /\ UNCHANGED <<dedup, phase, out>>

\* A call fails or is cancelled beyond repair, or the session is dropped.
Void ==
  /\ phase = "open"
  /\ phase' = "void"
  /\ UNCHANGED <<keys, dedup, out>>

\* finish returns Ok.
Deliver ==
  /\ phase = "open"
  /\ phase' = "streaming"
  /\ UNCHANGED <<keys, dedup, out>>

Yield ==
  /\ phase = "streaming"
  /\ ~Reported
  /\ Len(out) < Len(Expected)
  /\ out' = Append(out, Expected[Len(out) + 1])
  /\ UNCHANGED <<keys, dedup, phase>>

\* The merge fails, or the cleanup does.
Report ==
  /\ phase = "streaming"
  /\ out' = Append(out, Error)
  /\ UNCHANGED <<keys, dedup, phase>>

End ==
  /\ phase = "streaming"
  /\ Reported \/ out = Expected
  /\ phase' = "ended"
  /\ UNCHANGED <<keys, dedup, out>>

SortNext == Accept \/ Void \/ Deliver \/ Yield \/ Report \/ End

SortSpec == SortInit /\ [][SortNext]_<<keys, dedup, phase, out>>
=============================================================================
