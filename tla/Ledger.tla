------------------------------- MODULE Ledger -------------------------------
(***************************************************************************)
(* What the memory budget of a governor (engine/budget.rs) promises to     *)
(* those who charge it: reservations and releases are atomic, each moves   *)
(* the ledger by as many bytes as what its holder is charged, and what is  *)
(* reserved fits the limit, at some reading of it, together with all that  *)
(* is held at that moment.                                                 *)
(*                                                                         *)
(* MemoryBudget shows that the loop of reserve keeps it; RunBuffer shows   *)
(* that a sort session, which may hold many charges, asks for all of its   *)
(* bytes and returns them.                                                 *)
(***************************************************************************)
EXTENDS Naturals

CONSTANTS
  Holders, \* who may be charged
  Limits   \* what limit() may answer

VARIABLES
  used,  \* the ledger
  charge \* the bytes that each holder is charged

ledgerVars == <<used, charge>>

LedgerInit ==
  /\ used = 0
  /\ charge = [h \in Holders |-> 0]

\* What holder h is charged changes, and nothing else does.
Move(h) ==
  /\ charge'[h] \in Nat
  /\ charge' = [charge EXCEPT ![h] = charge'[h]]
  /\ used' = (used - charge[h]) + charge'[h]

Grant(h) ==
  /\ Move(h)
  /\ charge[h] < charge'[h]
  /\ \E limit \in Limits : used' <= limit

Release(h) ==
  /\ Move(h)
  /\ charge'[h] < charge[h]

LedgerNext == \E h \in Holders : Grant(h) \/ Release(h)

LedgerSpec == LedgerInit /\ [][LedgerNext]_ledgerVars
=============================================================================
