---------------------------- MODULE MemoryBudget ----------------------------
(***************************************************************************)
(* The shared byte ledger (engine/budget.rs): reservations are made by a   *)
(* compare-and-swap loop against a limit that is read anew on every turn,  *)
(* and given back by dropping the charge.  Each access to an atomic and    *)
(* each reading of the memory pressure is a step of its own.               *)
(***************************************************************************)
EXTENDS Naturals, FiniteSets, Functions

CONSTANTS
  Tasks,    \* callers of reserve, each for one charge at a time
  Sizes,    \* bytes that a reservation may ask for
  Limit,    \* the static limit, MemoryBudget.limit
  Targets,  \* what MemoryPressure may answer as its effective target
  Resident  \* and as the resident bytes

ASSUME SizesAssumption == Sizes \subseteq Nat
ASSUME LimitAssumption == Limit \in Nat
ASSUME PressureAssumption == Targets \subseteq Nat /\ Resident \subseteq Nat

VARIABLES
  used,     \* the ledger
  peak,     \* its recorded high-water mark
  pc,       \* where each task's reserve stands
  want,     \* bytes it asks for
  previous, \* the ledger as the task last saw it
  cap,      \* the limit as the task last computed it
  answer,   \* history: the limit that it computed since it last saw the
            \* ledger, 0 as long as it has not
  highest   \* history: the highest that used ever was

vars == <<used, peak, pc, want, previous, cap, answer, highest>>

\* A task holds its bytes from the successful swap until it drops the charge.
Pcs    == {"idle", "limit", "swap", "peak", "held"}
Holds  == {"peak", "held"}

TypeOK ==
  /\ used \in Nat
  /\ peak \in Nat
  /\ pc \in [Tasks -> Pcs]
  /\ want \in [Tasks -> Sizes \cup {0}]
  /\ previous \in [Tasks -> Nat]
  /\ cap \in [Tasks -> 0 .. Limit]
  /\ answer \in [Tasks -> 0 .. Limit]
  /\ highest \in Nat

Init ==
  /\ used = 0
  /\ peak = 0
  /\ pc = [t \in Tasks |-> "idle"]
  /\ want = [t \in Tasks |-> 0]
  /\ previous = [t \in Tasks |-> 0]
  /\ cap = [t \in Tasks |-> 0]
  /\ answer = [t \in Tasks |-> 0]
  /\ highest = 0

\* saturating_sub, and min.
Headroom(target, resident) ==
  IF target >= resident THEN target - resident ELSE 0

Lower(a, b) == IF a <= b THEN a ELSE b

\* reserve loads the ledger once before its loop.
Reserve(t, bytes) ==
  /\ pc[t] = "idle"
  /\ pc' = [pc EXCEPT ![t] = "limit"]
  /\ want' = [want EXCEPT ![t] = bytes]
  /\ previous' = [previous EXCEPT ![t] = used]
  /\ answer' = [answer EXCEPT ![t] = 0]
  /\ UNCHANGED <<used, peak, cap, highest>>

\* limit(): the static limit or the live headroom, whichever is lower.
ReadLimit(t, target, resident) ==
  /\ pc[t] = "limit"
  /\ pc' = [pc EXCEPT ![t] = "swap"]
  /\ cap' = [cap EXCEPT ![t] = Lower(Limit, Headroom(target, resident))]
  /\ answer' = [answer EXCEPT ![t] = cap'[t]]
  /\ UNCHANGED <<used, peak, want, previous, highest>>

\* SorterError::MemoryBudget.
Refuse(t) ==
  /\ pc[t] = "swap"
  /\ previous[t] + want[t] > cap[t]
  /\ pc' = [pc EXCEPT ![t] = "idle"]
  /\ want' = [want EXCEPT ![t] = 0]
  /\ UNCHANGED <<used, peak, previous, cap, answer, highest>>

\* Mutant: a plain store, which forgets what others reserved meanwhile.
Swap_Stores(t) ==
  /\ pc[t] = "swap"
  /\ previous[t] + want[t] <= cap[t]
  /\ used' = previous[t] + want[t]
  /\ highest' = IF used' > highest THEN used' ELSE highest
  /\ pc' = [pc EXCEPT ![t] = "peak"]
  /\ UNCHANGED <<peak, want, previous, cap, answer>>

\* Mutant: a fetch_add, after a check that may be stale by then.
Swap_Adds(t) ==
  /\ pc[t] = "swap"
  /\ previous[t] + want[t] <= cap[t]
  /\ used' = used + want[t]
  /\ highest' = IF used' > highest THEN used' ELSE highest
  /\ pc' = [pc EXCEPT ![t] = "peak"]
  /\ UNCHANGED <<peak, want, previous, cap, answer>>

Swap(t) ==
  /\ pc[t] = "swap"
  /\ previous[t] + want[t] <= cap[t]
  /\ used = previous[t]
  /\ used' = previous[t] + want[t]
  /\ highest' = IF used' > highest THEN used' ELSE highest
  /\ pc' = [pc EXCEPT ![t] = "peak"]
  /\ UNCHANGED <<peak, want, previous, cap, answer>>

\* Mutant: the limit is computed once, before the loop.
SwapFails_SameLimit(t) ==
  /\ pc[t] = "swap"
  /\ previous[t] + want[t] <= cap[t]
  /\ previous' = [previous EXCEPT ![t] = used]
  /\ answer' = [answer EXCEPT ![t] = 0]
  /\ UNCHANGED <<used, peak, pc, want, cap, highest>>

\* The ledger moved, or the weak exchange failed for no reason: once more,
\* from the value that the exchange reported.
SwapFails(t) ==
  /\ pc[t] = "swap"
  /\ previous[t] + want[t] <= cap[t]
  /\ pc' = [pc EXCEPT ![t] = "limit"]
  /\ previous' = [previous EXCEPT ![t] = used]
  /\ answer' = [answer EXCEPT ![t] = 0]
  /\ UNCHANGED <<used, peak, want, cap, highest>>

\* Mutant: a store, not a maximum.
RaisePeak_Stores(t) ==
  /\ pc[t] = "peak"
  /\ peak' = previous[t] + want[t]
  /\ pc' = [pc EXCEPT ![t] = "held"]
  /\ UNCHANGED <<used, want, previous, cap, answer, highest>>

\* peak.fetch_max(next), after the swap.
RaisePeak(t) ==
  /\ pc[t] = "peak"
  /\ peak' = IF previous[t] + want[t] > peak
             THEN previous[t] + want[t] ELSE peak
  /\ pc' = [pc EXCEPT ![t] = "held"]
  /\ UNCHANGED <<used, want, previous, cap, answer, highest>>

\* Drop for MemoryCharge.
Release(t) ==
  /\ pc[t] = "held"
  /\ used' = used - want[t]
  /\ pc' = [pc EXCEPT ![t] = "idle"]
  /\ want' = [want EXCEPT ![t] = 0]
  /\ UNCHANGED <<peak, previous, cap, answer, highest>>

Next == \E t \in Tasks :
  \/ \E bytes \in Sizes : Reserve(t, bytes)
  \/ \E target \in Targets, resident \in Resident :
       ReadLimit(t, target, resident)
  \/ Refuse(t) \/ Swap(t) \/ SwapFails(t) \/ RaisePeak(t) \/ Release(t)

Spec == Init /\ [][Next]_vars
-----------------------------------------------------------------------------
(***************************************************************************)
(* Properties.                                                             *)
(***************************************************************************)
Charged == {t \in Tasks : pc[t] \in Holds}

\* The ledger is the sum of the charges that exist (budget.rs:72-112), however
\* reservations and drops interleave: no byte is lost, none is given back twice.
LedgerExact == used = SumFunctionOnSet(want, Charged)

\* No interleaving of reservations takes the ledger over the static limit
\* (budget.rs:77-88), whatever the pressure source answers.
WithinLimit == used <= Limit

\* A reservation that succeeds leaves the ledger within a limit that was
\* computed after the call last saw the ledger (budget.rs:74-93): neither what
\* others reserved nor what the pressure took, while it tried before, is missed.
GrantIsFresh ==
  [][\A t \in Tasks :
       pc[t] = "swap" /\ pc'[t] = "peak" => used' <= answer[t]]_vars

\* When no reservation is between its swap and its fetch_max (budget.rs:89),
\* the recorded peak is the highest value that the ledger ever had.
PeakExact ==
  (\A t \in Tasks : pc[t] # "peak") => peak = highest

Contract == INSTANCE Ledger WITH
  Holders <- Tasks,
  Limits <- {Lower(Limit, Headroom(target, resident)) :
               target \in Targets, resident \in Resident},
  charge <- [t \in Tasks |-> IF pc[t] \in Holds THEN want[t] ELSE 0]

\* However the steps of calls and drops interleave, a reservation takes effect
\* at once, at its exchange and within a limit, and a charge is returned at once
\* by its drop (budget.rs:72-113): RunBuffer takes them as single steps.
ImplementsLedger == Contract!LedgerSpec
=============================================================================
