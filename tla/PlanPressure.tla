---------------------------- MODULE PlanPressure ----------------------------
(***************************************************************************)
(* What the planner would answer to one request while the readings that it *)
(* is given move, each by itself (plan/planner.rs, snapshot.rs): the       *)
(* process that the configuration was derived for stays the same.          *)
(***************************************************************************)
EXTENDS Planner

CONSTANTS
  SoftLimits, \* what RLIMIT_NOFILE may be
  Estimates,  \* SortSpec.estimated_bytes
  Targets,    \* MemoryPressure::effective_target_bytes
  Residents,  \* MemoryPressure::resident_bytes
  Headrooms,  \* permits available
  Actives     \* active external sorts

ASSUME ReadingsAssumption ==
  UNION {SoftLimits, Estimates, Targets, Residents, Headrooms, Actives}
    \subseteq Nat

VARIABLES
  cfg,  \* the configuration
  est,  \* the estimate
  snap  \* the snapshot that a request would be planned with now

vars == <<cfg, est, snap>>

Snapshots ==
  [target : Targets, resident : Residents, headroom : Headrooms,
   active : Actives]

TypeOK ==
  /\ cfg \in {DefaultConfig} \cup {FromFdLimit(l) : l \in SoftLimits}
  /\ est \in Estimates
  /\ snap \in Snapshots

\* An idle process: no sort is active and all permits are there.
Init ==
  /\ TypeOK
  /\ snap.active = 0
  /\ \A h \in Headrooms : h <= snap.headroom
  /\ \A r \in Residents : r >= snap.resident

\* The residency or the target of the process moves,
MemoryMoves ==
  /\ \E t \in Targets, r \in Residents :
       snap' = [snap EXCEPT !.target = t, !.resident = r]
  /\ UNCHANGED <<cfg, est>>

\* or file operations take and return permits,
DescriptorsMove ==
  /\ \E h \in Headrooms : snap' = [snap EXCEPT !.headroom = h]
  /\ UNCHANGED <<cfg, est>>

\* or sorts are admitted and dropped.
SortsMove ==
  /\ \E n \in Actives : snap' = [snap EXCEPT !.active = n]
  /\ UNCHANGED <<cfg, est>>

Next == MemoryMoves \/ DescriptorsMove \/ SortsMove

Spec == Init /\ [][Next]_vars
-----------------------------------------------------------------------------
(***************************************************************************)
(* Properties.                                                             *)
(***************************************************************************)
Planned  == Plan(est, snap, cfg)
Spills   == Planned.kind = "External"
RunCount == DivCeil(est, Planned.buffer)

\* "The run count stays within max_fan_in^2" (planner.rs:52): with the planned
\* buffer and a correct estimate, unless the buffer is already all that the
\* configuration or the memory allows.
TwoPasses ==
  Spills =>
    \/ RunCount <= Planned.fan * Planned.fan
    \/ Planned.buffer = cfg.maxBuffer
    \/ Planned.buffer >= Available(snap)

\* "Under fd pressure this raises the buffer rather than letting the run count
\* explode" (planner.rs:54-56): when only descriptors get scarcer, a spilling
\* request is never given a smaller buffer, nor a larger fan-in.
DescriptorPressure ==
  [][/\ Spills /\ UNCHANGED <<snap.target, snap.resident>>
     /\ snap'.headroom <= snap.headroom /\ snap'.active >= snap.active
     => /\ Planned'.buffer >= Planned.buffer
        /\ Planned'.fan <= Planned.fan]_vars

\* "Without requesting more memory than is available" (planner.rs:53-54), but for
\* the floor of planner.rs:67-69: what exceeds the memory that is available,
\* however far the process is over its target, is the smallest buffer.
AvailableButFloor ==
  Spills => \/ Planned.buffer + snap.resident <= snap.target
            \/ Planned.buffer = cfg.minBuffer
=============================================================================
