------------------------------ MODULE Planner ------------------------------
(***************************************************************************)
(* The pure decision of plan/planner.rs and what it reads: the caps of     *)
(* config.rs, the spec's estimate, and a snapshot of the pressure.  Bytes  *)
(* are counted in units of which Mib make a MiB.                           *)
(***************************************************************************)
EXTENDS Naturals

CONSTANTS
  Mib,    \* units of memory in a MiB
  MaxU32  \* u32::MAX

ASSUME UnitsAssumption == Mib \in Nat \ {0} /\ MaxU32 \in Nat \ {0}

\* saturating_sub, saturating_add(1), max, min, clamp, div_ceil.  clamp is
\* undefined, a panic, unless lo <= hi, and so is a division by zero.
SatSub(a, b)      == IF a >= b THEN a - b ELSE 0
SatNext(n)        == IF n < MaxU32 THEN n + 1 ELSE MaxU32
Greater(a, b)     == IF a >= b THEN a ELSE b
Lesser(a, b)      == IF a <= b THEN a ELSE b
Clamp(x, lo, hi)  == Greater(lo, Lesser(x, hi))
DivCeil(a, b)     == (a + b - 1) \div b
-----------------------------------------------------------------------------
\* SorterConfig::default
DefaultConfig ==
  [ceiling |-> 8 * Mib, maxFanIn |-> 64, margin |-> 96,
   minBuffer |-> Mib, maxBuffer |-> 256 * Mib]

\* SorterConfig::from_fd_limit
FromFdLimit(softLimit) ==
  [DefaultConfig EXCEPT !.maxFanIn =
     Clamp(SatSub(softLimit, DefaultConfig.margin) \div 8,
           2, DefaultConfig.maxFanIn)]
-----------------------------------------------------------------------------
\* Mutant: the subtraction wraps, to the largest value that matters.
Available_Wraps(snap) ==
  IF snap.target >= snap.resident THEN snap.target - snap.resident
  ELSE 1000000

\* SorterSnapshot::available_memory_bytes
Available(snap) == SatSub(snap.target, snap.resident)

\* Those that share the descriptors: the active sorts and the new one.
Sharers(snap) == SatNext(snap.active)

\* Mutant: the share is not rationed, the configured fan-in is used.
RationFanIn_Unrationed(snap, cfg) == cfg.maxFanIn

RationFanIn(snap, cfg) ==
  Clamp(snap.headroom \div Sharers(snap), 2, cfg.maxFanIn)

\* Mutant: a wider fan-in gets a larger buffer.
SizeRunBuffer_Proportional(est, snap, cfg, fan) ==
  Lesser(Clamp(DivCeil(est, cfg.maxFanIn) * fan, cfg.minBuffer, cfg.maxBuffer),
         Greater(Available(snap), cfg.minBuffer))

\* Mutant: the division rounds down.
SizeRunBuffer_RoundsDown(est, snap, cfg, fan) ==
  Lesser(Clamp(est \div (fan * fan), cfg.minBuffer, cfg.maxBuffer),
         Greater(Available(snap), cfg.minBuffer))

SizeRunBuffer(est, snap, cfg, fan) ==
  Lesser(Clamp(DivCeil(est, fan * fan), cfg.minBuffer, cfg.maxBuffer),
         Greater(Available(snap), cfg.minBuffer))

StaysInMemory(est, snap, cfg) ==
  /\ est # 0
  /\ est <= cfg.ceiling
  /\ est <= Available(snap)

\* SortPlanner::plan; an in-memory plan has neither fan-in nor buffer.
Plan(est, snap, cfg) ==
  IF StaysInMemory(est, snap, cfg)
  THEN [kind |-> "InMemory", fan |-> 0, buffer |-> 0]
  ELSE LET fan == RationFanIn(snap, cfg)
       IN [kind |-> "External", fan |-> fan,
           buffer |-> SizeRunBuffer(est, snap, cfg, fan)]
=============================================================================
