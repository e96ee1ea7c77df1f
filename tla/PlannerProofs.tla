--------------------------- MODULE PlannerProofs ---------------------------
(***************************************************************************)
(* Theorems about the planner (modules Planner and PlanPressure), for any  *)
(* unit of memory, any descriptor limits, estimates and readings.          *)
(***************************************************************************)
EXTENDS PlanPressure, Integers, TLAPS

(***************************************************************************)
(* Division.                                                               *)
(***************************************************************************)
\* What div_ceil returns (planner.rs:64-66): the least count of parts of size b
\* that make up a.
LEMMA CeilCovers ==
  ASSUME NEW a \in Nat, NEW b \in Nat \ {0}
  PROVE  /\ DivCeil(a, b) \in Nat
         /\ a <= DivCeil(a, b) * b
  BY DEF DivCeil

LEMMA CeilLeast ==
  ASSUME NEW a \in Nat, NEW b \in Nat \ {0}, NEW q \in Nat, a <= q * b
  PROVE  DivCeil(a, b) <= q
  BY DEF DivCeil

\* Fewer parts are larger.
LEMMA CeilAntitone ==
  ASSUME NEW a \in Nat, NEW b \in Nat \ {0}, NEW c \in Nat \ {0}, c <= b
  PROVE  DivCeil(a, b) <= DivCeil(a, c)
<1>1. DivCeil(a, c) \in Nat /\ a <= DivCeil(a, c) * c
  BY CeilCovers
<1>2. DivCeil(a, c) * c <= DivCeil(a, c) * b
  BY <1>1
<1>3. a <= DivCeil(a, c) * b
  BY <1>1, <1>2
<1> QED
  BY <1>1, <1>3, CeilLeast

\* A share of less among more is not larger.
LEMMA ShareMonotone ==
  ASSUME NEW g \in Nat, NEW h \in Nat, NEW m \in Nat \ {0}, NEW n \in Nat \ {0},
         g <= h, n <= m
  PROVE  g \div m <= h \div n
<1> DEFINE p == g \div m
           q == h \div n
<1>1. p \in Nat /\ p * m <= g
  OBVIOUS
<1>2. q \in Nat /\ h < q * n + n
  OBVIOUS
<1>3. p * n <= p * m
  BY <1>1
<1> HIDE DEF p, q
<1>4. p * n < (q + 1) * n
  BY <1>1, <1>2, <1>3
<1>5. CASE p >= q + 1
  <2>1. p * n >= (q + 1) * n
    BY <1>1, <1>2, <1>5
  <2> QED
    BY <2>1, <1>4, <1>1, <1>2
<1>6. p <= q
  BY <1>1, <1>2, <1>5
<1> QED
  BY <1>6 DEF p, q

(***************************************************************************)
(* What the readings and the configuration are.                            *)
(***************************************************************************)
\* A configuration of this crate (config.rs:7-56).
ConfigOK(c) ==
  /\ c.maxFanIn \in Nat /\ 2 <= c.maxFanIn
  /\ c.minBuffer \in Nat \ {0} /\ c.maxBuffer \in Nat
  /\ c.minBuffer <= c.maxBuffer
  /\ c.ceiling \in Nat

LEMMA ConfigsOK ==
  /\ ConfigOK(DefaultConfig)
  /\ \A l \in Nat : ConfigOK(FromFdLimit(l))
<1>1. ConfigOK(DefaultConfig)
  BY UnitsAssumption DEF ConfigOK, DefaultConfig
<1>2. ASSUME NEW l \in Nat PROVE ConfigOK(FromFdLimit(l))
  <2> DEFINE share == SatSub(l, DefaultConfig.margin) \div 8
  <2>1. share \in Int
    BY DEF SatSub, DefaultConfig
  <2>2. 2 <= Clamp(share, 2, 64) /\ Clamp(share, 2, 64) \in Nat
    BY <2>1 DEF Clamp, Greater, Lesser
  <2> QED
    BY <2>2, UnitsAssumption DEF ConfigOK, FromFdLimit, DefaultConfig
<1> QED
  BY <1>1, <1>2

\* The readings stay within their types, and the configuration and the estimate
\* never change (planner.rs:26).
LEMMA TypeInvariant == Spec => []TypeOK
<1>1. Init => TypeOK
  BY DEF Init
<1>2. TypeOK /\ [Next]_vars => TypeOK'
  BY DEF TypeOK, Next, vars, MemoryMoves, DescriptorsMove, SortsMove, Snapshots
<1> QED
  BY <1>1, <1>2, PTL DEF Spec

\* The types as numbers.
Numbers(c, e, s) ==
  /\ ConfigOK(c)
  /\ e \in Nat
  /\ s.target \in Nat /\ s.resident \in Nat /\ s.headroom \in Nat
  /\ s.active \in Nat

LEMMA TypesAreNumbers == TypeOK => Numbers(cfg, est, snap)
  BY ReadingsAssumption, ConfigsOK DEF TypeOK, Snapshots, Numbers

\* ration_fan_in and size_run_buffer return what they should (planner.rs:47-74).
LEMMA FanInBounds ==
  ASSUME NEW c, NEW e, NEW s, Numbers(c, e, s)
  PROVE  /\ RationFanIn(s, c) \in Nat
         /\ 2 <= RationFanIn(s, c)
         /\ Sharers(s) \in Nat \ {0}
<1>1. Sharers(s) \in Nat \ {0}
  BY UnitsAssumption DEF Numbers, Sharers, SatNext
<1>2. s.headroom \div Sharers(s) \in Int
  BY <1>1 DEF Numbers
<1> QED
  BY <1>1, <1>2 DEF Numbers, ConfigOK, RationFanIn, Clamp, Greater, Lesser

LEMMA BufferBounds ==
  ASSUME NEW c, NEW e, NEW s, Numbers(c, e, s), NEW f \in Nat \ {0}
  PROVE  /\ SizeRunBuffer(e, s, c, f) \in Nat \ {0}
         /\ \/ SizeRunBuffer(e, s, c, f) = c.minBuffer
            \/ SizeRunBuffer(e, s, c, f) <= Available(s)
         /\ \/ SizeRunBuffer(e, s, c, f) >= DivCeil(e, f * f)
            \/ SizeRunBuffer(e, s, c, f) = c.maxBuffer
            \/ SizeRunBuffer(e, s, c, f) >= Available(s)
<1>1. f * f \in Nat \ {0}
  OBVIOUS
<1>2. DivCeil(e, f * f) \in Nat
  BY <1>1, CeilCovers DEF Numbers
<1>3. Available(s) \in Nat
  BY DEF Numbers, Available, SatSub
<1> QED
  BY <1>2, <1>3
  DEF Numbers, ConfigOK, SizeRunBuffer, Clamp, Greater, Lesser

(***************************************************************************)
(* The theorems.                                                           *)
(***************************************************************************)
\* "The run count stays within max_fan_in^2" (planner.rs:52), for every reading
\* and estimate, unless a cap forbids it.
THEOREM RunCountBounded == Spec => []TwoPasses
<1>1. ASSUME Numbers(cfg, est, snap), Spills
      PROVE  \/ RunCount <= Planned.fan * Planned.fan
             \/ Planned.buffer = cfg.maxBuffer
             \/ Planned.buffer >= Available(snap)
  <2> DEFINE f == RationFanIn(snap, cfg)
             b == SizeRunBuffer(est, snap, cfg, f)
  <2>1. Planned = [kind |-> "External", fan |-> f, buffer |-> b]
    BY <1>1 DEF Spills, Planned, Plan
  <2>2. f \in Nat \ {0}
    BY <1>1, FanInBounds
  <2> HIDE DEF f
  <2>3. /\ b \in Nat \ {0}
        /\ b >= DivCeil(est, f * f) \/ b = cfg.maxBuffer \/ b >= Available(snap)
    BY <1>1, <2>2, BufferBounds
  <2> HIDE DEF b
  <2>4. CASE b >= DivCeil(est, f * f)
    <3>1. f * f \in Nat \ {0} /\ est \in Nat
      BY <1>1, <2>2 DEF Numbers
    <3>2. DivCeil(est, f * f) \in Nat /\ est <= DivCeil(est, f * f) * (f * f)
      BY <3>1, CeilCovers
    <3>3. DivCeil(est, f * f) * (f * f) <= b * (f * f)
      BY <2>3, <2>4, <3>1, <3>2
    <3>4. est <= (f * f) * b
      BY <2>3, <3>1, <3>2, <3>3
    <3>5. DivCeil(est, b) <= f * f
      BY <2>3, <3>1, <3>4, CeilLeast
    <3> QED
      BY <2>1, <3>5 DEF RunCount
  <2> QED
    BY <2>1, <2>3, <2>4
<1>2. TypeOK => TwoPasses
  BY <1>1, TypesAreNumbers DEF TwoPasses
<1> QED
  BY <1>2, TypeInvariant, PTL

\* A run buffer exceeds what is available only at the floor (planner.rs:67-69),
\* also in a process that is over its target (snapshot.rs:73-76).
THEOREM AvailableMemory == Spec => []AvailableButFloor
<1>1. ASSUME Numbers(cfg, est, snap), Spills
      PROVE  \/ Planned.buffer + snap.resident <= snap.target
             \/ Planned.buffer = cfg.minBuffer
  <2> DEFINE f == RationFanIn(snap, cfg)
             b == SizeRunBuffer(est, snap, cfg, f)
  <2>1. Planned = [kind |-> "External", fan |-> f, buffer |-> b]
    BY <1>1 DEF Spills, Planned, Plan
  <2>2. f \in Nat \ {0}
    BY <1>1, FanInBounds
  <2> HIDE DEF f
  <2>3. b \in Nat \ {0} /\ (b = cfg.minBuffer \/ b <= Available(snap))
    BY <1>1, <2>2, BufferBounds
  <2> HIDE DEF b
  <2> QED
    BY <1>1, <2>1, <2>3 DEF Numbers, Available, SatSub
<1>2. TypeOK => AvailableButFloor
  BY <1>1, TypesAreNumbers DEF AvailableButFloor
<1> QED
  BY <1>2, TypeInvariant, PTL

\* Scarcer descriptors give no larger a share,
LEMMA ScarcerFanIn ==
  ASSUME NEW c, NEW e, NEW s, NEW z, Numbers(c, e, s), Numbers(c, e, z),
         z.headroom <= s.headroom, z.active >= s.active
  PROVE  RationFanIn(z, c) <= RationFanIn(s, c)
<1>1. /\ Sharers(s) \in Nat \ {0} /\ Sharers(z) \in Nat \ {0}
      /\ Sharers(s) <= Sharers(z)
  BY UnitsAssumption DEF Numbers, Sharers, SatNext
<1>2. z.headroom \div Sharers(z) <= s.headroom \div Sharers(s)
  BY <1>1, ShareMonotone DEF Numbers
<1>3. /\ z.headroom \div Sharers(z) \in Int
      /\ s.headroom \div Sharers(s) \in Int
  BY <1>1 DEF Numbers
<1> QED
  BY <1>2, <1>3 DEF Numbers, ConfigOK, RationFanIn, Clamp, Greater, Lesser

\* and a smaller fan-in no smaller a buffer.
LEMMA NarrowerBuffer ==
  ASSUME NEW c, NEW e, NEW s, NEW z, Numbers(c, e, s), Numbers(c, e, z),
         Available(z) = Available(s),
         NEW f \in Nat \ {0}, NEW g \in Nat \ {0}, g <= f
  PROVE  SizeRunBuffer(e, s, c, f) <= SizeRunBuffer(e, z, c, g)
<1>1. f * f \in Nat \ {0} /\ g * g \in Nat \ {0}
  OBVIOUS
<1>2. g * g <= f * f
  <2>1. g * g <= g * f
    OBVIOUS
  <2>2. g * f <= f * f
    OBVIOUS
  <2> QED
    BY <2>1, <2>2
<1>3. DivCeil(e, f * f) <= DivCeil(e, g * g)
  BY <1>1, <1>2, CeilAntitone DEF Numbers
<1>4. DivCeil(e, f * f) \in Nat /\ DivCeil(e, g * g) \in Nat
  BY <1>1, CeilCovers DEF Numbers
<1>5. Available(s) \in Nat
  BY DEF Numbers, Available, SatSub
<1> QED
  BY <1>3, <1>4, <1>5
  DEF Numbers, ConfigOK, SizeRunBuffer, Clamp, Greater, Lesser

\* "Under fd pressure this raises the buffer rather than letting the run count
\* explode" (planner.rs:54-56): for any move of the descriptors' readings.
THEOREM ScarceDescriptors == Spec => DescriptorPressure
<1> DEFINE Move ==
      /\ Spills /\ UNCHANGED <<snap.target, snap.resident>>
      /\ snap'.headroom <= snap.headroom /\ snap'.active >= snap.active
           Answer == Planned'.buffer >= Planned.buffer
                     /\ Planned'.fan <= Planned.fan
<1>1. ASSUME TypeOK, TypeOK', [Next]_vars, Move PROVE Answer
  <2> DEFINE f == RationFanIn(snap, cfg)
             g == RationFanIn(snap', cfg)
  <2>1. cfg' = cfg /\ est' = est
    BY <1>1 DEF Next, vars, MemoryMoves, DescriptorsMove, SortsMove
  <2>2. Numbers(cfg, est, snap) /\ Numbers(cfg, est, snap')
    <3>1. Numbers(cfg, est, snap)
      BY <1>1, TypesAreNumbers
    <3>2. snap' \in Snapshots
      BY <1>1 DEF TypeOK
    <3> QED
      BY <3>1, <3>2, ReadingsAssumption DEF Numbers, Snapshots
  <2>3. Available(snap') = Available(snap)
    BY <1>1 DEF Available
  <2>4. ~StaysInMemory(est, snap, cfg) /\ ~StaysInMemory(est, snap', cfg)
    BY <1>1, <2>3 DEF Spills, Planned, Plan, StaysInMemory
  <2>5. /\ Planned.fan = f
        /\ Planned.buffer = SizeRunBuffer(est, snap, cfg, f)
        /\ Planned'.fan = g
        /\ Planned'.buffer = SizeRunBuffer(est, snap', cfg, g)
    BY <2>1, <2>4 DEF Planned, Plan
  <2>6. f \in Nat \ {0} /\ g \in Nat \ {0}
    BY <2>2, FanInBounds
  <2>7. g <= f
    BY <1>1, <2>2, ScarcerFanIn
  <2> HIDE DEF f, g
  <2>8. SizeRunBuffer(est, snap, cfg, f) <= SizeRunBuffer(est, snap', cfg, g)
    BY <2>2, <2>3, <2>6, <2>7, NarrowerBuffer
  <2> QED
    BY <2>5, <2>7, <2>8
<1>2. TypeOK /\ TypeOK' /\ [Next]_vars => [Move => Answer]_vars
  BY <1>1
<1> QED
  BY <1>2, TypeInvariant, PTL DEF Spec, DescriptorPressure
=============================================================================
