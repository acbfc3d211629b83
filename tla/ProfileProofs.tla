---------------------------- MODULE ProfileProofs ----------------------------
(***************************************************************************)
(* A profile that validates works at every clock its reference may have,   *)
(* in hertz and parts per million and for all of their range, where TLC    *)
(* looks at a few kilohertz.                                               *)
(***************************************************************************)
EXTENDS ProfileCheck, TLAPS

\* Multiplication by a natural number is monotone.
LEMMA TimesMonotone ==
  ASSUME NEW x \in Int, NEW y \in Int, x <= y, NEW k \in Nat
  PROVE  x * k <= y * k /\ k * x <= k * y
OBVIOUS

\* ... and strictly so by a positive one, which can then be cancelled.
LEMMA TimesCancel ==
  ASSUME NEW x \in Int, NEW y \in Int, NEW k \in Nat \ {0}, x * k < (y + 1) * k
  PROVE  x <= y
OBVIOUS

\* Rounding down, and up, stays on the right side of every whole bound.
LEMMA FloorBelow ==
  ASSUME NEW x \in Nat, NEW a \in Nat, NEW p \in Nat \ {0}, x <= a * p
  PROVE  x \div p \in Nat /\ x \div p <= a
<1> DEFINE q == x \div p
<1>1. q \in Nat /\ q * p <= x
  OBVIOUS
<1> HIDE DEF q
<1>2. q * p < (a + 1) * p
  BY <1>1
<1>3. q <= a
  BY <1>1, <1>2, TimesCancel
<1>4. QED BY <1>1, <1>3 DEF q

LEMMA CeilAbove ==
  ASSUME NEW x \in Nat, NEW p \in Nat \ {0}
  PROVE  CeilDivide(x, p) \in Nat /\ x <= CeilDivide(x, p) * p
<1> DEFINE y == x + p - 1
           q == y \div p
<1>1. y \in Nat /\ y = x + p - 1
  OBVIOUS
<1>2. CeilDivide(x, p) = q
  BY DEF CeilDivide
<1> HIDE DEF y
<1>3. q \in Nat /\ y < q * p + p
  BY <1>1
<1> HIDE DEF q
<1>4. x <= q * p
  BY <1>1, <1>3
<1>5. QED BY <1>2, <1>3, <1>4

LEMMA CeilBound ==
  ASSUME NEW x \in Nat, NEW a \in Nat, NEW p \in Nat \ {0}, a * p <= x
  PROVE  a <= CeilDivide(x, p)
<1> DEFINE c == CeilDivide(x, p)
<1>1. c \in Nat /\ x <= c * p
  BY CeilAbove
<1> HIDE DEF c
<1>2. a * p < (c + 1) * p
  BY <1>1
<1>3. QED BY <1>1, <1>2, TimesCancel DEF c

-----------------------------------------------------------------------------
(* The reference clock, and what a channel makes of it.                    *)

LEMMA HzIsNat == ASSUME NEW n \in Nat PROVE Hz(n) \in Nat
BY UnitAssumption DEF Hz

\* The range that is computed, rounded both ways, holds every clock within
\* the tolerance.
LEMMA ClockWithin ==
  ASSUME NEW cfg \in Config, ValidClock(cfg), NEW a \in Nat, MayRun(cfg, a)
  PROVE  /\ ClockMin(cfg) \in Nat /\ ClockMax(cfg) \in Nat
         /\ ClockMin(cfg) <= a /\ a <= ClockMax(cfg)
<1>1. CASE cfg.source = "INTERNAL"
  <2>1. InternalMin \in Nat /\ InternalMax \in Nat
    BY HzIsNat DEF InternalMin, InternalMax
  <2>2. QED BY <1>1, <2>1 DEF ClockMin, ClockMax, MayRun
<1>2. CASE cfg.source # "INTERNAL"
  <2> DEFINE low == cfg.clock * (PpmScale - cfg.ppm)
             high == cfg.clock * (PpmScale + cfg.ppm)
  <2>1. /\ cfg.clock \in Nat /\ cfg.ppm \in Nat /\ cfg.ppm < PpmScale
        /\ PpmScale \in Nat \ {0}
    BY UnitAssumption DEF Config, ValidClock
  <2>2. low \in Nat /\ high \in Nat
    BY <2>1
  <2>3. /\ low <= a * PpmScale /\ a * PpmScale <= high
        /\ ClockMin(cfg) = low \div PpmScale /\ ClockMax(cfg) = CeilDivide(high, PpmScale)
    BY <1>2 DEF MayRun, ClockMin, ClockMax
  <2> HIDE DEF low, high
  <2>4. low \div PpmScale \in Nat /\ low \div PpmScale <= a
    BY <2>1, <2>2, <2>3, FloorBelow
  <2>5. CeilDivide(high, PpmScale) \in Nat /\ a <= CeilDivide(high, PpmScale)
    BY <2>1, <2>2, <2>3, CeilAbove, CeilBound
  <2>6. QED BY <2>3, <2>4, <2>5
<1>3. QED BY <1>1, <1>2

\* A conversion long enough for the slowest sensor at the fastest clock is
\* long enough for all.
LEMMA LongEnough ==
  ASSUME NEW n \in Nat, NEW slow \in Nat, NEW f \in Nat, slow <= f, NEW d \in Nat,
         NEW a \in Nat, NEW fast \in Nat, a <= fast, NEW m \in Nat,
         n * slow * d >= fast * m
  PROVE  n * f * d >= a * m
<1>1. n * slow <= n * f /\ n * slow \in Nat /\ n * f \in Nat
  BY TimesMonotone
<1>2. (n * slow) * d <= (n * f) * d
  <2> DEFINE x == n * slow
             y == n * f
  <2>1. x \in Nat /\ y \in Nat /\ x <= y
    BY <1>1
  <2> HIDE DEF x, y
  <2>2. x * d <= y * d
    BY <2>1, TimesMonotone
  <2>3. QED BY <2>2 DEF x, y
<1>3. a * m <= fast * m
  BY TimesMonotone
<1>4. QED
  <2> DEFINE x == (n * slow) * d
             y == (n * f) * d
             u == a * m
             v == fast * m
  <2>1. x \in Int /\ y \in Int /\ u \in Int /\ v \in Int /\ v <= x /\ x <= y /\ u <= v
    BY <1>1, <1>2, <1>3
  <2> HIDE DEF x, y, u, v
  <2>2. u <= y
    BY <2>1
  <2>3. QED BY <2>2 DEF y, u

\* An offset that does not hide the slowest sensor at the fastest clock hides
\* none.
LEMMA OffsetSmall ==
  ASSUME NEW n \in Nat, NEW slow \in Nat, NEW f \in Nat, slow <= f, NEW d \in Nat,
         NEW a \in Nat, NEW fast \in Nat, a <= fast, NEW m \in Nat,
         n * fast * m < slow * 65536 * d
  PROVE  n * a * m < f * 65536 * d
<1> DEFINE lo == n * a
           hi == n * fast
           x == slow * 65536
           y == f * 65536
<1>1. lo \in Nat /\ hi \in Nat /\ x \in Nat /\ y \in Nat /\ lo <= hi /\ x <= y
  BY TimesMonotone
<1>2. hi * m < x * d
  OBVIOUS
<1> HIDE DEF lo, hi, x, y
<1>3. lo * m <= hi * m /\ x * d <= y * d
  BY <1>1, TimesMonotone
<1>4. lo * m < y * d
  BY <1>1, <1>2, <1>3
<1>5. QED BY <1>4 DEF lo, y

\* A sensor below a quarter of the slowest divided clock is so for all.
LEMMA SlowEnough ==
  ASSUME NEW top \in Nat, NEW f \in Nat, f <= top, NEW d \in Nat,
         NEW a \in Nat, NEW low \in Nat, low <= a, NEW m \in Nat,
         top * 4 * d < low * m
  PROVE  f * 4 * d < a * m
<1> DEFINE x == f * 4
           y == top * 4
<1>1. x \in Nat /\ y \in Nat /\ x <= y /\ y * d < low * m
  OBVIOUS
<1> HIDE DEF x, y
<1>2. x * d <= y * d /\ low * m <= a * m
  BY <1>1, TimesMonotone
<1>3. x * d < a * m
  BY <1>1, <1>2
<1>4. QED BY <1>3 DEF x

\* A channel that validates measures, at every clock within the tolerance.
LEMMA ConvertsMeasures ==
  ASSUME NEW cfg \in Config, ValidClock(cfg), NEW c \in ChannelConfig, CompleteRegisters(c),
         Converts(cfg, c), NEW a \in Nat, MayRun(cfg, a),
         NEW f \in Nat, c.sensorMin <= f, f <= c.sensorMax
  PROVE  Measures(c, a, f)
<1> DEFINE low == ClockMin(cfg)
           high == ClockMax(cfg)
           cycles == ConversionCycles(c)
           d == c.frefDivider
           m == c.finDivider
           slow == c.sensorMin
           top == c.sensorMax
           offset == c.offset
<1>1. low \in Nat /\ high \in Nat /\ low <= a /\ a <= high
  BY ClockWithin
<1>2. /\ c.rcount \in Nat /\ d \in Nat /\ m \in Nat /\ slow \in Nat /\ top \in Nat
      /\ offset \in Nat
  BY DEF ChannelConfig
<1>3. cycles \in Nat
  BY <1>2 DEF ConversionCycles
<1>4. /\ cycles * slow * d >= high * m
      /\ offset * high * m < slow * 65536 * d
      /\ top * 4 * d < low * m
  BY DEF Converts
<1> HIDE DEF low, high, cycles, d, m, slow, top, offset
<1>5. slow <= f /\ f <= top
  BY DEF slow, top
<1>6. cycles * f * d >= a * m
  BY <1>1, <1>2, <1>3, <1>4, <1>5, LongEnough
<1>7. offset * a * m < f * 65536 * d
  BY <1>1, <1>2, <1>4, <1>5, OffsetSmall
<1>8. f * 4 * d < a * m
  BY <1>1, <1>2, <1>4, <1>5, SlowEnough
<1>9. QED BY <1>6, <1>7, <1>8 DEF Measures, cycles, offset, d, m

\* The divided clock stays within the device's limit.
LEMMA FrefWithin ==
  ASSUME NEW cfg \in Config, ValidClock(cfg), NEW c \in ChannelConfig, CompleteRegisters(c),
         Converts(cfg, c), NEW a \in Nat, MayRun(cfg, a)
  PROVE  a <= FrefLimit(cfg) * c.frefDivider
<1> DEFINE high == ClockMax(cfg)
           limit == FrefLimit(cfg)
           d == c.frefDivider
           divided == CeilDivide(high, d)
<1>1. high \in Nat /\ a <= high
  BY ClockWithin
<1>2. d \in Nat \ {0}
  BY DEF CompleteRegisters, ChannelConfig
<1>3. limit \in Nat
  BY HzIsNat DEF FrefLimit
<1>4. divided <= limit
  BY DEF Converts
<1> HIDE DEF high, limit, d
<1>5. divided \in Nat /\ high <= divided * d
  BY <1>1, <1>2, CeilAbove
<1> HIDE DEF divided
<1>6. divided * d <= limit * d
  BY <1>2, <1>3, <1>4, <1>5, TimesMonotone
<1>7. a <= limit * d
  BY <1>1, <1>2, <1>3, <1>5, <1>6
<1>8. QED BY <1>7 DEF limit, d

-----------------------------------------------------------------------------
ProfileAsked == profile \in Config \cup {NotAsked}

LEMMA AskedIsProfile == Spec => []ProfileAsked
<1>1. Init => ProfileAsked
  BY DEF Init, ProfileAsked
<1>2. ProfileAsked /\ [Next]_vars => ProfileAsked'
  BY ProfilesAssumption DEF ProfileAsked, Next, Ask, Again, vars
<1>3. QED BY <1>1, <1>2, PTL DEF Spec

\* For every profile, unit and clock: a profile that validateConfig() accepts
\* measures at every frequency its reference clock may really have.
THEOREM ValidProfilesMeasure == Spec => []ValidMeansMeasurable
<1>1. ProfileAsked => ValidMeansMeasurable
  <2> SUFFICES ASSUME ProfileAsked, Asked, ValidateConfig(profile),
                      NEW k \in profile.channels, NEW a \in Clocks, MayRun(profile, a)
               PROVE  LET c == profile.channel[k]
                      IN  /\ a <= FrefLimit(profile) * c.frefDivider
                          /\ \A f \in {c.sensorMin, c.sensorMax} : Measures(c, a, f)
    BY DEF ValidMeansMeasurable
  <2> DEFINE c == profile.channel[k]
  <2>1. profile \in Config /\ a \in Nat
    BY ProfilesAssumption DEF ProfileAsked, Asked
  <2>2. k \in Channels /\ k \in PhysicalChannels(profile)
    BY <2>1 DEF Config, ValidateConfig
  <2>3. c \in ChannelConfig
    BY <2>1, <2>2 DEF Config
  <2>4. ValidClock(profile) /\ CompleteRegisters(c) /\ Converts(profile, c)
    BY <2>2 DEF ValidateConfig
  <2> HIDE DEF c
  <2>5. c.sensorMin \in Nat /\ c.sensorMax \in Nat /\ c.sensorMin <= c.sensorMax
    BY <2>3, <2>4 DEF ChannelConfig, Converts
  <2>6. a <= FrefLimit(profile) * c.frefDivider
    BY <2>1, <2>3, <2>4, FrefWithin
  <2>7. \A f \in {c.sensorMin, c.sensorMax} : Measures(c, a, f)
    BY <2>1, <2>3, <2>4, <2>5, ConvertsMeasures
  <2>8. QED BY <2>6, <2>7 DEF c
<1>2. QED BY AskedIsProfile, <1>1, PTL

-----------------------------------------------------------------------------
(* The estimate of a frame.                                                *)

\* The microseconds of one channel, at the slowest clock and rounded up,
\* cover its cycles at any clock that is not slower.
LEMMA ChannelCovered ==
  ASSUME NEW n \in Nat, NEW d \in Nat \ {0}, NEW m \in Nat, NEW low \in Nat, NEW a \in Nat,
         low <= a, low \div d # 0
  PROVE  CeilDivide(n * m, low \div d) \in Nat /\ (n * d) * m <= CeilDivide(n * m, low \div d) * a
<1> DEFINE floor == low \div d
           work == n * m
           us == CeilDivide(work, floor)
<1>1. floor \in Nat \ {0} /\ floor * d <= low /\ work \in Nat
  OBVIOUS
<1> HIDE DEF floor
<1>2. (n * d) * m = work * d
  OBVIOUS
<1> HIDE DEF work
<1>3. us \in Nat /\ work <= us * floor
  BY <1>1, CeilAbove
<1> HIDE DEF us
<1>4. us * floor \in Nat /\ floor * d \in Nat /\ floor * d <= a
  BY <1>1, <1>3
<1>5. work * d <= (us * floor) * d
  BY <1>1, <1>3, <1>4, TimesMonotone
<1>6. (us * floor) * d = us * (floor * d)
  BY <1>1, <1>3
<1>7. us * (floor * d) <= us * a
  BY <1>3, <1>4, TimesMonotone
<1>8. us \in Nat /\ (n * d) * m <= us * a
  BY <1>1, <1>2, <1>3, <1>4, <1>5, <1>6, <1>7
<1>9. QED BY <1>8 DEF us, work, floor

LEMMA TotalIsNat ==
  ASSUME NEW S \in SUBSET Channels, NEW x \in [S -> Nat]
  PROVE  Total(x) \in Nat
<1> DEFINE px(k) == IF k \in S THEN x[k] ELSE 0
<1>1. \A k \in 0 .. 3 : px(k) \in Nat
  OBVIOUS
<1>2. Total(x) = px(0) + px(1) + px(2) + px(3)
  BY DEF Total
<1> HIDE DEF px
<1>3. QED BY <1>1, <1>2

\* What holds of each channel holds of their sums.
LEMMA TotalCovered ==
  ASSUME NEW S \in SUBSET Channels, NEW x \in [S -> Nat], NEW y \in [S -> Nat],
         NEW m \in Nat, NEW a \in Nat, \A k \in S : x[k] * m <= y[k] * a
  PROVE  Total(x) * m <= Total(y) * a
<1> DEFINE px(k) == IF k \in S THEN x[k] ELSE 0
           py(k) == IF k \in S THEN y[k] ELSE 0
<1>1. \A k \in 0 .. 3 : px(k) \in Nat /\ py(k) \in Nat /\ px(k) * m <= py(k) * a
  OBVIOUS
<1>2. Total(x) = px(0) + px(1) + px(2) + px(3) /\ Total(y) = py(0) + py(1) + py(2) + py(3)
  BY DEF Total
<1> HIDE DEF px, py
<1>3. /\ px(0) \in Nat /\ px(1) \in Nat /\ px(2) \in Nat /\ px(3) \in Nat
      /\ py(0) \in Nat /\ py(1) \in Nat /\ py(2) \in Nat /\ py(3) \in Nat
      /\ px(0) * m <= py(0) * a /\ px(1) * m <= py(1) * a
      /\ px(2) * m <= py(2) * a /\ px(3) * m <= py(3) * a
  BY <1>1
<1>4. /\ Total(x) * m = px(0) * m + px(1) * m + px(2) * m + px(3) * m
      /\ Total(y) * a = py(0) * a + py(1) * a + py(2) * a + py(3) * a
  BY <1>2, <1>3
<1>5. QED BY <1>2, <1>3, <1>4

LEMMA UnitsAreNat ==
  /\ Micros \in Nat /\ Nanos \in Nat
  /\ WakeUs \in Nat /\ WakeCycles <= WakeUs * SlowestInternalMHz
<1>1. Micros \in Nat
  BY UnitAssumption DEF Micros
<1>2. WakeUs \in Nat /\ WakeCycles <= WakeUs * SlowestInternalMHz
  BY CeilAbove DEF WakeUs, WakeCycles, SlowestInternalMHz
<1>3. QED BY <1>1, <1>2 DEF Nanos

\* So do the microseconds that are counted between two channels, rounded
\* twice.
LEMMA SwitchCovered ==
  ASSUME NEW cfg, NEW k, cfg.channel[k].frefDivider \in Nat \ {0},
         NEW a \in Nat, ClockMin(cfg) \in Nat, ClockMin(cfg) <= a, FrefFloor(cfg, k) # 0
  PROVE  /\ SwitchUs(cfg, k) \in Nat
         /\ 692 * a + 5 * cfg.channel[k].frefDivider * Nanos <= SwitchUs(cfg, k) * (1000 * a)
<1> DEFINE d == cfg.channel[k].frefDivider
           low == ClockMin(cfg)
           m == Nanos
           n == 5
           ns == CeilDivide(n * m, low \div d)
           us == CeilDivide(692 + ns, 1000)
           us_ns == us * 1000
<1>1. /\ d \in Nat \ {0} /\ low \in Nat /\ low <= a /\ low \div d # 0
      /\ m \in Nat /\ n \in Nat
  BY UnitsAreNat DEF FrefFloor
<1>2. SwitchUs(cfg, k) = us
  BY DEF FrefFloor, SwitchUs
<1> HIDE DEF d, low, m, n
<1>3. ns \in Nat /\ (n * d) * m <= ns * a
  BY <1>1, ChannelCovered
<1> HIDE DEF ns
<1>4. us \in Nat /\ 692 + ns <= us * 1000
  BY <1>3, CeilAbove
<1> HIDE DEF us
<1>5. us_ns \in Nat /\ 692 + ns <= us_ns /\ us_ns * a = us * (1000 * a)
  BY <1>4
<1> HIDE DEF us_ns
<1>6. (692 + ns) * a <= us_ns * a
  BY <1>3, <1>5, TimesMonotone
<1>7. (692 + ns) * a = 692 * a + ns * a
  BY <1>3
<1> DEFINE x == (n * d) * m
           y == ns * a
           z == 692 * a
           v == us_ns * a
<1>8. x \in Nat /\ y \in Nat /\ z \in Nat /\ v \in Nat /\ x <= y /\ z + y <= v
  BY <1>1, <1>3, <1>5, <1>6, <1>7
<1> HIDE DEF x, y, z, v
<1>9. z + x <= v
  BY <1>8
<1>10. 692 * a + (n * d) * m <= us * (1000 * a)
  BY <1>5, <1>9 DEF x, z, v
<1>11. QED BY <1>2, <1>4, <1>10 DEF d, m, n

\* A channel of a valid profile, as the estimate sees it.
LEMMA ValidChannel ==
  ASSUME NEW cfg \in Config, ValidateConfig(cfg), NEW k \in cfg.channels
  PROVE  /\ cfg.channel[k] \in ChannelConfig /\ cfg.channel[k].frefDivider \in Nat \ {0}
         /\ ConversionCycles(cfg.channel[k]) \in Nat /\ SettleCycles(cfg.channel[k]) \in Nat
         /\ ClockMin(cfg) \div cfg.channel[k].frefDivider # 0
<1>1. k \in Channels /\ k \in PhysicalChannels(cfg)
  BY DEF Config, ValidateConfig
<1>2. cfg.channel[k] \in ChannelConfig
  BY <1>1 DEF Config
<1>3. CompleteRegisters(cfg.channel[k]) /\ Converts(cfg, cfg.channel[k])
  BY <1>1 DEF ValidateConfig
<1> DEFINE c == cfg.channel[k]
<1> HIDE DEF c
<1>4. /\ c.frefDivider \in Nat \ {0} /\ ConversionCycles(c) \in Nat /\ SettleCycles(c) \in Nat
      /\ ClockMin(cfg) \div c.frefDivider # 0
  BY <1>2, <1>3
  DEF c, ChannelConfig, CompleteRegisters, Converts, ConversionCycles, SettleCycles
<1>5. QED BY <1>2, <1>4 DEF c

TimedChannels(cfg, wanted) == IF cfg.mode = "SEQUENTIAL" THEN cfg.channels ELSE wanted

\* What an estimate says of the channels that are timed.
LEMMA EstimateIs ==
  ASSUME NEW cfg \in Config, NEW wanted
  PROVE  LET t == EstimateFrameTiming(cfg, wanted)
             S == TimedChannels(cfg, wanted)
         IN  /\ t.ok <=> ValidateConfig(cfg) /\ wanted # {} /\ wanted \subseteq cfg.channels
             /\ t.ok =>
                  /\ S \subseteq cfg.channels
                  /\ t.conversionUs = Total([k \in S |-> ConversionUs(cfg, k)])
                  /\ t.wakeAndSettleUs = WakeUs + Total([k \in S |-> SettleUs(cfg, k)])
                  /\ t.sequentialFrameUs = t.wakeAndSettleUs + t.conversionUs
                                            + Total([k \in S |-> SwitchUs(cfg, k)])
<1> DEFINE t == EstimateFrameTiming(cfg, wanted)
           S == TimedChannels(cfg, wanted)
           Estimable == ValidateConfig(cfg) /\ wanted # {} /\ wanted \subseteq cfg.channels
           Vanishes == ClockMin(cfg) = 0 \/ \E k \in S : FrefFloor(cfg, k) = 0
           conversion == Total([k \in S |-> ConversionUs(cfg, k)])
           wake == WakeUs + Total([k \in S |-> SettleUs(cfg, k)])
           switch == Total([k \in S |-> SwitchUs(cfg, k)])
           frame == wake + conversion + switch
           given == [ok |-> TRUE, wakeAndSettleUs |-> wake, conversionUs |-> conversion,
                     sequentialFrameUs |-> frame,
                     acquisitionTransfers |-> 2 + 2 * Cardinality(wanted)]
<1>1. Estimable => S \subseteq cfg.channels /\ S # {}
  BY DEF TimedChannels
<1>2. Estimable => ~Vanishes
  <2> SUFFICES ASSUME Estimable PROVE ~Vanishes OBVIOUS
  <2>1. \A k \in S : FrefFloor(cfg, k) # 0
    BY <1>1, ValidChannel DEF FrefFloor
  <2>2. PICK k \in S : TRUE
    BY <1>1
  <2>3. ClockMin(cfg) # 0
    <3>1. cfg.channel[k].frefDivider \in Nat \ {0} /\ ClockMin(cfg) \div cfg.channel[k].frefDivider # 0
      BY <1>1, <2>2, ValidChannel
    <3> DEFINE d == cfg.channel[k].frefDivider
    <3>2. d \in Nat \ {0} /\ ClockMin(cfg) \div d # 0
      BY <3>1
    <3> HIDE DEF d
    <3>3. 0 \div d = 0
      BY <3>2
    <3>4. QED BY <3>2, <3>3
  <2>4. QED BY <2>1, <2>3
<1>3. t = IF ~Estimable THEN NoTiming ELSE IF Vanishes THEN NoTiming ELSE given
  BY DEF EstimateFrameTiming, TimedChannels
<1> HIDE DEF t, conversion, wake, switch, Estimable, Vanishes, S
<1>4. CASE Estimable
  <2>1. t = given
    BY <1>2, <1>3, <1>4
  <2>2. /\ t.ok /\ t.conversionUs = conversion /\ t.wakeAndSettleUs = wake
        /\ t.sequentialFrameUs = t.wakeAndSettleUs + t.conversionUs + switch
    BY <2>1
  <2>3. QED BY <1>1, <1>4, <2>2 DEF Estimable, conversion, wake, switch, t, S
<1>5. CASE ~Estimable
  <2>1. t = NoTiming
    BY <1>3, <1>5
  <2>2. ~t.ok
    BY <2>1 DEF NoTiming
  <2>3. QED BY <1>5, <2>2 DEF Estimable, t
<1>6. QED BY <1>4, <1>5

\* The microseconds of all timed channels cover their cycles, and the delays
\* between them, at the clock `a`.
Covers(cfg, S, a) ==
  LET cc == [k \in S |-> ConversionCycles(cfg.channel[k]) * cfg.channel[k].frefDivider]
      sc == [k \in S |-> SettleCycles(cfg.channel[k]) * cfg.channel[k].frefDivider]
      xc == [k \in S |-> 692 * a + 5 * cfg.channel[k].frefDivider * Nanos]
      cu == [k \in S |-> ConversionUs(cfg, k)]
      su == [k \in S |-> SettleUs(cfg, k)]
      xu == [k \in S |-> SwitchUs(cfg, k)]
  IN  /\ Total(cc) * Micros <= Total(cu) * a /\ Total(cu) \in Nat
      /\ Total(sc) * Micros <= Total(su) * a /\ Total(sc) \in Nat /\ Total(su) \in Nat
      /\ Total(xc) <= Total(xu) * (1000 * a) /\ Total(xu) \in Nat

\* They do so at every clock within the tolerance.
LEMMA EstimateCovers ==
  ASSUME NEW cfg \in Config, ValidateConfig(cfg), NEW S \in SUBSET cfg.channels,
         NEW a \in Nat, MayRun(cfg, a)
  PROVE  Covers(cfg, S, a)
<1> DEFINE low == ClockMin(cfg)
           cc == [k \in S |-> ConversionCycles(cfg.channel[k]) * cfg.channel[k].frefDivider]
           sc == [k \in S |-> SettleCycles(cfg.channel[k]) * cfg.channel[k].frefDivider]
           cu == [k \in S |-> ConversionUs(cfg, k)]
           su == [k \in S |-> SettleUs(cfg, k)]
           xc == [k \in S |-> 692 * a + 5 * cfg.channel[k].frefDivider * Nanos]
           xu == [k \in S |-> SwitchUs(cfg, k)]
<1>1. low \in Nat /\ low <= a /\ Micros \in Nat /\ Nanos \in Nat /\ S \in SUBSET Channels
  BY ClockWithin, UnitsAreNat DEF ValidateConfig, Config
<1>2. ASSUME NEW k \in S
      PROVE  /\ cc[k] \in Nat /\ cu[k] \in Nat /\ cc[k] * Micros <= cu[k] * a
             /\ sc[k] \in Nat /\ su[k] \in Nat /\ sc[k] * Micros <= su[k] * a
             /\ xc[k] \in Nat /\ xu[k] \in Nat /\ xc[k] * 1 <= xu[k] * (1000 * a)
  <2> DEFINE d == cfg.channel[k].frefDivider
             n == ConversionCycles(cfg.channel[k])
             s == SettleCycles(cfg.channel[k])
  <2>1. d \in Nat \ {0} /\ n \in Nat /\ s \in Nat /\ low \div d # 0
    BY ValidChannel
  <2>2. xu[k] \in Nat /\ xc[k] <= xu[k] * (1000 * a)
    BY <1>1, <2>1, SwitchCovered DEF FrefFloor
  <2>3. /\ cc[k] = n * d /\ cu[k] = CeilDivide(n * Micros, low \div d)
        /\ sc[k] = s * d /\ su[k] = CeilDivide(s * Micros, low \div d)
        /\ xc[k] = 692 * a + 5 * d * Nanos
    BY DEF ConversionUs, SettleUs, FrefFloor
  <2> HIDE DEF cc, cu, sc, su, xc, xu, d, n, s, low
  <2>4. n * d \in Nat /\ s * d \in Nat /\ 692 * a + 5 * d * Nanos \in Nat
    BY <1>1, <2>1
  <2>5. /\ CeilDivide(n * Micros, low \div d) \in Nat
        /\ (n * d) * Micros <= CeilDivide(n * Micros, low \div d) * a
    BY <1>1, <2>1, ChannelCovered
  <2>6. /\ CeilDivide(s * Micros, low \div d) \in Nat
        /\ (s * d) * Micros <= CeilDivide(s * Micros, low \div d) * a
    BY <1>1, <2>1, ChannelCovered
  <2>7. xc[k] \in Nat /\ xc[k] * 1 <= xu[k] * (1000 * a)
    BY <2>2, <2>3, <2>4
  <2>8. QED BY <2>3, <2>4, <2>5, <2>6, <2>7, <2>2
<1>3. /\ cc \in [S -> Nat] /\ cu \in [S -> Nat] /\ sc \in [S -> Nat] /\ su \in [S -> Nat]
      /\ xc \in [S -> Nat] /\ xu \in [S -> Nat]
  BY <1>2
<1> HIDE DEF cc, cu, sc, su, xc, xu
<1>4. /\ Total(cc) \in Nat /\ Total(cu) \in Nat /\ Total(sc) \in Nat /\ Total(su) \in Nat
      /\ Total(xc) \in Nat /\ Total(xu) \in Nat
  BY <1>1, <1>3, TotalIsNat
<1>5. /\ Total(cc) * Micros <= Total(cu) * a
      /\ Total(sc) * Micros <= Total(su) * a
      /\ Total(xc) * 1 <= Total(xu) * (1000 * a)
  <2> DEFINE ns == 1000 * a
             m == Micros
  <2>1. ns \in Nat /\ 1 \in Nat /\ m \in Nat /\ S \in SUBSET Channels
    BY <1>1
  <2>2. /\ \A k \in S : cc[k] * m <= cu[k] * a
        /\ \A k \in S : sc[k] * m <= su[k] * a
        /\ \A k \in S : xc[k] * 1 <= xu[k] * ns
    BY <1>2
  <2> HIDE DEF ns, m
  <2>3. Total(cc) * m <= Total(cu) * a
    BY <1>3, <2>1, <2>2, TotalCovered
  <2>4. Total(sc) * m <= Total(su) * a
    BY <1>3, <2>1, <2>2, TotalCovered
  <2>5. Total(xc) * 1 <= Total(xu) * ns
    BY <1>3, <2>1, <2>2, TotalCovered
  <2>6. QED BY <2>3, <2>4, <2>5 DEF ns, m
<1>6. Total(xc) <= Total(xu) * (1000 * a)
  BY <1>4, <1>5
<1>7. QED BY <1>4, <1>5, <1>6 DEF Covers, cc, cu, sc, su, xc, xu

\* What was asked was answered.
Answered == Asked => profile \in Config /\ timing = EstimateFrameTiming(profile, mask)

LEMMA AskedIsAnswered == Spec => []Answered
<1>1. Init => Answered
  BY DEF Init, Answered, Asked
<1>2. Answered /\ [Next]_vars => Answered'
  BY ProfilesAssumption DEF Answered, Asked, Next, Ask, Again, vars
<1>3. QED BY <1>1, <1>2, PTL DEF Spec

\* The parts of the estimate as the property states them, for any amounts of
\* time that are covered separately.
LEMMA PartsAdd ==
  ASSUME NEW a \in Nat, NEW wake \in Nat, NEW us \in Nat, wake <= us * 35,
         NEW settle \in Nat, NEW m \in Nat, NEW settleUs \in Nat, settle * m <= settleUs * a
  PROVE  wake * a + settle * m * 35 <= (us + settleUs) * 35 * a
<1>1. wake * a <= (us * 35) * a
  BY TimesMonotone
<1> DEFINE x == settle * m
           y == settleUs * a
           z == us * a
           v == wake * a
<1>2. x \in Nat /\ y \in Nat /\ z \in Nat /\ v \in Nat /\ x <= y
  OBVIOUS
<1>3. (us * 35) * a = 35 * z /\ (us + settleUs) * 35 * a = 35 * z + 35 * y
  OBVIOUS
<1>4. v <= 35 * z
  BY <1>1, <1>3
<1> HIDE DEF x, y, z, v
<1>5. v + x * 35 <= 35 * z + 35 * y
  BY <1>2, <1>4
<1>6. QED BY <1>3, <1>5 DEF v, x

\* For every profile, unit and clock: a valid profile gets an estimate, and
\* every part of it is on the safe side of the clock's tolerance and of the
\* rounding.
THEOREM EstimatesAreConservative == Spec => []EstimateIsConservative
<1>1. Answered => EstimateIsConservative
  <2> SUFFICES ASSUME Answered, Asked PROVE EstimateIsConservative
    BY DEF EstimateIsConservative
  <2> DEFINE conversion == Total([k \in Timed |-> ConversionUs(profile, k)])
             settle == Total([k \in Timed |-> SettleUs(profile, k)])
             switch == Total([k \in Timed |-> SwitchUs(profile, k)])
  <2>1. /\ profile \in Config /\ Timed = TimedChannels(profile, mask)
        /\ timing = EstimateFrameTiming(profile, mask)
    BY DEF Answered, Timed, TimedChannels
  <2>2. /\ timing.ok <=> ValidateConfig(profile) /\ mask # {} /\ mask \subseteq profile.channels
        /\ timing.ok =>
             /\ Timed \subseteq profile.channels
             /\ timing.conversionUs = conversion
             /\ timing.wakeAndSettleUs = WakeUs + settle
             /\ timing.sequentialFrameUs
                  = timing.wakeAndSettleUs + timing.conversionUs + switch
    BY <2>1, EstimateIs
  <2>3. ASSUME timing.ok, NEW a \in Clocks, MayRun(profile, a)
        PROVE  /\ ConversionClocks * Micros <= timing.conversionUs * a
               /\ WakeCycles * a + SettleClocks * Micros * SlowestInternalMHz
                    <= timing.wakeAndSettleUs * SlowestInternalMHz * a
               /\ SwitchNanos(a)
                    <= (timing.sequentialFrameUs - timing.wakeAndSettleUs - timing.conversionUs)
                         * 1000 * a
    <3>1. a \in Nat
      BY ProfilesAssumption
    <3>2. /\ ConversionClocks * Micros <= conversion * a
          /\ SettleClocks * Micros <= settle * a
          /\ SwitchNanos(a) <= switch * (1000 * a)
          /\ conversion \in Nat /\ settle \in Nat /\ switch \in Nat /\ SettleClocks \in Nat
      <4>1. ValidateConfig(profile) /\ Timed \in SUBSET profile.channels
        BY <2>2, <2>3
      <4>2. profile \in Config /\ MayRun(profile, a)
        BY <2>1, <2>3
      <4>3. Covers(profile, Timed, a)
        BY <3>1, <4>1, <4>2, EstimateCovers
      <4>4. QED
        BY <4>3 DEF Covers, ConversionClocks, SettleClocks, SwitchNanos
    <3> HIDE DEF conversion, settle, switch
    <3>3. WakeCycles * a + SettleClocks * Micros * SlowestInternalMHz
            <= (WakeUs + settle) * SlowestInternalMHz * a
      <4>1. WakeUs \in Nat /\ Micros \in Nat /\ WakeCycles \in Nat /\ WakeCycles <= WakeUs * 35
        BY UnitsAreNat DEF WakeCycles, SlowestInternalMHz
      <4>2. WakeCycles * a + SettleClocks * Micros * 35 <= (WakeUs + settle) * 35 * a
        BY <3>1, <3>2, <4>1, PartsAdd
      <4> QED
        BY <4>2 DEF SlowestInternalMHz
    <3>4. timing.sequentialFrameUs - timing.wakeAndSettleUs - timing.conversionUs = switch
      BY <2>2, <2>3, <3>2, UnitsAreNat
    <3>5. switch * (1000 * a) = switch * 1000 * a
      BY <3>1, <3>2
    <3>6. QED BY <2>2, <2>3, <3>2, <3>3, <3>4, <3>5
  <2>4. QED BY <2>2, <2>3 DEF EstimateIsConservative
<1>2. QED BY AskedIsAnswered, <1>1, PTL
=============================================================================
