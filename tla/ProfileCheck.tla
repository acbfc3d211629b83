------------------------------ MODULE ProfileCheck ------------------------------
(***************************************************************************)
(* Profiles put to validateConfig() and estimateFrameTiming(), and their   *)
(* answers held against the device: against every frequency its reference  *)
(* clock may really have, and every one its sensors may.                   *)
(***************************************************************************)
EXTENDS Profile

CONSTANTS Profiles,  \* what is put to the test
          Clocks     \* frequencies at which a reference clock is looked at

ASSUME ProfilesAssumption == Profiles \subseteq Config /\ Clocks \subseteq Nat

VARIABLES profile, mask, timing

vars == <<profile, mask, timing>>

NotAsked == [variant |-> 0]

Init == profile = NotAsked /\ mask = {} /\ timing = NoTiming

Ask ==
  /\ profile = NotAsked
  /\ profile' \in Profiles
  /\ mask' \in SUBSET PhysicalChannels(profile')
  /\ timing' = EstimateFrameTiming(profile', mask')

Again == profile # NotAsked /\ profile' = NotAsked /\ mask' = {} /\ timing' = NoTiming

Next == Ask \/ Again

Spec == Init /\ [][Next]_vars

-----------------------------------------------------------------------------
(* The device, after its data sheet as the comments of validateConfig()    *)
(* quote it.                                                               *)

\* The reference clock may really run at `a`.
MayRun(cfg, a) ==
  IF cfg.source = "INTERNAL" THEN a \in InternalMin .. InternalMax
  ELSE /\ cfg.clock * (PpmScale - cfg.ppm) <= a * PpmScale
       /\ a * PpmScale <= cfg.clock * (PpmScale + cfg.ppm)

\* A clock of `a` and a sensor at `f`: a conversion lasts a period of the
\* divided sensor, the offset does not hide it, and it stays below a quarter
\* of the divided clock.
Measures(c, a, f) ==
  /\ ConversionCycles(c) * f * c.frefDivider >= a * c.finDivider
  /\ c.offset * a * c.finDivider < f * 65536 * c.frefDivider
  /\ f * 4 * c.frefDivider < a * c.finDivider

Asked == profile # NotAsked

\* A profile that validates works at every clock within the tolerance and
\* every frequency of the expected range, not just at the corners that
\* validateConfig() computes, rounded, from both.
ValidMeansMeasurable ==
  Asked /\ ValidateConfig(profile) =>
    \A k \in profile.channels, a \in Clocks :
      MayRun(profile, a) =>
        LET c == profile.channel[k]
        IN  /\ a <= FrefLimit(profile) * c.frefDivider
            /\ \A f \in {c.sensorMin, c.sensorMax} : Measures(c, a, f)

\* The cycles that all channels under way wait or convert for, in the
\* undivided clock: what they last at `a` is this over `a`.
Timed == IF profile.mode = "SEQUENTIAL" THEN profile.channels ELSE mask
ConversionClocks ==
  Total([k \in Timed |-> ConversionCycles(profile.channel[k]) * profile.channel[k].frefDivider])
SettleClocks ==
  Total([k \in Timed |-> SettleCycles(profile.channel[k]) * profile.channel[k].frefDivider])

\* The device wakes up on its internal oscillator, of 35 MHz at its slowest.
WakeCycles == 16384
SlowestInternalMHz == 35

\* The typical delays between channels, 692 ns and five cycles of the divided
\* clock each, in nanoseconds times `a`.
SwitchNanos(a) == Total([k \in Timed |-> 692 * a + 5 * profile.channel[k].frefDivider * Nanos])

\* A valid profile always gets an estimate, and its three parts, hence the
\* frame they add up to, are on the safe side of every clock within the
\* tolerance and of every rounding: what is waited to wake and settle, what is
\* converted, and what is spent between channels.  It is no bound on the device
\* itself: the delays between channels are typical ones, and those of the
\* amplitude correction are not specified at all.
EstimateIsConservative ==
  Asked =>
    /\ timing.ok <=> ValidateConfig(profile) /\ mask # {} /\ mask \subseteq profile.channels
    /\ timing.ok =>
         \A a \in Clocks :
           MayRun(profile, a) =>
             /\ ConversionClocks * Micros <= timing.conversionUs * a
             /\ WakeCycles * a + SettleClocks * Micros * SlowestInternalMHz
                  <= timing.wakeAndSettleUs * SlowestInternalMHz * a
             /\ SwitchNanos(a)
                  <= (timing.sequentialFrameUs - timing.wakeAndSettleUs - timing.conversionUs)
                       * 1000 * a
=============================================================================
