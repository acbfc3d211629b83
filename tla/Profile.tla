-------------------------------- MODULE Profile --------------------------------
(***************************************************************************)
(* Profiles: what validateConfig() accepts, and what estimateFrameTiming() *)
(* says of an accepted one.  A profile is a record with the fields of      *)
(* Config; its callbacks are there or not.                                 *)
(*                                                                         *)
(* The code counts in hertz and parts per million, in 64 bits.  Here the   *)
(* units are constants: with UnitHz = 1 and PpmScale = 1000000 the         *)
(* formulas are the code's, with larger units a model checker can do them. *)
(***************************************************************************)
EXTENDS Integers, FiniteSets

CONSTANTS UnitHz, PpmScale

ASSUME UnitAssumption ==
  UnitHz \in Nat \ {0} /\ PpmScale \in Nat \ {0} /\ 1000000 % UnitHz = 0

Hz(n) == n \div UnitHz
Micros == 1000000 \div UnitHz      \* MICROS_PER_SECOND
Nanos == 1000 * Micros             \* NANOS_PER_SECOND

SensorMin == Hz(1000)
SensorMax == Hz(10000000)
InternalMin == Hz(35000000)
InternalMax == Hz(55000000)
ExternalMin == Hz(2000000)
ExternalMax == Hz(40000000)

PhysicalChannels(cfg) == 0 .. cfg.variant - 1   \* the variant is its channels: 0, 2 or 4
Unspecified == "UNSPECIFIED"
NoChannel == 255                                \* Channel::NONE
Channels == 0 .. 3

\* Which channels a round-robin sequence scans, and how wide a filter is.
SequenceMask == [CH0_CH1 |-> 0 .. 1, CH0_CH1_CH2 |-> 0 .. 2, CH0_CH1_CH2_CH3 |-> 0 .. 3,
                 UNSPECIFIED |-> {}]
Bandwidth == [BW_1MHZ |-> Hz(1000000), BW_3MHZ |-> Hz(3300000), BW_10MHZ |-> Hz(10000000),
              BW_33MHZ |-> Hz(33000000)]

Routes == {"dataUnderRange", "dataOverRange", "dataWatchdog", "dataAmplitudeHigh",
           "dataAmplitudeLow", "statusUnderRange", "statusOverRange", "statusWatchdog",
           "statusAmplitudeHigh", "statusAmplitudeLow", "statusZeroCount", "dataReady"}

ChannelConfig ==
  [rcount : Nat, settleCount : Nat, finDivider : Nat, frefDivider : Nat, offset : Nat,
   drive : Nat, sensorMin : Nat, sensorMax : Nat]

Config ==
  [callbacks : BOOLEAN, timeout : Nat, address : {"ADDR_GND", "ADDR_VDD", Unspecified},
   variant : {0, 2, 4}, channels : SUBSET Channels, channel : [Channels -> ChannelConfig],
   source : {"INTERNAL", "EXTERNAL", Unspecified}, clock : Nat, ppm : Nat,
   mode : {"SINGLE", "SEQUENTIAL", Unspecified}, active : Channels \cup {NoChannel},
   sequence : DOMAIN SequenceMask, deglitch : DOMAIN Bandwidth \cup {Unspecified},
   activation : {"FULL_CURRENT", "LOW_POWER"}, rpOverride : BOOLEAN,
   autoAmplitude : BOOLEAN, highCurrent : BOOLEAN, intbDisabled : BOOLEAN,
   errorReporting : SUBSET Routes]

CeilDivide(numerator, denominator) ==
  IF denominator = 0 THEN 0 ELSE (numerator + denominator - 1) \div denominator

-----------------------------------------------------------------------------
(* The reference clock.  An internal one has the range of the device,      *)
(* whatever the profile says of it.                                        *)

ClockMin(cfg) ==
  IF cfg.source = "INTERNAL" THEN InternalMin
  ELSE (cfg.clock * (PpmScale - cfg.ppm)) \div PpmScale

ClockMax(cfg) ==
  IF cfg.source = "INTERNAL" THEN InternalMax
  ELSE CeilDivide(cfg.clock * (PpmScale + cfg.ppm), PpmScale)

ValidClock(cfg) ==
  /\ cfg.ppm < PpmScale
  /\ \/ cfg.source = "INTERNAL" /\ cfg.clock \in InternalMin .. InternalMax
     \/ /\ cfg.source = "EXTERNAL" /\ cfg.clock \in ExternalMin .. ExternalMax
        /\ ClockMin(cfg) >= ExternalMin /\ ClockMax(cfg) <= ExternalMax

-----------------------------------------------------------------------------
(* The operating mode: a channel alone, or a sequence from channel 0.      *)

ValidMode(cfg) ==
  \/ /\ cfg.mode = "SINGLE" /\ cfg.sequence = Unspecified
     /\ cfg.active \in Channels /\ cfg.channels = {cfg.active}
  \/ /\ cfg.mode = "SEQUENTIAL" /\ cfg.active = NoChannel
     /\ cfg.channels = SequenceMask[cfg.sequence]

-----------------------------------------------------------------------------
(* A channel's registers, and what one that converts must keep apart.      *)

CompleteRegisters(c) ==
  /\ 5 <= c.rcount /\ c.rcount <= 65535
  /\ 1 <= c.finDivider /\ c.finDivider <= 15
  /\ 1 <= c.frefDivider /\ c.frefDivider <= 1023
  /\ c.drive <= 31

FrefLimit(cfg) ==
  IF cfg.mode = "SINGLE" THEN Hz(35000000)
  ELSE IF cfg.source = "EXTERNAL" THEN Hz(40000000) ELSE Hz(55000000)

ConversionCycles(c) == c.rcount * 16 + 4
SettleCycles(c) == IF c.settleCount <= 1 THEN 32 ELSE c.settleCount * 16

\* Mutant: the clock is taken at the wrong end of its range.
ConvertsTooFast(cfg, c) ==
  /\ c.rcount >= 9 /\ c.settleCount >= 4
  /\ SensorMin <= c.sensorMin /\ c.sensorMin <= c.sensorMax /\ c.sensorMax <= SensorMax
  /\ c.sensorMax < Bandwidth[cfg.deglitch]
  /\ c.sensorMax >= Hz(8750000) => c.finDivider >= 2
  /\ ClockMin(cfg) \div c.frefDivider # 0
  /\ CeilDivide(ClockMax(cfg), c.frefDivider) <= FrefLimit(cfg)
  /\ ConversionCycles(c) * c.sensorMin * c.frefDivider >= ClockMax(cfg) * c.finDivider
  /\ c.offset * ClockMax(cfg) * c.finDivider < c.sensorMin * 65536 * c.frefDivider
  /\ c.sensorMax * 4 * c.frefDivider < ClockMax(cfg) * c.finDivider

Converts(cfg, c) ==
  /\ c.rcount >= 9 /\ c.settleCount >= 4
  /\ SensorMin <= c.sensorMin /\ c.sensorMin <= c.sensorMax /\ c.sensorMax <= SensorMax
  /\ c.sensorMax < Bandwidth[cfg.deglitch]
  /\ c.sensorMax >= Hz(8750000) => c.finDivider >= 2
  /\ ClockMin(cfg) \div c.frefDivider # 0
  /\ CeilDivide(ClockMax(cfg), c.frefDivider) <= FrefLimit(cfg)
  /\ ConversionCycles(c) * c.sensorMin * c.frefDivider >= ClockMax(cfg) * c.finDivider
  /\ c.offset * ClockMax(cfg) * c.finDivider < c.sensorMin * 65536 * c.frefDivider
  /\ c.sensorMax * 4 * c.frefDivider < ClockMin(cfg) * c.finDivider

ValidateConfig(cfg) ==
  /\ cfg.callbacks /\ cfg.timeout > 0 /\ cfg.address \in {"ADDR_GND", "ADDR_VDD"}
  /\ cfg.variant \in {2, 4}
  /\ cfg.channels # {} /\ cfg.channels \subseteq PhysicalChannels(cfg)
  /\ ValidClock(cfg) /\ ValidMode(cfg)
  /\ cfg.deglitch \in DOMAIN Bandwidth /\ cfg.activation \in {"FULL_CURRENT", "LOW_POWER"}
  /\ cfg.highCurrent => cfg.active = 0
  /\ \A k \in PhysicalChannels(cfg) :
       CompleteRegisters(cfg.channel[k]) /\ (k \in cfg.channels => Converts(cfg, cfg.channel[k]))

-----------------------------------------------------------------------------
(* How long a frame takes, in microseconds, at the slowest clock.          *)

\* The sum of what is given for some of the channels.
Total(t) ==
  LET part(k) == IF k \in DOMAIN t THEN t[k] ELSE 0
  IN  part(0) + part(1) + part(2) + part(3)

FrefFloor(cfg, k) == ClockMin(cfg) \div cfg.channel[k].frefDivider
SettleUs(cfg, k) == CeilDivide(SettleCycles(cfg.channel[k]) * Micros, FrefFloor(cfg, k))
ConversionUs(cfg, k) == CeilDivide(ConversionCycles(cfg.channel[k]) * Micros, FrefFloor(cfg, k))
SwitchUs(cfg, k) == CeilDivide(692 + CeilDivide(5 * Nanos, FrefFloor(cfg, k)), 1000)

\* WAKE_DELAY_CYCLES of the internal oscillator at its slowest; both sides
\* of the code's division are in millions.
WakeUs == CeilDivide(16384, 35)

NoTiming == [ok |-> FALSE, wakeAndSettleUs |-> 0, conversionUs |-> 0, sequentialFrameUs |-> 0,
             acquisitionTransfers |-> 0]

\* Mutant: a sequence is timed by the channels that are asked for.
EstimateFrameTimingOfMask(cfg, mask) ==
  LET wake == WakeUs + Total([k \in mask |-> SettleUs(cfg, k)])
      conversion == Total([k \in mask |-> ConversionUs(cfg, k)])
  IN  IF ~ValidateConfig(cfg) \/ mask = {} \/ ~(mask \subseteq cfg.channels) THEN NoTiming
      ELSE [ok |-> TRUE, wakeAndSettleUs |-> wake, conversionUs |-> conversion,
            sequentialFrameUs |->
              wake + conversion + Total([k \in mask |-> SwitchUs(cfg, k)]),
            acquisitionTransfers |-> 2 + 2 * Cardinality(mask)]

\* A sequence takes all its channels' time, whichever of them are wanted.
\* What the code leaves half summed when a clock comes to zero is left out.
EstimateFrameTiming(cfg, mask) ==
  LET timed == IF cfg.mode = "SEQUENTIAL" THEN cfg.channels ELSE mask
      wake == WakeUs + Total([k \in timed |-> SettleUs(cfg, k)])
      conversion == Total([k \in timed |-> ConversionUs(cfg, k)])
  IN  IF ~ValidateConfig(cfg) \/ mask = {} \/ ~(mask \subseteq cfg.channels) THEN NoTiming
      ELSE IF ClockMin(cfg) = 0 \/ \E k \in timed : FrefFloor(cfg, k) = 0
      THEN NoTiming
      ELSE [ok |-> TRUE, wakeAndSettleUs |-> wake, conversionUs |-> conversion,
            sequentialFrameUs |->
              wake + conversion + Total([k \in timed |-> SwitchUs(cfg, k)]),
            acquisitionTransfers |-> 2 + 2 * Cardinality(mask)]
=============================================================================
