------------------------- MODULE ProfileReadbackProofs -------------------------
(***************************************************************************)
(* The replay plan and the tables beside it agree: where in the plan a     *)
(* register is written can be computed from its address, and the answer of *)
(* expectedConfigurationRegister() is that place.                          *)
(***************************************************************************)
EXTENDS ProfileReadback, FiniteSetTheorems, TLAPS

\* The channel counts of the LDC1612 and the LDC1614.
Variant == {2, 4}

\* The registers a replay is responsible for.
Planned(n, r) ==
  IsConfigurationRegister(r) /\ AvailableOnVariant(n, r) /\ r # RegResetDev

\* Where in the plan for n channels the register r is written.
Place(n, r) ==
  IF r = RegConfig THEN 0
  ELSE IF r = RegErrorConfig THEN n * 5 + 1
  ELSE IF r = RegMuxConfig THEN n * 5 + 2
  ELSE IF r \in Rcounts THEN 5 * (r - 8) + 1
  ELSE IF r \in SettleCounts THEN 5 * (r - 16) + 2
  ELSE IF r \in ClockDividers THEN 5 * (r - 20) + 3
  ELSE IF r \in Offsets THEN 5 * (r - 12) + 4
  ELSE 5 * (r - 30) + 5

\* The tables beside the plan say of a register what the plan's write says.
Described(write) ==
  /\ write.channel = ConfigurationChannelForRegister(write.reg)
  /\ write.phase # ConfigurationPhaseForRegister(write.reg) => write.reg = RegConfig

\* One of the five registers of a channel.
LEMMA ChannelWrite ==
  ASSUME NEW n \in Variant, NEW c \in 0 .. n - 1, NEW f \in 0 .. 4
  PROVE  /\ 5 * c + f + 1 \in 0 .. ConfigurationTransferCount(n) - 1
         /\ ConfigWriteAt(n, 5 * c + f + 1)
              = [reg |-> ChannelRegister(f + 1, c), phase |-> ChannelPhases[f + 1], channel |-> c]
<1>1. n \in {2, 4} /\ 5 * c + f < n * 5
  BY DEF Variant
<1>2. (5 * c + f) % 5 = f /\ (5 * c + f) \div 5 = c
  OBVIOUS
<1> DEFINE k == 5 * c + f + 1
<1>3. k # 0 /\ k - 1 = 5 * c + f /\ k \in 0 .. n * 5 + 2
  BY <1>1
<1>4. QED BY <1>1, <1>2, <1>3 DEF ConfigWriteAt, ConfigurationTransferCount

\* Each of them is in the map, at its place, and as the tables have it.
LEMMA ChannelPlace ==
  ASSUME NEW n \in Variant, NEW c \in 0 .. n - 1, NEW f \in 0 .. 4
  PROVE  LET r == ChannelRegister(f + 1, c)
         IN  /\ Planned(n, r) /\ r \in 0 .. 255 /\ Place(n, r) = 5 * c + f + 1
             /\ Described([reg |-> r, phase |-> ChannelPhases[f + 1], channel |-> c])
<1> DEFINE r == ChannelRegister(f + 1, c)
<1>1. n \in {2, 4} /\ c \in 0 .. 3 /\ (n = 2 => c \in 0 .. 1)
  BY DEF Variant
<1>2. \/ f = 0 /\ r = 8 + c /\ ChannelPhases[f + 1] = "WRITE_RCOUNT"
      \/ f = 1 /\ r = 16 + c /\ ChannelPhases[f + 1] = "WRITE_SETTLECOUNT"
      \/ f = 2 /\ r = 20 + c /\ ChannelPhases[f + 1] = "WRITE_CLOCK_DIVIDERS"
      \/ f = 3 /\ r = 12 + c /\ ChannelPhases[f + 1] = "WRITE_OFFSET"
      \/ f = 4 /\ r = 30 + c /\ ChannelPhases[f + 1] = "WRITE_DRIVE_CURRENT"
  BY DEF ChannelRegister, ChannelPhases, RegRcount, RegSettleCount, RegClockDividers, RegOffset,
         RegDriveCurrent
<1> HIDE DEF r
<1>3. Planned(n, r) /\ r \in 0 .. 255
  BY <1>1, <1>2 DEF Planned, IsConfigurationRegister, AvailableOnVariant, IsLdc1614OnlyRegister,
     RegRcount, RegClockDividers, DriveCurrents, RegErrorConfig, RegConfig, RegMuxConfig,
     RegResetDev, RegDataMsb, RegDataLsb
<1>4. Place(n, r) = 5 * c + f + 1
  BY <1>1, <1>2 DEF Place, RegConfig, RegErrorConfig, RegMuxConfig, Rcounts, SettleCounts,
     ClockDividers, Offsets
<1>5. ConfigurationChannelForRegister(r) = c
  BY <1>1, <1>2 DEF ConfigurationChannelForRegister, Rcounts, SettleCounts, ClockDividers,
     Offsets, DriveCurrents, RegRcount, RegSettleCount, RegClockDividers, RegOffset,
     RegDriveCurrent
<1>6. ConfigurationPhaseForRegister(r) = ChannelPhases[f + 1]
  BY <1>1, <1>2 DEF ConfigurationPhaseForRegister, Rcounts, SettleCounts, ClockDividers,
     Offsets, DriveCurrents, RegErrorConfig, RegMuxConfig, RegConfig, RegResetDev
<1>7. QED BY <1>3, <1>4, <1>5, <1>6 DEF Described, r

\* The three writes to registers that belong to no channel.
LEMMA GlobalWrites ==
  ASSUME NEW n \in Variant, NEW k \in {0, n * 5 + 1, n * 5 + 2}
  PROVE  LET w == ConfigWriteAt(n, k)
         IN  /\ k \in 0 .. ConfigurationTransferCount(n) - 1
             /\ w.reg = IF k = 0 THEN RegConfig
                        ELSE IF k = n * 5 + 1 THEN RegErrorConfig ELSE RegMuxConfig
             /\ Planned(n, w.reg) /\ Place(n, w.reg) = k /\ Described(w)
<1> DEFINE w == ConfigWriteAt(n, k)
<1>1. n \in {2, 4}
  BY DEF Variant
<1>2. \/ /\ k = 0
         /\ w = [reg |-> 26, phase |-> "FORCE_SLEEP", channel |-> NoChannel]
      \/ /\ k = n * 5 + 1 /\ k # 0
         /\ w = [reg |-> 25, phase |-> "WRITE_ERROR_CONFIG", channel |-> NoChannel]
      \/ /\ k = n * 5 + 2 /\ k # 0 /\ k # n * 5 + 1
         /\ w = [reg |-> 27, phase |-> "WRITE_MUX_CONFIG", channel |-> NoChannel]
  BY <1>1 DEF ConfigWriteAt, RegConfig, RegErrorConfig, RegMuxConfig
<1> HIDE DEF w
<1>3. k \in 0 .. ConfigurationTransferCount(n) - 1
  BY <1>1 DEF ConfigurationTransferCount
<1>4. w.reg = IF k = 0 THEN RegConfig
              ELSE IF k = n * 5 + 1 THEN RegErrorConfig ELSE RegMuxConfig
  BY <1>2 DEF RegConfig, RegErrorConfig, RegMuxConfig
<1>5. Planned(n, w.reg)
  BY <1>2 DEF Planned, IsConfigurationRegister, AvailableOnVariant, IsLdc1614OnlyRegister,
     RegRcount, RegClockDividers, DriveCurrents, RegErrorConfig, RegConfig, RegMuxConfig,
     RegResetDev, RegDataMsb, RegDataLsb
<1>6. Place(n, w.reg) = k
  BY <1>2 DEF Place, RegConfig, RegErrorConfig, RegMuxConfig
<1>7. Described(w)
  BY <1>2 DEF Described, ConfigurationChannelForRegister, ConfigurationPhaseForRegister, Rcounts,
     SettleCounts, ClockDividers, Offsets, DriveCurrents, RegErrorConfig, RegMuxConfig, RegConfig,
     RegResetDev
<1>8. QED BY <1>3, <1>4, <1>5, <1>6, <1>7 DEF w

\* Every step of the plan writes a register of the profile, in its place.
LEMMA StepsHaveTheirPlace ==
  ASSUME NEW n \in Variant, NEW k \in 0 .. ConfigurationTransferCount(n) - 1
  PROVE  LET w == ConfigWriteAt(n, k)
         IN  Planned(n, w.reg) /\ Place(n, w.reg) = k /\ Described(w)
<1> DEFINE c == (k - 1) \div 5
           f == (k - 1) % 5
<1>1. n \in {2, 4} /\ k \in 0 .. n * 5 + 2
  BY DEF Variant, ConfigurationTransferCount
<1>2. CASE k \in {0, n * 5 + 1, n * 5 + 2}
  BY <1>2, GlobalWrites
<1>3. CASE k \notin {0, n * 5 + 1, n * 5 + 2}
  <2>1. k - 1 \in 0 .. n * 5 - 1
    BY <1>1, <1>3
  <2>2. f \in 0 .. 4 /\ c \in 0 .. n - 1 /\ k = 5 * c + f + 1
    BY <1>1, <2>1
  <2> HIDE DEF c, f
  <2> DEFINE r == ChannelRegister(f + 1, c)
             w == ConfigWriteAt(n, k)
  <2>3. w = [reg |-> r, phase |-> ChannelPhases[f + 1], channel |-> c]
    BY <2>2, ChannelWrite
  <2>4. Planned(n, r) /\ Place(n, r) = k
        /\ Described([reg |-> r, phase |-> ChannelPhases[f + 1], channel |-> c])
    BY <2>2, ChannelPlace
  <2> HIDE DEF r, w
  <2>5. w.reg = r /\ Described(w)
    BY <2>3, <2>4
  <2>6. QED BY <2>4, <2>5 DEF w
<1>4. QED BY <1>2, <1>3

\* Every register of the profile is written at its place.
LEMMA PlacesAreSteps ==
  ASSUME NEW n \in Variant, NEW r, Planned(n, r)
  PROVE  /\ Place(n, r) \in 0 .. ConfigurationTransferCount(n) - 1
         /\ ConfigWriteAt(n, Place(n, r)).reg = r
<1>1. n \in {2, 4} /\ r \in Int
  BY DEF Variant, Planned, IsConfigurationRegister, RegRcount, RegClockDividers, DriveCurrents,
         RegErrorConfig, RegConfig, RegMuxConfig, RegResetDev
<1>2. CASE r \in {RegConfig, RegErrorConfig, RegMuxConfig}
  <2>1. Place(n, r) \in {0, n * 5 + 1, n * 5 + 2}
    BY <1>1, <1>2 DEF Place
  <2>2. r = IF Place(n, r) = 0 THEN RegConfig
            ELSE IF Place(n, r) = n * 5 + 1 THEN RegErrorConfig ELSE RegMuxConfig
    BY <1>1, <1>2 DEF Place, RegConfig, RegErrorConfig, RegMuxConfig
  <2>3. QED BY <2>1, <2>2, GlobalWrites
<1>3. CASE r \notin {RegConfig, RegErrorConfig, RegMuxConfig}
  <2>1. \E c \in 0 .. n - 1, f \in 0 .. 4 : r = ChannelRegister(f + 1, c)
    <3>1. \E c \in 0 .. n - 1 : r \in {8 + c, 16 + c, 20 + c, 12 + c, 30 + c}
      <4>1. \E c \in 0 .. 3 : r \in {8 + c, 16 + c, 20 + c, 12 + c, 30 + c}
        BY <1>3 DEF Planned, IsConfigurationRegister, RegRcount, RegClockDividers, DriveCurrents,
           RegErrorConfig, RegConfig, RegMuxConfig, RegResetDev
      <4>2. n = 2 => \A c \in 2 .. 3 : r \notin {8 + c, 16 + c, 20 + c, 12 + c, 30 + c}
        BY DEF Planned, AvailableOnVariant, IsLdc1614OnlyRegister, RegDataMsb, RegDataLsb
      <4>3. QED BY <1>1, <4>1, <4>2
    <3>2. PICK c \in 0 .. n - 1 : r \in {8 + c, 16 + c, 20 + c, 12 + c, 30 + c}
      BY <3>1
    <3>3. /\ ChannelRegister(0 + 1, c) = 8 + c /\ ChannelRegister(1 + 1, c) = 16 + c
          /\ ChannelRegister(2 + 1, c) = 20 + c /\ ChannelRegister(3 + 1, c) = 12 + c
          /\ ChannelRegister(4 + 1, c) = 30 + c
      BY DEF ChannelRegister, RegRcount, RegSettleCount, RegClockDividers, RegOffset,
             RegDriveCurrent
    <3>4. QED BY <3>2, <3>3
  <2>2. PICK c \in 0 .. n - 1, f \in 0 .. 4 : r = ChannelRegister(f + 1, c)
    BY <2>1
  <2> DEFINE k == 5 * c + f + 1
  <2>3. Place(n, r) = k
    BY <2>2, ChannelPlace
  <2>4. /\ k \in 0 .. ConfigurationTransferCount(n) - 1
        /\ ConfigWriteAt(n, k) = [reg |-> r, phase |-> ChannelPhases[f + 1], channel |-> c]
    BY <2>2, ChannelWrite
  <2> HIDE DEF k
  <2>5. QED BY <2>3, <2>4
<1>4. QED BY <1>2, <1>3

-----------------------------------------------------------------------------
(* The answers.                                                            *)

\* A register is asked of one of the variants, and the answer is its place.
ReadbackInv ==
  /\ channels \in Variant /\ reg \in 0 .. 255
  /\ answer = IF Planned(channels, reg)
              THEN [step |-> Place(channels, reg), mask |-> ConfigurationComparisonMask(reg)]
              ELSE NotAsked

\* The steps that write a register are its place, or there are none.
LEMMA StepsAreThePlace ==
  ASSUME channels \in Variant, NEW r
  PROVE  StepsFor(r) = IF Planned(channels, r) THEN {Place(channels, r)} ELSE {}
<1>1. \A k \in PlanSteps : ConfigWriteAt(channels, k).reg = r =>
        Planned(channels, r) /\ k = Place(channels, r)
  BY StepsHaveTheirPlace DEF PlanSteps
<1>2. Planned(channels, r) =>
        Place(channels, r) \in PlanSteps /\ ConfigWriteAt(channels, Place(channels, r)).reg = r
  BY PlacesAreSteps DEF PlanSteps
<1>3. QED BY <1>1, <1>2 DEF StepsFor

\* Nothing has been asked, of an address that is not in the plan.
LEMMA InitReadback == Init => ReadbackInv
<1> SUFFICES ASSUME Init PROVE ReadbackInv
  OBVIOUS
<1>1. channels \in Variant /\ reg = 0 /\ answer = NotAsked
  BY DEF Init, Variant
<1>2. ~Planned(channels, 0)
  BY DEF Planned, IsConfigurationRegister, RegRcount, RegClockDividers, DriveCurrents,
     RegErrorConfig, RegConfig, RegMuxConfig, RegResetDev
<1>3. QED BY <1>1, <1>2 DEF ReadbackInv

\* The first write found is the only one there is.
LEMMA NextReadback == ReadbackInv /\ [Next]_readback => ReadbackInv'
<1> SUFFICES ASSUME ReadbackInv, [Next]_readback PROVE ReadbackInv'
  OBVIOUS
<1>1. CASE UNCHANGED readback
  BY <1>1 DEF readback, ReadbackInv
<1>2. CASE Next
  <2>1. PICK r \in 0 .. 255 : ExpectedConfigurationRegister(r)
    BY <1>2 DEF Next
  <2> DEFINE p == Place(channels, r)
             s == CHOOSE k \in StepsFor(r) : \A other \in StepsFor(r) : k <= other
  <2>2. channels' = channels /\ reg' = r /\ channels \in Variant
    BY <2>1 DEF ExpectedConfigurationRegister, ReadbackInv
  <2>3. answer' = IF StepsFor(r) = {} THEN NotAsked
                  ELSE [step |-> s, mask |-> ConfigurationComparisonMask(r)]
    BY <2>1 DEF ExpectedConfigurationRegister
  <2>4. StepsFor(r) = IF Planned(channels, r) THEN {p} ELSE {}
    BY <2>2, StepsAreThePlace
  <2>5. Planned(channels, r) => s = p
    <3>1. Planned(channels, r) => p \in Int
      BY <2>2, PlacesAreSteps
    <3>2. QED BY <2>4, <3>1
  <2> HIDE DEF p, s
  <2>6. answer' = IF Planned(channels, r)
                  THEN [step |-> p, mask |-> ConfigurationComparisonMask(r)] ELSE NotAsked
    BY <2>3, <2>4, <2>5
  <2>7. QED BY <2>2, <2>6 DEF ReadbackInv, p
<1>3. QED BY <1>1, <1>2

\* Whatever expectedConfigurationRegister() is asked, it answers with the one
\* place at which the replay writes the register, and has no answer for others.
THEOREM ReadbackInvariant == Spec => []ReadbackInv
<1>1. QED BY InitReadback, NextReadback, PTL DEF Spec

\* What a register of the profile can be compared in, and that it exists.
LEMMA PlannedIsComparable ==
  ASSUME NEW n \in Variant, NEW r, Planned(n, r)
  PROVE  ConfigurationComparisonMask(r) # "NO_BITS" /\ IsValidRegisterAddress(r)
<1>1. r \in 8 .. 23 \cup 30 .. 33 \cup {25, 26, 27}
  BY DEF Planned, IsConfigurationRegister, RegRcount, RegClockDividers, DriveCurrents,
     RegErrorConfig, RegConfig, RegMuxConfig, RegResetDev
<1>2. ConfigurationComparisonMask(r) # "NO_BITS"
  BY <1>1 DEF ConfigurationComparisonMask, Rcounts, Offsets, SettleCounts, ClockDividers,
     DriveCurrents, RegErrorConfig, RegMuxConfig, RegConfig
<1>3. IsValidRegisterAddress(r)
  BY <1>1 DEF IsValidRegisterAddress, RegResetDev, DriveCurrents
<1>4. QED BY <1>2, <1>3

\* The replay writes every persistent configuration register of the variant
\* once, and nothing else; all of it can be read back and compared.
THEOREM PlanIsTheProfile == Spec => []PlanCoversProfileOnce
<1>1. ReadbackInv => PlanCoversProfileOnce
  <2> SUFFICES ASSUME ReadbackInv PROVE PlanCoversProfileOnce
    OBVIOUS
  <2>1. channels \in Variant
    BY DEF ReadbackInv
  <2>2. StepsFor(reg) = IF Planned(channels, reg) THEN {Place(channels, reg)} ELSE {}
    BY <2>1, StepsAreThePlace
  <2>3. Cardinality(StepsFor(reg)) <= 1
    <3>1. Cardinality({}) = 0 /\ Cardinality({Place(channels, reg)}) = 1
      BY FS_EmptySet, FS_Singleton
    <3>2. QED BY <2>2, <3>1
  <2>4. Planned(channels, reg) => Place(channels, reg) # -1
    BY <2>1, PlacesAreSteps
  <2>5. Found <=> Planned(channels, reg)
    BY <2>4 DEF ReadbackInv, Found, NotAsked
  <2>6. answer.mask # "NO_BITS" <=> Planned(channels, reg)
    BY <2>1, PlannedIsComparable DEF ReadbackInv, NotAsked
  <2>7. QED BY <2>1, <2>2, <2>3, <2>5, <2>6, PlannedIsComparable DEF PlanCoversProfileOnce, Planned
<1>2. QED BY <1>1, ReadbackInvariant, PTL

\* A diagnostic write (configurationPhaseForRegister) names the phase and the
\* channel the replay's write to the register has.
THEOREM ProvenanceIsTheSame == Spec => []ProvenanceAgrees
<1>1. ReadbackInv => ProvenanceAgrees
  <2> SUFFICES ASSUME ReadbackInv, Found PROVE ProvenanceAgrees
    BY DEF ProvenanceAgrees
  <2>1. channels \in Variant /\ Planned(channels, reg) /\ answer.step = Place(channels, reg)
    BY DEF ReadbackInv, Found, NotAsked
  <2>2. /\ answer.step \in 0 .. ConfigurationTransferCount(channels) - 1
        /\ ConfigWriteAt(channels, answer.step).reg = reg
    BY <2>1, PlacesAreSteps
  <2>3. Described(ConfigWriteAt(channels, answer.step))
    BY <2>1, <2>2, StepsHaveTheirPlace
  <2>4. QED BY <2>2, <2>3 DEF ProvenanceAgrees, Described
<1>2. QED BY <1>1, ReadbackInvariant, PTL
=============================================================================
