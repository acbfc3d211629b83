---------------------------- MODULE RegisterPlan ----------------------------
(***************************************************************************)
(* The register map of the LDC1612/LDC1614 as the driver uses it, and the  *)
(* plan by which a configuration job replays a complete profile: which     *)
(* register the k-th transfer of the replay writes, in which phase and for *)
(* which channel.  Register values are not part of the plan; a module that *)
(* needs them says which profile a write carries.                          *)
(***************************************************************************)
EXTENDS Integers, FiniteSets

NoChannel == 255          \* Channel::NONE
InvalidRegister == 255    \* INVALID_REGISTER

-----------------------------------------------------------------------------
(* The register map.                                                       *)

RegDataMsb(ch) == 2 * ch
RegDataLsb(ch) == 2 * ch + 1
RegRcount(ch) == 8 + ch
RegOffset(ch) == 12 + ch
RegSettleCount(ch) == 16 + ch
RegClockDividers(ch) == 20 + ch
RegStatus == 24
RegErrorConfig == 25
RegConfig == 26
RegMuxConfig == 27
RegResetDev == 28
RegDriveCurrent(ch) == 30 + ch
RegManufacturerId == 126
RegDeviceId == 127

Rcounts == 8 .. 11
Offsets == 12 .. 15
SettleCounts == 16 .. 19
ClockDividers == 20 .. 23
DriveCurrents == 30 .. 33

IsValidRegisterAddress(reg) ==
  reg \in 0 .. RegResetDev \cup DriveCurrents \cup {RegManufacturerId, RegDeviceId}

IsConfigurationRegister(reg) ==
  reg \in RegRcount(0) .. RegClockDividers(3) \cup DriveCurrents
            \cup {RegErrorConfig, RegConfig, RegMuxConfig, RegResetDev}

IsLdc1614OnlyRegister(reg) ==
  reg \in RegDataMsb(2) .. RegDataLsb(3) \cup 10 .. 11 \cup 14 .. 15
            \cup 18 .. 19 \cup 22 .. 23 \cup 32 .. 33

\* The variant test the direct register calls share; n is the variant's channels.
AvailableOnVariant(n, reg) == n = 4 \/ ~IsLdc1614OnlyRegister(reg)

-----------------------------------------------------------------------------
(* The per-channel part of the replay writes five registers in this order. *)

ChannelPhases == <<"WRITE_RCOUNT", "WRITE_SETTLECOUNT", "WRITE_CLOCK_DIVIDERS",
                   "WRITE_OFFSET", "WRITE_DRIVE_CURRENT">>
\* Mutant: two register files change places.
ChannelRegisterSwapped(field, ch) ==
  <<RegRcount(ch), RegOffset(ch), RegClockDividers(ch),
    RegSettleCount(ch), RegDriveCurrent(ch)>>[field]

ChannelRegister(field, ch) ==
  <<RegRcount(ch), RegSettleCount(ch), RegClockDividers(ch),
    RegOffset(ch), RegDriveCurrent(ch)>>[field]

\* Mutant: the plan ends before its last register.
ConfigurationTransferCountShort(n) == n * 5 + 2

ConfigurationTransferCount(n) == 1 + n * 5 + 2

\* The k-th write (k counted from zero) of the replay for n channels.
ConfigWriteAt(n, step) ==
  LET perChannel == step - 1
      field == (perChannel % 5) + 1
      global == perChannel - n * 5
  IN  IF step = 0 THEN
        [reg |-> RegConfig, phase |-> "FORCE_SLEEP", channel |-> NoChannel]
      ELSE IF perChannel < n * 5 THEN
        [reg |-> ChannelRegister(field, perChannel \div 5),
         phase |-> ChannelPhases[field], channel |-> perChannel \div 5]
      ELSE IF global = 0 THEN
        [reg |-> RegErrorConfig, phase |-> "WRITE_ERROR_CONFIG", channel |-> NoChannel]
      ELSE
        [reg |-> RegMuxConfig, phase |-> "WRITE_MUX_CONFIG", channel |-> NoChannel]

ConfigurationPhaseForRegister(reg) ==
  CASE reg \in Rcounts -> "WRITE_RCOUNT"
    [] reg \in SettleCounts -> "WRITE_SETTLECOUNT"
    [] reg \in ClockDividers -> "WRITE_CLOCK_DIVIDERS"
    [] reg \in Offsets -> "WRITE_OFFSET"
    [] reg \in DriveCurrents -> "WRITE_DRIVE_CURRENT"
    [] reg = RegErrorConfig -> "WRITE_ERROR_CONFIG"
    [] reg = RegMuxConfig -> "WRITE_MUX_CONFIG"
    [] reg = RegConfig -> "WRITE_FINAL_CONFIG"
    [] reg = RegResetDev -> "SOFTWARE_RESET"
    [] OTHER -> "NONE"

ConfigurationChannelForRegister(reg) ==
  CASE reg \in Rcounts -> reg - RegRcount(0)
    [] reg \in SettleCounts -> reg - RegSettleCount(0)
    [] reg \in ClockDividers -> reg - RegClockDividers(0)
    [] reg \in Offsets -> reg - RegOffset(0)
    [] reg \in DriveCurrents -> reg - RegDriveCurrent(0)
    [] OTHER -> NoChannel

\* Which bits of a readback of the register can be compared with the plan.
ConfigurationComparisonMask(reg) ==
  CASE reg \in Rcounts \cup Offsets \cup SettleCounts \cup ClockDividers
              \cup {RegErrorConfig, RegMuxConfig} -> "ALL_BITS"
    [] reg = RegConfig -> "ALL_BUT_SLEEP"
    [] reg \in DriveCurrents -> "ALL_BUT_INIT_IDRIVE"
    [] OTHER -> "NO_BITS"

\* The registers a whole replay for n channels writes.
ReplayRegisters(n) ==
  {ConfigWriteAt(n, k).reg : k \in 0 .. ConfigurationTransferCount(n) - 1}
=============================================================================
