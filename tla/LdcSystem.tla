------------------------------ MODULE LdcSystem ------------------------------
(***************************************************************************)
(* The driver of LdcDriver on the bus with a device.  The device keeps     *)
(* configuration registers and a sleep bit; a callback that returns        *)
(* success has written them, an address NACK has not, and any other error  *)
(* leaves it open.  The supply may fail at any moment without the driver   *)
(* being told.                                                             *)
(*                                                                         *)
(* One configuration register, chosen freely at the start, is watched: a   *)
(* statement about the watched register holds of every register.  Its      *)
(* content is the profile whose replay wrote it.                           *)
(***************************************************************************)
EXTENDS LdcDriver

CONSTANT WatchedRegisters   \* the configuration registers to choose from

ASSUME WatchedAssumption ==
  WatchedRegisters # {} /\ WatchedRegisters \subseteq ReplayRegisters(ChannelCount)

VARIABLES
  watched,    \* address of the watched configuration register
  content,    \* the profile it holds, "RESET" or "FOREIGN"
  asleep,     \* the device's SLEEP_MODE_EN bit
  disturbed   \* the device was reset behind the driver's back, and the driver
              \* neither went to UNKNOWN nor began a replay since

deviceVars == <<watched, content, asleep, disturbed>>
systemVars == <<vars, deviceVars>>

SystemInit ==
  /\ Init
  /\ watched \in WatchedRegisters
  /\ content = "RESET" /\ asleep = TRUE   \* CONFIG_DEFAULT sets the sleep bit
  /\ disturbed = FALSE

-----------------------------------------------------------------------------
(* The device's side of a write.                                           *)

AcceptWrite(reg, value, sleepBit) ==
  /\ content' = IF reg = RegResetDev THEN "RESET" ELSE IF reg = watched THEN value ELSE content
  /\ asleep' = IF reg = RegResetDev THEN TRUE ELSE IF reg = RegConfig THEN sleepBit ELSE asleep

DeviceWrite(reg, value, sleepBit, status) ==
  /\ \/ status # "I2C_NACK_ADDR" /\ AcceptWrite(reg, value, sleepBit)
     \/ status # "OK" /\ UNCHANGED <<content, asleep>>
  /\ UNCHANGED watched

\* What the driver does about trust ends a disturbance when it stops believing.
SettleDisturbance(replayBegins) ==
  disturbed' = (disturbed /\ appliedState' # "UNKNOWN" /\ ~replayBegins)

ConfigurationTransfer(status) ==
  \/ /\ WriteReset(status)
     /\ DeviceWrite(RegResetDev, "RESET", TRUE, status) /\ SettleDisturbance(FALSE)
  \/ /\ WriteConfiguration(status)
     /\ DeviceWrite(ApplyWrite.reg, config, TRUE, status)
     /\ SettleDisturbance(ApplyWrite.phase = "FORCE_SLEEP" /\ status = "OK")

DirectWrite(status) ==
  /\ \/ Sleep(status) /\ DeviceWrite(RegConfig, config, TRUE, status)
     \/ Wake(status) /\ DeviceWrite(RegConfig, config, FALSE, status)
     \/ \E reg \in DiagnosticRegisters, sleepBit \in BOOLEAN :
          WriteRegister16(reg, status) /\ DeviceWrite(reg, "FOREIGN", sleepBit, status)
  /\ SettleDisturbance(FALSE)

\* Reads, timeouts and the calls that do no transfer leave the registers alone.
ReadTransfer(status) ==
  /\ \/ \E matches \in BOOLEAN : ReadIdentity(status, matches)
     \/ ReadStatusBefore(status) \/ ReadDataMsb(status)
     \/ ReadDataLsb(status) \/ ReadStatusAfter(status)
  /\ SettleDisturbance(FALSE) /\ UNCHANGED <<watched, content, asleep>>

BusSilent == (Owner \/ Poll) /\ SettleDisturbance(FALSE) /\ UNCHANGED <<watched, content, asleep>>

Brownout ==
  /\ content' = "RESET" /\ asleep' = TRUE
  /\ disturbed' = (appliedState # "UNKNOWN")
  /\ UNCHANGED <<watched, vars>>

SystemNext ==
  \/ BusSilent \/ Brownout
  \/ \E status \in TransferStatus :
       ConfigurationTransfer(status) \/ DirectWrite(status) \/ ReadTransfer(status)

SystemSpec == SystemInit /\ [][SystemNext]_systemVars

-----------------------------------------------------------------------------
(* Correctness.                                                            *)

\* Every variable of the device has its type.
DeviceTypeOK ==
  /\ watched \in WatchedRegisters
  /\ content \in Profiles \cup {"RESET", "FOREIGN"}
  /\ asleep \in BOOLEAN /\ disturbed \in BOOLEAN

\* APPLIED_SLEEPING and APPLIED_ACTIVE are true statements about the silicon:
\* every configuration register holds the desired profile and the sleep bit is
\* as claimed, whatever failed writes, cancelled jobs, diagnostic writes and
\* profile changes came before, unless the device was disturbed unreported.
TrustIsTrue ==
  Trusted /\ ~disturbed => content = config /\ asleep = (appliedState = "APPLIED_SLEEPING")

\* The position of the watched register in the replay.
WatchedStep == CHOOSE k \in 0 .. ConfigurationTransferCount(ChannelCount) - 1 :
                 ConfigWriteAt(ChannelCount, k).reg = watched

\* While a replay runs, all registers it has passed hold the desired profile,
\* whatever profile changes and invalidations came before and in between.  A
\* device reset in the middle of the replay has lost them unseen; that replay
\* is exempt, and the next one, from its first write, is not.
ReplayPrefix ==
  appliedState = "APPLYING" /\ ~disturbed /\ WatchedStep < jobStep - ApplyOffset(progress.kind)
    => content = config

\* A replay writes every register but CONFIG into a sleeping device, even if
\* the device is reset in the middle of the replay.  Only replays promise
\* this: writeRegister16() asks for no sleep and may write any of these
\* registers while the device converts.
ReplayWhileAsleep ==
  [][\A status \in TransferStatus :
       WriteConfiguration(status) /\ ApplyWrite.reg # RegConfig => asleep]_systemVars

\* Every acquisition reads a device that converts under the desired profile,
\* up to its last read: no sleep(), diagnostic write or change of profile gets
\* between its reads.  A device that was reset unreported is exempt.
AcquiresConvertingDevice ==
  progress.active /\ progress.kind = "ACQUIRE" /\ ~disturbed => content = config /\ ~asleep
=============================================================================
