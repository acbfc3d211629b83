--------------------------- MODULE LdcSystemProofs ---------------------------
(***************************************************************************)
(* The driver's beliefs about its device are true, for every value of the  *)
(* constants: either variant, every watched register, every set of         *)
(* registers that the owner writes past the driver.                        *)
(***************************************************************************)
EXTENDS LdcSystem, LdcDriverProofs

-----------------------------------------------------------------------------
(* The inductive invariant.  APPLIED_SLEEPING is earned by the last write  *)
(* of a replay, so it is true because the replay has put the device to     *)
(* sleep, has passed every register and was never left: not to write, not  *)
(* to forget a write that failed.                                          *)

\* A replay past its first write is in APPLYING: nothing changes what the
\* driver believes while a replay runs.
ReplayUnderWay ==
  progress.active /\ progress.kind # "ACQUIRE" /\ jobStep > ApplyOffset(progress.kind)
    => appliedState = "APPLYING"

\* A bound driver has a profile to write.
BoundHasProfile == bound => config \in Profiles

\* The first write of a replay put the device to sleep, and nothing wakes it:
\* sleep(), wake() and writeRegister16() are refused until the replay ends.
ApplyingIsAsleep == appliedState = "APPLYING" => asleep

DeviceConjuncts ==
  DeviceTypeOK /\ ReplayUnderWay /\ TrustIsTrue /\ ReplayPrefix /\ ApplyingIsAsleep
SystemInv == TrustInv /\ BoundHasProfile /\ DeviceConjuncts

-----------------------------------------------------------------------------
(* The plan of the replay.                                                 *)

\* The watched register is written by one of the steps of the plan.
LEMMA WatchedStepWrites ==
  ASSUME DeviceTypeOK
  PROVE  /\ WatchedStep \in 0 .. ConfigurationTransferCount(ChannelCount) - 1
         /\ ConfigWriteAt(ChannelCount, WatchedStep).reg = watched
<1> DEFINE Writes(k) == ConfigWriteAt(ChannelCount, k).reg = watched
           steps == 0 .. ConfigurationTransferCount(ChannelCount) - 1
<1>1. \E k \in steps : Writes(k)
  BY WatchedAssumption DEF DeviceTypeOK, ReplayRegisters
<1> HIDE DEF Writes, steps
<1>2. (CHOOSE k \in steps : Writes(k)) \in steps /\ Writes(CHOOSE k \in steps : Writes(k))
  BY <1>1, Zenon
<1> QED
  BY <1>2 DEF WatchedStep, Writes, steps

\* Only the first step of the plan writes CONFIG, as FORCE_SLEEP, and none
\* writes RESET_DEV.
LEMMA PlanSleepsOnce ==
  ASSUME NEW k \in 0 .. ConfigurationTransferCount(ChannelCount) - 1
  PROVE  LET w == ConfigWriteAt(ChannelCount, k)
         IN  /\ w.reg # RegResetDev
             /\ w.reg = RegConfig <=> k = 0
             /\ w.phase = "FORCE_SLEEP" <=> k = 0
<1> DEFINE field == ((k - 1) % 5) + 1
           ch == (k - 1) \div 5
<1>1. CASE k >= 1 /\ k - 1 < ChannelCount * 5
  <2>1. field \in 1 .. 5 /\ ch \in 0 .. 3
    BY <1>1, DriverAssumption, PlanLength
  <2>2. ConfigWriteAt(ChannelCount, k) = [reg |-> ChannelRegister(field, ch),
                                          phase |-> ChannelPhases[field], channel |-> ch]
    BY <1>1 DEF ConfigWriteAt
  <2> HIDE DEF field, ch
  <2>3. ChannelRegister(field, ch) \notin {RegConfig, RegResetDev}
    BY <2>1
    DEF ChannelRegister, RegRcount, RegSettleCount, RegClockDividers, RegOffset, RegDriveCurrent,
        RegConfig, RegResetDev
  <2>4. ChannelPhases[field] # "FORCE_SLEEP"
    BY <2>1 DEF ChannelPhases
  <2> QED
    BY <1>1, <2>2, <2>3, <2>4
<1>2. CASE k = 0
  BY <1>2 DEF ConfigWriteAt, RegConfig, RegResetDev
<1>3. CASE k >= 1 /\ ~(k - 1 < ChannelCount * 5)
  BY <1>3, DriverAssumption, PlanLength
  DEF ConfigWriteAt, RegConfig, RegResetDev, RegErrorConfig, RegMuxConfig
<1> QED
  BY <1>1, <1>2, <1>3

-----------------------------------------------------------------------------
(* The kinds of steps.                                                     *)

\* Without a configuration job no replay is under way.
LEMMA NoReplayUnderWay ==
  ASSUME ~progress'.active \/ progress'.kind = "ACQUIRE"
  PROVE  ReplayUnderWay'
  BY DEF ReplayUnderWay

\* The device's registers are not written, and either trust is gone or what is
\* believed and the running replay stay as they were.
LEMMA SilentKeeps ==
  ASSUME SystemInv, UNCHANGED <<watched, content, asleep>>, SettleDisturbance(FALSE),
         ReplayUnderWay',
         \/ appliedState' \in {"UNKNOWN", "DIRTY"}
         \/ /\ UNCHANGED <<appliedState, config>>
            /\ appliedState = "APPLYING" => UNCHANGED jobStep /\ progress'.kind = progress.kind
  PROVE  DeviceConjuncts'
<1>1. DeviceTypeOK' /\ (~disturbed' => ~disturbed \/ appliedState' = "UNKNOWN")
  BY DEF SystemInv, DeviceConjuncts, DeviceTypeOK, SettleDisturbance
<1>2. WatchedStep' = WatchedStep
  BY DEF WatchedStep
<1>3. TrustIsTrue'
  BY <1>1 DEF SystemInv, DeviceConjuncts, TrustIsTrue, Trusted
<1>4. ReplayPrefix'
  BY <1>1, <1>2 DEF SystemInv, DeviceConjuncts, ReplayPrefix
<1>5. ApplyingIsAsleep'
  BY DEF SystemInv, DeviceConjuncts, ApplyingIsAsleep
<1> QED
  BY <1>1, <1>3, <1>4, <1>5 DEF DeviceConjuncts

\* Whatever a write did to the device, a driver that believes nothing is right.
LEMMA DistrustKeeps ==
  ASSUME SystemInv, DeviceTypeOK', appliedState' \in {"UNKNOWN", "DIRTY"}, ReplayUnderWay'
  PROVE  DeviceConjuncts'
  BY DEF DeviceConjuncts, TrustIsTrue, Trusted, ReplayPrefix, ApplyingIsAsleep

\* A write leaves the device in a state of its type; an address NACK leaves
\* the device as it was, a success has written the register.
LEMMA DeviceWriteFacts ==
  ASSUME SystemInv, NEW reg, NEW value \in Profiles \cup {"RESET", "FOREIGN"},
         NEW sleepBit \in BOOLEAN, NEW status, DeviceWrite(reg, value, sleepBit, status),
         NEW begins \in BOOLEAN, SettleDisturbance(begins)
  PROVE  /\ DeviceTypeOK' /\ UNCHANGED watched
         /\ status = "OK" => AcceptWrite(reg, value, sleepBit)
         /\ status = "I2C_NACK_ADDR" => UNCHANGED <<content, asleep>>
  BY DEF SystemInv, DeviceConjuncts, DeviceTypeOK, DeviceWrite, AcceptWrite, SettleDisturbance

\* A failed write of a job either reached the device for all the driver knows,
\* and ends its belief, or is known not to have; then the belief stands.
LEMMA FailedWriteKeeps ==
  ASSUME SystemInv, TrustInv', pollCall.active, progress.kind # "ACQUIRE",
         NEW status \in TransferStatus \ {"OK"}, NEW w,
         NEW untrusted \in {"DIRTY", "UNKNOWN"}, FailWrite(status, w, untrusted),
         UNCHANGED <<config, watched>>, DeviceTypeOK', SettleDisturbance(FALSE),
         status = "I2C_NACK_ADDR" => UNCHANGED <<content, asleep>>
  PROVE  DeviceConjuncts'
<1>1. progress' = NoJob
  BY DEF FailWrite, FinishTransfer, FinishJob, ClearActiveJob
<1>2. ReplayUnderWay'
  BY <1>1, NoReplayUnderWay DEF NoJob
<1>3. appliedState' = untrusted \/ (status = "I2C_NACK_ADDR" /\ UNCHANGED appliedState)
  BY DEF FailWrite, TransferFailureMayHaveReachedDevice
<1>4. appliedState' # "APPLYING"
  BY <1>1 DEF TrustInv, TrustConjuncts, ApplyingHasJob, NoJob
<1> QED
  BY <1>2, <1>3, <1>4, SilentKeeps, DistrustKeeps

-----------------------------------------------------------------------------
(* The transfers.                                                          *)

\* A reset of the device by the driver ends every belief.
LEMMA WriteResetKeeps ==
  ASSUME SystemInv, TrustInv', NEW status \in TransferStatus, WriteReset(status),
         DeviceWrite(RegResetDev, "RESET", TRUE, status), SettleDisturbance(FALSE)
  PROVE  DeviceConjuncts'
<1>1. /\ pollCall.active /\ progress.kind = "RESET_AND_REAPPLY" /\ jobStep = 0
      /\ UNCHANGED config
  BY DEF WriteReset, AtReset, bindingVars
<1>2. /\ DeviceTypeOK' /\ UNCHANGED watched
      /\ status = "I2C_NACK_ADDR" => UNCHANGED <<content, asleep>>
  BY DeviceWriteFacts
<1>3. CASE status = "OK"
  <2>1. /\ appliedState' = "UNKNOWN" /\ jobStep' = 1
        /\ progress' = [Counted EXCEPT !.effects = @ \cup {"PARTIAL_WRITE"},
                                       !.phase = "VERIFY_MANUFACTURER"]
    BY <1>3 DEF WriteReset, ContinueTransfer
  <2>2. progress'.kind = "RESET_AND_REAPPLY"
    BY <1>1, <2>1, CallOfActiveJob DEF SystemInv, TrustInv, Job
  <2>3. ReplayUnderWay'
    BY <2>1, <2>2 DEF ReplayUnderWay, ApplyOffset
  <2> QED
    BY <1>2, <2>1, <2>3, DistrustKeeps
<1>4. CASE status # "OK"
  <2>1. FailWrite(status, ResetWrite, "UNKNOWN")
    BY <1>4 DEF WriteReset
  <2> QED
    BY <1>1, <1>2, <1>4, <2>1, FailedWriteKeeps
<1> QED
  BY <1>3, <1>4

\* A write of the replay is a step of the plan.
LEMMA ReplayStepInPlan ==
  ASSUME SystemInv, NEW status \in TransferStatus, WriteConfiguration(status)
  PROVE  /\ jobStep \in Nat /\ ApplyOffset(progress.kind) \in Nat
         /\ jobStep - ApplyOffset(progress.kind)
              \in 0 .. ConfigurationTransferCount(ChannelCount) - 1
<1> DEFINE offset == ApplyOffset(progress.kind)
           count == ConfigurationTransferCount(ChannelCount)
<1>1. pollCall.active /\ progress.kind # "ACQUIRE" /\ jobStep >= offset
  BY DEF WriteConfiguration, AtApply
<1>2. progress.active
  BY <1>1, CallOfActiveJob DEF SystemInv, TrustInv
<1>3. /\ progress.maximumTransfers = offset + count /\ progress.completedTransfers = jobStep
      /\ jobStep \in Nat /\ offset \in Nat
  BY <1>1, ConfigurationJobFacts DEF SystemInv, TrustInv
<1>4. progress.completedTransfers < progress.maximumTransfers
  BY <1>2, AccountingLeavesTransfer DEF SystemInv, TrustInv
<1> QED
  BY <1>1, <1>3, <1>4, PlanLength

\* A write of the replay: the first puts the device to sleep and starts the
\* prefix of registers that hold the profile, every other one extends it, and
\* when the last one earns trust the prefix is the whole configuration.
LEMMA WriteConfigurationKeeps ==
  ASSUME SystemInv, TrustInv', NEW status \in TransferStatus, WriteConfiguration(status),
         DeviceWrite(ApplyWrite.reg, config, TRUE, status),
         SettleDisturbance(ApplyWrite.phase = "FORCE_SLEEP" /\ status = "OK")
  PROVE  DeviceConjuncts'
<1> DEFINE offset == ApplyOffset(progress.kind)
           applyStep == jobStep - offset
           count == ConfigurationTransferCount(ChannelCount)
           last == applyStep + 1 >= count
<1>1. /\ pollCall.active /\ progress.kind # "ACQUIRE" /\ jobStep >= offset
      /\ UNCHANGED <<bound, config>>
  BY DEF WriteConfiguration, AtApply, bindingVars
<1>2. /\ progress.active /\ Counted \in Job /\ Counted.kind = progress.kind /\ bound
  BY <1>1, CallOfActiveJob DEF SystemInv, TrustInv, EngineInv, JobMatchesConfiguration, Job
<1>3. /\ jobStep \in Nat /\ offset \in Nat /\ applyStep \in 0 .. count - 1 /\ count \in Nat
  BY ReplayStepInPlan, PlanLength
<1>4. config \in Profiles
  BY <1>2 DEF SystemInv, BoundHasProfile
<1>5. /\ ApplyWrite = ConfigWriteAt(ChannelCount, applyStep)
      /\ ApplyWrite.reg # RegResetDev
      /\ ApplyWrite.reg = RegConfig <=> applyStep = 0
      /\ ApplyWrite.phase = "FORCE_SLEEP" <=> applyStep = 0
  BY <1>3, PlanSleepsOnce DEF ApplyWrite
<1>6. /\ DeviceTypeOK' /\ UNCHANGED watched
      /\ status = "OK" => AcceptWrite(ApplyWrite.reg, config, TRUE)
      /\ status = "I2C_NACK_ADDR" => UNCHANGED <<content, asleep>>
  BY <1>4, DeviceWriteFacts
<1> HIDE DEF offset, count
<1>7. CASE status # "OK"
  <2>1. FailWrite(status, ApplyWrite, "DIRTY")
    BY <1>7 DEF WriteConfiguration
  <2>2. SettleDisturbance(FALSE)
    BY <1>7 DEF SettleDisturbance
  <2> QED
    BY <1>1, <1>6, <1>7, <2>1, <2>2, FailedWriteKeeps
<1>8. CASE status = "OK"
  <2>1. /\ content' = IF ApplyWrite.reg = watched THEN config ELSE content
        /\ asleep' = IF applyStep = 0 THEN TRUE ELSE asleep
    BY <1>5, <1>6, <1>8 DEF AcceptWrite
  <2>2. applyStep # 0 => appliedState = "APPLYING"
    BY <1>1, <1>2, <1>3 DEF SystemInv, DeviceConjuncts, ReplayUnderWay, offset
  <2>3. asleep'
    BY <2>1, <2>2 DEF SystemInv, DeviceConjuncts, ApplyingIsAsleep
  <2>4. ~disturbed' /\ appliedState' # "UNKNOWN" => applyStep = 0 \/ ~disturbed
    BY <1>5 DEF SettleDisturbance
  <2>5. /\ WatchedStep' = WatchedStep /\ WatchedStep \in 0 .. count - 1
        /\ ConfigWriteAt(ChannelCount, WatchedStep).reg = watched
    <3>1. WatchedStep' = WatchedStep
      BY <1>6 DEF WatchedStep
    <3> QED
      BY <3>1, WatchedStepWrites DEF SystemInv, DeviceConjuncts, count
  <2>6. ~disturbed' /\ appliedState' # "UNKNOWN" /\ WatchedStep <= applyStep => content' = config
    <3>1. CASE WatchedStep = applyStep
      BY <1>5, <2>1, <2>5, <3>1
    <3>2. CASE ~disturbed /\ WatchedStep < applyStep
      <4>1. content = config
        BY <1>3, <2>2, <2>5, <3>2 DEF SystemInv, DeviceConjuncts, ReplayPrefix, offset
      <4> QED
        BY <2>1, <4>1
    <3> QED
      BY <1>3, <2>4, <2>5, <3>1, <3>2
  <2>7. CASE last
    <3>1. /\ appliedState' = "APPLIED_SLEEPING" /\ ~progress'.active
      BY <1>8, <2>7
      DEF WriteConfiguration, FinishTransfer, FinishJob, ClearActiveJob, NoJob, offset, count
    <3>2. WatchedStep <= applyStep
      BY <1>3, <2>5, <2>7
    <3>3. asleep' = TRUE
      BY <1>6, <2>3 DEF DeviceTypeOK
    <3>4. TrustIsTrue'
      BY <1>1, <2>6, <3>1, <3>2, <3>3 DEF TrustIsTrue
    <3> QED
      BY <1>6, <3>1, <3>4, NoReplayUnderWay
      DEF DeviceConjuncts, ReplayPrefix, ApplyingIsAsleep
  <2>8. CASE ~last
    <3>1. appliedState' = "APPLYING" /\ jobStep' = jobStep + 1
      BY <1>8, <2>8 DEF WriteConfiguration, offset, count
    <3>2. progress'.kind = progress.kind
      <4> DEFINE next == ConfigWriteAt(ChannelCount, applyStep + 1)
                 written == [Counted EXCEPT !.effects = @ \cup {"PARTIAL_WRITE"}]
      <4>1. progress' = [written EXCEPT !.phase = next.phase, !.channel = next.channel]
        BY <1>8, <2>8 DEF WriteConfiguration, ContinueTransfer, offset, count
      <4> HIDE DEF next
      <4> QED
        BY <1>2, <4>1 DEF Job
    <3>3. ReplayPrefix'
      <4>1. jobStep' - ApplyOffset(progress'.kind) = applyStep + 1
        BY <1>3, <3>1, <3>2 DEF offset
      <4> QED
        BY <1>1, <1>3, <2>5, <2>6, <3>1, <4>1 DEF ReplayPrefix
    <3> QED
      BY <1>6, <2>3, <3>1, <3>3
      DEF DeviceConjuncts, ReplayUnderWay, ApplyingIsAsleep, TrustIsTrue, Trusted
  <2> QED
    BY <2>7, <2>8
<1> QED
  BY <1>7, <1>8

\* sleep() and wake() write the profile's CONFIG with the sleep bit that the
\* state they lead to claims.
LEMMA DirectConfigWriteKeeps ==
  ASSUME SystemInv, NEW status \in TransferStatus,
         \/ Sleep(status) /\ DeviceWrite(RegConfig, config, TRUE, status)
         \/ Wake(status) /\ DeviceWrite(RegConfig, config, FALSE, status),
         SettleDisturbance(FALSE)
  PROVE  DeviceConjuncts'
<1>1. PICK from \in {"APPLIED_SLEEPING", "APPLIED_ACTIVE"},
           to \in {"APPLIED_SLEEPING", "APPLIED_ACTIVE"} :
        /\ DirectConfigWrite(status, from, to)
        /\ DeviceWrite(RegConfig, config, to = "APPLIED_SLEEPING", status)
  BY DEF Sleep, Wake
<1>2. bound /\ ~progress.active /\ UNCHANGED <<progress, config>> /\ appliedState = from
  BY <1>1 DEF DirectConfigWrite, bindingVars, jobVars
<1>3. config \in Profiles /\ (to = "APPLIED_SLEEPING") \in BOOLEAN
  BY <1>2 DEF SystemInv, BoundHasProfile
<1>4. /\ DeviceTypeOK' /\ UNCHANGED watched
      /\ status = "OK" => AcceptWrite(RegConfig, config, to = "APPLIED_SLEEPING")
      /\ status = "I2C_NACK_ADDR" => UNCHANGED <<content, asleep>>
  BY <1>1, <1>3, DeviceWriteFacts
<1>5. ReplayUnderWay'
  BY <1>2, NoReplayUnderWay
<1>6. CASE status = "OK"
  <2>1. /\ appliedState' = to /\ appliedState' # "APPLYING" /\ (disturbed' = disturbed)
        /\ asleep' = (to = "APPLIED_SLEEPING")
        /\ content' = IF RegConfig = watched THEN config ELSE content
    BY <1>1, <1>4, <1>6
    DEF DirectConfigWrite, AcceptWrite, RegConfig, RegResetDev, SettleDisturbance, SystemInv,
        DeviceConjuncts, DeviceTypeOK
  <2>2. TrustIsTrue'
    BY <1>2, <2>1 DEF SystemInv, DeviceConjuncts, TrustIsTrue, Trusted
  <2> QED
    BY <1>4, <1>5, <2>1, <2>2 DEF DeviceConjuncts, ReplayPrefix, ApplyingIsAsleep
<1>7. CASE status = "I2C_NACK_ADDR"
  <2>1. UNCHANGED appliedState /\ appliedState # "APPLYING"
    BY <1>1, <1>2, <1>7 DEF DirectConfigWrite, TransferFailureMayHaveReachedDevice
  <2> QED
    BY <1>2, <1>4, <1>5, <1>7, <2>1, SilentKeeps
<1>8. CASE status \notin {"OK", "I2C_NACK_ADDR"}
  <2>1. appliedState' = "DIRTY"
    BY <1>1, <1>8 DEF DirectConfigWrite, TransferFailureMayHaveReachedDevice
  <2> QED
    BY <1>4, <1>5, <2>1, DistrustKeeps
<1> QED
  BY <1>6, <1>7, <1>8

\* A diagnostic write either reached the device for all the driver knows, and
\* ends its belief, or is known not to have.
LEMMA WriteRegister16Keeps ==
  ASSUME SystemInv, NEW status \in TransferStatus, NEW reg \in DiagnosticRegisters,
         NEW sleepBit \in BOOLEAN,
         WriteRegister16(reg, status), DeviceWrite(reg, "FOREIGN", sleepBit, status),
         SettleDisturbance(FALSE)
  PROVE  DeviceConjuncts'
<1>1. /\ ~progress.active /\ UNCHANGED <<progress, config, jobStep>>
  BY DEF WriteRegister16, bindingVars, jobVars
<1>2. /\ DeviceTypeOK' /\ UNCHANGED watched
      /\ status = "I2C_NACK_ADDR" => UNCHANGED <<content, asleep>>
  BY DeviceWriteFacts
<1>3. ReplayUnderWay'
  BY <1>1, NoReplayUnderWay
<1>4. \/ appliedState' \in {"UNKNOWN", "DIRTY"}
      \/ status = "I2C_NACK_ADDR" /\ UNCHANGED appliedState
  BY DEF WriteRegister16, TransferFailureMayHaveReachedDevice
<1> QED
  BY <1>1, <1>2, <1>3, <1>4, SilentKeeps, DistrustKeeps

\* A read of an acquisition does not turn it into another job.
LEMMA ReadsStayReads ==
  ASSUME EngineInv, NEW status,
         \/ ReadStatusBefore(status) \/ ReadDataMsb(status)
         \/ ReadDataLsb(status) \/ ReadStatusAfter(status)
  PROVE  progress'.kind = "ACQUIRE" \/ ~progress'.active
<1>1. pollCall.active /\ progress.phase \in ReadPhase
  BY DEF ReadStatusBefore, ReadDataMsb, ReadDataLsb, ReadStatusAfter, AtRead, ReadPhase
<1>2. Counted \in Job /\ Counted.kind = "ACQUIRE"
  BY <1>1, AcquisitionFacts, CallOfActiveJob DEF Job
<1>3. ASSUME NEW p, NEW outcome, FinishTransfer(p, outcome) PROVE ~progress'.active
  BY <1>3 DEF FinishTransfer, FinishJob, ClearActiveJob, NoJob
<1>4. ASSUME NEW q, DOMAIN q = DOMAIN Counted, q.kind = "ACQUIRE", NEW after,
             progress' = AdvanceAcquire(q, after)
      PROVE  progress'.kind = "ACQUIRE"
  BY <1>2, <1>4 DEF AdvanceAcquire, Job
<1>5. CASE ReadStatusBefore(status)
  <2> DEFINE q == WithReadEffect(Counted)
  <2>1. DOMAIN q = DOMAIN Counted /\ q.kind = "ACQUIRE"
    BY <1>2 DEF WithReadEffect, Job
  <2> QED
    BY <1>3, <1>4, <1>5, <2>1 DEF ReadStatusBefore, ContinueTransfer
<1>6. CASE ReadDataMsb(status)
  BY <1>2, <1>3, <1>6 DEF ReadDataMsb, ContinueTransfer, WithReadEffect, Job
<1>7. CASE ReadDataLsb(status)
  <2> DEFINE q == [Counted EXCEPT !.completedChannels = @ \cup {progress.channel}]
  <2>1. DOMAIN q = DOMAIN Counted /\ q.kind = "ACQUIRE"
    BY <1>2 DEF Job
  <2> HIDE DEF q
  <2>2. progress' = AdvanceAcquire(q, progress.channel) \/ ~progress'.active
    BY <1>3, <1>7 DEF ReadDataLsb, ContinueTransfer, q
  <2> QED
    BY <1>4, <2>1, <2>2
<1>8. CASE ReadStatusAfter(status)
  BY <1>3, <1>8 DEF ReadStatusAfter
<1> QED
  BY <1>5, <1>6, <1>7, <1>8

\* The first read of an acquisition, and every later one, comes after a
\* configuration that is trusted to be active; an identity read, before the
\* replay of its job.
LEMMA ReadTransferKeeps ==
  ASSUME SystemInv, TrustInv', NEW status \in TransferStatus, ReadTransfer(status)
  PROVE  DeviceConjuncts'
<1>1. SettleDisturbance(FALSE) /\ UNCHANGED <<watched, content, asleep>>
  BY DEF ReadTransfer
<1>2. ASSUME NEW matches \in BOOLEAN, ReadIdentity(status, matches)
      PROVE  DeviceConjuncts'
  <2> DEFINE offset == ApplyOffset(progress.kind)
             index == jobStep - (offset - 2)
  <2>1. /\ pollCall.active /\ progress.kind # "ACQUIRE" /\ UNCHANGED config
        /\ jobStep \in offset - 2 .. offset - 1
    BY <1>2 DEF ReadIdentity, AtIdentity, ApplyOffset, bindingVars
  <2>2. progress.active /\ Counted \in Job /\ Counted.kind = progress.kind
        /\ jobStep \in Nat /\ offset \in Nat
    BY <2>1, CallOfActiveJob, ConfigurationJobFacts DEF SystemInv, TrustInv, Job
  <2>3. appliedState # "APPLYING"
    BY <2>1, <2>2 DEF SystemInv, TrustInv, TrustConjuncts, ApplyingHasJob
  <2>4. appliedState' \in {"UNKNOWN", "DIRTY"} \/ UNCHANGED appliedState
    BY <1>2 DEF ReadIdentity
  <2>5. ReplayUnderWay'
    <3>1. CASE status = "OK" /\ matches
      <4>1. /\ jobStep' = jobStep + 1
            /\ progress' = [Counted EXCEPT
                 !.phase = IF index = 0 THEN "VERIFY_DEVICE" ELSE "FORCE_SLEEP"]
        BY <1>2, <3>1 DEF ReadIdentity, ContinueTransfer
      <4>2. progress'.kind = progress.kind
        BY <2>2, <4>1 DEF Job
      <4> QED
        BY <2>1, <2>2, <4>1, <4>2 DEF ReplayUnderWay
    <3>2. CASE ~(status = "OK" /\ matches)
      <4>1. progress' = NoJob
        BY <1>2, <3>2 DEF ReadIdentity, FinishTransfer, FinishJob, ClearActiveJob
      <4> QED
        BY <4>1, NoReplayUnderWay DEF NoJob
    <3> QED
      BY <3>1, <3>2
  <2> QED
    BY <1>1, <2>1, <2>3, <2>4, <2>5, SilentKeeps
<1>3. ASSUME \/ ReadStatusBefore(status) \/ ReadDataMsb(status)
             \/ ReadDataLsb(status) \/ ReadStatusAfter(status)
      PROVE  DeviceConjuncts'
  <2>1. /\ pollCall.active /\ progress.phase \in ReadPhase
        /\ UNCHANGED <<appliedState, config>>
    BY <1>3
    DEF ReadStatusBefore, ReadDataMsb, ReadDataLsb, ReadStatusAfter, AtRead, ReadPhase,
        bindingVars
  <2>2. progress.kind = "ACQUIRE"
    BY <2>1, AcquisitionFacts DEF SystemInv, TrustInv
  <2>3. appliedState # "APPLYING"
    BY <2>2 DEF SystemInv, TrustInv, TrustConjuncts, ApplyingHasJob
  <2>4. progress'.kind = "ACQUIRE" \/ ~progress'.active
    BY <1>3, <2>1, ReadsStayReads DEF SystemInv, TrustInv
  <2> QED
    BY <1>1, <2>1, <2>3, <2>4, NoReplayUnderWay, SilentKeeps
<1> QED
  BY <1>2, <1>3 DEF ReadTransfer

-----------------------------------------------------------------------------
(* The calls without a transfer, and the supply.                           *)

\* What the owner calls, or poll() finds, between transfers either keeps what
\* is believed or ends it: no replay is left running without its job.
LEMMA BusSilentKeeps ==
  ASSUME SystemInv, TrustInv', BusSilent
  PROVE  DeviceConjuncts'
<1>1. SettleDisturbance(FALSE) /\ UNCHANGED <<watched, content, asleep>>
  BY DEF BusSilent
<1>2. ASSUME ~progress'.active, UNCHANGED <<appliedState, config>> PROVE DeviceConjuncts'
  <2>1. appliedState # "APPLYING"
    BY <1>2 DEF TrustInv, TrustConjuncts, ApplyingHasJob
  <2> QED
    BY <1>1, <1>2, <2>1, NoReplayUnderWay, SilentKeeps
<1>3. ASSUME ~progress'.active, appliedState' \in {"UNKNOWN", "DIRTY"} PROVE DeviceConjuncts'
  BY <1>1, <1>3, NoReplayUnderWay, SilentKeeps
<1>4. ASSUME UNCHANGED <<appliedState, config, progress, jobStep>> PROVE DeviceConjuncts'
  <2>1. ReplayUnderWay'
    BY <1>4 DEF SystemInv, DeviceConjuncts, ReplayUnderWay
  <2> QED
    BY <1>1, <1>4, <2>1, SilentKeeps
<1>5. ASSUME NEW cause, NEW outcome, AbandonJob(cause, outcome) PROVE DeviceConjuncts'
  <2>1. /\ ~progress'.active /\ UNCHANGED config
        /\ appliedState' = "DIRTY" \/ UNCHANGED appliedState
    BY <1>5 DEF AbandonJob, FinishJob, ClearActiveJob, NoJob, bindingVars
  <2> QED
    BY <1>2, <1>3, <2>1
<1>6. ASSUME ForgetEverything PROVE DeviceConjuncts'
  BY <1>3, <1>6 DEF ForgetEverything, ClearActiveJob, NoJob
<1>7. ASSUME NEW kind, NEW channels, NEW id, NEW deadline, StartJob(kind, channels, id, deadline)
      PROVE  DeviceConjuncts'
  <2>1. ~progress.active /\ jobStep' = 0 /\ UNCHANGED <<appliedState, config>>
    BY <1>7 DEF StartJob, bindingVars
  <2>2. appliedState # "APPLYING"
    BY <2>1 DEF SystemInv, TrustInv, TrustConjuncts, ApplyingHasJob
  <2>3. ReplayUnderWay'
    BY <2>1 DEF ReplayUnderWay, ApplyOffset
  <2> QED
    BY <1>1, <2>1, <2>2, <2>3, SilentKeeps
<1>8. CASE Owner
  <2>1. ASSUME NEW c \in Profiles, Bind(c) \/ UpdateDesiredConfig(c) PROVE DeviceConjuncts'
    BY <1>3, <1>6, <2>1 DEF Bind, UpdateDesiredConfig, jobVars
  <2>2. CASE End \/ CancelJob
    BY <1>5, <1>6, <2>2 DEF End, CancelJob
  <2>3. CASE TakeResult
    BY <1>4, <2>3 DEF TakeResult, bindingVars, jobVars
  <2>4. CASE InvalidateAppliedState
    BY <1>3, <2>4
    DEF InvalidateAppliedState, FinishJob, ClearActiveJob, NoJob, jobVars
  <2>5. ASSUME NEW id \in OperationIds, NEW d \in Deadlines,
               \/ StartInitialize(id, d) \/ StartApplyConfig(id, d)
               \/ StartResetAndReapply(id, d)
               \/ \E channels \in SUBSET ChannelIndex : StartAcquire(channels, id, d)
        PROVE  DeviceConjuncts'
    BY <1>7, <2>5
    DEF StartInitialize, StartApplyConfig, StartResetAndReapply, StartAcquire
  <2> QED
    BY <1>8, <2>1, <2>2, <2>3, <2>4, <2>5 DEF Owner
<1>9. CASE Poll
  <2>1. ASSUME NEW now \in Times, PollTimeout(now) PROVE DeviceConjuncts'
    BY <1>5, <2>1 DEF PollTimeout
  <2>2. ASSUME NEW now \in Times, NEW max \in 1 .. MaxTransferBudget, PollBegin(now, max)
        PROVE  DeviceConjuncts'
    BY <1>4, <2>2 DEF PollBegin, bindingVars, jobVars
  <2> QED
    BY <1>9, <2>1, <2>2 DEF Poll
<1> QED
  BY <1>8, <1>9 DEF BusSilent

\* A reset that nobody reported is what the disturbance records; in the middle
\* of a replay it puts the device to sleep, where the replay wants it.
LEMMA BrownoutKeeps ==
  ASSUME SystemInv, Brownout
  PROVE  SystemInv'
<1>1. /\ content' = "RESET" /\ asleep' = TRUE /\ disturbed' = (appliedState # "UNKNOWN")
      /\ UNCHANGED <<watched, vars>>
  BY DEF Brownout
<1>2. TrustInv' /\ BoundHasProfile'
  <2>1. TrustInv'
    BY <1>1, StutterSound, NextEngine DEF SystemInv, TrustInv, Sound
  <2> QED
    BY <1>1, <2>1 DEF SystemInv, BoundHasProfile, vars, bindingVars
<1>3. UNCHANGED <<appliedState, config, progress, jobStep>>
  BY <1>1 DEF vars, bindingVars, jobVars
<1>4. DeviceConjuncts'
  BY <1>1, <1>3
  DEF SystemInv, DeviceConjuncts, DeviceTypeOK, ReplayUnderWay, TrustIsTrue, Trusted,
      ReplayPrefix, ApplyingIsAsleep
<1> QED
  BY <1>2, <1>4 DEF SystemInv

-----------------------------------------------------------------------------
(* The theorems.                                                           *)

\* Every step of the system but a brownout is a step of the driver.
LEMMA SystemStepIsDriverStep == SystemNext => Next \/ Brownout
  <1>1. ASSUME BusSilent PROVE Next
    BY <1>1 DEF BusSilent, Next
  <1>2. ASSUME NEW status \in TransferStatus,
               ConfigurationTransfer(status) \/ DirectWrite(status) \/ ReadTransfer(status)
        PROVE  Next
    BY <1>2
    DEF ConfigurationTransfer, DirectWrite, ReadTransfer, JobTransfer, DirectTransfer,
        Transfer, Next
  <1> QED
    BY <1>1, <1>2 DEF SystemNext

\* Binding supplies a profile, and only unbinding takes it away.
LEMMA BindingKeepsProfile == BoundHasProfile /\ [Next]_vars => BoundHasProfile'
<1> SUFFICES ASSUME BoundHasProfile, [Next]_vars PROVE BoundHasProfile'
  OBVIOUS
<1>1. ASSUME UNCHANGED bindingVars PROVE BoundHasProfile'
  BY <1>1 DEF BoundHasProfile, bindingVars
<1>2. CASE Owner
  <2>1. ASSUME NEW c \in Profiles, Bind(c) \/ UpdateDesiredConfig(c) PROVE BoundHasProfile'
    BY <2>1 DEF Bind, UpdateDesiredConfig, BoundHasProfile
  <2>2. CASE End
    BY <2>2 DEF End, BoundHasProfile
  <2> QED
    BY <1>1, <1>2, <2>1, <2>2
    DEF Owner, CancelJob, AbandonJob, TakeResult, InvalidateAppliedState, StartJob,
        StartInitialize, StartApplyConfig, StartResetAndReapply, StartAcquire
<1>3. CASE Poll
  BY <1>1, <1>3 DEF Poll, PollTimeout, AbandonJob, PollBegin
<1>4. CASE Transfer
  BY <1>1, <1>4
  DEF Transfer, DirectTransfer, JobTransfer, Sleep, Wake, DirectConfigWrite, WriteRegister16,
      WriteReset, ReadIdentity, WriteConfiguration, ReadStatusBefore, ReadDataMsb, ReadDataLsb,
      ReadStatusAfter
<1>5. CASE UNCHANGED vars
  BY <1>1, <1>5 DEF vars
<1> QED
  BY <1>2, <1>3, <1>4, <1>5 DEF Next

\* Every step of the system keeps the invariant.
LEMMA NextSystem == SystemInv /\ [SystemNext]_systemVars => SystemInv'
<1> SUFFICES ASSUME SystemInv, [SystemNext]_systemVars PROVE SystemInv'
  OBVIOUS
<1>1. CASE Brownout
  BY <1>1, BrownoutKeeps
<1>2. CASE UNCHANGED systemVars
  <2>1. UNCHANGED vars /\ UNCHANGED deviceVars
    BY <1>2 DEF systemVars
  <2>2. TrustInv' /\ BoundHasProfile'
    BY <2>1, StutterSound, NextEngine, BindingKeepsProfile DEF SystemInv, TrustInv, Sound
  <2>3. UNCHANGED <<appliedState, config, progress, jobStep>>
    BY <2>1 DEF vars, bindingVars, jobVars
  <2>4. WatchedStep' = WatchedStep
    BY <2>1 DEF WatchedStep, deviceVars
  <2>5. DeviceConjuncts'
    BY <2>1, <2>3, <2>4
    DEF SystemInv, DeviceConjuncts, DeviceTypeOK, ReplayUnderWay, TrustIsTrue, Trusted,
        ReplayPrefix, ApplyingIsAsleep, deviceVars
  <2> QED
    BY <2>2, <2>5 DEF SystemInv
<1>3. CASE SystemNext /\ ~Brownout
  <2>1. Next
    BY <1>3, SystemStepIsDriverStep
  <2>2. TrustInv' /\ BoundHasProfile'
    BY <2>1, NextSound, NextEngine, BindingKeepsProfile DEF SystemInv, TrustInv, Sound
  <2>3. CASE BusSilent
    BY <2>2, <2>3, BusSilentKeeps DEF SystemInv
  <2>4. ASSUME NEW status \in TransferStatus, ConfigurationTransfer(status)
        PROVE  DeviceConjuncts'
    BY <2>2, <2>4, WriteResetKeeps, WriteConfigurationKeeps DEF ConfigurationTransfer
  <2>5. ASSUME NEW status \in TransferStatus, DirectWrite(status) PROVE DeviceConjuncts'
    BY <2>5, DirectConfigWriteKeeps, WriteRegister16Keeps DEF DirectWrite
  <2>6. ASSUME NEW status \in TransferStatus, ReadTransfer(status) PROVE DeviceConjuncts'
    BY <2>2, <2>6, ReadTransferKeeps
  <2> QED
    BY <1>3, <2>2, <2>3, <2>4, <2>5, <2>6 DEF SystemNext, SystemInv
<1> QED
  BY <1>1, <1>2, <1>3

\* The driver's beliefs, the device and the running job agree in every
\* reachable state.
THEOREM SystemInvariant == SystemSpec => []SystemInv
<1>1. SystemInit => SystemInv
  <2> SUFFICES ASSUME SystemInit PROVE SystemInv
    OBVIOUS
  <2>1. TrustInv
    BY InitTrust DEF SystemInit
  <2>2. BoundHasProfile /\ DeviceConjuncts
    BY DEF SystemInit, Init, BoundHasProfile, DeviceConjuncts, DeviceTypeOK, ReplayUnderWay,
       TrustIsTrue, Trusted, ReplayPrefix, ApplyingIsAsleep, NoJob
  <2> QED
    BY <2>1, <2>2 DEF SystemInv
<1> QED
  BY <1>1, NextSystem, PTL DEF SystemSpec

\* APPLIED_SLEEPING and APPLIED_ACTIVE are true of every configuration register
\* and of the sleep bit, after whatever history of failed and repeated writes,
\* cancelled jobs, diagnostic writes and new profiles, unless the device was
\* reset unreported since the driver last began to believe.
THEOREM TrustedStatesAreTrue == SystemSpec => []TrustIsTrue
  BY SystemInvariant, PTL DEF SystemInv, DeviceConjuncts

\* The registers that a running replay has passed hold the desired profile,
\* unless the device was reset unreported since the replay began.
THEOREM ReplayBuildsConfiguration == SystemSpec => []ReplayPrefix
  BY SystemInvariant, PTL DEF SystemInv, DeviceConjuncts

\* A replay writes no register but CONFIG while the device converts, not even
\* when the device is reset in the middle of it.  Diagnostic writes are not
\* meant: writeRegister16() writes whatever it is given, asleep or not.
THEOREM ReplayRunsAsleep == SystemSpec => ReplayWhileAsleep
<1>1. ASSUME SystemInv, NEW status \in TransferStatus,
             WriteConfiguration(status), ApplyWrite.reg # RegConfig
      PROVE  asleep
  <2> DEFINE offset == ApplyOffset(progress.kind)
             applyStep == jobStep - offset
             count == ConfigurationTransferCount(ChannelCount)
  <2>1. progress.active /\ progress.kind # "ACQUIRE"
    BY <1>1, CallOfActiveJob DEF WriteConfiguration, AtApply, SystemInv, TrustInv
  <2>2. jobStep \in Nat /\ offset \in Nat /\ applyStep \in 0 .. count - 1
    BY <1>1, ReplayStepInPlan DEF SystemInv
  <2>3. jobStep > offset
    <3>1. applyStep # 0
      BY <1>1, <2>2, PlanSleepsOnce DEF ApplyWrite
    <3> QED
      BY <2>2, <3>1
  <2> QED
    BY <1>1, <2>1, <2>3 DEF SystemInv, DeviceConjuncts, ReplayUnderWay, ApplyingIsAsleep
<1>2. SystemInv /\ [SystemNext]_systemVars
        => [\A status \in TransferStatus :
              WriteConfiguration(status) /\ ApplyWrite.reg # RegConfig => asleep]_systemVars
  BY <1>1
<1> QED
  BY <1>2, SystemInvariant, PTL DEF SystemSpec, ReplayWhileAsleep

\* Up to its last read an acquisition reads a device that converts under the
\* profile whose revision its result will name, unless the device was reset
\* unreported.
THEOREM AcquisitionsReadConvertingDevice == SystemSpec => []AcquiresConvertingDevice
<1>1. SystemInv => AcquiresConvertingDevice
  BY DEF SystemInv, TrustInv, EngineInv, JobMatchesConfiguration, DeviceConjuncts, TrustIsTrue,
     Trusted, DeviceTypeOK, AcquiresConvertingDevice
<1> QED
  BY <1>1, SystemInvariant, PTL
=============================================================================
