------------------------------ MODULE LdcDriver ------------------------------
(***************************************************************************)
(* The cooperative driver of src/src/LDC1614.cpp: one job at a time that   *)
(* advances only inside poll(), the state of trust in the applied          *)
(* configuration, the provenance of a configuration fault and the ring of  *)
(* terminal results.                                                       *)
(*                                                                         *)
(* The owner serialises its calls and a transport callback must not        *)
(* re-enter the driver, so a call is one step, except poll(): PollBegin    *)
(* opens the call, every transport callback in it is one step, and until   *)
(* the call returns no other operation is enabled.  What the callback      *)
(* returns is a parameter of the step; LdcSystem supplies it from a model  *)
(* of the device.  A call that the code rejects changes nothing and is a   *)
(* stuttering step.  The times and budgets of the caller are free inputs.  *)
(***************************************************************************)
EXTENDS RegisterPlan, FiniteSetsExt

CONSTANTS
  ChannelCount,        \* channels of the bound variant
  Profiles,            \* the desired configurations the owner may supply
  NoProfile,           \* the default-constructed Config of an unbound driver
  ProfileChannels,     \* Config::channels of each profile
  OperationIds,        \* nonzero caller identities
  ResultCapacity,      \* RESULT_CAPACITY, 2 in the header
  MaxConfigRevision,   \* UINT32_MAX in the code
  I2cTimeoutMs,        \* Config::i2cTimeoutMs
  TimeModulus,         \* 2^64 in the code
  Deadlines, Times,    \* the deadlines and poll times the owner uses
  MaxTransferBudget,   \* largest maxTransfers given to poll()
  DiagnosticRegisters  \* registers the owner writes through writeRegister16()

ChannelIndex == 0 .. ChannelCount - 1

\* channelCountFor() knows two variants; validateConfig() wants a nonempty
\* channel mask of the variant and a nonzero timeout.
ASSUME DriverAssumption ==
  /\ ChannelCount \in {2, 4}
  /\ NoProfile \notin Profiles
  /\ ProfileChannels \in [Profiles -> (SUBSET ChannelIndex) \ {{}}]
  /\ 0 \notin OperationIds
  /\ ResultCapacity \in Nat \ {0}
  /\ MaxConfigRevision \in Nat \ {0}
  /\ I2cTimeoutMs \in Nat \ {0}
  /\ TimeModulus \in Nat \ {0} /\ TimeModulus % 2 = 0
  /\ Deadlines \subseteq 0 .. TimeModulus - 1
  /\ Times \subseteq 0 .. TimeModulus - 1
  /\ MaxTransferBudget \in Nat \ {0}
  /\ DiagnosticRegisters \subseteq 0 .. 255

VARIABLES
  bound,           \* _bound
  config,          \* _config, as the profile it was copied from
  appliedState,    \* _appliedState
  configRevision,  \* _configRevision
  configFault,     \* _configFault
  progress,        \* _progress; its phase and channel fix registerAddress
  jobStep,         \* _jobStep
  lastWrite,       \* _lastWritePhase, _lastWriteRegister, _lastWriteChannel
  results,         \* _results
  resultHead,      \* _resultHead
  resultCount,     \* _resultCount
  pollCall         \* the locals of a poll() call that has not returned

bindingVars == <<bound, config, configRevision>>
jobVars == <<progress, jobStep, lastWrite>>
ringVars == <<results, resultHead, resultCount>>
vars == <<bindingVars, appliedState, configFault, jobVars, ringVars, pollCall>>

-----------------------------------------------------------------------------
(* Types.                                                                  *)

AppliedConfigState == {"UNKNOWN", "APPLYING", "APPLIED_SLEEPING", "APPLIED_ACTIVE", "DIRTY"}
JobKind == {"INITIALIZE", "APPLY_CONFIG", "RESET_AND_REAPPLY", "ACQUIRE"}
IdentityPhases == <<"VERIFY_MANUFACTURER", "VERIFY_DEVICE">>
ReadPhase == {"READ_STATUS_BEFORE", "READ_DATA_MSB", "READ_DATA_LSB", "READ_STATUS_AFTER"}
WritePhase == {"FORCE_SLEEP", "WRITE_RCOUNT", "WRITE_SETTLECOUNT", "WRITE_CLOCK_DIVIDERS",
               "WRITE_OFFSET", "WRITE_DRIVE_CURRENT", "WRITE_ERROR_CONFIG",
               "WRITE_MUX_CONFIG", "WRITE_FINAL_CONFIG", "SOFTWARE_RESET"}
JobPhase == ReadPhase \cup WritePhase \cup {"NONE", "VERIFY_MANUFACTURER", "VERIFY_DEVICE"}
TerminalOutcome == {"NONE", "SUCCESS", "FAILED", "CANCELLED", "TIMED_OUT"}
EffectFlags == SUBSET {"READ_SIDE_EFFECTS", "PARTIAL_WRITE", "INDETERMINATE_WRITE"}
Channel == ChannelIndex \cup {NoChannel}

\* What a transport callback may return: success, an address NACK, which the
\* driver takes as proof that nothing reached the device, or any other error.
TransferStatus == {"OK", "I2C_NACK_ADDR", "I2C_ERROR"}
FaultCause == TransferStatus \cup {"TIMEOUT", "CANCELLED", "MISMATCH", "DIAGNOSTIC", "INVALIDATED"}

NoJob == [active |-> FALSE, operationId |-> 0, kind |-> "NONE", phase |-> "NONE",
          channel |-> NoChannel, deadlineMs |-> 0, completedTransfers |-> 0,
          maximumTransfers |-> 0, requestedChannels |-> {}, completedChannels |-> {},
          effects |-> {}, configRevision |-> 0]
NoWrite == [phase |-> "NONE", reg |-> InvalidRegister, channel |-> NoChannel]
NoFault == [valid |-> FALSE, cause |-> "OK", job |-> "NONE", phase |-> "NONE",
            reg |-> InvalidRegister, channel |-> NoChannel, effects |-> {}]
NoResult == [operationId |-> 0, kind |-> "NONE", outcome |-> "NONE", effects |-> {},
             configRevision |-> 0, hasSampleBatch |-> FALSE]
NoCall == [active |-> FALSE, remaining |-> 0, transferTimeoutMs |-> 0, unspentMs |-> 0]

EmptyRing == [slot \in 0 .. ResultCapacity - 1 |-> NoResult]

-----------------------------------------------------------------------------
(* Time, budgets and transfer counts.                                      *)

\* Wrap-safe comparison of two points on a timeline of TimeModulus ticks.
DueOrPast(now, deadline) == (now - deadline) % TimeModulus < TimeModulus \div 2

Smaller(a, b) == IF a < b THEN a ELSE b

ApplyOffset(kind) ==
  CASE kind = "INITIALIZE" -> 2 [] kind = "RESET_AND_REAPPLY" -> 3 [] OTHER -> 0

\* Mutant: the closing STATUS read of an acquisition is not counted.
MaximumTransfersShort(kind, channels) ==
  IF kind = "ACQUIRE" THEN 1 + 2 * Cardinality(channels)
  ELSE ApplyOffset(kind) + ConfigurationTransferCount(ChannelCount)

\* The fixed worst case of callbacks, as each start operation passes it.
MaximumTransfers(kind, channels) ==
  IF kind = "ACQUIRE" THEN 2 + 2 * Cardinality(channels)
  ELSE ApplyOffset(kind) + ConfigurationTransferCount(ChannelCount)

\* Mutant: a reset job announces the phase that follows the reset.
FirstPhaseSkipsReset(kind) ==
  CASE kind \in {"INITIALIZE", "RESET_AND_REAPPLY"} -> "VERIFY_MANUFACTURER"
    [] kind = "APPLY_CONFIG" -> "FORCE_SLEEP"
    [] OTHER -> "READ_STATUS_BEFORE"

FirstPhase(kind) ==
  CASE kind = "INITIALIZE" -> "VERIFY_MANUFACTURER"
    [] kind = "APPLY_CONFIG" -> "FORCE_SLEEP"
    [] kind = "RESET_AND_REAPPLY" -> "SOFTWARE_RESET"
    [] OTHER -> "READ_STATUS_BEFORE"

\* The lowest channel of the mask above a given one, or NoChannel.
NextChannel(mask, after) ==
  LET above == {ch \in mask : after = NoChannel \/ ch > after}
  IN  IF above = {} THEN NoChannel ELSE Min(above)

\* Mutant: a failed write is taken not to have happened.
TransferFailureNeverReaches(status) == FALSE

TransferFailureMayHaveReachedDevice(status) == status # "I2C_NACK_ADDR"

-----------------------------------------------------------------------------
(* The result ring.                                                        *)

\* Mutants: only the active job reserves its identity; one job too many.
OperationIdActive(id) == progress.active /\ progress.operationId = id
ReserveResultSlotOffByOne == resultCount <= ResultCapacity

OperationIdInUse(id) ==
  \/ progress.active /\ progress.operationId = id
  \/ \E offset \in 0 .. resultCount - 1 :
       results[(resultHead + offset) % ResultCapacity].operationId = id

ReserveResultSlot == resultCount < ResultCapacity

\* Mutant: the provenance of the last write outlives its job.
ClearActiveJobKeepsWrite == progress' = NoJob /\ jobStep' = 0 /\ UNCHANGED lastWrite

ClearActiveJob == progress' = NoJob /\ jobStep' = 0 /\ lastWrite' = NoWrite

\* _finishJob: p is the job's progress with the counts and effects of its last
\* transfer already in it.
FinishJob(p, outcome) ==
  /\ results' = [results EXCEPT ![(resultHead + resultCount) % ResultCapacity] =
       [operationId |-> p.operationId, kind |-> p.kind, outcome |-> outcome,
        effects |-> p.effects, configRevision |-> p.configRevision,
        hasSampleBatch |-> p.kind = "ACQUIRE" /\ outcome = "SUCCESS"]]
  /\ resultCount' = IF ReserveResultSlot THEN resultCount + 1 ELSE resultCount
  /\ UNCHANGED resultHead
  /\ ClearActiveJob

-----------------------------------------------------------------------------
(* Binding and the desired configuration.                                  *)

Init ==
  /\ bound = FALSE /\ config = NoProfile
  /\ appliedState = "UNKNOWN" /\ configRevision = 0 /\ configFault = NoFault
  /\ progress = NoJob /\ jobStep = 0 /\ lastWrite = NoWrite
  /\ results = EmptyRing /\ resultHead = 0 /\ resultCount = 0
  /\ pollCall = NoCall

ForgetEverything ==
  /\ appliedState' = "UNKNOWN" /\ configFault' = NoFault
  /\ ClearActiveJob
  /\ results' = EmptyRing /\ resultHead' = 0 /\ resultCount' = 0

Bind(c) ==
  /\ ~bound
  /\ bound' = TRUE /\ config' = c /\ configRevision' = 1
  /\ ForgetEverything
  /\ UNCHANGED pollCall

End ==
  /\ ~pollCall.active
  /\ bound' = FALSE /\ config' = NoProfile /\ configRevision' = 0
  /\ ForgetEverything
  /\ UNCHANGED pollCall

\* Mutants: the revision wraps; the profile is replaced under a running job.
UpdateDesiredConfigUnbounded(c) ==
  /\ bound /\ ~progress.active
  /\ appliedState # "APPLIED_ACTIVE"
  /\ config' = c /\ configRevision' = configRevision + 1
  /\ appliedState' = IF appliedState = "UNKNOWN" THEN "UNKNOWN" ELSE "DIRTY"
  /\ UNCHANGED <<bound, configFault, jobVars, ringVars, pollCall>>
UpdateDesiredConfigAnytime(c) ==
  /\ bound /\ ~pollCall.active
  /\ appliedState # "APPLIED_ACTIVE"
  /\ configRevision < MaxConfigRevision
  /\ config' = c /\ configRevision' = configRevision + 1
  /\ UNCHANGED <<bound, appliedState, configFault, jobVars, ringVars, pollCall>>

UpdateDesiredConfig(c) ==
  /\ bound /\ ~progress.active
  /\ appliedState # "APPLIED_ACTIVE"
  /\ configRevision < MaxConfigRevision
  /\ config' = c /\ configRevision' = configRevision + 1
  /\ appliedState' = IF appliedState = "UNKNOWN" THEN "UNKNOWN" ELSE "DIRTY"
  /\ UNCHANGED <<bound, configFault, jobVars, ringVars, pollCall>>

-----------------------------------------------------------------------------
(* Admission of a job.                                                     *)

StartJob(kind, channels, id, deadline) ==
  /\ bound /\ ~OperationIdInUse(id) /\ ~progress.active /\ ReserveResultSlot
  /\ progress' = [NoJob EXCEPT !.active = TRUE, !.operationId = id, !.kind = kind,
                    !.deadlineMs = deadline, !.phase = FirstPhase(kind),
                    !.maximumTransfers = MaximumTransfers(kind, channels),
                    !.requestedChannels = channels, !.configRevision = configRevision]
  /\ jobStep' = 0 /\ lastWrite' = NoWrite
  /\ UNCHANGED <<bindingVars, appliedState, configFault, ringVars, pollCall>>

StartInitialize(id, deadline) == StartJob("INITIALIZE", {}, id, deadline)

\* Mutants: replay to a device of unknown identity; acquisition from a device
\* that is not known to convert.
StartApplyConfigUnverified(id, deadline) == StartJob("APPLY_CONFIG", {}, id, deadline)
StartAcquireUntrusted(channels, id, deadline) ==
  /\ bound /\ appliedState # "UNKNOWN"
  /\ channels # {} /\ channels \subseteq ProfileChannels[config]
  /\ StartJob("ACQUIRE", channels, id, deadline)

StartApplyConfig(id, deadline) ==
  /\ appliedState # "UNKNOWN"
  /\ StartJob("APPLY_CONFIG", {}, id, deadline)

StartResetAndReapply(id, deadline) == StartJob("RESET_AND_REAPPLY", {}, id, deadline)

StartAcquire(channels, id, deadline) ==
  /\ bound /\ appliedState = "APPLIED_ACTIVE"
  /\ channels # {} /\ channels \subseteq ProfileChannels[config]
  /\ StartJob("ACQUIRE", channels, id, deadline)

-----------------------------------------------------------------------------
(* poll(): opening the call, and the callbacks in it.                      *)

Fault(cause, job, w, effects) ==
  [valid |-> TRUE, cause |-> cause, job |-> job, phase |-> w.phase, reg |-> w.reg,
   channel |-> w.channel, effects |-> effects]

\* Mutant: abandoning a job records the fault and keeps the state.
AbandonJobKeepsState(cause, outcome) ==
  /\ configFault' =
       IF "PARTIAL_WRITE" \in progress.effects
       THEN Fault(cause, progress.kind, lastWrite, progress.effects) ELSE configFault
  /\ FinishJob(progress, outcome)
  /\ UNCHANGED <<bindingVars, appliedState, pollCall>>

\* The part timeout and cancellation share: a configuration job that has
\* written something leaves the applied configuration partial.
AbandonJob(cause, outcome) ==
  LET partial == progress.kind # "ACQUIRE" /\ "PARTIAL_WRITE" \in progress.effects
  IN  /\ appliedState' =
           IF partial /\ appliedState # "UNKNOWN" THEN "DIRTY" ELSE appliedState
      /\ configFault' =
           IF partial THEN Fault(cause, progress.kind, lastWrite, progress.effects)
           ELSE configFault
      /\ FinishJob(progress, outcome)
      /\ UNCHANGED <<bindingVars, pollCall>>

PollTimeout(now) ==
  /\ progress.active /\ ~pollCall.active
  /\ DueOrPast(now, progress.deadlineMs)
  /\ AbandonJob("TIMEOUT", "TIMED_OUT")

\* How many callbacks this call may make, and the timeout each is given.
CallbackAllowance(budgetMs, maxTransfers) ==
  Smaller(budgetMs, Smaller(maxTransfers,
                            progress.maximumTransfers - progress.completedTransfers))
\* Mutant: each callback may use the whole deadline budget.
CallbackTimeoutUnshared(budgetMs, remaining) == Smaller(budgetMs, I2cTimeoutMs)
CallbackTimeout(budgetMs, remaining) == Smaller(budgetMs \div remaining, I2cTimeoutMs)

\* unspentMs is the part of the deadline budget seen at this poll boundary
\* that the timeouts of the callbacks already made do not cover.
PollBegin(now, maxTransfers) ==
  /\ progress.active /\ ~pollCall.active
  /\ ~DueOrPast(now, progress.deadlineMs)
  /\ maxTransfers > 0
  /\ LET budgetMs == (progress.deadlineMs - now) % TimeModulus
         remaining == CallbackAllowance(budgetMs, maxTransfers)
     IN  pollCall' = [active |-> TRUE, remaining |-> remaining,
                      transferTimeoutMs |-> CallbackTimeout(budgetMs, remaining),
                      unspentMs |-> budgetMs]
  /\ UNCHANGED <<bindingVars, appliedState, configFault, jobVars, ringVars>>

\* Mutant: the reads of an acquisition are not counted.
CountedWritesOnly ==
  IF progress.kind = "ACQUIRE" THEN progress
  ELSE [progress EXCEPT !.completedTransfers = @ + 1]

\* Every callback consumes one unit of the call's budget and one of the job's.
Counted == [progress EXCEPT !.completedTransfers = @ + 1]

FinishTransfer(p, outcome) == pollCall' = NoCall /\ FinishJob(p, outcome)

ContinueTransfer(p) ==
  /\ progress' = p
  /\ pollCall' = IF pollCall.remaining = 1 THEN NoCall
                 ELSE [pollCall EXCEPT !.remaining = @ - 1,
                                       !.unspentMs = @ - pollCall.transferTimeoutMs]
  /\ UNCHANGED ringVars

-----------------------------------------------------------------------------
(* The callbacks of a configuration job.                                   *)

ResetWrite == [phase |-> "SOFTWARE_RESET", reg |-> RegResetDev, channel |-> NoChannel]
\* Mutant: the replay starts one register late.
ApplyWriteSkipsFirst ==
  ConfigWriteAt(ChannelCount, jobStep - ApplyOffset(progress.kind) + 1)

ApplyWrite == ConfigWriteAt(ChannelCount, jobStep - ApplyOffset(progress.kind))

AtReset == pollCall.active /\ progress.kind = "RESET_AND_REAPPLY" /\ jobStep = 0
AtIdentity ==
  /\ pollCall.active /\ ApplyOffset(progress.kind) # 0
  /\ jobStep \in ApplyOffset(progress.kind) - 2 .. ApplyOffset(progress.kind) - 1
AtApply ==
  pollCall.active /\ progress.kind # "ACQUIRE" /\ jobStep >= ApplyOffset(progress.kind)

\* Mutant: an address NACK is harmless even after earlier writes of the job.
FailWriteForgetsPartial(status, w, untrusted) ==
  LET reached == TransferFailureMayHaveReachedDevice(status)
      p == [Counted EXCEPT !.effects = @ \cup IF reached THEN {"INDETERMINATE_WRITE"} ELSE {}]
  IN  /\ appliedState' = IF reached THEN untrusted ELSE appliedState
      /\ configFault' = IF reached THEN Fault(status, p.kind, w, p.effects) ELSE configFault
      /\ FinishTransfer(p, "FAILED")

\* A failed write ends the job.  When it may have reached the device, or an
\* earlier write of the job did, trust falls to the given state.
FailWrite(status, w, untrusted) ==
  LET reached == TransferFailureMayHaveReachedDevice(status)
      p == [Counted EXCEPT !.effects = @ \cup IF reached THEN {"INDETERMINATE_WRITE"} ELSE {}]
      damaged == reached \/ "PARTIAL_WRITE" \in p.effects
  IN  /\ appliedState' = IF damaged THEN untrusted ELSE appliedState
      /\ configFault' = IF damaged THEN Fault(status, p.kind, w, p.effects) ELSE configFault
      /\ FinishTransfer(p, "FAILED")

WriteReset(status) ==
  /\ AtReset
  /\ \/ /\ status = "OK"
        /\ appliedState' = "UNKNOWN"
        /\ jobStep' = 1 /\ lastWrite' = ResetWrite
        /\ ContinueTransfer([Counted EXCEPT !.effects = @ \cup {"PARTIAL_WRITE"},
                                            !.phase = "VERIFY_MANUFACTURER"])
        /\ UNCHANGED configFault
     \/ status # "OK" /\ FailWrite(status, ResetWrite, "UNKNOWN")
  /\ UNCHANGED bindingVars

\* matches says whether the identity register holds the expected value.
ReadIdentity(status, matches) ==
  LET index == jobStep - (ApplyOffset(progress.kind) - 2)
      step == [phase |-> IdentityPhases[index + 1], channel |-> NoChannel,
               reg |-> IF index = 0 THEN RegManufacturerId ELSE RegDeviceId]
      ok == status = "OK" /\ matches
  IN  /\ AtIdentity
      /\ \/ /\ ok
            /\ appliedState' =
                 IF index = 1 /\ appliedState = "UNKNOWN" THEN "DIRTY" ELSE appliedState
            /\ jobStep' = jobStep + 1
            /\ ContinueTransfer([Counted EXCEPT
                 !.phase = IF index = 0 THEN "VERIFY_DEVICE" ELSE "FORCE_SLEEP"])
            /\ UNCHANGED <<configFault, lastWrite>>
         \/ /\ ~ok
            /\ appliedState' = "UNKNOWN"
            /\ configFault' = Fault(IF status = "OK" THEN "MISMATCH" ELSE status,
                                    progress.kind, step, progress.effects)
            /\ FinishTransfer(Counted, "FAILED")
      /\ UNCHANGED bindingVars

WriteConfiguration(status) ==
  LET applyStep == jobStep - ApplyOffset(progress.kind)
      written == [Counted EXCEPT !.effects = @ \cup {"PARTIAL_WRITE"}]
      next == ConfigWriteAt(ChannelCount, applyStep + 1)
      last == applyStep + 1 >= ConfigurationTransferCount(ChannelCount)
  IN  /\ AtApply
      /\ \/ /\ status = "OK" /\ last
            /\ appliedState' = "APPLIED_SLEEPING" /\ configFault' = NoFault
            /\ FinishTransfer(written, "SUCCESS")
         \/ /\ status = "OK" /\ ~last
            /\ appliedState' = "APPLYING"
            /\ jobStep' = jobStep + 1 /\ lastWrite' = ApplyWrite
            /\ ContinueTransfer([written EXCEPT !.phase = next.phase,
                                                !.channel = next.channel])
            /\ UNCHANGED configFault
         \/ status # "OK" /\ FailWrite(status, ApplyWrite, "DIRTY")
      /\ UNCHANGED bindingVars

-----------------------------------------------------------------------------
(* The callbacks of an acquisition.                                        *)

AtRead(phase) == pollCall.active /\ progress.phase = phase

\* advanceAcquireChannel: the next requested channel, or the closing STATUS.
AdvanceAcquire(p, after) ==
  LET next == NextChannel(p.requestedChannels, after)
  IN  [p EXCEPT !.channel = next,
                !.phase = IF next = NoChannel THEN "READ_STATUS_AFTER" ELSE "READ_DATA_MSB"]

WithReadEffect(p) == [p EXCEPT !.effects = @ \cup {"READ_SIDE_EFFECTS"}]

\* Mutant: the first read is retried behind the owner's back.
ReadStatusBeforeRetrying(status) ==
  /\ AtRead("READ_STATUS_BEFORE")
  /\ \/ /\ status = "OK"
        /\ ContinueTransfer(AdvanceAcquire(WithReadEffect(Counted), NoChannel))
     \/ status # "OK" /\ ContinueTransfer(progress)
  /\ UNCHANGED <<bindingVars, appliedState, configFault, jobStep, lastWrite>>

ReadStatusBefore(status) ==
  /\ AtRead("READ_STATUS_BEFORE")
  /\ \/ /\ status = "OK"
        /\ ContinueTransfer(AdvanceAcquire(WithReadEffect(Counted), NoChannel))
        /\ UNCHANGED <<jobStep, lastWrite>>
     \/ /\ status # "OK"
        /\ FinishTransfer(IF TransferFailureMayHaveReachedDevice(status)
                          THEN WithReadEffect(Counted) ELSE Counted, "FAILED")
  /\ UNCHANGED <<bindingVars, appliedState, configFault>>

ReadDataMsb(status) ==
  /\ AtRead("READ_DATA_MSB")
  /\ \/ /\ status = "OK"
        /\ ContinueTransfer([WithReadEffect(Counted) EXCEPT !.phase = "READ_DATA_LSB"])
        /\ UNCHANGED <<jobStep, lastWrite>>
     \/ status # "OK" /\ FinishTransfer(Counted, "FAILED")
  /\ UNCHANGED <<bindingVars, appliedState, configFault>>

ReadDataLsb(status) ==
  /\ AtRead("READ_DATA_LSB")
  /\ \/ /\ status = "OK"
        /\ ContinueTransfer(AdvanceAcquire(
             [Counted EXCEPT !.completedChannels = @ \cup {progress.channel}],
             progress.channel))
        /\ UNCHANGED <<jobStep, lastWrite>>
     \/ status # "OK" /\ FinishTransfer(Counted, "FAILED")
  /\ UNCHANGED <<bindingVars, appliedState, configFault>>

ReadStatusAfter(status) ==
  /\ AtRead("READ_STATUS_AFTER")
  /\ \/ status = "OK" /\ FinishTransfer(WithReadEffect(Counted), "SUCCESS")
     \/ status # "OK" /\ FinishTransfer(Counted, "FAILED")
  /\ UNCHANGED <<bindingVars, appliedState, configFault>>

-----------------------------------------------------------------------------
(* Cancellation, results, invalidation and the direct calls.               *)

CancelJob ==
  /\ progress.active /\ ~pollCall.active
  /\ AbandonJob("CANCELLED", "CANCELLED")

\* Mutant: the head of the ring stays where it is.
TakeResultKeepsHead ==
  /\ ~pollCall.active /\ resultCount > 0
  /\ results' = [results EXCEPT ![resultHead] = NoResult]
  /\ resultCount' = resultCount - 1
  /\ UNCHANGED <<bindingVars, appliedState, configFault, jobVars, resultHead, pollCall>>

TakeResult ==
  /\ ~pollCall.active /\ resultCount > 0
  /\ results' = [results EXCEPT ![resultHead] = NoResult]
  /\ resultHead' = (resultHead + 1) % ResultCapacity
  /\ resultCount' = resultCount - 1
  /\ UNCHANGED <<bindingVars, appliedState, configFault, jobVars, pollCall>>

\* An active job is cancelled first; its own fault is then overwritten.
InvalidateAppliedState ==
  /\ ~pollCall.active
  /\ appliedState' = "UNKNOWN"
  /\ configFault' = [NoFault EXCEPT !.valid = TRUE, !.cause = "INVALIDATED"]
  /\ IF progress.active THEN FinishJob(progress, "CANCELLED")
     ELSE UNCHANGED <<jobVars, ringVars>>
  /\ UNCHANGED <<bindingVars, pollCall>>

\* sleep() and wake(): one CONFIG write outside any job.
FinalConfigWrite ==
  [phase |-> "WRITE_FINAL_CONFIG", reg |-> RegConfig, channel |-> NoChannel]

\* Mutant: the fault is recorded and trust is kept.
DirectConfigWriteKeepsTrust(status, from, to) ==
  LET lost == status # "OK" /\ TransferFailureMayHaveReachedDevice(status)
  IN  /\ bound /\ ~progress.active
      /\ appliedState = from
      /\ appliedState' = IF status = "OK" THEN to ELSE appliedState
      /\ configFault' =
           IF lost THEN Fault(status, "NONE", FinalConfigWrite, {"INDETERMINATE_WRITE"})
           ELSE configFault
      /\ UNCHANGED <<bindingVars, jobVars, ringVars, pollCall>>

DirectConfigWrite(status, from, to) ==
  LET lost == status # "OK" /\ TransferFailureMayHaveReachedDevice(status)
  IN  /\ bound /\ ~progress.active
      /\ appliedState = from
      /\ appliedState' =
           IF status = "OK" THEN to ELSE IF lost THEN "DIRTY" ELSE appliedState
      /\ configFault' =
           IF lost THEN Fault(status, "NONE", FinalConfigWrite, {"INDETERMINATE_WRITE"})
           ELSE configFault
      /\ UNCHANGED <<bindingVars, jobVars, ringVars, pollCall>>

Sleep(status) == DirectConfigWrite(status, "APPLIED_ACTIVE", "APPLIED_SLEEPING")
Wake(status) == DirectConfigWrite(status, "APPLIED_SLEEPING", "APPLIED_ACTIVE")

WriteRegister16(reg, status) ==
  LET mutationPossible == status = "OK" \/ TransferFailureMayHaveReachedDevice(status)
      unknown == reg = RegResetDev \/ appliedState = "UNKNOWN"
      w == [phase |-> ConfigurationPhaseForRegister(reg), reg |-> reg,
            channel |-> ConfigurationChannelForRegister(reg)]
  IN  /\ bound /\ ~progress.active
      /\ IsConfigurationRegister(reg) /\ AvailableOnVariant(ChannelCount, reg)
      /\ appliedState' =
           IF ~mutationPossible THEN appliedState
           ELSE IF unknown THEN "UNKNOWN" ELSE "DIRTY"
      /\ configFault' =
           IF ~mutationPossible THEN configFault
           ELSE IF status = "OK" THEN Fault("DIAGNOSTIC", "NONE", w, {"PARTIAL_WRITE"})
           ELSE Fault(status, "NONE", w, {"INDETERMINATE_WRITE"})
      /\ UNCHANGED <<bindingVars, jobVars, ringVars, pollCall>>

-----------------------------------------------------------------------------
(* The specification.                                                      *)

Owner ==
  \/ \E c \in Profiles : Bind(c) \/ UpdateDesiredConfig(c)
  \/ End \/ CancelJob \/ TakeResult \/ InvalidateAppliedState
  \/ \E id \in OperationIds, d \in Deadlines :
       \/ StartInitialize(id, d) \/ StartApplyConfig(id, d) \/ StartResetAndReapply(id, d)
       \/ \E channels \in SUBSET ChannelIndex : StartAcquire(channels, id, d)

Poll ==
  \E now \in Times :
    PollTimeout(now) \/ \E max \in 1 .. MaxTransferBudget : PollBegin(now, max)

JobTransfer(status, matches) ==
  \/ WriteReset(status) \/ ReadIdentity(status, matches) \/ WriteConfiguration(status)
  \/ ReadStatusBefore(status) \/ ReadDataMsb(status) \/ ReadDataLsb(status)
  \/ ReadStatusAfter(status)

DirectTransfer(status) ==
  Sleep(status) \/ Wake(status) \/ \E reg \in DiagnosticRegisters : WriteRegister16(reg, status)

Transfer ==
  \E status \in TransferStatus :
    DirectTransfer(status) \/ \E matches \in BOOLEAN : JobTransfer(status, matches)

Next == Owner \/ Poll \/ Transfer

Spec == Init /\ [][Next]_vars

\* The owner's loop keeps calling poll() while a job is active, and a
\* callback returns within its timeout.
FairSpec == Spec /\ WF_vars(Poll) /\ WF_vars(\E s \in TransferStatus, m \in BOOLEAN : JobTransfer(s, m))

-----------------------------------------------------------------------------
(* Correctness.                                                            *)

Job ==
  [active : BOOLEAN, operationId : OperationIds \cup {0}, kind : JobKind \cup {"NONE"},
   phase : JobPhase, channel : Channel, deadlineMs : 0 .. TimeModulus - 1,
   completedTransfers : Nat, maximumTransfers : Nat,
   requestedChannels : SUBSET ChannelIndex, completedChannels : SUBSET ChannelIndex,
   effects : EffectFlags, configRevision : 0 .. MaxConfigRevision]
ConfigFault ==
  [valid : BOOLEAN, cause : FaultCause, job : JobKind \cup {"NONE"}, phase : JobPhase,
   reg : 0 .. 255, channel : 0 .. 255, effects : EffectFlags]
OperationResult ==
  [operationId : OperationIds \cup {0}, kind : JobKind \cup {"NONE"},
   outcome : TerminalOutcome, effects : EffectFlags,
   configRevision : 0 .. MaxConfigRevision, hasSampleBatch : BOOLEAN]

BindingType ==
  /\ bound \in BOOLEAN /\ config \in Profiles \cup {NoProfile}
  /\ configRevision \in 0 .. MaxConfigRevision
TrustType == appliedState \in AppliedConfigState /\ configFault \in ConfigFault
JobType ==
  /\ progress \in Job /\ jobStep \in Nat
  /\ lastWrite \in [phase : JobPhase, reg : 0 .. 255, channel : Channel]
RingType ==
  /\ results \in [0 .. ResultCapacity - 1 -> OperationResult]
  /\ resultHead \in 0 .. ResultCapacity - 1 /\ resultCount \in 0 .. ResultCapacity
CallType ==
  pollCall \in [active : BOOLEAN, remaining : Nat, transferTimeoutMs : Nat, unspentMs : Nat]

\* Every field of the driver object and of a running poll() has its type.
TypeOK == BindingType /\ TrustType /\ JobType /\ RingType /\ CallType

\* An active job still has a transfer to make: poll() divides the deadline
\* budget by maximumTransfers - completedTransfers (capped), so a job that had
\* used up its fixed worst case without terminating would divide by zero.
TransferRemains ==
  progress.active => progress.completedTransfers < progress.maximumTransfers

\* Where that comes from.  A configuration job has made exactly as many
\* callbacks as it has passed steps of its plan; an acquisition has read the
\* requested channels below the current one, two callbacks each, after the
\* opening STATUS.
JobAccounting ==
  LET done == progress.completedTransfers
      read == progress.completedChannels
      requested == progress.requestedChannels
      below == {ch \in requested : ch < progress.channel}
  IN  /\ progress.active <=> progress.kind # "NONE"
      /\ progress.active => progress.maximumTransfers = MaximumTransfers(progress.kind, requested)
      /\ progress.active /\ progress.kind # "ACQUIRE" =>
           progress.phase \notin ReadPhase /\ done = jobStep /\ jobStep < progress.maximumTransfers
      /\ progress.kind = "ACQUIRE" =>
           \/ progress.phase = "READ_STATUS_BEFORE" /\ done = 0 /\ read = {}
           \/ /\ progress.phase \in {"READ_DATA_MSB", "READ_DATA_LSB"}
              /\ progress.channel \in requested /\ read = below
              /\ done = 2 * Cardinality(read) + IF progress.phase = "READ_DATA_MSB" THEN 1 ELSE 2
           \/ /\ progress.phase = "READ_STATUS_AFTER" /\ read = requested
              /\ done = 1 + 2 * Cardinality(requested)

\* The slot checked at admission is still free when the job terminates, so
\* _finishJob never overwrites a result that was not drained.
SlotReserved == progress.active => resultCount < ResultCapacity

\* No two undrained results, and no undrained result and the active job,
\* carry the same identity, however ids are reused over time.
PendingIds == {results[(resultHead + k) % ResultCapacity].operationId : k \in 0 .. resultCount - 1}
IdentitiesUnique ==
  /\ Cardinality(PendingIds) = resultCount
  /\ progress.active => progress.operationId \notin PendingIds

\* The phase and channel that jobProgress() reports between polls are those
\* of the register the next callback of the job will really address.
PhaseNamesNextTransfer ==
  progress.active /\ progress.kind # "ACQUIRE" =>
    LET offset == ApplyOffset(progress.kind)
        write == ConfigWriteAt(ChannelCount, jobStep - offset)
    IN  /\ progress.phase =
             IF jobStep >= offset THEN write.phase
             ELSE IF jobStep >= offset - 2 THEN IdentityPhases[jobStep - offset + 3]
             ELSE "SOFTWARE_RESET"
        /\ progress.channel = IF jobStep >= offset THEN write.channel ELSE NoChannel

\* What a timeout or a cancellation would report as the last write is the
\* last write the job made, and there is one exactly when PARTIAL_WRITE is set.
LastWriteIsProvenance ==
  LET offset == ApplyOffset(progress.kind)
  IN  /\ "PARTIAL_WRITE" \in progress.effects <=> lastWrite # NoWrite
      /\ lastWrite = IF ~progress.active \/ progress.kind = "ACQUIRE" THEN NoWrite
                     ELSE IF jobStep > offset THEN ConfigWriteAt(ChannelCount, jobStep - offset - 1)
                     ELSE IF progress.kind = "RESET_AND_REAPPLY" /\ jobStep > 0 THEN ResetWrite
                     ELSE NoWrite

\* APPLYING is only ever seen while the job that is applying exists and has
\* written: no cancellation, timeout, invalidation or failure leaves it behind.
ApplyingHasJob ==
  appliedState = "APPLYING" =>
    /\ progress.active /\ progress.kind \in JobKind \ {"ACQUIRE"}
    /\ jobStep > ApplyOffset(progress.kind)

\* A trusted state carries no fault, so configFault() never explains a loss of
\* trust that a later successful job repaired.
Trusted == appliedState \in {"APPLIED_SLEEPING", "APPLIED_ACTIVE"}
TrustedIsFaultless == Trusted => ~configFault.valid

\* The revision captured at admission is the revision of the profile the job
\* applies or samples under, up to its last transfer, and an acquisition
\* samples a device that is trusted to be converting all requested channels.
JobMatchesConfiguration ==
  progress.active =>
    /\ bound /\ progress.configRevision = configRevision
    /\ progress.kind = "ACQUIRE" =>
         appliedState = "APPLIED_ACTIVE" /\ progress.requestedChannels \subseteq ProfileChannels[config]

\* poll() documents that the worst-case sum of the callback timeouts of one
\* call cannot exceed the deadline budget seen at its start; no callback gets
\* a zero timeout, and the job's own allowance is never overrun.
TimeoutsFitDeadline ==
  pollCall.active =>
    /\ progress.active
    /\ pollCall.remaining \in 1 .. progress.maximumTransfers - progress.completedTransfers
    /\ pollCall.transferTimeoutMs \in 1 .. I2cTimeoutMs
    /\ pollCall.remaining * pollCall.transferTimeoutMs <= pollCall.unspentMs

\* The newest result of the ring.
Newest == results[(resultHead + resultCount - 1) % ResultCapacity]
Terminates == resultCount' = resultCount + 1

\* A configuration job that ends without success after it wrote, or may have
\* written, leaves the configuration untrusted with a fault that names the
\* job and its effects (or the invalidation that cancelled it).
WriteEffectsAreExplained ==
  [][Terminates /\ Newest'.outcome # "SUCCESS"
       /\ Newest'.effects \cap {"PARTIAL_WRITE", "INDETERMINATE_WRITE"} # {} =>
     /\ appliedState' \in {"DIRTY", "UNKNOWN"} /\ configFault'.valid
     /\ \/ configFault'.cause = "INVALIDATED"
        \/ configFault'.job = Newest'.kind /\ configFault'.effects = Newest'.effects]_vars

\* The driver leaves UNKNOWN only by reading the right DEVICE_ID in a job that
\* verified MANUFACTURER_ID before it.
IdentityFence ==
  [][appliedState = "UNKNOWN" /\ appliedState' # "UNKNOWN" =>
       progress.kind \in {"INITIALIZE", "RESET_AND_REAPPLY"} /\ progress.phase = "VERIFY_DEVICE"]_vars

\* Polled by its owner, an admitted job comes to an end even if every one of
\* its callbacks succeeds and no deadline is ever seen to expire.
JobTerminates == progress.active ~> ~progress.active
=============================================================================
