# A verification project for the LDC1612/LDC1614 driver

The repository is a managed-synchronous C++ driver for TI's LDC1612/LDC1614
inductance-to-digital converters, an ESP32 I2C transport, and a diagnostic
command line that exercises both, with the two applications that run it. This
directory keeps TLA+ models of it, TLC configurations that check the models on
small instances, and theorems that TLAPS proves for every value of the constants.

Paths below are relative to the repository root; `LDC1614.cpp` is
`src/LDC1614.cpp`.

## 1. The system

| Component | State it keeps | Operations | What makes it correct |
| --- | --- | --- | --- |
| **Cooperative driver** (`LDC1614.cpp`, `include/LDC1614/LDC1614.h`) | the binding and the desired profile with its revision; the applied-configuration state (UNKNOWN, DIRTY, APPLYING, APPLIED_SLEEPING, APPLIED_ACTIVE); the configuration fault; at most one job with its progress, step and last write; a ring of two results | `bind`, `end`, `updateDesiredConfig`; `startInitialize`, `startApplyConfig`, `startResetAndReapply`, `startAcquire`; `poll`; `cancelJob`, `takeResult`, `invalidateAppliedState`; `sleep`, `wake`, `writeRegister16` and read-only calls | a job terminates exactly once, into a slot that was reserved for it; a poll keeps to its budget; trust in the configuration is never claimed without cause and every loss of it is explained |
| **Register map and replay plan** (`include/LDC1614/CommandTable.h`, `configWriteAt` and its tables) | none | which register the k-th transfer of a replay writes; which registers may be written, read back and compared | the plan covers the profile, once, in agreement with every other table |
| **Device** (external; `test/support/FakeLdc1614Device.h`) | registers, the sleep bit, conversions | accepts or loses writes, converts, may lose power | what the driver trusts is true of it |
| **Acquisition quality** (`_buildAcquisition`, `decodeDeviceStatus`, `decodeChannelSample`, `readDataReady`) | STATUS and DATA evidence of one acquisition | builds a `SampleBatch` with per-channel quality | no sample is called fresh and whole when a conversion overtook its reads |
| **Profile validation and timing** (`validateConfig`, `estimateFrameTiming`, `encodeErrorReporting`, `calculateSensorFrequencyHz`) | none | pure functions | bounds, rounding, no overflow |
| **ESP32 I2C transport** (`examples/esp32/I2cMasterTransport.cpp`) | bus, device and discovery handles; frequency | `open`, `close`, `reopen`, `recover`, `setFrequency`, transfers | no handle leaked or used after removal, whichever step fails |
| **Diagnostic CLI** (`examples/common/Ldc1614Cli.cpp`; `examples/esp_idf/basic/main/Ldc1614IdfCli.cpp` is the same code under another class and namespace name) | the pending operation, a session, a deferred prompt; a staged profile | schedules jobs, drains results, runs twelve kinds of session, cancels; edits, validates and commits the staged profile | every request is answered once and truly, within one transfer a pass; the profile that is committed is the one that was shown |
| **Example applications** (`examples/01_basic_bringup_cli/main.cpp`, `examples/esp_idf/basic/main/main.cpp`) | the bus context, the line being read | a pass of the main loop: at most one line, then `service()` | with the CLI |
| Host tools and scripts | none at run time | | left out, see section 8 |

**How they interact.** Everything runs on the owner's thread. The owner (an
application or the CLI) calls the driver; the driver does bus traffic only
inside `poll()`, `sleep()`, `wake()` and the direct register calls, through
transport callbacks the owner installed; the callbacks reach the device through
the ESP32 transport. There is no lock, no interrupt and no second thread, and a
callback must not re-enter the driver. The owner learns the fate of a job only
by taking its result.

**Where it is hard.** A configuration job is 13 to 26 transfers, and the owner
may do almost anything between two of them: cancel, invalidate, let the
deadline expire, ask for something else. Every transfer can fail, and all
failures but an address NACK leave open whether the device took the write. The
device can lose its configuration without anyone being told. Five records
(applied state, fault, progress, last write, result) must agree after every such
history, and three budgets (deadline, caller's transfers, the job's fixed worst
case) are divided by one another on a timeline that wraps. Around the driver,
each function of the transport makes up to six calls of the platform, any of
which may fail and leave handles behind; and the CLI has a request open over
many passes of a loop in which the user may type anything. The hazards in
`PROJECT.json` name the lines.

## 2. Modules

| Module | Models | Variables |
| --- | --- | --- |
| `RegisterPlan` | the register map, `configWriteAt()`, the phase, channel and mask tables | none |
| `ProfileReadback` | `expectedConfigurationRegister()` asked for any address | the question and its answer |
| `LdcDriver` | the whole driver object, every operation that changes it | one per member of the class, and the locals of a `poll()` that has not returned |
| `OperationLedger` | abstract: what the driver promises about operations | the admitted operation, the queue of results |
| `LdcOperations` | `LdcDriver` as an implementation of the ledger | none of its own |
| `LdcSystem` | `LdcDriver` on the bus with a device | the device's watched register and sleep bit, and a history flag |
| `LdcAcquisition` | the reads of an acquisition on a device that converts, and the sample batch | the device's DATA and STATUS evidence; the driver's scratch values and published batches; three history variables |
| `BusLifecycle` | abstract: what the owner of the bus is promised: closed, open or degraded, and at which frequency | the phase, the frequency, the last answer |
| `I2cTransport` | every function of the ESP32 transport, over a platform any call of which may fail | the context, what the platform really has, the last status |
| `CliDevice` | the driver and the bus as far as the CLI can tell: operators on a world | none |
| `CliSessions` | the sessions of the CLI: start, advance, result, end | none |
| `Cli` | commands, `service()`, drained and lost results, and the main loops | the driver, the bus, `_pending`, `_session`, `_promptDeferred`, `_nextOperationId`; four of history: the prompts printed, the stop asked for, what the pass did, and whose half of it is next |
| `RequestReply` | abstract: what a person at the console is promised | whether work is under way or stopping, prompts, the answer |
| `Profile` | `validateConfig()`, `estimateFrameTiming()` | none |
| `ProfileCheck` | profiles put to both, and the device they are held against | a profile, a mask, the estimate |
| `CliProfile` | the staged profile: settings, reset, discard, commit, binding | the copy and its flags; the driver's profile, revision and trust; what the registers hold |
| `LdcDriverProofs` | the theorems about `LdcDriver`: jobs, polls and ring; what it believes; what a job announces and what a fault would blame; identities and results, by which it implements `OperationLedger` | none |
| `LdcSystemProofs` | the theorems about the driver and the device together | none |
| `LdcAcquisitionProofs` | the theorems about the evidence and the batches of acquisitions | none |
| `CliProofs` | the theorems about the console: `Cli` implements `RequestReply`, and reports truly | none |
| `ProfileReadbackProofs`, `I2cTransportProofs`, `CliProfileProofs`, `ProfileProofs` | the theorems about the plan and its tables, the transport, the staged profile, and validation and timing | none |
| `MCLdcDriver`, `MCLdcOperations`, `MCLdcSystem`, `MCLdcAcquisition`, `MCI2cTransport`, `MCCli`, `MCProfile`, `MCCliProfile` | instances for TLC | none |

### Correspondence with the code

* *A call is a step*, because the owner serialises its calls. The exception is
  `poll()`: `PollBegin` opens the call, each transport callback in it is a step
  of its own, and no other operation is enabled until the last callback of the
  call. That is how a model that sees every prefix of a job stays one that never
  interrupts a `poll()`.
* *A rejected call changes nothing* and is a stuttering step: the guards of an
  action are the code's early returns negated. `poll(now, 0)` before the
  deadline is such a call.
* *What a callback returns* is a parameter of its step: `OK`, `I2C_NACK_ADDR`,
  or any other error (`I2C_ERROR` stands for all of them: the driver
  distinguishes no further). `LdcSystem` ties the outcome to the device.
* *Profiles* are model values. A profile's register values matter only in that
  two profiles differ; `ProfileChannels` gives the one field the driver reads.
* `progress.registerAddress` is fixed by the phase, the channel and the job step
  and is not a variable; `PhaseNamesNextTransfer` checks the phase and channel.
* Results keep identity, kind, outcome, effects, revision and whether there is a
  batch. Status text, timestamps, `finalProgress` and the copy of the fault are
  left out. The contents of the batch are in `LdcAcquisition`, whose `batches`
  runs alongside the result ring.
* `LdcAcquisition` takes the read actions of `LdcDriver` and adds to each what
  the device does (clears STATUS evidence, latches a pair, erases flags) and what
  the driver keeps. It starts from the state after one initialisation and
  `wake()`. Of the owner's calls it has those that leave the configuration
  applied; any other ends trust, and with it the admission of acquisitions. A
  read that fails with anything but an address NACK may have had its side
  effects, which the test fixture does not show and the driver allows for.
* A conversion is a number, an endpoint class and the faults routed to DATA and
  to STATUS. The 28 bits matter to quality only as all zero, all ones or other.
* The branches `!write.valid` (LDC1614.cpp:740) and the unknown phase of
  `_pollAcquire` cannot be reached (`JobAccounting` is why) and are not modelled.
* Transport statistics and the cache-only and read-only calls change nothing the
  properties see.
* `_recordConfigFault` and `_finishJob` are part of the action that calls them,
  never actions of their own.
* *The transport.* Each function is one step and an operator from a context, the
  platform and a set of calls that will fail to a new context, platform and
  status; its pieces pass a failure on, as the early returns do. `native` is
  ESP-IDF's side, kept apart from the context so that a leak or a dangling
  handle is something a state can show. The platform is external: it
  is taken to refuse the removal of a bus that still has devices on it.
* *The CLI.* The state of the CLI, the driver and the bus is one record, a world,
  that the operators take and return, because a pass of `service()` runs through
  a dozen functions that each change some of it. An action of `Cli` is a half of
  a pass: a line, or `service()`. `linesOnly` is the ESP-IDF loop, which skips
  `service()` in a pass that handled a line. `CliDevice` stands for the driver
  (a job ends after some transfers or at its deadline, with one result, and
  leaves trust as it likes within what `LdcDriver` allows) and for the transport
  (as `BusLifecycle` promises). A tick of time only brings deadlines nearer.
  `Init` is the three ways `setup()` can end.
* *Profiles and timing.* The code counts in hertz and parts per million in
  64 bits, which TLC's integers cannot: the units are constants, and the code is
  the case `UnitHz = 1`, `PpmScale = 1000000`. Overflow is not modelled: the
  products of the code stay below 2^64 within the bounds `validateConfig()` has
  checked before it forms them.
* *The staged profile.* A setting edits a copy, made when it is first looked at;
  the driver appears by what its jobs, `sleep`, `wake`, raw writes and
  invalidations do to the trust in the profile. `programmed` is what a job wrote.

## 3. Runs

| Run | Instance | Question |
| --- | --- | --- |
| `driver_core` | LDC1612, two profiles (one and two channels), one identity, two results, two revisions, one transfer per poll | Do applied state, fault, progress, last write and revision agree after every history of calls and outcomes? |
| `poll_budget` | LDC1612, a timeline of 16 ticks, every poll time, two deadlines (one at the wrap), up to five transfers a poll, callbacks of up to 3 ms | Does `poll()` ever divide by zero, hand out a zero timeout or plan beyond the deadline? |
| `liveness` | one profile, a deadline that never expires, one or two transfers a poll | Does a job end if it is polled and every callback returns? |
| `operations` | three interchangeable identities, a ring of two | Does the driver implement the ledger, with nothing lost, duplicated, reordered or confused? |
| `system` | two interchangeable profiles, three watched registers, every outcome of every write, brownouts at any moment | Is what the driver trusts true of the silicon, unless it was reset unseen, and does a running replay rewrite only a sleeping device? |
| `acquisition` | LDC1612 scanning both channels, any selection of them, two conversions of four kinds at any moment, every outcome of every read, direct reads, sleep | Does a batch claim more than the device delivered? |
| `overrun_claim` (violation) | clean conversions only | Is a conversion that arrives during the readout always retained as overrun evidence, as `docs/CODE_AUDIT_RESOLUTION.md` says? |
| `transport` | three interchangeable handles, two frequencies and an invalid one, two addresses to search, counters that saturate at once, every set of failing calls | Is a handle ever leaked or used after its removal, does one clean recovery always heal, and is a degraded bus ever taken for an open one? |
| `cli` | both loops, every command and session, jobs of two transfers, deadlines of two ticks, one or two rounds, three identities | Is every request answered once and truly, with the bus silent after a cancel and at most one transfer a pass? |
| `profile_limits` | 2880 profiles on both sides of the limits that the reference and the sensor clocks share, every mask, ten clocks | Does an accepted profile work at every clock and sensor frequency it allows, and is every part of an estimate on the safe side at every clock? |
| `staged_profile` | two channels, one or two values for each setting, two revisions | Is a clean copy the profile in force, and a trusted profile what the registers hold? |
| `readback` | every address, both variants | Does the plan cover the writable profile exactly once, and do the other tables agree with it? |

Each property has a mutant in `PROJECT.json`: an operator next to the one it
replaces that breaks the code in a plausible way, which the run then catches.

**What they show.** All of them hold, but for the claim of `overrun_claim`. In particular

* `TrustIsTrue`: APPLIED_SLEEPING and APPLIED_ACTIVE are true statements about
  every register and the sleep bit, whatever failed writes, cancellations,
  timeouts, diagnostic writes and profile changes came before, so long as the
  device was not reset behind the driver's back. That is a real limit of the
  driver: a brownout in mid-replay ends in an APPLIED_SLEEPING that is false, and
  nothing the driver reads tells it. What is shown is that it does not outlast the
  next complete replay, which restores the claim, nor an invalidation, which
  withdraws it; nothing makes either happen. `ReplayPrefix` and `AcquiresConvertingDevice`, that a running replay has
  built the registers it has passed and that an acquisition reads a device that
  converts under its revision, make the same exception.
* `ReplayWhileAsleep` needs no such exception: a running replay writes every
  register but CONFIG into a sleeping device, even one that is reset in
  mid-replay. It speaks of replays only: `writeRegister16()` may rewrite the same
  registers while the device converts, as a diagnostic that costs the trust.
* `IdentityFence`: UNKNOWN is left only by reading both identity registers in
  one job. An invalidation cancels the job it interrupts, so no replay that
  began before it can lift the state.
* `WriteEffectsAreExplained`: an unsuccessful configuration job that wrote, or
  may have, leaves DIRTY or UNKNOWN and a fault naming that job and its effects.
* `ImplementsLedger`: each admitted operation terminates exactly once, results
  come out in order, an identity can be reused exactly when its last result has
  been taken.

* `CoherentPairs`, `FreshOnlyOnce`, `OverrunIsExact`, `ValidHasNoDataFault`: the two
  halves of a sample belong to one conversion; no conversion is called fresh
  twice; an overrun is reported exactly when the sample had been replaced by the
  time of the closing STATUS; a valid sample is a whole conversion that is no
  endpoint and carries no fault that is routed to DATA. It need not be free of
  faults: one routed to STATUS alone may be hidden there by an earlier event, as
  `LDC1614.h` (lines 159-165) and F27 of `docs/CODE_AUDIT_RESOLUTION.md` say.
* `SideEffectsAreAdmitted`: an acquisition whose result does not carry
  READ_SIDE_EFFECTS has consumed nothing.

* `ContextIsExact`: whichever calls of the platform fail, in whichever function,
  the context holds exactly the bus and the devices that the platform has, each
  at its address and the current frequency. `RecoveryHeals`: from any such state
  one `recover()` without a failure reopens the bus at the frequency last in
  force. `ImplementsBusLifecycle`: a failed `setFrequency()` never changes the
  frequency of an open bus, and no transfer succeeds on a half-open one.
* `AnswersOnce`: the console of the CLI implements `RequestReply`. A request that
  takes time is answered once, with one prompt after it and none before, and as
  CANCELLED when it was stopped, even if its job had just succeeded.
  `OneTransferPerPass` and `CancelIsSilent` are two claims of
  `examples/01_basic_bringup_cli/README.md` ("`service()` performs at most one
  physical I2C attempt", "`cancel` is bus-silent"); both hold of both loops.
  The second one is stronger here: the next `service()` also answers.
* `PendingIsCorrelated`: a drained result is never another operation's, and so
  the branches of `drainResults()` that drop or report a lost one are never
  taken. `ReportIsHonest`: the counts of a session add up, SUCCESS means that
  all of them passed, and the SUCCESS of a frequency stress also that the bus is
  back at the frequency it had. `TrustMatchesBus`: a profile written at one bus
  frequency, or before a recovery, is not trusted at another or after it.
  `RequestsEnd`: every request ends.
* `ValidMeansMeasurable`: the corners that `validateConfig()` computes, with its
  roundings, cover every clock within the tolerance. `EstimateIsConservative`:
  none of the three parts of the estimate (waking and settling, conversion,
  switching between channels) falls short, by a rounding or at such a clock, of
  the delays it counts. That is no guaranteed upper bound on a frame, as
  `LDC1614.h` (lines 464-466) says: the switching delays are typical ones, and
  those of the amplitude correction are not counted.
* `StagedIsHonest`: a copy that is not marked dirty is the profile in force,
  across commits, refusals and rebinding, and trust means that the desired
  profile is the one written.

One thing the model shows that is no contradiction: the `busfreq` command
invalidates trust when a change of frequency fails, the bus-frequency session
does not when its switch fails; nothing is wrong with the trust that remains,
because a failed change keeps the frequency (`BusLifecycle`).

**One divergence.** `docs/CODE_AUDIT_RESOLUTION.md` line 43 says that a conversion
arriving during readout "belongs to a later acquisition and is retained as
overrun/pending evidence". One that completes between the opening STATUS and the
MSB read of its channel is consumed by that read: this batch reports it STALE
without an overrun, and no later one sees it. Nothing is called fresh that is
not, so the error is on the safe side; the sentence holds only of conversions
that complete after the MSB read (`OverrunIsExact`).

**Bounds, and why they are enough.** The code is uniform in the channel: the
LDC1614 differs from the LDC1612 in the length of the replay, and the two
channels of the smaller variant already give a first, a middle and a last
transfer of each sort. `RegisterPlan` is checked on both. One transfer per poll gives the owner a chance
to interfere between any two transfers, which subsumes larger budgets for every
property but the budget's own; `poll_budget` uses budgets up to five, above the
number of milliseconds left near the deadline. Two results are the code's own
capacity; three identities over them exercise reuse and the ring's wrap-around.
Two revisions reach the limit (`UINT32_MAX` in the code, `MaxConfigRevision`
here) and, with two profiles, every replacement of one by the other. A timeline
of 16 ticks has both sides of the half-way comparison and the wrap.
Two conversions are one to be read and one to overtake it, on the same channel or
on the other one, the first of which STATUS retains; a third would only replace
one that is already replaced.
`LdcSystem` watches one register, chosen freely: the registers are independent,
so a claim about the chosen one is a claim about each. The three in the
configuration are one of the per-channel registers, CONFIG (written first, and
again by `sleep()` and `wake()`) and the last one written. Diagnostic writes use
a per-channel register, CONFIG and RESET_DEV: one for each way the code treats
them.

`I2cTransport` holds at most two devices at once, so a third handle is one that
could be confused with them; handles are interchangeable, and the properties of
that run mention none, so the symmetry is sound (there is no liveness in it).
Two addresses to search exercise keeping and replacing the discovery device.
In `Cli` a job of two transfers has a first and a last one, a session of two
rounds a repetition, and a deadline of two ticks can pass before, between and
after the transfers. Three identities are one more than the results that can
wait. Two registers and one channel give the loops over them a first and a last
turn. `ProfileCheck` is arithmetic: its profiles lie on both sides of the
inequalities in which the reference clock and the sensor meet (the external
maximum, the limit of fref, the length of a conversion, the offset, a quarter of
fref), in kilohertz and thousandths so that products fit TLC's integers. The
deglitch bandwidth, the least settle count and the 8.75 MHz limit are not
straddled; the theorems below hold of every profile. Settings of `CliProfile` need one value
that leaves the profile valid and one that does not, and the flags that are not
varied are treated as the one that is.

`disturbed` in `LdcSystem` is a history variable: it marks a power loss the
driver was not told of, until the driver stops believing or begins a replay.
No driver could make a trusted state true without it. It exempts a replay or an
acquisition that such a loss interrupts, and what is believed after it until the
doubt ends; `ReplayWhileAsleep` and the properties of `LdcDriver` do without it.

## 4. Fairness

Two properties need fairness. `JobTerminates`: `FairSpec` assumes that the owner goes on
polling an active job, with a budget of at least one transfer (`Cli::service()`
does this on each pass of the main loop, as does every example), and that a
transport callback returns, as its timeout obliges it to. It does not assume
that deadlines expire, that results are taken, or that any transfer succeeds.
`RequestsEnd`: `Cli` assumes that the loop goes round, as both mains do without
a blocking call in them (in the ESP-IDF loop this includes that the console is
not flooded with a line in every single pass, in which `service()` is skipped),
and that time passes while something waits for it. It assumes nothing of the
device: transfers may fail for ever and samples stay stale for ever.

## 5. Proofs

Every safety property, action property and refinement that a passing run checks is
also a theorem.

`LdcDriverProofs` proves, for both variants, every ring size, every set of
profiles and identities, every timeline and every budget:

| Theorem | States |
| --- | --- |
| `EngineInvariant` | `Spec => []EngineInv` |
| `DriverTyped` | `TypeOK` |
| `TransferAlwaysRemains` | `TransferRemains`: `poll()` never divides by zero |
| `TransfersAccounted` | `JobAccounting` |
| `SlotStaysReserved` | `SlotReserved` |
| `PollFitsDeadline` | `TimeoutsFitDeadline` |
| `JobKeepsConfiguration` | `JobMatchesConfiguration` |

The argument. None of these is inductive alone; together they are:

    EngineInv == TypeOK /\ JobAccounting /\ SlotReserved
                        /\ TimeoutsFitDeadline /\ JobMatchesConfiguration

`JobAccounting` ties the number of callbacks made to the place the job has
reached: the step of the plan for a configuration job, the channels already read
for an acquisition, over any subset of channels (this is where
`Cardinality` of the channels below the current one, and the next requested
channel, are reasoned about). With it a job that is not finished has a transfer
left, hence the divisor in `poll()` is positive and its allowance, once divided,
covers all the callbacks of the call: `TimeoutsFitDeadline`, where the deadline
budget still unspent is carried along as `unspentMs`. `SlotReserved` keeps the
tail slot inside the ring. `JobMatchesConfiguration` is what makes the actions
that end a binding or replace a profile harmless, and gives the callbacks a
bound driver. There is one lemma per action, under it a step per conjunct, and
`NextEngine` collects them. The only assumption is `DriverAssumption`, which
states what `bind()` validates and the types of the constants.

About what the driver believes it proves, under the same assumption:

| Theorem | States |
| --- | --- |
| `TrustInvariant` | `Spec => []TrustInv` |
| `ApplyingEndsWithItsJob` | `ApplyingHasJob` |
| `TrustedMeansFaultless` | `TrustedIsFaultless` |
| `IdentityIsReadFirst` | `Spec => IdentityFence` |
| `FailedWritesAreExplained` | `Spec => WriteEffectsAreExplained` |

The argument. `TrustInv` adds four facts to `EngineInv`. `ApplyingHasJob` needs
`JobEffects`: a configuration job past the first write of its replay carries
PARTIAL_WRITE, so whoever abandons it (`cancelJob()`, an expired deadline)
withdraws trust, and a failed write does so even after an address NACK; that is
also what `FailedWritesAreExplained` needs, together with the fact that the
result of a terminating job is the newest of the ring. `IdentityFence` needs
`IdentityFirst`: while the driver is in UNKNOWN, a job that could lift it has its
identity reads still ahead of it, because the replay steps come after them and
nothing but the end of the job makes the driver forget the device in between.
Each action has one lemma that carries all three obligations (the invariant, the
fence and the explanation), so that no action is visited twice.

About what a job announces it proves, under the same assumption:

| Theorem | States |
| --- | --- |
| `NextTransferIsAnnounced` | `PhaseNamesNextTransfer` |
| `LastWriteIsRemembered` | `LastWriteIsProvenance` |

The argument. The two are inductive together over `EngineInv`. The phase and the
channel of the next transfer, the last write and PARTIAL_WRITE are assigned in
different branches of `_pollInitializeOrApply()`; each branch keeps what it does
not assign, and what it keeps is right because of where the job stands: the
identity reads leave the channel, which is none before the replay.

About results and identities it proves, under the same assumption, and so for
every capacity:

| Theorem | States |
| --- | --- |
| `DriverImplementsLedger` | `Spec => ImplementsLedger`, the whole refinement |
| `IdentitiesStayUnique` | `IdentitiesUnique` |

The argument. First the ring as a queue: a head and a count modulo the capacity
address distinct slots, so that `_finishJob()` appends to the sequence of
undrained results and `takeResult()` removes its head. Then every action is of
one of a few kinds (it leaves job and ring alone, starts a job, finishes one,
forgets everything, takes a result), and each kind is one step of the ledger or a
stutter. Identities are unique because the ledger keeps them so: a queue without
repetitions is a ring of that many distinct identities.

`ProfileReadbackProofs` proves of both variants and every address:

| Theorem | States |
| --- | --- |
| `ReadbackInvariant` | `Spec => []ReadbackInv` |
| `PlanIsTheProfile` | `PlanCoversProfileOnce` |
| `ProvenanceIsTheSame` | `ProvenanceAgrees` |

The argument. The module has no constants and its run is the whole state space;
the proof says why it comes out as it does. `Place` computes from an address
where the plan writes it, and is the inverse of the plan: each step writes a
register that has that place (`StepsHaveTheirPlace`), and each register of the
profile is written there (`PlacesAreSteps`).

`LdcSystemProofs` proves, for any set of watched registers of the replay
(`WatchedAssumption`), and so of every register:

| Theorem | States |
| --- | --- |
| `SystemInvariant` | `SystemSpec => []SystemInv` |
| `TrustedStatesAreTrue` | `TrustIsTrue` |
| `ReplayBuildsConfiguration` | `ReplayPrefix` |
| `ReplayRunsAsleep` | `SystemSpec => ReplayWhileAsleep` |
| `AcquisitionsReadConvertingDevice` | `AcquiresConvertingDevice` |

The argument. `SystemInv` adds to `TrustInv` that a bound driver has a profile
and that a replay past its first write is APPLYING (`ReplayUnderWay`); that
APPLYING means asleep (`ApplyingIsAsleep`), `TrustIsTrue` and `ReplayPrefix` are
then inductive together, and the two others follow. The replay is asleep because its first
write is CONFIG and no other step of the plan writes CONFIG or RESET_DEV
(`PlanSleepsOnce`); it has built the registers it has passed because the plan
meets each register at one step (`WatchedStepWrites`); and it ends in a state
that is trusted, which is true because the prefix is then the whole plan. All
other steps are of two kinds: they write nothing on the device, or they withdraw
trust (`SilentKeeps`, `DistrustKeeps`).

`LdcAcquisitionProofs` proves, for either variant, any kinds of conversions and
any number of them (`ConversionAssumption`):

| Theorem | States |
| --- | --- |
| `AcquisitionInvariant` | `[]AcquisitionInv` |
| `PairsAreCoherent` | `CoherentPairs` |
| `ConversionsAreFreshOnce` | `FreshOnlyOnce` |
| `OverrunsAreExact` | `OverrunIsExact` |
| `ValidSamplesCarryNoDataFault` | `ValidHasNoDataFault` |
| `ReadsAreAdmitted` | `SideEffectsAreAdmitted` |

The argument. `AcquisitionInv` says what the device's evidence means while a job
is anywhere between its first and its last read. What STATUS calls unread is
news: a conversion no batch has reported, with its flags as they were made
(`UnreadIsNews`). What the opening STATUS called unread stays news in the job's
hands, whether it is still in the device, in the latched half or in a finished
sample (`Held`, `FreshIsNews`). A channel that the job has read is unread again
exactly when it has converted again (`LostIsUnread`), which is why the closing
STATUS tells of overruns. A sample was read from one latched pair
(`SamplesAreWhole`). Each action either reads, which only consumes evidence
(`ReadConsumes`), converts, or does neither.

`I2cTransportProofs` proves, for any number of handles (finite or not), any
frequencies and addresses, under `TransportAssumption`:

| Theorem | States |
| --- | --- |
| `TransportTypeCorrect` | `TypeOK` |
| `TransportContextIsExact` | `ContextIsExact` |
| `TransportRecoveryHeals` | `RecoveryHeals` |
| `TransportImplementsBusLifecycle` | `Spec => ImplementsBusLifecycle`, the whole refinement |

The argument. `TypeOK /\ ContextIsExact` is inductive. Every function maps a
context and a platform with both to a context and a platform with both
(`Good`), one lemma per function from its pieces upwards, so that `recover()`
follows from the lemmas of `close()` and `open()`; each lemma also says what the
function does to the phase and the frequency, and that is what makes each step
one of `BusLifecycle` or a stutter (`Stepped`). `RecoveryHeals` follows from the
invariant alone: an exact context can be closed when nothing fails.

`ProfileProofs` proves, for every profile, every unit (and so for the code's),
and every clock:

| Theorem | States |
| --- | --- |
| `ValidProfilesMeasure` | `ValidMeansMeasurable` |
| `EstimatesAreConservative` | `EstimateIsConservative` |

The argument. A quotient rounded down is below, one rounded up is above the
clock it stands for; the products in `validateConfig()` are monotone in the
clock; hence what holds at the corners holds between them. For the estimate,
each channel's delays are rounded up from the slowest clock, rounded down, the
wake-up from the slowest internal oscillator, and the parts and the whole are
sums of those. The assumptions are `UnitAssumption` and that
profiles are well typed.

`CliProfileProofs` proves, for any settings the parser lets through:

| Theorem | States |
| --- | --- |
| `StagedProfileIsHonest` | `StagedIsHonest` |
| `ProfilesTyped` | the staged and the desired profile stay profiles |

The argument. `StagedIsHonest` becomes inductive with the types of both profiles
and the fact that work is under way only of a bound driver. One lemma per
command, one for all that only edit the copy.

`CliProofs` proves, for any numbers of identities, registers, channels, rounds,
transfers and ticks, every line and every failure:

| Theorem | States |
| --- | --- |
| `CliInvariant` | `Spec => []CliInv` |
| `TrustKnowsItsBus` | `TrustMatchesBus` |
| `PassesAreBounded` | `OneTransferPerPass` |
| `ResultsFindTheirRequest` | `PendingIsCorrelated` |
| `CancelSilencesTheBus` | `Spec => CancelIsSilent` |
| `RequestsAreAnsweredOnce` | `Spec => AnswersOnce`, the whole refinement |
| `ReportsAreHonest` | `ReportIsHonest` |

The argument. The model is made of operators on worlds, and so is the proof: each
gets a contract, and contracts compose as the functions do. `Sound` is what the
parts of a pass hand to each other: the pending operation is the running job or
the one result that waits, a session owns it or a command does, trust names its
bus. A session that is `Active` either goes on (`GoesOn`) or ends with one
answer (`Ends`), within one transfer, in all twelve kinds and for every result
it can be given. A line leaves the world as `Obeyed` says, `service()` as
`Served` says; the invariant is that the world is at `Rest` between the halves of
a pass, and that before `service()` no transfer has been made for work under
way. `Stopping` says what a stop leaves behind, so that the next pass must
answer, and answer CANCELLED. `RequestReply` follows: each half of a pass is one
of its steps or a stutter.

`ReportsAreHonest` needs the books of a session while it runs (`Candid`): the
parts add up and stay within the rounds asked for (`Adds`), `hasFailure` is
remembered exactly when a failure has been counted or is still to be
(`Remembers`), the counters are where the loop is (`Keeps`), and a job that is
scheduled is a round there is room for (`Expects`). A result is judged before it
is counted, so for a moment a failure is remembered that no counter shows
(`Judged`). A frequency stress is `Homed`: the job that ends it runs on a bus that
is back at its frequency. The counters of the model stop at `MaxTally`, where the
`uint32_t` of the code would wrap, and the books would add up in neither case:
what excludes both is `CountAssumption`, that the parser admits no more rounds
(`MAX_SESSION_COUNT`, 100000) than a counter holds, and that the registers of a
dump are fewer (`SessionAssumption`). `soak` is bounded by time and not by
rounds, and `ReportIsHonest` makes no claim about its sums.

What stays with TLC: liveness (`JobTerminates`, `RequestsEnd`), which is out of
the prover's reach, and the counterexample of `overrun_claim`.

## 6. How to run

    tlc -workers 2 -config MCLdcDriver.cfg MCLdcDriver
    tlapm LdcDriverProofs.tla
    tlapm ProfileReadbackProofs.tla
    tlapm LdcSystemProofs.tla
    tlapm LdcAcquisitionProofs.tla
    tlapm CliProofs.tla
    tlapm I2cTransportProofs.tla
    tlapm ProfileProofs.tla
    tlapm CliProfileProofs.tla

and likewise for the other runs and their `MC` modules; `PROJECT.json` lists
them. Deadlock is checked in every run: an owner can always make some call.

## 7. Plan

What is left, in this order.

1. `LdcAcquisition`: the INTB gate of `readDataReady()`, and a device that is
   reset in the middle of a readout.
2. The driver's own transport counters, which saturate, next to the
   transport's, with which they must agree.
3. `CliDevice` as an abstraction that `LdcDriver` and `I2cTransport` are shown to
   implement, in place of the argument of section 2.
4. Proofs: that `CliDevice` is such an abstraction, once it is stated; and the
   safety of what items 1 and 2 add.

## 8. Not modelled

* `calculateSensorFrequencyHz()`, which is floating point; the table of
  `nominalDriveCurrentMicroamps()` and the bits of `encodeErrorReporting()`.
* In the CLI: parsing, formatting, help, colour and verbosity; the last result
  and batch shown by `last`, the baseline of `xfer`, latencies; `sd`, whose pin
  neither application wires.
* The text of the ESP-IDF copy of the CLI is that of the common one once its
  class and namespace are renamed, below a header block of its own; the map
  names the lines of the common copy, and the models stand for both.
* Of the applications: pins, serial buffers, versions and the characters of a
  line.
* In the transport: `intbAsserted()`, `uptimeMs()` and the rounding of timeouts,
  which change no state. The order in which the platform times its own calls
  and the electrical behaviour of the bus belong to the platform.
* The Python and shell tools, which are not part of the running system.
