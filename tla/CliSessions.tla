------------------------------ MODULE CliSessions ------------------------------
(***************************************************************************)
(* The diagnostic sessions of src/examples/common/Ldc1614Cli.cpp: how a    *)
(* session starts, what one service pass advances, what the result of its  *)
(* job does to it, and how it ends.  A session is one long answer to one   *)
(* command, made of direct reads and jobs, at most one per pass.           *)
(*                                                                         *)
(* Times are ticks that remain, not dates: a deadline is reached at 0.     *)
(* Identifiers that are only printed, frequencies and latencies are left   *)
(* out; WATCH covers STRESS, which is WATCH with no period, and DUMP both  *)
(* of its register tables.                                                 *)
(***************************************************************************)
EXTENDS CliDevice

CONSTANTS
  MaxTally,      \* bound of the model: where the counters of a session stop
  Registers,     \* how many registers a dump or a verification reads
  Channels,      \* the physical channels of the device
  LowHz, HighHz  \* STRESS_LOW_I2C_FREQUENCY_HZ, MAX_I2C_FREQUENCY_HZ

ASSUME SessionAssumption ==
  /\ MaxTally \in Nat \ {0} /\ Registers \in 0 .. MaxTally
  /\ Channels \in Nat /\ LowHz # HighHz

NoStats == [completed |-> 0, passed |-> 0, failed |-> 0, skipped |-> 0, hasFailure |-> FALSE]
NoSession ==
  [kind |-> "NONE", phase |-> "NONE", count |-> 0, index |-> 0, period |-> 0, due |-> 0,
   ready |-> 0, left |-> 0, cursor |-> 0, matched |-> FALSE, identity |-> FALSE,
   iterationFailed |-> FALSE, stopRequested |-> FALSE, home |-> 0, stats |-> NoStats]
NoPending == [owner |-> "NONE", id |-> 0, kind |-> "NONE"]

Sampling == {"WATCH", "SAMPLE_RATE", "STRESS_MIX", "SOAK"}
SessionKind == Sampling \cup {"PROBE", "DISCOVER", "DUMP", "VERIFY", "STRESS_ID",
                              "STRESS_RESET", "STRESS_BUS_FREQ", "SELF_TEST"}
InitialPhase ==
  [kind \in SessionKind |->
     CASE kind = "PROBE" -> "PROBE_MANUFACTURER"
       [] kind = "DISCOVER" -> "DISCOVER_MANUFACTURER"
       [] kind = "DUMP" -> "DUMP_REGISTER"
       [] kind = "VERIFY" -> "VERIFY_REGISTER"
       [] kind \in {"WATCH", "SAMPLE_RATE", "SOAK"} -> "WAIT_INTERVAL"
       [] kind = "STRESS_MIX" -> "MIX_STATUS"
       [] kind = "STRESS_ID" -> "STRESS_ID_MANUFACTURER"
       [] kind = "STRESS_RESET" -> "STRESS_RESET_SCHEDULE"
       [] kind = "STRESS_BUS_FREQ" -> "STRESS_BUS_FREQ_SWITCH"
       [] OTHER -> "SELF_PURE"]

Busy(w) == w.pending # NoPending \/ w.session # NoSession \/ JobActive(w)

NextId(id) == IF id = MaxId THEN 1 ELSE id + 1

-----------------------------------------------------------------------------
(* Starting, counting and finishing.                                       *)

MayStart(w, kind, mask) ==
  /\ ~Busy(w)
  /\ kind \notin {"DISCOVER", "SELF_TEST"} => w.device.bound
  /\ kind \in Sampling => w.device.applied = "ACTIVE" /\ mask
  /\ kind = "STRESS_BUS_FREQ" => w.bus.open

StartSession(w, kind, count, mask, period) ==
  IF ~MayStart(w, kind, mask) THEN Failing(w)
  ELSE [w EXCEPT !.status = "IN_PROGRESS", !.deferred = TRUE,
                 !.session = [NoSession EXCEPT !.kind = kind, !.phase = InitialPhase[kind],
                                               !.count = count, !.period = period,
                                               !.left = IF kind = "SOAK" THEN count ELSE 0,
                                               !.home = IF kind = "STRESS_BUS_FREQ"
                                                        THEN w.bus.hz ELSE 0]]

\* The code's counters, of 32 bits, would wrap at their limit and not stop; no
\* session that counts its rounds is admitted with as many as that.
Bump(n) == IF n < MaxTally THEN n + 1 ELSE n

Record(w, verdict) == [w EXCEPT !.session.stats[verdict] = Bump(@)]
RecordFailure(w) == [w EXCEPT !.session.stats.hasFailure = TRUE]
Complete(w, verdict) ==
  LET v == Record(Record(w, "completed"), verdict)
  IN  IF verdict = "passed" THEN v ELSE RecordFailure(v)
Iterated(w) == [w EXCEPT !.session.index = @ + 1]
At(w, phase) == [w EXCEPT !.session.phase = phase]

\* The stress of the bus frequency has not brought the bus back to where it was.
Moved(w) == w.session.kind = "STRESS_BUS_FREQ" /\ w.bus.hz # w.session.home

\* The terminal line of a session: what it reports, the frequency it leaves
\* the bus at included, and then it is gone.
FinishSession(w, code, outcome) ==
  [w EXCEPT !.pass.answers = Append(@, [kind |-> w.session.kind, outcome |-> outcome,
                                        code |-> code, count |-> w.session.count,
                                        stats |-> w.session.stats, moved |-> Moved(w)]),
            !.session = NoSession]

FinishByTally(w) ==
  IF w.session.stats.failed = 0 THEN FinishSession(w, "OK", "SUCCESS")
  ELSE FinishSession(w, "ERROR", "FAILED")
FinishFailed(w) == FinishSession(RecordFailure(w), "ERROR", "FAILED")
FinishCancelled(w) == FinishSession(w, "CANCELLED", "CANCELLED")

ScheduleSession(w, kind, deadline) ==
  LET v == StartJob([w EXCEPT !.nextId = NextId(@)], kind, w.nextId, TRUE, deadline)
  IN  IF w.session = NoSession \/ w.pending # NoPending \/ JobActive(w) THEN Failing(w)
      ELSE IF v.status # "IN_PROGRESS" THEN v
      ELSE [v EXCEPT !.pending = [owner |-> "SESSION", id |-> w.nextId, kind |-> kind]]

\* A sample keeps the deadline it was given, however often it is read again.
ScheduleSessionAcquire(w) ==
  LET v == ScheduleSession(w, "ACQUIRE", IF w.session.kind = "SAMPLE_RATE"
                                         THEN w.session.ready ELSE Deadline)
  IN  IF v.status = "IN_PROGRESS" THEN At(v, "WAIT_ACQUIRE") ELSE v

-----------------------------------------------------------------------------
(* One pass of a session that has no job under way.                        *)

SampleNow(w) ==
  LET v == ScheduleSessionAcquire(w)
  IN  IF v.status = "IN_PROGRESS" THEN v ELSE FinishFailed(Complete(v, "failed"))

\* Mutant: every readiness check gives the sample a new deadline.
AdvanceSamplingResetsDeadline(w) ==
  LET s == w.session
      due == s.phase = "WAIT_INTERVAL" /\ s.due = 0
      over == IF s.kind = "SOAK" THEN s.left = 0 ELSE s.stats.completed >= s.count
      v == IF due \/ s.phase = "SAMPLE_READY"
           THEN [At(w, "SAMPLE_READY") EXCEPT !.session.ready = Deadline] ELSE w
  IN  IF s.stopRequested THEN FinishCancelled(w)
      ELSE IF over THEN FinishByTally(w)
      ELSE IF s.kind # "SAMPLE_RATE" THEN IF due THEN SampleNow(w) ELSE w
      ELSE IF v.session.phase # "SAMPLE_READY" THEN w
      ELSE SampleNow(v)

AdvanceSampling(w) ==
  LET s == w.session
      due == s.phase = "WAIT_INTERVAL" /\ s.due = 0
      over == IF s.kind = "SOAK" THEN s.left = 0 ELSE s.stats.completed >= s.count
      v == IF due THEN [At(w, "SAMPLE_READY") EXCEPT !.session.ready = Deadline] ELSE w
  IN  IF s.stopRequested THEN FinishCancelled(w)
      ELSE IF over THEN FinishByTally(w)
      ELSE IF s.kind # "SAMPLE_RATE" THEN IF due THEN SampleNow(w) ELSE w
      ELSE IF v.session.phase # "SAMPLE_READY" THEN w
      ELSE IF v.session.ready = 0 THEN FinishFailed(Complete(v, "failed"))
      ELSE SampleNow(v)

\* A direct read of the mixed stress marks the iteration when it fails.
MixRead(w, v, next) ==
  At(IF v.status \in {"OK", "ABSENT"} THEN v
     ELSE RecordFailure([v EXCEPT !.session.iterationFailed = TRUE]), next)

AdvanceMixed(w, io) ==
  LET s == w.session
      absent == ReadIntb(w, io).status = "ABSENT"
      acquire == ScheduleSessionAcquire(w)
      phase(p) == s.phase = p
  IN  IF s.stopRequested THEN FinishCancelled(w)
      ELSE IF s.stats.completed >= s.count THEN FinishByTally(w)
      ELSE CASE phase("MIX_STATUS") -> MixRead(w, DirectRead(w, io), "MIX_READY")
             [] phase("MIX_READY") -> MixRead(w, DirectRead(w, io), "MIX_INTB")
             [] phase("MIX_INTB") ->
                  MixRead(w, IF absent THEN Record(ReadIntb(w, io), "skipped")
                             ELSE ReadIntb(w, io), "MIX_INIT_DRIVE")
             [] phase("MIX_INIT_DRIVE") -> MixRead(w, DirectRead(w, io), "MIX_ACQUIRE")
             [] OTHER ->
                  IF acquire.status = "IN_PROGRESS" THEN acquire
                  ELSE At(Iterated(Complete([acquire EXCEPT !.session.iterationFailed = FALSE],
                                            "failed")), "MIX_STATUS")

AdvanceProbe(w, io) ==
  LET v == DirectRead(w, io)
      identity == v.status = "OK" /\ io # "odd"
      done(verdict) == Record([v EXCEPT !.session.stats.completed = 2], verdict)
  IN  IF w.session.phase = "PROBE_MANUFACTURER"
      THEN IF v.status # "OK" THEN FinishFailed(Record(v, "failed"))
           ELSE At([v EXCEPT !.session.identity = identity], "PROBE_DEVICE")
      ELSE IF identity /\ w.session.identity
      THEN FinishSession(done("passed"), "OK", "SUCCESS")
      ELSE FinishFailed(done("failed"))

\* The next of the two addresses, or the end of the search.
NextAddress(w) ==
  IF w.session.cursor = 0
  THEN At([w EXCEPT !.session.cursor = 1, !.session.identity = FALSE], "DISCOVER_MANUFACTURER")
  ELSE IF w.session.matched THEN FinishSession(w, "OK", "SUCCESS") ELSE FinishFailed(w)

AdvanceDiscover(w, io) ==
  LET v == Record(DiscoveryRead(w, io), "completed")
      identity == v.status = "OK" /\ io # "odd"
      matches == identity /\ w.session.identity
  IN  IF w.session.stopRequested THEN FinishCancelled(w)
      ELSE IF w.session.phase = "DISCOVER_DEVICE"
      THEN NextAddress([v EXCEPT !.session.matched = @ \/ matches])
      ELSE IF v.status # "OK" THEN NextAddress(v)
      ELSE At([v EXCEPT !.session.identity = identity], "DISCOVER_DEVICE")

AdvanceIdentityStress(w, io) ==
  LET v == DirectRead(w, io)
      identity == v.status = "OK" /\ io # "odd"
  IN  IF w.session.index >= w.session.count THEN FinishByTally(w)
      ELSE IF ~identity THEN FinishFailed(Complete(v, "failed"))
      ELSE IF w.session.phase = "STRESS_ID_MANUFACTURER" THEN At(v, "STRESS_ID_DEVICE")
      ELSE At(Iterated(Complete(v, "passed")), "STRESS_ID_MANUFACTURER")

AdvanceResetStress(w) ==
  LET v == ScheduleSession(w, "RESET_AND_REAPPLY", Deadline)
  IN  IF w.session.index >= w.session.count THEN FinishSession(w, "OK", "SUCCESS")
      ELSE IF v.status = "IN_PROGRESS" THEN v
      ELSE FinishFailed(Complete(v, "failed"))

RequestedHz(s) ==
  LET first == IF s.home = LowHz THEN HighHz ELSE LowHz
  IN  IF s.index % 2 = 0 THEN first ELSE IF first = LowHz THEN HighHz ELSE LowHz

\* A switch that fails goes straight to restoring the initial frequency.
AdvanceBusFrequencyStress(w, io) ==
  LET s == w.session
      hz == IF s.phase = "STRESS_BUS_FREQ_RESTORE" THEN s.home ELSE RequestedHz(s)
      v == SetFrequency(w, hz, io)
      initialize == ScheduleSession(InvalidateAppliedState(v), "INITIALIZE", Deadline)
      failed(x) == At(Complete(x, "failed"), "STRESS_BUS_FREQ_RESTORE")
  IN  IF s.phase = "STRESS_BUS_FREQ_RESTORE"
      THEN IF v.status # "OK" THEN FinishFailed(v)
           ELSE IF initialize.status # "IN_PROGRESS" THEN FinishFailed(initialize)
           ELSE initialize
      ELSE IF s.index >= s.count THEN At(w, "STRESS_BUS_FREQ_RESTORE")
      ELSE IF v.status # "OK" THEN failed(v)
      ELSE IF initialize.status # "IN_PROGRESS" THEN failed(initialize)
      ELSE initialize

AdvanceDump(w, io) ==
  LET v == DirectRead([w EXCEPT !.session.cursor = @ + 1], io)
  IN  IF w.session.cursor >= Registers THEN FinishByTally(w)
      ELSE Complete(v, IF v.status = "OK" THEN "passed" ELSE "failed")

\* A register that cannot be read is skipped, one that differs has failed.
AdvanceVerify(w, io) ==
  LET v == DirectRead([w EXCEPT !.session.cursor = @ + 1], io)
      clean == w.session.stats.failed = 0 /\ w.session.stats.skipped = 0
  IN  IF w.session.cursor >= Registers
      THEN IF clean THEN FinishSession(w, "OK", "SUCCESS")
           ELSE FinishSession(w, "ERROR", "FAILED")
      ELSE Complete(v, IF v.status # "OK" THEN "skipped"
                       ELSE IF io = "odd" THEN "failed" ELSE "passed")

-----------------------------------------------------------------------------
(* The self test.                                                          *)

SelfTest(w, ok) == IF ok THEN Record(w, "passed") ELSE RecordFailure(Record(w, "failed"))

\* The three pure helpers hold; validation and timing need a bound profile,
\* which has been validated.
SelfPure(w) ==
  LET profile == SelfTest(SelfTest(w, w.device.bound), w.device.bound)
  IN  At(SelfTest(SelfTest(SelfTest(profile, TRUE), TRUE), TRUE), "SELF_MANUFACTURER")

SelfIntb(w, io) ==
  LET v == ReadIntb(w, io)
  IN  At(IF v.status = "ABSENT" THEN Record(v, "skipped") ELSE SelfTest(v, v.status = "OK"),
         "SELF_INIT_DRIVE")

SelfInitDrive(w, io) ==
  LET v == DirectRead([w EXCEPT !.session.cursor = @ + 1], io)
  IN  IF w.session.cursor >= Channels
      THEN At([w EXCEPT !.session.cursor = 0], "SELF_VERIFY")
      ELSE SelfTest(v, v.status = "OK")

\* An unbound driver has no configuration to compare the registers with.
SelfVerify(w, io) ==
  LET v == Record(DirectRead([w EXCEPT !.session.cursor = @ + 1], io), "completed")
  IN  IF w.session.cursor >= Registers THEN At(w, "SELF_ACQUIRE")
      ELSE IF ~w.device.bound THEN FinishFailed(SelfTest(w, FALSE))
      ELSE SelfTest(v, v.status = "OK" /\ io # "odd")

SelfAcquire(w) ==
  LET v == ScheduleSessionAcquire(w)
  IN  IF w.device.applied # "ACTIVE" THEN FinishByTally(Record(Record(w, "skipped"), "skipped"))
      ELSE IF v.status = "IN_PROGRESS" THEN v
      ELSE FinishFailed(Record(SelfTest(v, FALSE), "skipped"))

SelfRead(w, v, ok, next) == At(SelfTest(v, v.status = "OK" /\ ok), next)

AdvanceSelfTest(w, io) ==
  LET v == DirectRead(w, io)
      phase(p) == w.session.phase = p
  IN  IF w.session.stopRequested THEN FinishCancelled(w)
      ELSE CASE phase("SELF_PURE") -> SelfPure(w)
             [] phase("SELF_MANUFACTURER") -> SelfRead(w, v, io # "odd", "SELF_DEVICE")
             [] phase("SELF_DEVICE") -> SelfRead(w, v, io # "odd", "SELF_STATUS")
             [] phase("SELF_STATUS") -> SelfRead(w, v, TRUE, "SELF_READY")
             [] phase("SELF_READY") -> SelfRead(w, v, TRUE, "SELF_INTB")
             [] phase("SELF_INTB") -> SelfIntb(w, io)
             [] phase("SELF_INIT_DRIVE") -> SelfInitDrive(w, io)
             [] phase("SELF_VERIFY") -> SelfVerify(w, io)
             [] OTHER -> SelfAcquire(w)

AdvanceSession(w, io) ==
  LET kind == w.session.kind
  IN  CASE kind = "PROBE" -> AdvanceProbe(w, io)
        [] kind = "DISCOVER" -> AdvanceDiscover(w, io)
        [] kind = "DUMP" -> AdvanceDump(w, io)
        [] kind = "VERIFY" -> AdvanceVerify(w, io)
        [] kind \in {"WATCH", "SAMPLE_RATE", "SOAK"} -> AdvanceSampling(w)
        [] kind = "STRESS_MIX" -> AdvanceMixed(w, io)
        [] kind = "STRESS_ID" -> AdvanceIdentityStress(w, io)
        [] kind = "STRESS_RESET" -> AdvanceResetStress(w)
        [] kind = "STRESS_BUS_FREQ" -> AdvanceBusFrequencyStress(w, io)
        [] OTHER -> AdvanceSelfTest(w, io)

-----------------------------------------------------------------------------
(* The terminal result of a session's job.  `w` has no pending operation   *)
(* any more: every path of the handler clears it.                          *)

ResetStressResult(w, success) ==
  IF success THEN At(Iterated(Complete(w, "passed")), "STRESS_RESET_SCHEDULE")
  ELSE FinishFailed(Complete(w, "failed"))

BusFrequencyResult(w, success) ==
  LET next == IF w.session.index + 1 >= w.session.count
              THEN "STRESS_BUS_FREQ_RESTORE" ELSE "STRESS_BUS_FREQ_SWITCH"
  IN  IF w.session.phase = "STRESS_BUS_FREQ_RESTORE"
      THEN IF success THEN FinishByTally(w) ELSE FinishFailed(w)
      ELSE IF success THEN At(Iterated(Complete(w, "passed")), next)
      ELSE At(Complete(w, "failed"), "STRESS_BUS_FREQ_RESTORE")

SelfTestResult(w, success, batch) ==
  FinishByTally(IF ~success THEN Record(SelfTest(w, FALSE), "skipped")
                ELSE Record(SelfTest(w, TRUE), IF batch = "ok" THEN "passed" ELSE "skipped"))

\* Mutant: an iteration is judged by its acquisition alone.
MixedResultForgets(w, success) ==
  At(Iterated(Complete([w EXCEPT !.session.iterationFailed = FALSE],
                       IF success THEN "passed" ELSE "failed")), "MIX_STATUS")

MixedResult(w, success) ==
  LET failed == w.session.iterationFailed \/ ~success
  IN  At(Iterated(Complete([w EXCEPT !.session.iterationFailed = FALSE],
                           IF failed THEN "failed" ELSE "passed")), "MIX_STATUS")

\* A batch with no new conversion is no sample: it is read again in time.
SampleRateResult(w, success, batch) ==
  IF success /\ batch = "stale" THEN At(w, "SAMPLE_READY")
  ELSE IF success /\ batch = "ok"
  THEN At(Iterated([Complete(w, "passed") EXCEPT !.session.due = 0]), "WAIT_INTERVAL")
  ELSE FinishFailed(Iterated(Complete(w, "failed")))

SamplingResult(w, success) ==
  At(Iterated([Complete(w, IF success THEN "passed" ELSE "failed")
                 EXCEPT !.session.due = w.session.period]), "WAIT_INTERVAL")

\* Mutant: the result that answers a cancelled session is counted and the
\* session goes on.
SessionResultGoesOn(w, result) ==
  LET kind == w.session.kind
      batched == result.kind = "ACQUIRE" => result.batch # "none"
      success == result.outcome = "SUCCESS" /\ batched
      v == [w EXCEPT !.pending = NoPending]
      u == IF success THEN v ELSE RecordFailure(v)
  IN  IF result.outcome = "CANCELLED" /\ ~w.session.stopRequested THEN FinishCancelled(v)
      ELSE CASE kind = "STRESS_RESET" -> ResetStressResult(u, success)
             [] kind = "STRESS_BUS_FREQ" -> BusFrequencyResult(u, success)
             [] kind = "SELF_TEST" -> SelfTestResult(u, success, result.batch)
             [] kind = "STRESS_MIX" -> MixedResult(u, success)
             [] kind = "SAMPLE_RATE" -> SampleRateResult(u, success, result.batch)
             [] OTHER -> SamplingResult(u, success)

HandleSessionResult(w, result) ==
  LET kind == w.session.kind
      batched == result.kind = "ACQUIRE" => result.batch # "none"
      success == result.outcome = "SUCCESS" /\ batched
      v == [w EXCEPT !.pending = NoPending]
      u == IF success \/ result.outcome = "CANCELLED" THEN v ELSE RecordFailure(v)
  IN  IF w.session.stopRequested \/ result.outcome = "CANCELLED" THEN FinishCancelled(u)
      ELSE CASE kind = "STRESS_RESET" -> ResetStressResult(u, success)
             [] kind = "STRESS_BUS_FREQ" -> BusFrequencyResult(u, success)
             [] kind = "SELF_TEST" -> SelfTestResult(u, success, result.batch)
             [] kind = "STRESS_MIX" -> MixedResult(u, success)
             [] kind = "SAMPLE_RATE" -> SampleRateResult(u, success, result.batch)
             [] OTHER -> SamplingResult(u, success)
=============================================================================
