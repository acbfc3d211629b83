------------------------------- MODULE CliProofs -------------------------------
(***************************************************************************)
(* What holds of the diagnostic CLI for every value of its constants: any  *)
(* line at any moment, jobs and reads that fail, time that passes, and     *)
(* counts of any size.                                                     *)
(*                                                                         *)
(* The operators of CliSessions and Cli take a world and return one, so    *)
(* the argument is one of contracts: Sound is what every part of a pass    *)
(* hands to the next, Moves and Ends are what a session owes the pass,     *)
(* Obeyed what a line owes it, and Served what service() owes a request.   *)
(* Rest is what holds between the halves of a pass.  The second half of    *)
(* the module carries the books of the sessions through the same parts.    *)
(***************************************************************************)
EXTENDS Cli, SequenceTheorems, TLAPS

\* The bus runs at one of two speeds, or the bus has none.
Hz == {0, LowHz, HighHz}
\* The phases of the sessions, Ldc1614Cli.h: SessionPhase.
Phase ==
  {"NONE", "PROBE_MANUFACTURER", "PROBE_DEVICE", "DISCOVER_MANUFACTURER", "DISCOVER_DEVICE",
   "DUMP_REGISTER", "VERIFY_REGISTER", "WAIT_INTERVAL", "SAMPLE_READY", "WAIT_ACQUIRE",
   "MIX_STATUS", "MIX_READY", "MIX_INTB", "MIX_INIT_DRIVE", "MIX_ACQUIRE",
   "STRESS_ID_MANUFACTURER", "STRESS_ID_DEVICE", "STRESS_RESET_SCHEDULE",
   "STRESS_BUS_FREQ_SWITCH", "STRESS_BUS_FREQ_RESTORE", "SELF_PURE", "SELF_MANUFACTURER",
   "SELF_DEVICE", "SELF_STATUS", "SELF_READY", "SELF_INTB", "SELF_INIT_DRIVE", "SELF_VERIFY",
   "SELF_ACQUIRE"}
\* What a session ends with: OK, the error of its failure, or CANCELLED.
Code == {"OK", "ERROR", "CANCELLED"}
\* The types of the state, a variable each, and of the world they make up.
Stats == [completed : Nat, passed : Nat, failed : Nat, skipped : Nat, hasFailure : BOOLEAN]
SessionType ==
  [kind : SessionKind \cup {"NONE"}, phase : Phase, count : Nat, index : Nat, period : Nat,
   due : Nat, ready : Nat, left : Nat, cursor : Nat, matched : BOOLEAN, identity : BOOLEAN,
   iterationFailed : BOOLEAN, stopRequested : BOOLEAN, home : Hz, stats : Stats]
\* How the samples of an acquisition came back, or that there are none.
Batch == IO \cup {"none"}
JobType == {NoJob} \cup [id : Nat, kind : JobKind, left : Nat, deadline : Nat]
ResultType == [id : Nat, kind : JobKind, outcome : Outcome, batch : Batch]
DeviceType == [bound : BOOLEAN, applied : Applied, sameBus : BOOLEAN, job : JobType,
               queue : Seq(ResultType)]
PendingType == {NoPending} \cup [owner : {"COMMAND", "SESSION"}, id : Nat, kind : JobKind]
AnswerType == [kind : SessionKind \cup JobKind, outcome : Outcome, code : Code,
               count : Nat, stats : Stats, moved : BOOLEAN]
PassType == [transfers : Nat, answers : Seq(AnswerType)]
WorldType ==
  [device : DeviceType, bus : [open : BOOLEAN, hz : Hz], pending : PendingType,
   session : SessionType, deferred : BOOLEAN, nextId : Nat, prompts : Nat,
   stopped : BOOLEAN, pass : PassType, status : Status]

\* Everything but the session and the status is the same in two worlds.
Elsewhere(w, v) ==
  /\ v.device = w.device /\ v.bus = w.bus /\ v.pending = w.pending
  /\ v.deferred = w.deferred /\ v.nextId = w.nextId /\ v.prompts = w.prompts
  /\ v.stopped = w.stopped /\ v.pass = w.pass

\* What no step of a session changes about it.
SameSession(w, v) ==
  /\ v.session.kind = w.session.kind /\ v.session.count = w.session.count
  /\ v.session.stopRequested = w.session.stopRequested

\* v is w but for what a step writes in its session.
Edits(w, v) == v \in WorldType /\ Elsewhere(w, v) /\ SameSession(w, v) /\ v.status = w.status

\* The counters of a session.
Tally == {"completed", "passed", "failed", "skipped"}

\* A counter stays a number.
LEMMA BumpType == ASSUME NEW n \in Nat PROVE Bump(n) \in Nat
BY SessionAssumption DEF Bump

\* What Record, RecordFailure, At, Iterated and Complete write, and nothing else.
LEMMA RecordEdits ==
  ASSUME NEW w \in WorldType, NEW verdict \in Tally
  PROVE  LET v == Record(w, verdict)
         IN  /\ Edits(w, v)
             /\ v.session = [w.session EXCEPT !.stats = v.session.stats]
             /\ v.session.stats = [w.session.stats EXCEPT ![verdict] = Bump(@)]
<1>1. w.session.stats \in Stats /\ w.session \in SessionType
  BY DEF WorldType, SessionType
<1>2. Bump(w.session.stats[verdict]) \in Nat
  BY <1>1, BumpType DEF Stats, Tally
<1> DEFINE s == [w.session.stats EXCEPT ![verdict] = Bump(@)]
<1>3. s \in Stats
  BY <1>1, <1>2 DEF Stats, Tally
<1>4. Record(w, verdict) = [w EXCEPT !.session = [w.session EXCEPT !.stats = s]]
  BY <1>1 DEF Record, WorldType, SessionType
<1> HIDE DEF s
<1>5. [w.session EXCEPT !.stats = s] \in SessionType
  BY <1>1, <1>3 DEF SessionType
<1>6. QED
  BY <1>1, <1>3, <1>4, <1>5 DEF Edits, Elsewhere, SameSession, WorldType, SessionType, s

LEMMA RecordFailureEdits ==
  ASSUME NEW w \in WorldType
  PROVE  LET v == RecordFailure(w)
         IN  /\ Edits(w, v)
             /\ v.session = [w.session EXCEPT !.stats = v.session.stats]
             /\ v.session.stats = [w.session.stats EXCEPT !.hasFailure = TRUE]
BY DEF RecordFailure, WorldType, SessionType, Stats, Edits, Elsewhere, SameSession

LEMMA AtEdits ==
  ASSUME NEW w \in WorldType, NEW phase \in Phase
  PROVE  LET v == At(w, phase)
         IN  Edits(w, v) /\ v.session = [w.session EXCEPT !.phase = phase]
BY DEF At, WorldType, SessionType, Edits, Elsewhere, SameSession

LEMMA IteratedEdits ==
  ASSUME NEW w \in WorldType
  PROVE  LET v == Iterated(w)
         IN  Edits(w, v) /\ v.session = [w.session EXCEPT !.index = @ + 1]
BY DEF Iterated, WorldType, SessionType, Edits, Elsewhere, SameSession

\* v is w with a round that is counted, under a verdict.
Rounds(w, v, verdict) ==
  /\ Edits(w, v) /\ v.session = [w.session EXCEPT !.stats = v.session.stats]
  /\ v.session.stats
       = [[[w.session.stats EXCEPT !.completed = Bump(@)] EXCEPT ![verdict] = Bump(@)]
            EXCEPT !.hasFailure = IF verdict = "passed" THEN @ ELSE TRUE]

LEMMA CompleteEdits ==
  ASSUME NEW w \in WorldType, NEW verdict \in Tally
  PROVE  Rounds(w, Complete(w, verdict), verdict)
<1> DEFINE a == Record(w, "completed")
           b == Record(a, verdict)
           c == RecordFailure(b)
<1>1. /\ Edits(w, a) /\ a.session = [w.session EXCEPT !.stats = a.session.stats]
      /\ a.session.stats = [w.session.stats EXCEPT !.completed = Bump(@)]
  BY RecordEdits DEF Tally
<1>2. a \in WorldType
  BY <1>1 DEF Edits
<1>3. /\ Edits(a, b) /\ b.session = [a.session EXCEPT !.stats = b.session.stats]
      /\ b.session.stats = [a.session.stats EXCEPT ![verdict] = Bump(@)]
  BY <1>2, RecordEdits
<1>4. b \in WorldType
  BY <1>3 DEF Edits
<1>5. /\ Edits(b, c) /\ c.session = [b.session EXCEPT !.stats = c.session.stats]
      /\ c.session.stats = [b.session.stats EXCEPT !.hasFailure = TRUE]
  BY <1>4, RecordFailureEdits
<1>6. Complete(w, verdict) = IF verdict = "passed" THEN b ELSE c
  BY DEF Complete
<1> HIDE DEF a, b, c
<1>7. Edits(w, b) /\ Edits(w, c)
  BY <1>1, <1>3, <1>5 DEF Edits, Elsewhere, SameSession
<1>8. /\ a.session \in SessionType /\ b.session \in SessionType /\ c.session \in SessionType
      /\ w.session \in SessionType
  BY <1>1, <1>7 DEF Edits, WorldType
<1>9. /\ b.session = [w.session EXCEPT !.stats = b.session.stats]
      /\ c.session = [w.session EXCEPT !.stats = c.session.stats]
  BY <1>1, <1>3, <1>5, <1>8 DEF SessionType
<1>10. b.session.stats \in Stats /\ c.session.stats \in Stats
  BY <1>8 DEF SessionType
<1>11. CASE verdict = "passed"
  <2> DEFINE p == [w.session.stats EXCEPT !.completed = Bump(@)]
             q == [p EXCEPT ![verdict] = Bump(@)]
  <2>1. b.session.stats = q
    BY <1>1, <1>3
  <2> HIDE DEF q
  <2>2. [q EXCEPT !.hasFailure = @] = q
    BY <1>10, <2>1 DEF Stats
  <2>3. [q EXCEPT !.hasFailure = IF verdict = "passed" THEN @ ELSE TRUE] = q
    BY <1>11, <2>2, Zenon
  <2>4. QED BY <1>6, <1>7, <1>9, <1>11, <2>1, <2>3, Zenon DEF Rounds, q
<1>12. CASE verdict # "passed"
  BY <1>1, <1>3, <1>5, <1>6, <1>7, <1>9, <1>12 DEF Rounds
<1>13. QED BY <1>11, <1>12

-----------------------------------------------------------------------------

\* The pending operation is the job that runs or the one result that waits, and
\* it belongs to the session or to a command when there is none.
Correlated(w) ==
  /\ w.pending = NoPending => w.device.job = NoJob /\ w.device.queue = <<>>
  /\ w.pending # NoPending =>
       \/ /\ w.device.job # NoJob /\ w.device.queue = <<>>
          /\ w.device.job.id = w.pending.id /\ w.device.job.kind = w.pending.kind
       \/ /\ w.device.job = NoJob /\ Len(w.device.queue) = 1
          /\ w.device.queue[1].id = w.pending.id /\ w.device.queue[1].kind = w.pending.kind
  /\ w.pending.owner = "SESSION" => w.session # NoSession
  /\ w.pending.owner = "COMMAND" => w.session = NoSession

\* A profile is trusted only on the bus it was written on; an unbound driver
\* trusts none and runs no job.
Trusted(w) ==
  /\ w.device.applied \in {"SLEEPING", "ACTIVE"} => w.device.sameBus
  /\ ~w.device.bound => w.device.applied = "UNKNOWN" /\ w.device.job = NoJob

\* The worlds that the parts of a pass hand to each other.
Sound(w) ==
  /\ w \in WorldType
  /\ w.session.kind = "NONE" => w.session = NoSession
  /\ Correlated(w) /\ Trusted(w)

\* Two worlds between which a session may have gone on: what its steps leave
\* alone, and the transfers they make.
Moves(w, v, n) ==
  /\ v.deferred = w.deferred /\ v.prompts = w.prompts /\ v.stopped = w.stopped
  /\ v.pass.answers = w.pass.answers
  /\ v.pass.transfers \in w.pass.transfers .. w.pass.transfers + n
  /\ SameSession(w, v)

\* A session that waits for no job, which is when it is advanced.
Active(w) == Sound(w) /\ w.session # NoSession /\ w.pending = NoPending

\* An edit leaves the session active and makes no transfer.
LEMMA EditsStay ==
  ASSUME NEW w, Active(w), NEW v, Edits(w, v)
  PROVE  Active(v) /\ Moves(w, v, 0)
<1>1. w.session.kind # "NONE" /\ v.session.kind # "NONE"
  BY DEF Active, Sound, Edits, SameSession
<1>2. v.session # NoSession
  BY <1>1 DEF NoSession
<1>3. w.pass.transfers \in Nat /\ v.pass = w.pass
  BY DEF Active, Sound, Edits, Elsewhere, WorldType, PassType
<1>4. QED
  BY <1>1, <1>2, <1>3 DEF Active, Sound, Edits, SameSession, Moves, Correlated, Trusted, Elsewhere

\* v is w but for a status, and a transfer.
Reads(w, v) ==
  /\ v \in WorldType
  /\ v.device = w.device /\ v.bus = w.bus /\ v.pending = w.pending /\ v.session = w.session
  /\ v.deferred = w.deferred /\ v.nextId = w.nextId /\ v.prompts = w.prompts
  /\ v.stopped = w.stopped /\ v.pass.answers = w.pass.answers
  /\ v.pass.transfers \in w.pass.transfers .. w.pass.transfers + 1

\* A read leaves it active and makes one at most.
LEMMA ReadsStay ==
  ASSUME NEW w, Active(w), NEW v, Reads(w, v)
  PROVE  Active(v) /\ Moves(w, v, 1)
BY DEF Active, Sound, Reads, Moves, SameSession, Correlated, Trusted

\* Transfers add up.
LEMMA MovesOn ==
  ASSUME NEW w, NEW u, NEW v, NEW m \in Nat, NEW n \in Nat, Moves(w, u, m), Moves(u, v, n),
         w.pass.transfers \in Nat
  PROVE  Moves(w, v, m + n)
BY DEF Moves, SameSession

\* The immediate reads of the sessions, with whatever result.
LEMMA CallsRead ==
  ASSUME NEW w \in WorldType, NEW io \in IO
  PROVE  Reads(w, DirectRead(w, io)) /\ Reads(w, ReadIntb(w, io)) /\ Reads(w, DiscoveryRead(w, io))
<1>1. /\ Reads(w, Counted(w)) /\ Reads(w, w)
  BY DEF Reads, Counted, WorldType, PassType
<1>2. ASSUME NEW v, Reads(w, v), NEW status \in Status
      PROVE  Reads(w, [v EXCEPT !.status = status])
  BY <1>2 DEF Reads, WorldType
<1>3. QED BY <1>1, <1>2 DEF DirectRead, ReadIntb, DiscoveryRead, Passing, Failing, Status

\* The fields that sessions write one by one.
LEMMA FieldEdits ==
  ASSUME NEW w \in WorldType, NEW n \in Nat, NEW b \in BOOLEAN
  PROVE  /\ Edits(w, [w EXCEPT !.session.cursor = n])
         /\ Edits(w, [w EXCEPT !.session.cursor = @ + 1])
         /\ Edits(w, [w EXCEPT !.session.cursor = n, !.session.identity = b])
         /\ Edits(w, [w EXCEPT !.session.identity = b])
         /\ Edits(w, [w EXCEPT !.session.matched = @ \/ b])
         /\ Edits(w, [w EXCEPT !.session.iterationFailed = b])
         /\ Edits(w, [w EXCEPT !.session.ready = n])
         /\ Edits(w, [w EXCEPT !.session.due = n])
         /\ Edits(w, [w EXCEPT !.session.stats.completed = n])
<1>1. w.session \in SessionType
  BY DEF WorldType
<1> USE <1>1 DEF Edits, Elsewhere, SameSession
<1>2. Edits(w, [w EXCEPT !.session.cursor = n]) /\ Edits(w, [w EXCEPT !.session.cursor = @ + 1])
  BY DEF WorldType, SessionType
<1>3. Edits(w, [w EXCEPT !.session.cursor = n, !.session.identity = b])
  BY DEF WorldType, SessionType
<1>4. /\ Edits(w, [w EXCEPT !.session.identity = b])
      /\ Edits(w, [w EXCEPT !.session.matched = @ \/ b])
      /\ Edits(w, [w EXCEPT !.session.iterationFailed = b])
  BY DEF WorldType, SessionType
<1>5. /\ Edits(w, [w EXCEPT !.session.ready = n])
      /\ Edits(w, [w EXCEPT !.session.due = n])
  BY DEF WorldType, SessionType
<1>6. Edits(w, [w EXCEPT !.session.stats.completed = n])
  BY DEF WorldType, SessionType, Stats
<1>7. QED BY <1>2, <1>3, <1>4, <1>5, <1>6

\* A bus whose frequency was set runs at it, or an error says that it does not.
LEMMA FrequencyChanges ==
  ASSUME NEW w \in WorldType, NEW hz \in Hz, NEW io \in IO
  PROVE  LET v == SetFrequency(w, hz, io)
         IN  /\ v \in WorldType
             /\ v.device.job = w.device.job /\ v.device.queue = w.device.queue
             /\ v.device.bound = w.device.bound /\ v.device.applied = w.device.applied
             /\ v.pending = w.pending /\ v.session = w.session /\ v.nextId = w.nextId
             /\ v.deferred = w.deferred /\ v.prompts = w.prompts /\ v.stopped = w.stopped
             /\ v.pass = w.pass
             /\ v.status \in {"OK", "ERROR"}
             /\ v.device.sameBus # w.device.sameBus => v.status = "OK" /\ v.bus.hz # w.bus.hz
             /\ v.status = "OK" => v.bus.hz = hz
BY DEF SetFrequency, Passing, Failing, WorldType, DeviceType, Status

\* invalidateAppliedState(): nothing is trusted any more.
LEMMA InvalidationDistrusts ==
  ASSUME NEW w \in WorldType, w.device.job = NoJob
  PROVE  LET v == InvalidateAppliedState(w)
         IN  /\ v \in WorldType
             /\ v.device = [w.device EXCEPT !.applied = "UNKNOWN"]
             /\ v.bus = w.bus /\ v.pending = w.pending /\ v.session = w.session
             /\ v.nextId = w.nextId /\ v.deferred = w.deferred /\ v.prompts = w.prompts
             /\ v.stopped = w.stopped /\ v.pass = w.pass /\ v.status = "OK"
BY DEF InvalidateAppliedState, CancelJob, Passing, JobActive, WorldType, DeviceType, Status,
       Applied

\* v is w with the job started, or an error.
Started(w, v, kind, id) ==
  /\ v \in WorldType
  /\ v.device = [w.device EXCEPT !.job = v.device.job]
  /\ v.bus = w.bus /\ v.pending = w.pending /\ v.session = w.session
  /\ v.nextId = w.nextId /\ v.deferred = w.deferred /\ v.prompts = w.prompts
  /\ v.stopped = w.stopped /\ v.pass = w.pass
  /\ \/ /\ v.status = "IN_PROGRESS" /\ w.device.bound /\ v.device.job # NoJob
        /\ v.device.job.id = id /\ v.device.job.kind = kind
     \/ v.status = "ERROR" /\ v.device = w.device

\* The ways out of a schedule function: an error, or the job it asked for.
LEMMA JobsStart ==
  ASSUME NEW w \in WorldType, NEW kind \in JobKind, NEW id \in Nat, NEW deadline \in Nat
  PROVE  /\ Started(w, Failing(w), kind, id)
         /\ w.device.bound =>
              Started(w, [w EXCEPT !.status = "IN_PROGRESS",
                                   !.device.job = [id |-> id, kind |-> kind, left |-> JobTransfers,
                                                   deadline |-> deadline]], kind, id)
<1> DEFINE j == [id |-> id, kind |-> kind, left |-> JobTransfers, deadline |-> deadline]
           v == [w EXCEPT !.status = "IN_PROGRESS", !.device.job = j]
<1>1. j \in JobType /\ j # NoJob /\ j.id = id /\ j.kind = kind
  BY DeviceAssumption DEF JobType, NoJob, JobKind
<1>2. Started(w, Failing(w), kind, id)
  BY DEF Started, Failing, WorldType, DeviceType, Status
<1> HIDE DEF j
<1>3. /\ v.device = [w.device EXCEPT !.job = j]
      /\ v.bus = w.bus /\ v.pending = w.pending /\ v.session = w.session
      /\ v.nextId = w.nextId /\ v.deferred = w.deferred /\ v.prompts = w.prompts
      /\ v.stopped = w.stopped /\ v.pass = w.pass /\ v.status = "IN_PROGRESS"
  BY DEF WorldType
<1>4. v.device.job = j /\ v.device \in DeviceType
  BY <1>1, <1>3 DEF WorldType, DeviceType
<1>5. v \in WorldType
  BY <1>4 DEF WorldType, Status
<1> HIDE DEF v
<1>6. w.device.bound => Started(w, v, kind, id)
  BY <1>1, <1>3, <1>4, <1>5 DEF Started
<1>7. QED BY <1>2, <1>6 DEF v, j

\* Request ids stay numbers, past the wrap.
LEMMA NextIdType == ASSUME NEW n \in Nat PROVE NextId(n) \in Nat
BY DEF NextId

\* A session's job is under way and pending, or the session is as it was.
LEMMA SessionSchedules ==
  ASSUME NEW w, Active(w), NEW kind \in JobKind, NEW deadline \in Nat
  PROVE  LET v == ScheduleSession(w, kind, deadline)
         IN  /\ Moves(w, v, 0) /\ Sound(v) /\ v.session = w.session /\ v.bus = w.bus
             /\ v.device.queue = <<>>
             /\ v.status # "IN_PROGRESS" => Active(v)
             /\ v.status = "IN_PROGRESS" => v.pending.owner = "SESSION" /\ v.pending.kind = kind
<1> DEFINE a == [w EXCEPT !.nextId = NextId(@)]
           b == StartJob(a, kind, w.nextId, TRUE, deadline)
           p == [owner |-> "SESSION", id |-> w.nextId, kind |-> kind]
           c == [b EXCEPT !.pending = p]
<1>1. /\ w \in WorldType /\ w.device.job = NoJob /\ w.device.queue = <<>>
      /\ w.session # NoSession /\ w.pending = NoPending /\ w.pass.transfers \in Nat
  BY DEF Active, Sound, Correlated, WorldType, PassType
<1>2. /\ a \in WorldType /\ Elsewhere(w, [a EXCEPT !.nextId = w.nextId])
      /\ a.device = w.device /\ a.bus = w.bus /\ a.pending = w.pending /\ a.session = w.session
      /\ a.deferred = w.deferred /\ a.prompts = w.prompts /\ a.stopped = w.stopped
      /\ a.pass = w.pass
  BY <1>1, NextIdType DEF WorldType, Elsewhere
<1>3. w.nextId \in Nat
  BY <1>1 DEF WorldType
<1>4. ScheduleSession(w, kind, deadline) = IF b.status # "IN_PROGRESS" THEN b ELSE c
  BY <1>1 DEF ScheduleSession, JobActive
<1> HIDE DEF a
<1>5. Started(a, b, kind, w.nextId)
  BY <1>2, <1>3, JobsStart DEF StartJob, Admissible
<1>6. p \in PendingType /\ p # NoPending /\ p.owner = "SESSION" /\ p.id = w.nextId /\ p.kind = kind
  BY <1>3 DEF PendingType, NoPending
<1> HIDE DEF b, p
<1>7. /\ c \in WorldType /\ c.pending = p /\ c.device = b.device /\ c.bus = b.bus
      /\ c.session = b.session /\ c.deferred = b.deferred /\ c.prompts = b.prompts
      /\ c.stopped = b.stopped /\ c.pass = b.pass /\ c.status = b.status
  BY <1>5, <1>6 DEF WorldType, Started
<1> HIDE DEF c
<1>8. b.device.queue = <<>> /\ b.device.bound = w.device.bound
      /\ b.device.applied = w.device.applied /\ b.device.sameBus = w.device.sameBus
  BY <1>1, <1>2, <1>5 DEF WorldType, DeviceType, Started
<1>9. CASE b.status # "IN_PROGRESS"
  <2>1. Active(b)
    BY <1>1, <1>2, <1>5, <1>9 DEF Active, Sound, Correlated, Trusted, Started
  <2>2. QED
    BY <1>1, <1>2, <1>4, <1>5, <1>8, <1>9, <2>1 DEF Active, Moves, SameSession, Started
<1>10. CASE b.status = "IN_PROGRESS"
  <2>1. Sound(c)
    BY <1>1, <1>2, <1>5, <1>6, <1>7, <1>8, <1>10 DEF Active, Sound, Correlated, Trusted, Started
  <2>2. QED
    BY <1>1, <1>2, <1>4, <1>5, <1>6, <1>7, <1>8, <1>10, <2>1 DEF Moves, SameSession, Started
<1>11. QED BY <1>9, <1>10

-----------------------------------------------------------------------------

\* A pass leaves the session going, perhaps with a job under way, ...
GoesOn(w, v) == Sound(v) /\ Moves(w, v, 1) /\ v.session # NoSession /\ v.device.queue = <<>>

\* ... or it ends the session with an answer.
Ends(w, v) ==
  /\ Sound(v) /\ v.session = NoSession /\ v.pending = NoPending
  /\ v.deferred = w.deferred /\ v.prompts = w.prompts /\ v.stopped = w.stopped
  /\ v.pass.transfers \in w.pass.transfers .. w.pass.transfers + 1
  /\ \E a \in AnswerType : v.pass.answers = Append(w.pass.answers, a)

\* The contract of every session, in one pass.
Advances(w, v) == GoesOn(w, v) \/ Ends(w, v)

\* A session that is still active goes on.
LEMMA ActiveGoesOn ==
  ASSUME NEW w, NEW v, Active(v), Moves(w, v, 1)
  PROVE  Advances(w, v)
BY DEF Advances, GoesOn, Active, Sound, Correlated

\* A session that schedules a job goes on, whether the driver accepts it or not.
LEMMA ScheduledGoesOn ==
  ASSUME NEW w, NEW u, Active(u), Moves(w, u, 1), w.pass.transfers \in Nat,
         NEW kind \in JobKind, NEW deadline \in Nat
  PROVE  /\ Advances(w, ScheduleSession(u, kind, deadline))
         /\ ScheduleSession(u, kind, deadline).status # "IN_PROGRESS" =>
              /\ Active(ScheduleSession(u, kind, deadline))
              /\ Moves(w, ScheduleSession(u, kind, deadline), 1)
<1> DEFINE v == ScheduleSession(u, kind, deadline)
<1>1. /\ Moves(u, v, 0) /\ Sound(v) /\ v.session = u.session /\ v.device.queue = <<>>
      /\ v.status # "IN_PROGRESS" => Active(v)
  BY SessionSchedules
<1> HIDE DEF v
<1>2. Moves(w, v, 1)
  BY <1>1, MovesOn
<1>3. QED BY <1>1, <1>2 DEF Advances, GoesOn, Active, v

\* So does one that schedules an acquisition.
LEMMA AcquisitionGoesOn ==
  ASSUME NEW w, NEW u, Active(u), Moves(w, u, 1), w.pass.transfers \in Nat
  PROVE  LET v == ScheduleSessionAcquire(u)
         IN  /\ Advances(w, v)
             /\ v.status # "IN_PROGRESS" => Active(v) /\ Moves(w, v, 1)
<1> DEFINE d == IF u.session.kind = "SAMPLE_RATE" THEN u.session.ready ELSE Deadline
           x == ScheduleSession(u, "ACQUIRE", d)
           v == At(x, "WAIT_ACQUIRE")
<1>1. d \in Nat
  BY DeviceAssumption DEF Active, Sound, WorldType, SessionType
<1>2. /\ Moves(u, x, 0) /\ Sound(x) /\ x.session = u.session /\ x.device.queue = <<>>
      /\ x.status # "IN_PROGRESS" => Active(x)
  BY <1>1, SessionSchedules DEF JobKind
<1>3. ScheduleSessionAcquire(u) = IF x.status = "IN_PROGRESS" THEN v ELSE x
  BY DEF ScheduleSessionAcquire
<1> HIDE DEF x
<1>4. Edits(x, v)
  BY <1>2, AtEdits DEF Sound, Phase
<1> HIDE DEF v
<1>5. Moves(w, x, 1)
  BY <1>2, MovesOn
<1>6. v.session # NoSession /\ Sound(v) /\ v.device.queue = <<>>
  <2>1. x.session.kind # "NONE" /\ v.session.kind # "NONE"
    BY <1>2, <1>4 DEF Active, Sound, Edits, SameSession
  <2>2. v.session # NoSession /\ x.session # NoSession
    BY <2>1 DEF NoSession
  <2>3. QED BY <1>2, <1>4, <2>1, <2>2 DEF Sound, Edits, Elsewhere, Correlated, Trusted
<1>7. Moves(w, v, 1)
  BY <1>4, <1>5 DEF Moves, Edits, Elsewhere, SameSession
<1>8. v.status = x.status
  BY <1>4 DEF Edits
<1>9. QED BY <1>2, <1>3, <1>5, <1>6, <1>7, <1>8, ActiveGoesOn DEF Advances, GoesOn

\* An edit, or more of them, of a session that is active stay in the pass.
LEMMA EditsMove ==
  ASSUME NEW w, NEW u, Active(u), Moves(w, u, 1), w.pass.transfers \in Nat, NEW v, Edits(u, v)
  PROVE  Active(v) /\ Moves(w, v, 1)
BY EditsStay, MovesOn

\* No session is of the type of sessions.
LEMMA NoSessionType == NoSession \in SessionType
BY DEF SessionType, NoSession, NoStats, Stats, Phase, Hz

\* FinishSession ends the session with one answer, and no transfer more.
LEMMA FinishEnds ==
  ASSUME NEW w, NEW u, Active(u), Moves(w, u, 1), NEW code \in Code, NEW outcome \in Outcome
  PROVE  LET v == FinishSession(u, code, outcome)
         IN  /\ Ends(w, v) /\ v.pass.transfers = u.pass.transfers
             /\ \E a \in AnswerType :
                  a.outcome = outcome /\ v.pass.answers = Append(u.pass.answers, a)
<1> DEFINE a == [kind |-> u.session.kind, outcome |-> outcome, code |-> code,
                 count |-> u.session.count, stats |-> u.session.stats, moved |-> Moved(u)]
           v == FinishSession(u, code, outcome)
<1>1. a \in AnswerType
  BY DEF Active, Sound, WorldType, SessionType, AnswerType, NoSession, Moved
<1>2. /\ v.device = u.device /\ v.bus = u.bus /\ v.pending = u.pending
      /\ v.session = NoSession /\ v.deferred = u.deferred /\ v.prompts = u.prompts
      /\ v.stopped = u.stopped /\ v.pass = [u.pass EXCEPT !.answers = Append(@, a)]
      /\ v.nextId = u.nextId /\ v.status = u.status
  BY DEF FinishSession, Active, Sound, WorldType
<1>3. NoSession \in SessionType
  BY NoSessionType
<1>4. v.pass \in PassType /\ v.pass.transfers = u.pass.transfers
      /\ v.pass.answers = Append(u.pass.answers, a)
  <2>1. u.pass \in PassType
    BY DEF Active, Sound, WorldType
  <2>2. u.pass.answers \in Seq(AnswerType)
    BY <2>1 DEF PassType
  <2> HIDE DEF a
  <2>3. Append(u.pass.answers, a) \in Seq(AnswerType)
    BY <1>1, <2>2, AppendProperties
  <2>4. v.pass = [u.pass EXCEPT !.answers = Append(@, a)]
    BY <1>2
  <2> HIDE DEF v
  <2>5. QED BY <2>1, <2>3, <2>4 DEF PassType
<1>5. v = [u EXCEPT !.pass = v.pass, !.session = NoSession]
  BY <1>2 DEF FinishSession, Active, Sound, WorldType
<1> HIDE DEF v, a
<1>6. v \in WorldType
  BY <1>3, <1>4, <1>5 DEF Active, Sound, WorldType
<1>0. a.outcome = outcome
  BY DEF a
<1>7. u.pending = NoPending /\ NoPending.owner = "NONE"
  BY DEF Active, NoPending
<1>8. Sound(v)
  BY <1>2, <1>6, <1>7 DEF Active, Sound, Correlated, Trusted
<1>9. QED BY <1>0, <1>1, <1>2, <1>4, <1>7, <1>8 DEF Ends, Moves, v

\* Ways to edit a session before it ends or goes on.
LEMMA SessionEnds ==
  ASSUME NEW w, NEW u, Active(u), Moves(w, u, 1), w.pass.transfers \in Nat
  PROVE  /\ Advances(w, FinishSession(u, "OK", "SUCCESS"))
         /\ Advances(w, FinishByTally(u))
         /\ Advances(w, FinishFailed(u))
         /\ Advances(w, FinishCancelled(u))
<1>1. Active(RecordFailure(u)) /\ Moves(w, RecordFailure(u), 1)
  BY RecordFailureEdits, EditsMove DEF Active, Sound
<1>2. {"SUCCESS", "FAILED", "CANCELLED"} \subseteq Outcome
  BY DEF Outcome
<1>3. /\ Ends(w, FinishSession(u, "OK", "SUCCESS"))
      /\ Ends(w, FinishSession(u, "ERROR", "FAILED"))
      /\ Ends(w, FinishSession(u, "CANCELLED", "CANCELLED"))
      /\ Ends(w, FinishSession(RecordFailure(u), "ERROR", "FAILED"))
  BY <1>1, <1>2, FinishEnds DEF Code
<1>4. QED BY <1>3 DEF Advances, FinishByTally, FinishFailed, FinishCancelled

\* The steps of a session keep it active within the pass.
LEMMA StepsMove ==
  ASSUME NEW w, NEW u, Active(u), Moves(w, u, 1), w.pass.transfers \in Nat,
         NEW verdict \in Tally, NEW phase \in Phase
  PROVE  /\ Active(Record(u, verdict)) /\ Moves(w, Record(u, verdict), 1)
         /\ Active(Complete(u, verdict)) /\ Moves(w, Complete(u, verdict), 1)
         /\ Active(RecordFailure(u)) /\ Moves(w, RecordFailure(u), 1)
         /\ Active(At(u, phase)) /\ Moves(w, At(u, phase), 1)
         /\ Active(Iterated(u)) /\ Moves(w, Iterated(u), 1)
<1>1. u \in WorldType
  BY DEF Active, Sound
<1>2. /\ Edits(u, Record(u, verdict)) /\ Edits(u, Complete(u, verdict))
      /\ Edits(u, RecordFailure(u)) /\ Edits(u, At(u, phase)) /\ Edits(u, Iterated(u))
  BY <1>1, RecordEdits, CompleteEdits, RecordFailureEdits, AtEdits, IteratedEdits DEF Rounds
<1>3. QED BY <1>2, EditsMove

-----------------------------------------------------------------------------
(* What a pass does to each kind of session.                               *)

\* u is an active session that the pass has made of w.
Going(w, u) == w \in WorldType /\ Active(u) /\ Moves(w, u, 1)

\* The pass begins with the session itself; ...
LEMMA GoingStarts == ASSUME NEW w, Active(w) PROVE Going(w, w) /\ Moves(w, w, 0)
BY DEF Going, Moves, SameSession, Active, Sound, WorldType, PassType

\* ... it may stop there or end the session, ...
LEMMA GoingAdvances ==
  ASSUME NEW w, NEW u, Going(w, u)
  PROVE  /\ Advances(w, u)
         /\ Advances(w, FinishSession(u, "OK", "SUCCESS")) /\ Advances(w, FinishByTally(u))
         /\ Advances(w, FinishFailed(u)) /\ Advances(w, FinishCancelled(u))
<1>1. w.pass.transfers \in Nat
  BY DEF Going, Active, Sound, WorldType, PassType
<1>2. QED BY <1>1, SessionEnds, ActiveGoesOn DEF Going

\* ... take a step, ...
LEMMA GoingSteps ==
  ASSUME NEW w, NEW u, Going(w, u), NEW verdict \in Tally, NEW phase \in Phase
  PROVE  /\ Going(w, Record(u, verdict)) /\ Going(w, Complete(u, verdict))
         /\ Going(w, RecordFailure(u)) /\ Going(w, At(u, phase)) /\ Going(w, Iterated(u))
<1>1. w.pass.transfers \in Nat
  BY DEF Going, Active, Sound, WorldType, PassType
<1>2. QED BY <1>1, StepsMove DEF Going

\* ... write a field, ...
LEMMA GoingFields ==
  ASSUME NEW w, NEW u, Going(w, u), NEW n \in Nat, NEW b \in BOOLEAN
  PROVE  /\ Going(w, [u EXCEPT !.session.cursor = n])
         /\ Going(w, [u EXCEPT !.session.cursor = @ + 1])
         /\ Going(w, [u EXCEPT !.session.cursor = n, !.session.identity = b])
         /\ Going(w, [u EXCEPT !.session.identity = b])
         /\ Going(w, [u EXCEPT !.session.matched = @ \/ b])
         /\ Going(w, [u EXCEPT !.session.iterationFailed = b])
         /\ Going(w, [u EXCEPT !.session.ready = n])
         /\ Going(w, [u EXCEPT !.session.due = n])
         /\ Going(w, [u EXCEPT !.session.stats.completed = n])
<1>1. w.pass.transfers \in Nat /\ u \in WorldType
  BY DEF Going, Active, Sound, WorldType, PassType
<1>2. ASSUME NEW v, Edits(u, v) PROVE Going(w, v)
  BY <1>1, <1>2, EditsMove DEF Going
<1>3. QED BY <1>1, <1>2, FieldEdits

\* ... or make its transfer, when it has made none.
LEMMA GoingReads ==
  ASSUME NEW w, NEW u, Active(w), Active(u), Moves(w, u, 0), NEW io \in IO
  PROVE  Going(w, DirectRead(u, io)) /\ Going(w, ReadIntb(u, io)) /\ Going(w, DiscoveryRead(u, io))
<1>1. w.pass.transfers \in Nat /\ u \in WorldType
  BY DEF Active, Sound, WorldType, PassType
<1>2. ASSUME NEW v, Reads(u, v) PROVE Going(w, v)
  <2>1. Active(v) /\ Moves(u, v, 1)
    BY <1>2, ReadsStay
  <2>2. Moves(w, v, 0 + 1)
    BY <1>1, <2>1, MovesOn
  <2>3. QED BY <2>1, <2>2 DEF Going, Active, Sound
<1>3. QED BY <1>1, <1>2, CallsRead

\* The next register is read.
LEMMA CursorReads ==
  ASSUME NEW w, Active(w), NEW io \in IO
  PROVE  Going(w, DirectRead([w EXCEPT !.session.cursor = @ + 1], io))
<1>1. Edits(w, [w EXCEPT !.session.cursor = @ + 1])
  BY FieldEdits DEF Active, Sound
<1>2. QED BY <1>1, EditsStay, GoingReads

\* watch, sample_rate and soak.
LEMMA AdvanceSamplingAdvances ==
  ASSUME NEW w, Active(w)
  PROVE  Advances(w, AdvanceSampling(w))
<1>1. Going(w, w)
  BY GoingStarts
<1>2. ASSUME NEW u, Going(w, u) PROVE Advances(w, SampleNow(u))
  <2>1. w.pass.transfers \in Nat
    BY DEF Active, Sound, WorldType, PassType
  <2> DEFINE v == ScheduleSessionAcquire(u)
  <2>2. Advances(w, v) /\ (v.status # "IN_PROGRESS" => Going(w, v))
    BY <1>2, <2>1, AcquisitionGoesOn DEF Going
  <2> HIDE DEF v
  <2>3. v.status # "IN_PROGRESS" => Advances(w, FinishFailed(Complete(v, "failed")))
    BY <2>2, GoingSteps, GoingAdvances DEF Tally, Phase
  <2>4. QED BY <2>2, <2>3 DEF SampleNow, v
<1> DEFINE r == [At(w, "SAMPLE_READY") EXCEPT !.session.ready = Deadline]
<1>3. Going(w, r)
  BY <1>1, GoingSteps, GoingFields, DeviceAssumption DEF Tally, Phase
<1>4. Advances(w, FinishFailed(Complete(r, "failed"))) /\ Advances(w, FinishFailed(Complete(w, "failed")))
  BY <1>1, <1>3, GoingSteps, GoingAdvances DEF Tally, Phase
<1>5. /\ Advances(w, SampleNow(w)) /\ Advances(w, SampleNow(r)) /\ Advances(w, w)
      /\ Advances(w, FinishCancelled(w)) /\ Advances(w, FinishByTally(w))
  BY <1>1, <1>2, <1>3, GoingAdvances
<1> HIDE DEF r
<1>6. QED BY <1>4, <1>5 DEF AdvanceSampling, r

\* probe.
LEMMA AdvanceProbeAdvances ==
  ASSUME NEW w, Active(w), NEW io \in IO
  PROVE  Advances(w, AdvanceProbe(w, io))
<1> DEFINE v == DirectRead(w, io)
           c == [v EXCEPT !.session.stats.completed = 2]
           i == [v EXCEPT !.session.identity = (v.status = "OK" /\ io # "odd")]
<1>1. Going(w, v)
  BY GoingStarts, GoingReads
<1> HIDE DEF v
<1>2. Going(w, c) /\ Going(w, i)
  BY <1>1, GoingFields
<1> HIDE DEF c, i
<1>3. /\ Going(w, Record(v, "failed")) /\ Going(w, At(i, "PROBE_DEVICE"))
      /\ Going(w, Record(c, "passed")) /\ Going(w, Record(c, "failed"))
  BY <1>1, <1>2, GoingSteps DEF Tally, Phase
<1>4. /\ Advances(w, FinishFailed(Record(v, "failed"))) /\ Advances(w, At(i, "PROBE_DEVICE"))
      /\ Advances(w, FinishSession(Record(c, "passed"), "OK", "SUCCESS"))
      /\ Advances(w, FinishFailed(Record(c, "failed")))
  BY <1>3, GoingAdvances
<1>5. QED BY <1>4 DEF AdvanceProbe, v, c, i

\* discover.
LEMMA AdvanceDiscoverAdvances ==
  ASSUME NEW w, Active(w), NEW io \in IO
  PROVE  Advances(w, AdvanceDiscover(w, io))
<1>1. Going(w, w) /\ Going(w, DiscoveryRead(w, io))
  BY GoingStarts, GoingReads
<1>2. ASSUME NEW u, Going(w, u) PROVE Advances(w, NextAddress(u))
  <2> DEFINE c == [u EXCEPT !.session.cursor = 1, !.session.identity = FALSE]
  <2>1. Going(w, c)
    BY <1>2, GoingFields
  <2> HIDE DEF c
  <2>2. Going(w, At(c, "DISCOVER_MANUFACTURER"))
    BY <2>1, GoingSteps DEF Phase, Tally
  <2>3. QED BY <1>2, <2>2, GoingAdvances DEF NextAddress, c
<1> DEFINE v == Record(DiscoveryRead(w, io), "completed")
           b == v.status = "OK" /\ io # "odd"
           m == [v EXCEPT !.session.matched = @ \/ (b /\ w.session.identity)]
           i == [v EXCEPT !.session.identity = b]
<1>3. Going(w, v)
  BY <1>1, GoingSteps DEF Tally, Phase
<1> HIDE DEF v
<1>4. Going(w, m) /\ Going(w, i)
  BY <1>3, GoingFields
<1> HIDE DEF m, i
<1>5. Going(w, At(i, "DISCOVER_DEVICE"))
  BY <1>4, GoingSteps DEF Tally, Phase
<1>6. /\ Advances(w, FinishCancelled(w)) /\ Advances(w, NextAddress(m))
      /\ Advances(w, NextAddress(v)) /\ Advances(w, At(i, "DISCOVER_DEVICE"))
  BY <1>1, <1>2, <1>3, <1>4, <1>5, GoingAdvances
<1>7. QED BY <1>6 DEF AdvanceDiscover, v, m, i

\* stress_mix.
LEMMA AdvanceMixedAdvances ==
  ASSUME NEW w, Active(w), NEW io \in IO
  PROVE  Advances(w, AdvanceMixed(w, io))
<1>1. Going(w, w) /\ Going(w, DirectRead(w, io)) /\ Going(w, ReadIntb(w, io))
  BY GoingStarts, GoingReads
<1>2. ASSUME NEW u, Going(w, u), NEW next \in Phase PROVE Advances(w, MixRead(w, u, next))
  <2> DEFINE f == [u EXCEPT !.session.iterationFailed = TRUE]
  <2>1. Going(w, f)
    BY <1>2, GoingFields
  <2> HIDE DEF f
  <2>2. Going(w, RecordFailure(f))
    BY <2>1, GoingSteps DEF Tally
  <2>3. Going(w, At(RecordFailure(f), next)) /\ Going(w, At(u, next))
    BY <1>2, <2>2, GoingSteps DEF Tally
  <2>4. QED BY <2>3, GoingAdvances DEF MixRead, f
<1>3. Going(w, Record(ReadIntb(w, io), "skipped"))
  BY <1>1, GoingSteps DEF Tally, Phase
<1> DEFINE a == ScheduleSessionAcquire(w)
           f == [a EXCEPT !.session.iterationFailed = FALSE]
<1>4. Advances(w, a) /\ (a.status # "IN_PROGRESS" => Going(w, a))
  BY <1>1, AcquisitionGoesOn DEF Going, WorldType, PassType
<1> HIDE DEF a
<1>5. a.status # "IN_PROGRESS" => Advances(w, At(Iterated(Complete(f, "failed")), "MIX_STATUS"))
  <2>1. SUFFICES ASSUME Going(w, a)
                 PROVE  Advances(w, At(Iterated(Complete(f, "failed")), "MIX_STATUS"))
    BY <1>4
  <2>2. Going(w, f)
    BY <2>1, GoingFields
  <2> HIDE DEF f
  <2>3. Going(w, Complete(f, "failed"))
    BY <2>2, GoingSteps DEF Tally, Phase
  <2>4. Going(w, Iterated(Complete(f, "failed")))
    BY <2>3, GoingSteps DEF Tally, Phase
  <2>5. Going(w, At(Iterated(Complete(f, "failed")), "MIX_STATUS"))
    BY <2>4, GoingSteps DEF Tally, Phase
  <2>6. QED BY <2>5, GoingAdvances
<1>6. /\ Advances(w, MixRead(w, DirectRead(w, io), "MIX_READY"))
      /\ Advances(w, MixRead(w, DirectRead(w, io), "MIX_INTB"))
      /\ Advances(w, MixRead(w, Record(ReadIntb(w, io), "skipped"), "MIX_INIT_DRIVE"))
      /\ Advances(w, MixRead(w, ReadIntb(w, io), "MIX_INIT_DRIVE"))
      /\ Advances(w, MixRead(w, DirectRead(w, io), "MIX_ACQUIRE"))
  BY <1>1, <1>2, <1>3 DEF Phase
<1>7. Advances(w, FinishCancelled(w)) /\ Advances(w, FinishByTally(w))
  BY <1>1, GoingAdvances
<1>8. QED BY <1>4, <1>5, <1>6, <1>7 DEF AdvanceMixed, a, f

\* stress_id.
LEMMA AdvanceIdentityStressAdvances ==
  ASSUME NEW w, Active(w), NEW io \in IO
  PROVE  Advances(w, AdvanceIdentityStress(w, io))
<1> DEFINE v == DirectRead(w, io)
<1>1. Going(w, w) /\ Going(w, v)
  BY GoingStarts, GoingReads
<1> HIDE DEF v
<1>2. /\ Going(w, Complete(v, "failed")) /\ Going(w, At(v, "STRESS_ID_DEVICE"))
      /\ Going(w, Complete(v, "passed"))
  BY <1>1, GoingSteps DEF Tally, Phase
<1>3. Going(w, Iterated(Complete(v, "passed")))
  BY <1>2, GoingSteps DEF Tally, Phase
<1>4. Going(w, At(Iterated(Complete(v, "passed")), "STRESS_ID_MANUFACTURER"))
  BY <1>3, GoingSteps DEF Tally, Phase
<1>5. QED BY <1>1, <1>2, <1>4, GoingAdvances DEF AdvanceIdentityStress, v

\* stress_reset.
LEMMA AdvanceResetStressAdvances ==
  ASSUME NEW w, Active(w)
  PROVE  Advances(w, AdvanceResetStress(w))
<1> DEFINE v == ScheduleSession(w, "RESET_AND_REAPPLY", Deadline)
<1>1. Going(w, w)
  BY GoingStarts
<1>2. Advances(w, v) /\ (v.status # "IN_PROGRESS" => Going(w, v))
  BY <1>1, ScheduledGoesOn, DeviceAssumption DEF JobKind, Going, WorldType, PassType
<1> HIDE DEF v
<1>3. v.status # "IN_PROGRESS" => Going(w, Complete(v, "failed"))
  BY <1>2, GoingSteps DEF Tally, Phase
<1>4. QED BY <1>1, <1>2, <1>3, GoingAdvances DEF AdvanceResetStress, v

\* dump and verify.
LEMMA AdvanceDumpAdvances ==
  ASSUME NEW w, Active(w), NEW io \in IO
  PROVE  Advances(w, AdvanceDump(w, io)) /\ Advances(w, AdvanceVerify(w, io))
<1> DEFINE v == DirectRead([w EXCEPT !.session.cursor = @ + 1], io)
<1>1. Going(w, w) /\ Going(w, v)
  BY GoingStarts, CursorReads
<1> HIDE DEF v
<1>2. /\ Going(w, Complete(v, "failed")) /\ Going(w, Complete(v, "passed"))
      /\ Going(w, Complete(v, "skipped"))
  BY <1>1, GoingSteps DEF Tally, Phase
<1>3. Ends(w, FinishSession(w, "ERROR", "FAILED"))
  BY <1>1, FinishEnds DEF Going, Code, Outcome
<1>4. /\ Advances(w, FinishByTally(w)) /\ Advances(w, FinishSession(w, "OK", "SUCCESS"))
      /\ Advances(w, FinishSession(w, "ERROR", "FAILED"))
      /\ Advances(w, Complete(v, "failed")) /\ Advances(w, Complete(v, "passed"))
      /\ Advances(w, Complete(v, "skipped"))
  BY <1>1, <1>2, <1>3, GoingAdvances DEF Advances
<1>5. Advances(w, AdvanceDump(w, io))
  BY <1>4 DEF AdvanceDump, v
<1>6. Advances(w, AdvanceVerify(w, io))
  BY <1>4 DEF AdvanceVerify, v
<1>7. QED BY <1>5, <1>6

\* stress_bus_freq, which must bring the bus home.
LEMMA AdvanceBusFrequencyStressAdvances ==
  ASSUME NEW w, Active(w), NEW io \in IO
  PROVE  Advances(w, AdvanceBusFrequencyStress(w, io))
<1> DEFINE s == w.session
           hz == IF s.phase = "STRESS_BUS_FREQ_RESTORE" THEN s.home ELSE RequestedHz(s)
           v == SetFrequency(w, hz, io)
           x == InvalidateAppliedState(v)
           y == ScheduleSession(x, "INITIALIZE", Deadline)
           failed(u) == At(Complete(u, "failed"), "STRESS_BUS_FREQ_RESTORE")
<1>1. hz \in Hz
  BY DEF RequestedHz, Hz, Active, Sound, WorldType, SessionType
<1>2. Going(w, w) /\ w \in WorldType
  BY GoingStarts DEF Going
<1> HIDE DEF hz
<1>3. /\ v \in WorldType
      /\ v.device.job = w.device.job /\ v.device.queue = w.device.queue
      /\ v.device.bound = w.device.bound /\ v.device.applied = w.device.applied
      /\ v.pending = w.pending /\ v.session = w.session /\ v.nextId = w.nextId
      /\ v.deferred = w.deferred /\ v.prompts = w.prompts /\ v.stopped = w.stopped
      /\ v.pass = w.pass
      /\ v.device.sameBus # w.device.sameBus => v.status = "OK"
  BY <1>1, <1>2, FrequencyChanges
<1> HIDE DEF v
<1>4. v.status # "OK" => Going(w, v)
  BY <1>2, <1>3 DEF Going, Active, Sound, Correlated, Trusted, Moves, SameSession
<1>5. v.device.job = NoJob
  BY <1>3 DEF Active, Sound, Correlated
<1>6. /\ x \in WorldType
      /\ x.device = [v.device EXCEPT !.applied = "UNKNOWN"]
      /\ x.bus = v.bus /\ x.pending = v.pending /\ x.session = v.session
      /\ x.nextId = v.nextId /\ x.deferred = v.deferred /\ x.prompts = v.prompts
      /\ x.stopped = v.stopped /\ x.pass = v.pass
  BY <1>3, <1>5, InvalidationDistrusts
<1>7. /\ x.device.job = v.device.job /\ x.device.queue = v.device.queue
      /\ x.device.applied = "UNKNOWN"
  BY <1>3, <1>6 DEF WorldType, DeviceType
<1> HIDE DEF x
<1>8. Going(w, x)
  BY <1>2, <1>3, <1>5, <1>6, <1>7 DEF Going, Active, Sound, Correlated, Trusted, Moves, SameSession
<1>9. Advances(w, y) /\ (y.status # "IN_PROGRESS" => Going(w, y))
  BY <1>2, <1>8, ScheduledGoesOn, DeviceAssumption DEF JobKind, Going, WorldType, PassType
<1> HIDE DEF y
<1>10. ASSUME NEW u, Going(w, u)
       PROVE  Advances(w, failed(u)) /\ Advances(w, FinishFailed(u))
  <2>1. Going(w, Complete(u, "failed"))
    BY <1>10, GoingSteps DEF Tally, Phase
  <2>2. Going(w, failed(u))
    BY <2>1, GoingSteps DEF Tally, Phase
  <2>3. QED BY <1>10, <2>2, GoingAdvances
<1>11. Advances(w, At(w, "STRESS_BUS_FREQ_RESTORE"))
  BY <1>2, GoingSteps, GoingAdvances DEF Tally, Phase
<1>12. v.status # "OK" => Advances(w, failed(v)) /\ Advances(w, FinishFailed(v))
  BY <1>4, <1>10
<1>13. y.status # "IN_PROGRESS" => Advances(w, failed(y)) /\ Advances(w, FinishFailed(y))
  BY <1>9, <1>10
<1>14. QED BY <1>9, <1>11, <1>12, <1>13 DEF AdvanceBusFrequencyStress, v, x, y, hz

\* One verdict of the self test.
LEMMA GoingSelfTest ==
  ASSUME NEW w, NEW u, Going(w, u), NEW ok
  PROVE  Going(w, SelfTest(u, ok))
<1>1. Going(w, Record(u, "passed")) /\ Going(w, Record(u, "failed"))
  BY GoingSteps DEF Tally, Phase
<1>2. Going(w, RecordFailure(Record(u, "failed")))
  BY <1>1, GoingSteps DEF Tally, Phase
<1>3. QED BY <1>1, <1>2 DEF SelfTest

\* A check of the self test that has made its read, ...
LEMMA SelfReadAdvances ==
  ASSUME NEW w, NEW v, Going(w, v), NEW ok, NEW next \in Phase
  PROVE  Advances(w, SelfRead(w, v, ok, next))
<1>1. Going(w, At(SelfTest(v, v.status = "OK" /\ ok), next))
  BY GoingSelfTest, GoingSteps DEF Tally
<1>2. QED BY <1>1, GoingAdvances DEF SelfRead

\* ... those that make none, ...
LEMMA SelfPureAdvances ==
  ASSUME NEW w, Active(w)
  PROVE  Advances(w, SelfPure(w))
<1> DEFINE a == SelfTest(w, w.device.bound)
           b == SelfTest(a, w.device.bound)
           c == SelfTest(b, TRUE)
           d == SelfTest(c, TRUE)
           e == SelfTest(d, TRUE)
<1>1. Going(w, a)
  BY GoingStarts, GoingSelfTest
<1> HIDE DEF a
<1>2. Going(w, b)
  BY <1>1, GoingSelfTest
<1> HIDE DEF b
<1>3. Going(w, c)
  BY <1>2, GoingSelfTest
<1> HIDE DEF c
<1>4. Going(w, d)
  BY <1>3, GoingSelfTest
<1> HIDE DEF d
<1>5. Going(w, e)
  BY <1>4, GoingSelfTest
<1> HIDE DEF e
<1>6. Advances(w, At(e, "SELF_MANUFACTURER"))
  BY <1>5, GoingSteps, GoingAdvances DEF Tally, Phase
<1>7. QED BY <1>6 DEF SelfPure, a, b, c, d, e

\* ... that of the INTB pin, ...
LEMMA SelfIntbAdvances ==
  ASSUME NEW w, Active(w), NEW io \in IO
  PROVE  Advances(w, SelfIntb(w, io))
<1> DEFINE v == ReadIntb(w, io)
<1>1. Going(w, v)
  BY GoingStarts, GoingReads
<1> HIDE DEF v
<1>2. Going(w, Record(v, "skipped")) /\ Going(w, SelfTest(v, v.status = "OK"))
  BY <1>1, GoingSteps, GoingSelfTest DEF Tally, Phase
<1>3. /\ Advances(w, At(Record(v, "skipped"), "SELF_INIT_DRIVE"))
      /\ Advances(w, At(SelfTest(v, v.status = "OK"), "SELF_INIT_DRIVE"))
  BY <1>2, GoingSteps, GoingAdvances DEF Tally, Phase
<1>4. QED BY <1>3 DEF SelfIntb, v

\* ... the scans of registers, ...
LEMMA SelfScansAdvance ==
  ASSUME NEW w, Active(w), NEW io \in IO
  PROVE  Advances(w, SelfInitDrive(w, io)) /\ Advances(w, SelfVerify(w, io))
<1> DEFINE v == DirectRead([w EXCEPT !.session.cursor = @ + 1], io)
           c == [w EXCEPT !.session.cursor = 0]
           r == Record(v, "completed")
<1>1. Going(w, w) /\ Going(w, v)
  BY GoingStarts, CursorReads
<1> HIDE DEF v
<1>2. Going(w, c) /\ Going(w, r)
  BY <1>1, GoingFields, GoingSteps DEF Tally, Phase
<1> HIDE DEF c, r
<1>3. /\ Going(w, At(c, "SELF_VERIFY")) /\ Going(w, At(w, "SELF_ACQUIRE"))
  BY <1>1, <1>2, GoingSteps DEF Tally, Phase
<1>4. ASSUME NEW ok PROVE /\ Going(w, SelfTest(v, ok)) /\ Going(w, SelfTest(w, ok))
                          /\ Going(w, SelfTest(r, ok))
  BY <1>1, <1>2, GoingSelfTest
<1>5. Advances(w, SelfInitDrive(w, io))
  BY <1>3, <1>4, GoingAdvances DEF SelfInitDrive, v, c
<1>6. Advances(w, SelfVerify(w, io))
  BY <1>3, <1>4, GoingAdvances DEF SelfVerify, v, r
<1>7. QED BY <1>5, <1>6

\* ... and the acquisition at its end.
LEMMA SelfAcquireAdvances ==
  ASSUME NEW w, Active(w)
  PROVE  Advances(w, SelfAcquire(w))
<1> DEFINE v == ScheduleSessionAcquire(w)
<1>1. Going(w, w)
  BY GoingStarts
<1>2. Advances(w, v) /\ (v.status # "IN_PROGRESS" => Going(w, v))
  BY <1>1, AcquisitionGoesOn DEF Going, WorldType, PassType
<1> HIDE DEF v
<1>3. Going(w, Record(w, "skipped"))
  BY <1>1, GoingSteps DEF Tally, Phase
<1>4. Going(w, Record(Record(w, "skipped"), "skipped"))
  BY <1>3, GoingSteps DEF Tally, Phase
<1>5. v.status # "IN_PROGRESS" => Going(w, Record(SelfTest(v, FALSE), "skipped"))
  BY <1>2, GoingSelfTest, GoingSteps DEF Tally, Phase
<1>6. QED BY <1>2, <1>4, <1>5, GoingAdvances DEF SelfAcquire, v

\* selftest.
LEMMA AdvanceSelfTestAdvances ==
  ASSUME NEW w, Active(w), NEW io \in IO
  PROVE  Advances(w, AdvanceSelfTest(w, io))
<1>1. Going(w, w) /\ Going(w, DirectRead(w, io))
  BY GoingStarts, GoingReads
<1>2. ASSUME NEW ok, NEW next \in Phase
      PROVE  Advances(w, SelfRead(w, DirectRead(w, io), ok, next))
  BY <1>1, SelfReadAdvances
<1>3. {"SELF_DEVICE", "SELF_STATUS", "SELF_READY", "SELF_INTB"} \subseteq Phase
  BY DEF Phase
<1>4. Advances(w, FinishCancelled(w))
  BY <1>1, GoingAdvances
<1>5. /\ Advances(w, SelfPure(w)) /\ Advances(w, SelfIntb(w, io))
      /\ Advances(w, SelfInitDrive(w, io)) /\ Advances(w, SelfVerify(w, io))
      /\ Advances(w, SelfAcquire(w))
  BY SelfPureAdvances, SelfIntbAdvances, SelfScansAdvance, SelfAcquireAdvances
<1>6. QED BY <1>2, <1>3, <1>4, <1>5 DEF AdvanceSelfTest

\* Whatever the session, its pass keeps the contract.
LEMMA AdvanceSessionAdvances ==
  ASSUME NEW w, Active(w), NEW io \in IO
  PROVE  Advances(w, AdvanceSession(w, io))
BY AdvanceProbeAdvances, AdvanceDiscoverAdvances, AdvanceDumpAdvances, AdvanceSamplingAdvances,
   AdvanceMixedAdvances, AdvanceIdentityStressAdvances, AdvanceResetStressAdvances,
   AdvanceBusFrequencyStressAdvances, AdvanceSelfTestAdvances DEF AdvanceSession

-----------------------------------------------------------------------------
(* What the result of its job does to a session.                           *)

\* A session whose job has ended goes on or ends, and makes no transfer.
LEMMA ResultsAdvance ==
  ASSUME NEW w, NEW u, Going(w, u), NEW success, NEW batch
  PROVE  /\ Advances(w, ResetStressResult(u, success))
         /\ Advances(w, BusFrequencyResult(u, success))
         /\ Advances(w, SelfTestResult(u, success, batch))
         /\ Advances(w, MixedResult(u, success))
         /\ Advances(w, SampleRateResult(u, success, batch))
         /\ Advances(w, SamplingResult(u, success))
<1>1. ASSUME NEW x, Going(w, x), NEW phase \in Phase, NEW verdict \in Tally
      PROVE  /\ Going(w, Iterated(Complete(x, verdict)))
             /\ Going(w, At(Iterated(Complete(x, verdict)), phase))
             /\ Going(w, At(Complete(x, verdict), phase))
             /\ Going(w, Complete(x, verdict))
  <2>1. Going(w, Complete(x, verdict))
    BY <1>1, GoingSteps
  <2>2. Going(w, Iterated(Complete(x, verdict)))
    BY <1>1, <2>1, GoingSteps
  <2>3. QED BY <1>1, <2>1, <2>2, GoingSteps
<1>2. Advances(w, ResetStressResult(u, success))
  BY <1>1, GoingAdvances DEF ResetStressResult, Phase, Tally
<1>3. Advances(w, BusFrequencyResult(u, success))
  BY <1>1, GoingAdvances DEF BusFrequencyResult, Phase, Tally
<1>4. Advances(w, SelfTestResult(u, success, batch))
  BY GoingSelfTest, GoingSteps, GoingAdvances DEF SelfTestResult, Tally, Phase
<1>5. Advances(w, MixedResult(u, success))
  <2>1. Going(w, [u EXCEPT !.session.iterationFailed = FALSE])
    BY GoingFields
  <2>2. QED BY <1>1, <2>1, GoingAdvances DEF MixedResult, Phase, Tally
<1>6. ASSUME NEW x, Going(w, x), NEW n \in Nat, NEW phase \in Phase
      PROVE  Advances(w, At(Iterated([x EXCEPT !.session.due = n]), phase))
  <2>1. Going(w, [x EXCEPT !.session.due = n])
    BY <1>6, GoingFields
  <2>2. Going(w, Iterated([x EXCEPT !.session.due = n]))
    BY <2>1, <1>6, GoingSteps DEF Tally
  <2>3. QED BY <2>2, <1>6, GoingSteps, GoingAdvances DEF Tally
<1>7. Going(w, Complete(u, "passed")) /\ Going(w, Complete(u, "failed"))
  BY <1>1 DEF Tally, Phase
<1>8. Advances(w, SampleRateResult(u, success, batch))
  <2>1. Advances(w, FinishFailed(Iterated(Complete(u, "failed"))))
    BY <1>1, GoingAdvances DEF Tally, Phase
  <2>2. Advances(w, At(u, "SAMPLE_READY"))
    BY GoingSteps, GoingAdvances DEF Tally, Phase
  <2>3. QED BY <1>6, <1>7, <2>1, <2>2 DEF SampleRateResult, Phase
<1>9. Advances(w, SamplingResult(u, success))
  <2>1. u.session.period \in Nat
    BY DEF Going, Active, Sound, WorldType, SessionType
  <2>2. QED BY <1>6, <1>7, <2>1 DEF SamplingResult, Phase
<1>10. QED BY <1>2, <1>3, <1>4, <1>5, <1>8, <1>9

\* The same of every session and every result, cancelled ones included.
LEMMA SessionResultAdvances ==
  ASSUME NEW w \in WorldType, NEW v, NEW result,
         Going(w, [v EXCEPT !.pending = NoPending])
  PROVE  Advances(w, HandleSessionResult(v, result))
<1> DEFINE x == [v EXCEPT !.pending = NoPending]
           batched == result.kind = "ACQUIRE" => result.batch # "none"
           success == result.outcome = "SUCCESS" /\ batched
           u == IF success \/ result.outcome = "CANCELLED" THEN x ELSE RecordFailure(x)
<1> HIDE DEF x
<1>1. Going(w, x) /\ Going(w, RecordFailure(x))
  BY GoingSteps DEF x, Tally, Phase
<1>2. Going(w, u)
  BY <1>1
<1> HIDE DEF u, success
<1>3. Advances(w, FinishCancelled(u))
  BY <1>2, GoingAdvances
<1>4. /\ Advances(w, ResetStressResult(u, success))
      /\ Advances(w, BusFrequencyResult(u, success))
      /\ Advances(w, SelfTestResult(u, success, result.batch))
      /\ Advances(w, MixedResult(u, success))
      /\ Advances(w, SampleRateResult(u, success, result.batch))
      /\ Advances(w, SamplingResult(u, success))
  BY <1>2, ResultsAdvance
<1>5. QED BY <1>3, <1>4 DEF HandleSessionResult, u, success, x

-----------------------------------------------------------------------------
(* A service pass.                                                         *)

\* v is w with its job ended and the result in the queue.
Concluded(w, v, outcome) ==
  /\ v \in WorldType
  /\ v.device = [w.device EXCEPT !.job = NoJob, !.queue = v.device.queue]
  /\ Len(v.device.queue) = 1 /\ v.device.queue[1] \in ResultType
  /\ v.device.queue[1].id = w.device.job.id
  /\ v.device.queue[1].kind = w.device.job.kind
  /\ v.device.queue[1].outcome = outcome
  /\ v.bus = w.bus /\ v.pending = w.pending /\ v.session = w.session
  /\ v.nextId = w.nextId /\ v.deferred = w.deferred /\ v.prompts = w.prompts
  /\ v.stopped = w.stopped /\ v.pass = w.pass /\ v.status = w.status

\* A job that ends leaves one result, under its own id and kind.
LEMMA FinishedJob ==
  ASSUME NEW w \in WorldType, w.device.job # NoJob, w.device.queue = <<>>,
         NEW outcome \in Outcome, NEW batch \in Batch
  PROVE  Concluded(w, FinishJob(w, outcome, batch), outcome)
<1> DEFINE r == [id |-> w.device.job.id, kind |-> w.device.job.kind, outcome |-> outcome,
                 batch |-> batch]
           d == [w.device EXCEPT !.job = NoJob, !.queue = Append(@, r)]
           v == FinishJob(w, outcome, batch)
<1>1. w.device \in DeviceType
  BY DEF WorldType
<1>2. w.device.job \in [id : Nat, kind : JobKind, left : Nat, deadline : Nat]
  BY <1>1 DEF DeviceType, JobType
<1>3. r \in ResultType /\ r.id = w.device.job.id /\ r.kind = w.device.job.kind
      /\ r.outcome = outcome
  BY <1>2 DEF ResultType
<1> HIDE DEF r
<1>4. v = [w EXCEPT !.device = d]
  BY <1>1 DEF FinishJob, WorldType, DeviceType, r
<1>5. d \in DeviceType /\ d.queue = <<r>>
  <2>1. Append(<<>>, r) = <<r>> /\ <<r>> \in Seq(ResultType)
    BY <1>3
  <2>2. d.queue = <<r>> /\ d.job = NoJob /\ NoJob \in JobType
    BY <1>1, <2>1 DEF DeviceType, JobType
  <2>3. QED BY <1>1, <2>1, <2>2 DEF DeviceType
<1>6. v \in WorldType /\ v.device = d
  BY <1>4, <1>5 DEF WorldType
<1>7. v.device = [w.device EXCEPT !.job = NoJob, !.queue = v.device.queue]
  BY <1>1, <1>6 DEF DeviceType
<1>8. Len(d.queue) = 1 /\ d.queue[1] = r
  BY <1>5
<1>9. /\ v.bus = w.bus /\ v.pending = w.pending /\ v.session = w.session
      /\ v.nextId = w.nextId /\ v.deferred = w.deferred /\ v.prompts = w.prompts
      /\ v.stopped = w.stopped /\ v.pass = w.pass /\ v.status = w.status
  BY <1>4 DEF WorldType
<1> HIDE DEF d, v
<1>10. QED BY <1>3, <1>6, <1>7, <1>8, <1>9 DEF v, Concluded

\* v is w in the middle of a poll.
Polled(w, v) ==
  /\ v \in WorldType /\ v.bus = w.bus /\ v.pending = w.pending /\ v.session = w.session
  /\ v.nextId = w.nextId /\ v.deferred = w.deferred /\ v.prompts = w.prompts
  /\ v.stopped = w.stopped /\ v.pass.answers = w.pass.answers
  /\ v.pass.transfers \in w.pass.transfers .. w.pass.transfers + 1
  /\ v.device.bound /\ v.device.queue = <<>>
  /\ v.device.job # NoJob
  /\ v.device.job.id = w.device.job.id /\ v.device.job.kind = w.device.job.kind
  /\ v.device.applied \in {"SLEEPING", "ACTIVE"} => v.device.sameBus

\* What the driver does in the middle of a poll: it fails, writes, finishes.
LEMMA PolledSteps ==
  ASSUME NEW w, NEW v, Polled(w, v), NEW fate \in Fate
  PROVE  /\ Polled(w, AfterFailure(v, fate)) /\ Polled(w, Midway(v, fate))
         /\ Polled(w, Replayed(v))
         /\ v.device.job.left > 1 => Polled(w, [v EXCEPT !.device.job.left = @ - 1])
<1>1. v = [v EXCEPT !.device.applied = v.device.applied]
  BY DEF Polled, WorldType, DeviceType
<1>2. ASSUME NEW applied \in {"UNKNOWN", "DIRTY"}
      PROVE  Polled(w, [v EXCEPT !.device.applied = applied])
  BY DEF Polled, WorldType, DeviceType, Applied
<1>3. Polled(w, [v EXCEPT !.device.applied = "SLEEPING", !.device.sameBus = TRUE])
  BY DEF Polled, WorldType, DeviceType, Applied
<1>4. Polled(w, AfterFailure(v, fate))
  BY <1>1, <1>2 DEF AfterFailure
<1>5. Polled(w, Midway(v, fate))
  BY <1>1, <1>2 DEF Midway
<1>6. Polled(w, Replayed(v))
  BY <1>3 DEF Replayed
<1>7. ASSUME v.device.job.left > 1
      PROVE  Polled(w, [v EXCEPT !.device.job.left = @ - 1])
  <2> DEFINE j == [v.device.job EXCEPT !.left = @ - 1]
             x == [v EXCEPT !.device.job.left = @ - 1]
  <2>1. v.device.job \in [id : Nat, kind : JobKind, left : Nat, deadline : Nat]
    BY DEF Polled, WorldType, DeviceType, JobType
  <2>2. j \in JobType /\ j.id = v.device.job.id /\ j.kind = v.device.job.kind /\ j # NoJob
    BY <1>7, <2>1 DEF JobType, NoJob, JobKind
  <2>3. x = [v EXCEPT !.device.job = j]
    BY DEF Polled, WorldType, DeviceType
  <2> HIDE DEF j, x
  <2>4. Polled(w, x)
    BY <2>2, <2>3 DEF Polled, WorldType, DeviceType
  <2>5. QED BY <2>4 DEF x
<1>8. QED BY <1>4, <1>5, <1>6, <1>7

\* A poll makes a transfer at most, and leaves the job going or its result in
\* the queue; it trusts the profile only when it has written it.
LEMMA PollKeeps ==
  ASSUME NEW w, Sound(w), w.device.job # NoJob, NEW io \in IO, NEW fate \in Fate
  PROVE  LET v == Poll(w, io, fate)
         IN  /\ Sound(v) /\ Moves(w, v, 1) /\ v.session = w.session /\ v.pending = w.pending
             /\ v.bus = w.bus
<1> DEFINE c == Counted(w)
           Good(v) == /\ Sound(v) /\ Moves(w, v, 1) /\ v.bus = w.bus
                      /\ v.session = w.session /\ v.pending = w.pending
<1>1. /\ w \in WorldType /\ w.device \in DeviceType /\ w.device.queue = <<>>
      /\ w.pending # NoPending /\ w.pass.transfers \in Nat
      /\ w.device.job.id = w.pending.id /\ w.device.job.kind = w.pending.kind
      /\ w.device.bound
      /\ w.device.job \in [id : Nat, kind : JobKind, left : Nat, deadline : Nat]
  BY DEF Sound, Correlated, Trusted, WorldType, DeviceType, PassType, JobType
<1>2. Polled(w, w)
  BY <1>1 DEF Polled, Sound, Trusted
<1>3. Polled(w, c)
  BY <1>1, <1>2, SMTT(30) DEF Polled, Counted, WorldType, PassType
<1> HIDE DEF c
<1>4. ASSUME NEW v, Polled(w, v) PROVE Good(v)
  BY <1>1, <1>4 DEF Polled, Sound, Correlated, Trusted, Moves, SameSession
<1>5. ASSUME NEW v, Polled(w, v), NEW outcome \in Outcome, NEW batch \in Batch
      PROVE  Good(FinishJob(v, outcome, batch))
  <2> DEFINE x == FinishJob(v, outcome, batch)
  <2>1. v \in WorldType /\ v.device.job # NoJob /\ v.device.queue = <<>>
    BY <1>5 DEF Polled
  <2>2. Concluded(v, x, outcome)
    BY <2>1, FinishedJob
  <2> HIDE DEF x
  <2>3. /\ x.device.job = NoJob /\ x.device.applied = v.device.applied
        /\ x.device.sameBus = v.device.sameBus /\ x.device.bound = v.device.bound
    BY <2>1, <2>2 DEF Concluded, WorldType, DeviceType
  <2>4. Good(x)
    BY <1>1, <1>5, <2>2, <2>3 DEF Concluded, Polled, Sound, Correlated, Trusted, Moves, SameSession
  <2>5. QED BY <2>4 DEF x
<1> HIDE DEF Good
<1>6. /\ Good(FinishJob(w, "TIMED_OUT", "none"))
      /\ Good(FinishJob(AfterFailure(c, fate), "FAILED", "none"))
      /\ \A batch \in Batch : Good(FinishJob(Replayed(c), "SUCCESS", batch))
  BY <1>2, <1>3, <1>5, PolledSteps DEF Outcome, Batch
<1>7. w.device.job.left > 1 => Good([Midway(c, fate) EXCEPT !.device.job.left = @ - 1])
  <2>1. c.device = w.device
    BY <1>1 DEF c, Counted, WorldType
  <2>2. Midway(c, fate).device.job.left = c.device.job.left
    BY <1>3 DEF Midway, Polled, WorldType, DeviceType
  <2>3. Polled(w, Midway(c, fate))
    BY <1>3, PolledSteps
  <2>4. QED BY <1>4, <2>1, <2>2, <2>3, PolledSteps
<1>8. Good(Poll(w, io, fate))
  <2>1. CASE w.device.job.deadline = 0
    BY <1>6, <2>1 DEF Poll, JobActive
  <2>2. CASE w.device.job.deadline # 0 /\ ~Reaches(w, io)
    BY <1>6, <2>2 DEF Poll, JobActive, c
  <2>3. CASE w.device.job.deadline # 0 /\ Reaches(w, io) /\ w.device.job.left > 1
    BY <1>7, <2>3 DEF Poll, JobActive, c
  <2>4. CASE w.device.job.deadline # 0 /\ Reaches(w, io) /\ ~(w.device.job.left > 1)
    <3>1. Poll(w, io, fate) = FinishJob(Replayed(c), "SUCCESS",
                                        IF w.device.job.kind = "ACQUIRE" THEN io ELSE "none")
      BY <2>4 DEF Poll, JobActive, c
    <3>2. (IF w.device.job.kind = "ACQUIRE" THEN io ELSE "none") \in Batch
      BY DEF Batch
    <3>3. QED BY <1>6, <3>1, <3>2
  <2>5. QED BY <2>1, <2>2, <2>3, <2>4
<1>9. QED BY <1>8 DEF Good

\* v is w with the result taken, and nothing pending any more.
Took(w, v) ==
  /\ v \in WorldType
  /\ v.device = [w.device EXCEPT !.queue = <<>>] /\ v.device.queue = <<>>
  /\ v.device.job = NoJob /\ v.pending = NoPending
  /\ v.bus = w.bus /\ v.session = w.session /\ v.nextId = w.nextId
  /\ v.deferred = w.deferred /\ v.prompts = w.prompts /\ v.stopped = w.stopped
  /\ v.pass = w.pass /\ v.status = w.status

\* The queue without its first result, before and after nothing is pending.
Popped(w) == [w EXCEPT !.device.queue = Tail(@)]
Resulting(w) == [Popped(w) EXCEPT !.pending = NoPending]

\* The result that is taken is that of the pending operation.
LEMMA ResultTaken ==
  ASSUME NEW w, Sound(w), w.device.queue # <<>>
  PROVE  /\ Took(w, Resulting(w)) /\ Sound(Resulting(w))
         /\ w.device.job = NoJob /\ w.pending # NoPending
         /\ Head(w.device.queue) = w.device.queue[1] /\ w.device.queue[1] \in ResultType
         /\ w.device.queue[1].id = w.pending.id /\ w.device.queue[1].kind = w.pending.kind
         /\ Popped(w).pending = w.pending /\ Popped(w).session = w.session
<1>1. /\ w \in WorldType /\ w.device \in DeviceType /\ w.device.queue \in Seq(ResultType)
      /\ Len(w.device.queue) = 1 /\ w.device.job = NoJob /\ w.pending # NoPending
      /\ w.device.queue[1].id = w.pending.id /\ w.device.queue[1].kind = w.pending.kind
  BY DEF Sound, Correlated, WorldType, DeviceType
<1>2. /\ Tail(w.device.queue) = <<>> /\ Head(w.device.queue) = w.device.queue[1]
      /\ w.device.queue[1] \in ResultType
  <2>1. w.device.queue[1] \in ResultType
    BY <1>1, ElementOfSeq
  <2>2. /\ Head(w.device.queue) = w.device.queue[1]
        /\ Tail(w.device.queue) \in Seq(ResultType) /\ Len(Tail(w.device.queue)) = 0
    BY <1>1, HeadTailProperties
  <2>3. QED BY <2>1, <2>2, EmptySeq
<1> DEFINE d == [w.device EXCEPT !.queue = <<>>]
<1>3. d \in DeviceType
  BY <1>1, EmptySeq DEF DeviceType
<1>4. Popped(w) = [w EXCEPT !.device = d]
  BY <1>1, <1>2 DEF Popped, WorldType, DeviceType
<1>5. /\ d.queue = <<>> /\ d.job = NoJob /\ d.applied = w.device.applied
      /\ d.bound = w.device.bound /\ d.sameBus = w.device.sameBus
  BY <1>1 DEF DeviceType
<1> HIDE DEF d
<1>6. Resulting(w) = [w EXCEPT !.device = d, !.pending = NoPending]
  BY <1>1, <1>4 DEF Resulting, WorldType
<1>7. NoPending \in PendingType /\ NoPending.owner = "NONE"
  BY DEF PendingType, NoPending
<1>8. Took(w, Resulting(w))
  BY <1>1, <1>3, <1>5, <1>6, <1>7 DEF Took, WorldType, d
<1>9. Sound(Resulting(w))
  BY <1>1, <1>5, <1>6, <1>7, <1>8 DEF Took, Sound, Correlated, Trusted, WorldType
<1>10. Popped(w).pending = w.pending /\ Popped(w).session = w.session
  BY <1>1, <1>4 DEF WorldType
<1>11. QED BY <1>1, <1>2, <1>8, <1>9, <1>10

\* The result of a command is its answer.
LEMMA CommandAnswers ==
  ASSUME NEW w0, NEW w, Sound(w), w.device.queue # <<>>, w.pending.owner = "COMMAND",
         Moves(w0, w, 1)
  PROVE  LET v == CommandResult(Popped(w), w.device.queue[1])
         IN  /\ Ends(w0, v) /\ v.pass.transfers = w.pass.transfers
             /\ \E a \in AnswerType : /\ a.outcome = w.device.queue[1].outcome
                                     /\ v.pass.answers = Append(w.pass.answers, a)
<1> DEFINE r == w.device.queue[1]
           x == Resulting(w)
           a == [kind |-> r.kind, outcome |-> r.outcome,
                 code |-> IF r.outcome = "SUCCESS" THEN "OK" ELSE "ERROR",
                 count |-> 0, stats |-> NoStats, moved |-> FALSE]
           v == CommandResult(Popped(w), r)
<1>1. Took(w, x) /\ Sound(x) /\ r \in ResultType
  BY ResultTaken
<1>2. x.session = NoSession /\ w.pass \in PassType
  BY <1>1 DEF Took, Sound, Correlated, WorldType
<1>3. a \in AnswerType /\ a.outcome = r.outcome
  BY <1>1 DEF ResultType, AnswerType, Code, Stats, NoStats
<1> HIDE DEF a
<1>4. v = [x EXCEPT !.pass.answers = Append(@, a)]
  <2>1. w.pass = Popped(w).pass /\ Popped(w) = [w EXCEPT !.device = Popped(w).device]
    BY DEF Sound, Popped, WorldType
  <2>2. QED BY <2>1, <1>1, <1>2 DEF CommandResult, Resulting, Sound, WorldType, PassType, a
<1> HIDE DEF x, v, r
<1>5. /\ v \in WorldType /\ v.device = x.device /\ v.bus = x.bus /\ v.pending = x.pending
      /\ v.session = x.session /\ v.deferred = x.deferred /\ v.prompts = x.prompts
      /\ v.stopped = x.stopped /\ v.pass.transfers = x.pass.transfers
      /\ v.pass.answers = Append(x.pass.answers, a)
  <2>1. Append(x.pass.answers, a) \in Seq(AnswerType)
    BY <1>1, <1>3, AppendProperties DEF Sound, WorldType, PassType
  <2>2. QED BY <2>1, <1>1, <1>4 DEF Sound, WorldType, PassType
<1>6. Sound(v)
  BY <1>1, <1>5 DEF Sound, Correlated, Trusted
<1>7. /\ v.session = NoSession /\ v.pending = NoPending /\ v.pass.transfers = w.pass.transfers
      /\ v.deferred = w.deferred /\ v.prompts = w.prompts /\ v.stopped = w.stopped
      /\ v.pass.answers = Append(w.pass.answers, a)
  BY <1>1, <1>2, <1>5 DEF Took
<1>8. Ends(w0, v)
  BY <1>3, <1>6, <1>7 DEF Ends, Moves
<1>9. QED BY <1>3, <1>7, <1>8, Zenon DEF v, r

\* Results are drained until none is left: the one there is answers.
LEMMA DrainAnswers ==
  ASSUME NEW w0 \in WorldType, NEW w, Sound(w), Moves(w0, w, 1)
  PROVE  /\ w.device.queue = <<>> => DrainResults(w) = w
         /\ w.device.queue # <<>> =>
              /\ Advances(w0, DrainResults(w))
              /\ DrainResults(w) =
                   IF w.pending.owner = "SESSION"
                   THEN HandleSessionResult(Popped(w), w.device.queue[1])
                   ELSE CommandResult(Popped(w), w.device.queue[1])
<1>1. ASSUME NEW v, Sound(v), v.device.queue = <<>>
      PROVE  DrainOne(v) = v /\ LostResult(v) = v
  BY <1>1 DEF DrainOne, LostResult, JobActive, Sound, Correlated
<1>2. CASE w.device.queue = <<>>
  BY <1>1, <1>2 DEF DrainResults
<1>3. CASE w.device.queue # <<>>
  <2> DEFINE r == w.device.queue[1]
             y == IF w.pending.owner = "SESSION" THEN HandleSessionResult(Popped(w), r)
                  ELSE CommandResult(Popped(w), r)
  <2>1. /\ Took(w, Resulting(w)) /\ Sound(Resulting(w)) /\ w.pending # NoPending
        /\ Head(w.device.queue) = r /\ r.id = w.pending.id /\ r.kind = w.pending.kind
        /\ Popped(w).pending = w.pending
    BY <1>3, ResultTaken
  <2>2. DrainOne(w) = y
    BY <1>3, <2>1 DEF DrainOne, HandleOperationResult, Popped
  <2>3. w.pending.owner \in {"SESSION", "COMMAND"}
    BY <2>1 DEF Sound, WorldType, PendingType
  <2>4. Advances(w0, y)
    <3>1. CASE w.pending.owner = "SESSION"
      <4>1. Active(Resulting(w)) /\ Moves(w0, Resulting(w), 1)
        BY <2>1, <3>1 DEF Active, Took, Sound, Correlated, Moves, SameSession
      <4>2. Going(w0, [Popped(w) EXCEPT !.pending = NoPending])
        BY <4>1 DEF Going, Resulting
      <4>3. QED BY <3>1, <4>2, SessionResultAdvances
    <3>2. CASE w.pending.owner = "COMMAND"
      BY <1>3, <3>2, CommandAnswers DEF Advances
    <3>3. QED BY <2>3, <3>1, <3>2
  <2> HIDE DEF y
  <2>5. Sound(y) /\ y.device.queue = <<>>
    BY <2>4 DEF Advances, GoesOn, Ends, Sound, Correlated
  <2>6. DrainResults(w) = y
    BY <1>1, <2>2, <2>5 DEF DrainResults
  <2>7. QED BY <1>3, <2>4, <2>6 DEF y
<1>4. QED BY <1>2, <1>3

\* What a cancel command has left behind.
Stopping(w) ==
  /\ w.pending # NoPending /\ w.device.job = NoJob
  /\ w.session = NoSession => w.device.queue[1].outcome = "CANCELLED"
  /\ w.session # NoSession => w.session.stopRequested

\* The worlds there are between the halves of a pass.
Rest(w) ==
  /\ Sound(w) /\ (w.deferred <=> Busy(w))
  /\ w.pass.transfers <= 1 /\ Len(w.pass.answers) <= 1
  /\ Busy(w) => w.prompts = 0 /\ w.pass.answers = <<>>
  /\ ~Busy(w) => w.prompts = 1 /\ ~w.stopped
  /\ w.device.queue # <<>> => w.stopped
  /\ w.stopped => Stopping(w) /\ w.pass.transfers = 0

\* The transfer of this pass is still to be made.
Fresh(w) == Busy(w) => w.pass.transfers = 0

\* v is w with the prompt that was deferred, and without a stop.
SettledAs(w, v) ==
  /\ v \in WorldType
  /\ v.device = w.device /\ v.bus = w.bus /\ v.pending = w.pending /\ v.session = w.session
  /\ v.pass = w.pass /\ v.prompts = 1 /\ ~v.deferred /\ ~v.stopped

\* The deferred prompt is printed when the work is over, and then only.
LEMMA SettledPrompts ==
  ASSUME NEW w \in WorldType
  PROVE  /\ Busy(w) => Settled(w) = w
         /\ ~Busy(w) /\ w.deferred /\ w.prompts = 0 => SettledAs(w, Settled(w))
         /\ ~Busy(w) /\ ~w.deferred /\ w.prompts = 1 => SettledAs(w, Settled(w))
<1> DEFINE d == [w EXCEPT !.deferred = FALSE]
<1>1. CASE Busy(w)
  BY <1>1 DEF Settled, Answered
<1>2. CASE ~Busy(w) /\ w.deferred /\ w.prompts = 0
  <2> DEFINE x == [d EXCEPT !.prompts = 1]
             y == [x EXCEPT !.stopped = FALSE]
  <2>1. Prompt(d) = x
    <3>1. d.prompts = 0
      BY <1>2 DEF WorldType
    <3>2. (IF d.prompts < 2 THEN d.prompts + 1 ELSE d.prompts) = 1
      BY <3>1
    <3>3. QED BY <3>2 DEF Prompt
  <2>2. ~Busy(x)
    BY <1>2 DEF Busy, JobActive, WorldType
  <2>3. Settled(w) = y
    BY <1>2, <2>1, <2>2 DEF Settled, Answered
  <2>4. SettledAs(w, y)
    BY DEF SettledAs, WorldType
  <2>5. QED BY <1>2, <2>3, <2>4
<1>3. CASE ~Busy(w) /\ ~w.deferred /\ w.prompts = 1
  <2> DEFINE y == [w EXCEPT !.stopped = FALSE]
  <2>1. Settled(w) = y
    BY <1>3 DEF Settled, Answered
  <2>2. SettledAs(w, y)
    BY <1>3 DEF SettledAs, WorldType
  <2>3. QED BY <1>3, <2>1, <2>2
<1>4. QED BY <1>1, <1>2, <1>3

\* What service() owes a request that was under way.
Served(w, x) ==
  /\ Rest(x)
  /\ ~Busy(x) => Len(x.pass.answers) = 1 /\ x.pass.answers[1].outcome \in Outcome

\* What ends in a service pass is answered and prompted; what does not goes on.
LEMMA SettledServes ==
  ASSUME NEW w, Rest(w), Busy(w), w.pass.transfers = 0, NEW y
  PROVE  /\ Ends(w, y) => Served(w, Settled(y)) /\ ~Busy(Settled(y)) /\ Settled(y).pass = y.pass
         /\ (Sound(y) /\ Moves(w, y, 1) /\ y.device.queue = <<>> /\ Busy(y) /\ ~w.stopped) =>
              Served(w, Settled(y))
<1>1. /\ w.deferred /\ w.prompts = 0 /\ w.pass.answers = <<>>
      /\ w.pass.transfers = 0
  BY DEF Rest
<1>2. ASSUME Ends(w, y)
      PROVE  Served(w, Settled(y)) /\ ~Busy(Settled(y)) /\ Settled(y).pass = y.pass
  <2> DEFINE x == Settled(y)
  <2>1. /\ Sound(y) /\ y.session = NoSession /\ y.pending = NoPending /\ y.device.job = NoJob
        /\ y.device.queue = <<>> /\ y.deferred /\ y.prompts = 0 /\ y.pass.transfers \in 0 .. 1
    BY <1>1, <1>2 DEF Ends, Sound, Correlated
  <2>2. ~Busy(y) /\ y \in WorldType
    BY <2>1 DEF Busy, JobActive, Sound
  <2>3. SettledAs(y, x)
    BY <2>1, <2>2, SettledPrompts
  <2> HIDE DEF x
  <2>4. Sound(x) /\ ~Busy(x) /\ x.device.queue = <<>>
    BY <2>1, <2>2, <2>3 DEF SettledAs, Sound, Correlated, Trusted, Busy, JobActive
  <2>5. PICK a \in AnswerType : y.pass.answers = Append(<<>>, a)
    BY <1>1, <1>2 DEF Ends
  <2>6. Len(y.pass.answers) = 1 /\ y.pass.answers[1] = a /\ a.outcome \in Outcome
    BY <2>5, EmptySeq, AppendProperties DEF AnswerType
  <2>7. QED BY <2>1, <2>3, <2>4, <2>6 DEF Served, Rest, SettledAs, x
<1>3. ASSUME Sound(y), Moves(w, y, 1), y.device.queue = <<>>, Busy(y), ~w.stopped
      PROVE  Served(w, Settled(y))
  <2>1. Settled(y) = y
    BY <1>3, SettledPrompts DEF Sound
  <2>2. /\ y.deferred /\ y.prompts = 0 /\ y.pass.answers = <<>> /\ ~y.stopped
        /\ y.pass.transfers \in 0 .. 1
    BY <1>1, <1>3 DEF Moves
  <2>3. Len(y.pass.answers) = 0
    BY <2>2, EmptySeq
  <2>4. QED BY <1>3, <2>1, <2>2, <2>3 DEF Served, Rest
<1>4. QED BY <1>2, <1>3

\* A pass that finds the request stopped ends it, as cancelled and without a
\* transfer, whatever its job had come to.
LEMMA StoppedAnswers ==
  ASSUME NEW w, Rest(w), w.stopped
  PROVE  LET y == DrainResults(w)
         IN  /\ w.device.queue # <<>> /\ Busy(w) /\ Ends(w, y) /\ y.pass.transfers = 0
             /\ Len(y.pass.answers) = 1 /\ y.pass.answers[1].outcome = "CANCELLED"
<1>1. /\ Sound(w) /\ w.pending # NoPending /\ w.device.job = NoJob /\ w.pass.transfers = 0
      /\ Busy(w) /\ w.pass.answers = <<>>
  BY DEF Rest, Stopping, Busy
<1>2. w.device.queue # <<>>
  BY <1>1, EmptySeq DEF Sound, Correlated
<1>3. Moves(w, w, 1) /\ w \in WorldType /\ w.pass.transfers \in Nat
  BY <1>1 DEF Moves, SameSession, Sound
<1> DEFINE r == w.device.queue[1]
           y == DrainResults(w)
<1>4. y = IF w.pending.owner = "SESSION" THEN HandleSessionResult(Popped(w), r)
          ELSE CommandResult(Popped(w), r)
  BY <1>1, <1>2, <1>3, DrainAnswers
<1>5. w.pending.owner \in {"SESSION", "COMMAND"}
  BY <1>1 DEF Sound, WorldType, PendingType
<1> HIDE DEF y
<1>6. /\ Ends(w, y) /\ y.pass.transfers = 0
      /\ \E a \in AnswerType : a.outcome = "CANCELLED" /\ y.pass.answers = Append(<<>>, a)
  <2>1. CASE w.pending.owner = "COMMAND"
    <3>1. w.session = NoSession
      BY <1>1, <2>1 DEF Sound, Correlated
    <3>2. r.outcome = "CANCELLED"
      BY <3>1 DEF Rest, Stopping
    <3>3. QED BY <1>1, <1>2, <1>3, <1>4, <2>1, <3>2, CommandAnswers
  <2>2. CASE w.pending.owner = "SESSION"
    <3> DEFINE x == Resulting(w)
               batched == r.kind = "ACQUIRE" => r.batch # "none"
               success == r.outcome = "SUCCESS" /\ batched
               u == IF success \/ r.outcome = "CANCELLED" THEN x ELSE RecordFailure(x)
    <3>1. w.session # NoSession /\ w.session.stopRequested
      BY <1>1, <2>2 DEF Sound, Correlated, Rest, Stopping
    <3>2. Took(w, x) /\ Sound(x) /\ Popped(w).session = w.session
      BY <1>1, <1>2, ResultTaken
    <3>3. y = FinishCancelled(u)
      BY <1>4, <2>2, <3>1, <3>2 DEF HandleSessionResult, Resulting
    <3> HIDE DEF x, success
    <3>4. Active(x) /\ Moves(w, x, 1) /\ x.pass = w.pass
      BY <1>3, <3>1, <3>2 DEF Active, Took, Moves, SameSession
    <3>5. Edits(x, RecordFailure(x))
      BY <3>2, RecordFailureEdits DEF Sound
    <3>6. /\ Active(RecordFailure(x)) /\ Moves(w, RecordFailure(x), 1)
          /\ RecordFailure(x).pass = w.pass
      BY <1>3, <3>4, <3>5, EditsMove DEF Edits, Elsewhere
    <3>7. Active(u) /\ Moves(w, u, 1) /\ u.pass = w.pass
      BY <3>4, <3>6
    <3> HIDE DEF u
    <3>8. QED BY <1>1, <3>3, <3>7, FinishEnds DEF FinishCancelled, Code, Outcome
  <2>3. QED BY <1>5, <2>1, <2>2
<1>7. Len(y.pass.answers) = 1 /\ y.pass.answers[1].outcome = "CANCELLED"
  BY <1>6, EmptySeq, AppendProperties
<1>8. QED BY <1>1, <1>2, <1>6, <1>7 DEF y

\* service(): the console is left as the abstract conversation has it.
LEMMA ServiceServes ==
  ASSUME NEW w, Rest(w), Fresh(w), NEW io \in IO, NEW fate \in Fate
  PROVE  LET x == Service(w, io, fate)
         IN  /\ Rest(x)
             /\ ~Busy(w) => ~Busy(x) /\ x.pass = w.pass
             /\ Busy(w) => Served(w, x)
             /\ w.stopped => /\ ~Busy(x) /\ x.pass.transfers = 0
                             /\ x.pass.answers[1].outcome = "CANCELLED"
<1> DEFINE x == Service(w, io, fate)
<1>1. Sound(w) /\ w \in WorldType
  BY DEF Rest, Sound
<1>2. CASE JobActive(w)
  <2> DEFINE p == Poll(w, io, fate)
             y == DrainResults(p)
  <2>1. w.device.job # NoJob /\ Busy(w) /\ ~w.stopped /\ w.pass.transfers = 0
        /\ w.pending # NoPending
    BY <1>2 DEF JobActive, Busy, Rest, Stopping, Fresh, Sound, Correlated
  <2>2. Sound(p) /\ Moves(w, p, 1) /\ p.pending = w.pending
    BY <1>1, <2>1, PollKeeps
  <2>3. x = Settled(y)
    BY <1>2 DEF Service
  <2> HIDE DEF p, x
  <2>4. CASE p.device.queue = <<>>
    <3>1. y = p /\ Busy(p)
      BY <1>1, <2>1, <2>2, <2>4, DrainAnswers DEF Busy
    <3>2. QED BY <2>1, <2>2, <2>3, <2>4, <3>1, SettledServes DEF Served, x
  <2>5. CASE p.device.queue # <<>>
    <3>1. Advances(w, y)
      BY <1>1, <2>2, <2>5, DrainAnswers
    <3> HIDE DEF y
    <3>2. GoesOn(w, y) => Sound(y) /\ Moves(w, y, 1) /\ y.device.queue = <<>> /\ Busy(y)
      BY DEF GoesOn, Busy
    <3>3. QED BY <2>1, <2>3, <3>1, <3>2, SettledServes DEF Advances, Served, x
  <2>6. QED BY <2>4, <2>5
<1>3. CASE ~JobActive(w) /\ w.device.queue # <<>>
  <2> DEFINE y == DrainResults(w)
  <2>1. w.stopped
    BY <1>3 DEF Rest
  <2>2. /\ Busy(w) /\ Ends(w, y) /\ y.pass.transfers = 0 /\ w.pass.transfers = 0
        /\ Len(y.pass.answers) = 1 /\ y.pass.answers[1].outcome = "CANCELLED"
    BY <2>1, StoppedAnswers DEF Rest
  <2> HIDE DEF y
  <2>3. Advanced(y, io) = y
    BY <2>2 DEF Advanced, Ends
  <2>4. x = Settled(y)
    BY <1>3, <2>3 DEF Service, y
  <2> HIDE DEF x
  <2>5. QED BY <2>1, <2>2, <2>4, SettledServes DEF Served, x
<1>4. CASE ~JobActive(w) /\ w.device.queue = <<>>
  <2>1. w.pending = NoPending /\ ~w.stopped
    BY <1>1, <1>4 DEF Sound, Correlated, JobActive, Rest, Stopping
  <2>2. Moves(w, w, 1)
    BY <1>1 DEF Moves, SameSession, WorldType, PassType
  <2>3. x = Settled(Advanced(w, io))
    BY <1>1, <1>4, <2>2, DrainAnswers DEF Service
  <2> HIDE DEF x
  <2>4. CASE w.session # NoSession
    <3> DEFINE y == AdvanceSession(w, io)
    <3>1. Active(w) /\ Busy(w) /\ w.pass.transfers = 0
      BY <1>1, <2>1, <2>4 DEF Active, Busy, Fresh
    <3>2. x = Settled(y)
      BY <2>1, <2>3, <2>4 DEF Advanced
    <3>3. Advances(w, y)
      BY <3>1, AdvanceSessionAdvances
    <3> HIDE DEF y
    <3>4. GoesOn(w, y) => Sound(y) /\ Moves(w, y, 1) /\ y.device.queue = <<>> /\ Busy(y)
      BY DEF GoesOn, Busy
    <3>5. QED BY <2>1, <3>1, <3>2, <3>3, <3>4, SettledServes DEF Advances, Served, x
  <2>5. CASE w.session = NoSession
    <3>1. ~Busy(w) /\ Advanced(w, io) = w
      BY <1>4, <2>1, <2>5 DEF Busy, Advanced
    <3>2. ~w.deferred /\ w.prompts = 1
      BY <3>1 DEF Rest
    <3>3. SettledAs(w, x)
      BY <1>1, <2>3, <3>1, <3>2, SettledPrompts
    <3>4. ~Busy(x) /\ x.pass = w.pass
      BY <3>1, <3>3 DEF SettledAs, Busy, JobActive
    <3>5. Rest(x)
      BY <1>1, <2>1, <3>1, <3>3, <3>4 DEF SettledAs, Rest, Sound, Correlated, Trusted
    <3>6. QED BY <2>1, <3>1, <3>4, <3>5 DEF x
  <2>6. QED BY <2>4, <2>5
<1>5. QED BY <1>2, <1>3, <1>4

-----------------------------------------------------------------------------
(* Commands.                                                               *)

\* The worlds a line is entered in.
Listening(w) ==
  /\ Sound(w) /\ (w.deferred <=> Busy(w)) /\ w.prompts = 0 /\ w.pass = NewPass
  /\ ~Busy(w) => ~w.stopped
  /\ w.device.queue # <<>> => w.stopped
  /\ w.stopped => Stopping(w)

\* What a line may make of a world without work, and with it.
Handled(h) ==
  /\ Sound(h) /\ h.device.queue = <<>> /\ h.prompts = 0 /\ ~h.stopped
  /\ (h.deferred <=> Busy(h)) /\ h.pass.answers = <<>>
  /\ h.pass.transfers \in 0 .. 1 /\ Fresh(h)

\* What a line leaves behind, when no work was under way and when some was.
Obeyed(w, x) ==
  /\ Rest(x) /\ Fresh(x)
  /\ ~Busy(w) => x.pass.answers = <<>> /\ ~x.stopped
  /\ Busy(w) =>
       /\ x.pass.transfers = 0
       /\ Busy(x) => (w.stopped => x.stopped)
       /\ ~Busy(x) => Len(x.pass.answers) = 1 /\ x.pass.answers[1].outcome = "CANCELLED"

\* A line ends with its prompt, or defers it to the end of the work it started.
LEMMA PromptRests ==
  ASSUME NEW h, Handled(h)
  PROVE  /\ Rest(PromptForState(h)) /\ Fresh(PromptForState(h))
         /\ PromptForState(h).pass = h.pass /\ ~PromptForState(h).stopped
         /\ ~Busy(h) => Prompt(h) = PromptForState(h)
<1>1. h \in WorldType /\ Len(<<>>) = 0
  BY EmptySeq DEF Handled, Sound
<1>2. CASE Busy(h)
  BY <1>1, <1>2 DEF Handled, PromptForState, Rest, Fresh
<1>3. CASE ~Busy(h)
  <2> DEFINE x == [h EXCEPT !.prompts = 1]
  <2>1. (IF h.prompts < 2 THEN h.prompts + 1 ELSE h.prompts) = 1
    BY DEF Handled
  <2>2. Prompt(h) = x
    BY <2>1 DEF Prompt
  <2>3. PromptForState(h) = x
    BY <1>3, <2>2 DEF PromptForState, Handled
  <2>4. /\ x \in WorldType /\ x.device = h.device /\ x.bus = h.bus /\ x.pending = h.pending
        /\ x.session = h.session /\ x.deferred = h.deferred /\ x.prompts = 1
        /\ x.stopped = h.stopped /\ x.pass = h.pass
    BY <1>1 DEF WorldType
  <2> HIDE DEF x
  <2>5. Sound(x) /\ ~Busy(x)
    BY <1>3, <2>4 DEF Handled, Sound, Correlated, Trusted, Busy, JobActive
  <2>6. QED
    BY <1>1, <1>3, <2>2, <2>3, <2>4, <2>5 DEF Handled, Rest, Fresh
<1>4. QED BY <1>2, <1>3

\* A command refused while busy changes nothing; accepted, it is handled.
LEMMA WhenIdleObeys ==
  ASSUME NEW w, Listening(w), NEW h, ~Busy(w) => Handled(h)
  PROVE  Obeyed(w, WhenIdle(w, h))
<1>1. CASE Busy(w)
  <2>1. WhenIdle(w, h) = w
    BY <1>1 DEF WhenIdle, PromptForState
  <2>2. w.pass.transfers = 0 /\ w.pass.answers = <<>> /\ Len(w.pass.answers) = 0
    BY EmptySeq DEF Listening, NewPass
  <2>3. QED BY <1>1, <2>1, <2>2 DEF Listening, Obeyed, Rest, Fresh
<1>2. CASE ~Busy(w)
  <2>1. Handled(h) /\ WhenIdle(w, h) = PromptForState(h)
    BY <1>2 DEF WhenIdle
  <2>2. QED BY <1>2, <2>1, PromptRests DEF Obeyed, Handled
<1>3. QED BY <1>1, <1>2

\* No work is under way.
Idled(h) ==
  /\ h \in WorldType /\ h.pending = NoPending /\ h.session = NoSession
  /\ h.device.job = NoJob /\ h.device.queue = <<>> /\ Trusted(h)
  /\ h.prompts = 0 /\ ~h.stopped /\ ~h.deferred
  /\ h.pass.answers = <<>> /\ h.pass.transfers \in 0 .. 1

\* Without work there is nothing to be found of an earlier request.
LEMMA ListeningIsIdle ==
  ASSUME NEW w, Listening(w), ~Busy(w)
  PROVE  Idled(w) /\ w.pass.transfers = 0
BY DEF Listening, Sound, Correlated, Busy, JobActive, NewPass, Idled

\* A command that starts no work leaves a world for the prompt.
LEMMA IdledIsHandled ==
  ASSUME NEW h, Idled(h)
  PROVE  Handled(h)
<1>1. NoPending.owner = "NONE" /\ NoSession.kind = "NONE"
  BY DEF NoPending, NoSession
<1>2. QED BY <1>1 DEF Idled, Handled, Sound, Correlated, Busy, JobActive, Fresh

\* The commands that bind the driver, distrust what it wrote, and change
\* the bus.
LEMMA BindingIdles ==
  ASSUME NEW w, Idled(w)
  PROVE  /\ Idled(BindDevice(w)) /\ Idled([EndDevice(w) EXCEPT !.pending = NoPending])
         /\ Idled(InvalidateAppliedState(w))
<1>1. Idled(BindDevice(w))
  BY EmptySeq DEF Idled, BindDevice, NoDevice, Passing, Failing, WorldType, DeviceType, JobType,
                  Status, Applied, Trusted
<1>2. Idled([EndDevice(w) EXCEPT !.pending = NoPending])
  BY EmptySeq DEF Idled, EndDevice, NoDevice, WorldType, DeviceType, JobType, Status, Applied,
                  Trusted
<1>3. Idled(InvalidateAppliedState(w))
  BY DEF Idled, InvalidateAppliedState, CancelJob, Passing, JobActive, WorldType, DeviceType,
         Status, Applied, Trusted
<1>4. QED BY <1>1, <1>2, <1>3

\* bus_recover: the bus is reopened, and what was written no longer trusted.
LEMMA RecoveryIdles ==
  ASSUME NEW w, Idled(w), NEW io \in IO
  PROVE  Idled(InvalidateAppliedState(RecoverBus(w, io)))
<1> DEFINE v == RecoverBus(w, io)
           x == InvalidateAppliedState(v)
<1>1. /\ v \in WorldType
      /\ v.device.job = w.device.job /\ v.device.queue = w.device.queue
      /\ v.device.bound = w.device.bound /\ v.device.applied = w.device.applied
      /\ v.pending = w.pending /\ v.session = w.session /\ v.deferred = w.deferred
      /\ v.prompts = w.prompts /\ v.stopped = w.stopped /\ v.pass = w.pass
  BY DEF Idled, RecoverBus, Passing, Failing, WorldType, DeviceType, Status
<1> HIDE DEF v
<1>2. /\ x \in WorldType /\ x.device = [v.device EXCEPT !.applied = "UNKNOWN"]
      /\ x.pending = v.pending /\ x.session = v.session /\ x.deferred = v.deferred
      /\ x.prompts = v.prompts /\ x.stopped = v.stopped /\ x.pass = v.pass
  BY <1>1, InvalidationDistrusts DEF Idled
<1> HIDE DEF x
<1>3. /\ x.device.job = v.device.job /\ x.device.queue = v.device.queue
      /\ x.device.applied = "UNKNOWN"
  BY <1>1, <1>2 DEF WorldType, DeviceType
<1>4. Idled(x)
  BY <1>1, <1>2, <1>3 DEF Idled, Trusted
<1>5. QED BY <1>4 DEF v, x

\* bus_freq: another frequency, or an error, distrusts the profile.
LEMMA FrequencyIdles ==
  ASSUME NEW w, Idled(w), NEW io \in IO, NEW hz \in Hz
  PROVE  LET v == SetFrequency(w, hz, io)
         IN  Idled(IF v.device.bound /\ (v.status # "OK" \/ w.bus.hz # v.bus.hz)
                   THEN InvalidateAppliedState(v) ELSE v)
<1> DEFINE v == SetFrequency(w, hz, io)
<1>1. /\ v \in WorldType
      /\ v.device.job = w.device.job /\ v.device.queue = w.device.queue
      /\ v.device.bound = w.device.bound /\ v.device.applied = w.device.applied
      /\ v.pending = w.pending /\ v.session = w.session /\ v.nextId = w.nextId
      /\ v.deferred = w.deferred /\ v.prompts = w.prompts /\ v.stopped = w.stopped
      /\ v.pass = w.pass
      /\ v.device.sameBus # w.device.sameBus => v.status = "OK" /\ v.bus.hz # w.bus.hz
  BY FrequencyChanges DEF Idled
<1> HIDE DEF v
<1>2. CASE v.device.bound /\ (v.status # "OK" \/ w.bus.hz # v.bus.hz)
  <2> DEFINE x == InvalidateAppliedState(v)
  <2>1. /\ x \in WorldType /\ x.device = [v.device EXCEPT !.applied = "UNKNOWN"]
        /\ x.pending = v.pending /\ x.session = v.session /\ x.deferred = v.deferred
        /\ x.prompts = v.prompts /\ x.stopped = v.stopped /\ x.pass = v.pass
    BY <1>1, InvalidationDistrusts DEF Idled
  <2> HIDE DEF x
  <2>2. /\ x.device.job = v.device.job /\ x.device.queue = v.device.queue
        /\ x.device.applied = "UNKNOWN"
    BY <1>1, <2>1 DEF WorldType, DeviceType
  <2>3. Idled(x)
    BY <1>1, <2>1, <2>2 DEF Idled, Trusted
  <2>4. QED BY <1>2, <2>3 DEF v, x
<1>3. CASE ~(v.device.bound /\ (v.status # "OK" \/ w.bus.hz # v.bus.hz))
  <2>1. Idled(v)
    BY <1>1, <1>3 DEF Idled, Trusted
  <2>2. QED BY <1>3, <2>1 DEF v
<1>4. QED BY <1>2, <1>3

\* The immediate commands.
LEMMA ImmediateIdles ==
  ASSUME NEW w, Idled(w), w.pass.transfers = 0, NEW io \in IO, NEW fate \in Fate
  PROVE  /\ Idled(DirectRead(w, io)) /\ Idled(ReadIntb(w, io))
         /\ Idled(SetSleeping(w, "ACTIVE", "SLEEPING", io, fate))
         /\ Idled(SetSleeping(w, "SLEEPING", "ACTIVE", io, fate))
         /\ \A reset : Idled(WriteRegister(w, reset, io, fate))
<1> DEFINE c == Counted(w)
<1>1. Idled(c) /\ c.device = w.device
  BY DEF Idled, Counted, WorldType, PassType, Trusted
<1>2. ASSUME NEW v, Reads(w, v) PROVE Idled(v)
  BY <1>2 DEF Idled, Reads, Trusted
<1>3. Idled(DirectRead(w, io)) /\ Idled(ReadIntb(w, io))
  BY <1>2, CallsRead DEF Idled
<1> HIDE DEF c
<1>4. ASSUME NEW v, Idled(v), NEW status \in Status
      PROVE  /\ Idled([v EXCEPT !.status = status])
             /\ \A a \in Applied : (a \in {"SLEEPING", "ACTIVE"} => v.device.sameBus) /\ v.device.bound
                  => Idled([v EXCEPT !.device.applied = a])
  BY <1>4 DEF Idled, WorldType, DeviceType, Trusted
<1>5. ASSUME NEW from \in {"SLEEPING", "ACTIVE"}, NEW to \in {"SLEEPING", "ACTIVE"}
      PROVE  Idled(SetSleeping(w, from, to, io, fate))
  <2>1. CASE ~w.device.bound \/ JobActive(w) \/ w.device.applied = to \/ w.device.applied # from
    BY <1>4, <2>1 DEF SetSleeping, Passing, Failing, Status
  <2>2. CASE w.device.bound /\ ~JobActive(w) /\ w.device.applied # to /\ w.device.applied = from
    <3>1. w.device.sameBus /\ {from, to, "DIRTY"} \subseteq Applied
      BY <2>2 DEF Idled, Trusted, Applied
    <3>2. /\ Idled([c EXCEPT !.device.applied = to]) /\ Idled([c EXCEPT !.device.applied = from])
          /\ Idled([c EXCEPT !.device.applied = "DIRTY"])
      BY <1>1, <1>4, <2>2, <3>1 DEF Status
    <3>3. c.device.applied = from
      BY <1>1, <2>2
    <3>4. Idled([c EXCEPT !.device.applied = IF fate = "keep" THEN @ ELSE "DIRTY"])
      BY <3>2, <3>3
    <3>5. QED BY <1>4, <2>2, <3>2, <3>4 DEF SetSleeping, Passing, Failing, Status, c
  <2>3. QED BY <2>1, <2>2
<1>6. ASSUME NEW reset PROVE Idled(WriteRegister(w, reset, io, fate))
  <2>1. CASE ~w.device.bound \/ JobActive(w) \/ (~Reaches(w, io) /\ fate = "keep")
    BY <1>1, <1>4, <2>1 DEF WriteRegister, Failing, Status, c
  <2>2. CASE ~(~w.device.bound \/ JobActive(w) \/ (~Reaches(w, io) /\ fate = "keep"))
    <3> DEFINE a == IF reset \/ c.device.applied = "UNKNOWN" THEN "UNKNOWN" ELSE "DIRTY"
               t == IF Reaches(w, io) THEN "OK" ELSE "ERROR"
    <3>1. a \in Applied /\ a \notin {"SLEEPING", "ACTIVE"} /\ t \in Status
      BY DEF Applied, Status
    <3>2. WriteRegister(w, reset, io, fate) = [c EXCEPT !.status = t, !.device.applied = a]
      <4>1. WriteRegister(w, reset, io, fate)
              = [c EXCEPT !.status = t,
                          !.device.applied = IF reset \/ @ = "UNKNOWN" THEN "UNKNOWN" ELSE "DIRTY"]
        BY <2>2 DEF WriteRegister, c
      <4>2. QED BY <4>1, <1>1 DEF Idled, WorldType
    <3> HIDE DEF a, t
    <3>3. Idled([c EXCEPT !.status = t, !.device.applied = a])
      BY <1>1, <3>1, <2>2 DEF Idled, WorldType, DeviceType, Trusted
    <3>4. QED BY <3>2, <3>3
  <2>3. QED BY <2>1, <2>2
<1>7. QED BY <1>3, <1>5, <1>6

\* A job is pending exactly when it has started.
LEMMA CommandJobHandled ==
  ASSUME NEW w, Idled(w), w.pass.transfers = 0, NEW kind \in JobKind, NEW mask,
         NEW deadline \in Nat
  PROVE  Handled(ScheduleCommandJob(w, kind, mask, deadline))
<1> DEFINE a == [w EXCEPT !.nextId = NextId(@)]
           b == StartJob(a, kind, w.nextId, mask, deadline)
           p == [owner |-> "COMMAND", id |-> w.nextId, kind |-> kind]
           c == [b EXCEPT !.deferred = TRUE, !.pending = p]
<1>1. ~Busy(w) /\ w \in WorldType /\ w.nextId \in Nat /\ NoPending.owner = "NONE"
      /\ NoSession.kind = "NONE"
  BY DEF Idled, Busy, JobActive, WorldType, NoPending, NoSession
<1>2. /\ a \in WorldType
      /\ a.device = w.device /\ a.bus = w.bus /\ a.pending = w.pending /\ a.session = w.session
      /\ a.deferred = w.deferred /\ a.prompts = w.prompts /\ a.stopped = w.stopped
      /\ a.pass = w.pass
  BY <1>1, NextIdType DEF WorldType
<1>3. ScheduleCommandJob(w, kind, mask, deadline) = IF b.status # "IN_PROGRESS" THEN b ELSE c
  BY <1>1 DEF ScheduleCommandJob
<1> HIDE DEF a
<1>4. Started(a, b, kind, w.nextId)
  BY <1>1, <1>2, JobsStart DEF StartJob, Admissible
<1>5. p \in PendingType /\ p # NoPending /\ p.owner = "COMMAND" /\ p.id = w.nextId /\ p.kind = kind
  BY <1>1 DEF PendingType, NoPending
<1> HIDE DEF b, p
<1>6. /\ c \in WorldType /\ c.pending = p /\ c.device = b.device /\ c.bus = b.bus
      /\ c.session = b.session /\ c.deferred /\ c.prompts = b.prompts
      /\ c.stopped = b.stopped /\ c.pass = b.pass
  BY <1>4, <1>5 DEF WorldType, Started
<1> HIDE DEF c
<1>7. b.device.queue = <<>> /\ b.device.bound = w.device.bound
      /\ b.device.applied = w.device.applied /\ b.device.sameBus = w.device.sameBus
  BY <1>1, <1>2, <1>4 DEF WorldType, DeviceType, Started, Idled
<1>8. CASE b.status # "IN_PROGRESS"
  <2>1. Idled(b)
    BY <1>2, <1>4, <1>8 DEF Started, Idled, Trusted
  <2>2. QED BY <1>3, <1>8, <2>1, IdledIsHandled
<1>9. CASE b.status = "IN_PROGRESS"
  <2>1. Sound(c) /\ Busy(c)
    BY <1>1, <1>2, <1>4, <1>5, <1>6, <1>7, <1>9
       DEF Started, Idled, Sound, Correlated, Trusted, Busy
  <2>2. Handled(c)
    BY <1>2, <1>4, <1>6, <1>7, <2>1 DEF Started, Idled, Handled, Fresh
  <2>3. QED BY <1>3, <1>9, <2>2
<1>10. QED BY <1>8, <1>9

\* A session has started, or an error has been answered.
LEMMA SessionHandled ==
  ASSUME NEW w, Idled(w), w.pass.transfers = 0, NEW kind \in SessionKind, NEW count \in Nat,
         NEW mask, NEW period \in Nat
  PROVE  Handled(StartSession(w, kind, count, mask, period))
<1> DEFINE left == IF kind = "SOAK" THEN count ELSE 0
           home == IF kind = "STRESS_BUS_FREQ" THEN w.bus.hz ELSE 0
           s == [NoSession EXCEPT !.kind = kind, !.phase = InitialPhase[kind], !.count = count,
                                  !.period = period, !.left = left, !.home = home]
           v == [w EXCEPT !.status = "IN_PROGRESS", !.deferred = TRUE, !.session = s]
<1>1. w \in WorldType /\ NoPending.owner = "NONE" /\ NoSession.kind = "NONE"
  BY DEF Idled, NoPending, NoSession
<1>2. InitialPhase[kind] \in Phase
  BY DEF InitialPhase, Phase
<1>3. left \in Nat /\ home \in Hz
  BY <1>1 DEF Hz, WorldType
<1> HIDE DEF left, home
<1>4. s \in SessionType /\ s.kind = kind
  BY <1>2, <1>3, NoSessionType DEF SessionType
<1> HIDE DEF s
<1>5. kind # "NONE"
  BY DEF SessionKind, Sampling
<1>6. /\ v \in WorldType /\ v.session = s /\ v.deferred /\ v.device = w.device
      /\ v.bus = w.bus /\ v.pending = w.pending /\ v.prompts = w.prompts
      /\ v.stopped = w.stopped /\ v.pass = w.pass
  BY <1>1, <1>4 DEF WorldType, Status
<1>7. StartSession(w, kind, count, mask, period)
        = IF MayStart(w, kind, mask) THEN v ELSE Failing(w)
  BY DEF StartSession, s, left, home
<1> HIDE DEF v
<1>8. Handled(v)
  <2>1. s # NoSession
    BY <1>1, <1>4, <1>5
  <2>2. Sound(v) /\ Busy(v)
    BY <1>1, <1>4, <1>5, <1>6, <2>1 DEF Idled, Sound, Correlated, Trusted, Busy
  <2>3. QED BY <1>6, <2>2 DEF Idled, Handled, Fresh
<1>9. Idled(Failing(w))
  BY <1>1 DEF Idled, Failing, WorldType, Status, Trusted
<1>10. QED BY <1>7, <1>8, <1>9, IdledIsHandled

\* Lines that change nothing.
LEMMA QuietLinesObey ==
  ASSUME NEW w, Listening(w)
  PROVE  Obeyed(w, QueryCommand(w)) /\ Obeyed(w, LineTooLong(w))
<1>1. CASE Busy(w)
  <2>1. QueryCommand(w) = WhenIdle(w, w) /\ LineTooLong(w) = WhenIdle(w, w)
    BY <1>1 DEF QueryCommand, LineTooLong, WhenIdle, PromptForState
  <2>2. QED BY <1>1, <2>1, WhenIdleObeys
<1>2. CASE ~Busy(w)
  <2>1. Handled(w)
    BY <1>2, ListeningIsIdle, IdledIsHandled
  <2>2. QueryCommand(w) = WhenIdle(w, w) /\ LineTooLong(w) = WhenIdle(w, w)
    BY <1>2, <2>1, PromptRests DEF QueryCommand, LineTooLong, WhenIdle
  <2>3. QED BY <2>1, <2>2, WhenIdleObeys
<1>3. QED BY <1>1, <1>2

\* A session told to stop.
Told(w) == [w EXCEPT !.session.stopRequested = TRUE]

\* Telling a session to stop changes nothing else.
LEMMA ToldFacts ==
  ASSUME NEW w, Sound(w), w.session # NoSession
  PROVE  /\ Sound(Told(w)) /\ Elsewhere(w, Told(w)) /\ Told(w).session # NoSession
         /\ Told(w).session.stopRequested
<1>1. w.session.kind # "NONE" /\ w \in WorldType
  BY DEF Sound
<1>2. /\ Told(w) \in WorldType /\ Elsewhere(w, Told(w)) /\ Told(w).session.stopRequested
      /\ Told(w).session.kind = w.session.kind
  BY <1>1 DEF Told, WorldType, SessionType, Elsewhere
<1>3. Told(w).session # NoSession
  BY <1>1, <1>2 DEF NoSession
<1>4. QED BY <1>1, <1>2, <1>3 DEF Elsewhere, Sound, Correlated, Trusted

\* A job that is cancelled leaves its result, and one that has left its
\* result is left alone.
LEMMA CancelConcludes ==
  ASSUME NEW w, Sound(w), w.pending # NoPending,
         w.device.job = NoJob /\ w.session = NoSession => w.device.queue[1].outcome = "CANCELLED"
  PROVE  LET v == CancelJob(w)
         IN  /\ Sound(v) /\ v.session = w.session /\ v.pending = w.pending
             /\ v.device.job = NoJob /\ v.bus = w.bus
             /\ v.session = NoSession => v.device.queue[1].outcome = "CANCELLED"
             /\ v.deferred = w.deferred /\ v.prompts = w.prompts /\ v.stopped = w.stopped
             /\ v.pass = w.pass
<1> DEFINE f == FinishJob(w, "CANCELLED", "none")
           y == IF JobActive(w) THEN f ELSE w
           v == CancelJob(w)
<1>1. w \in WorldType /\ w.device \in DeviceType
  BY DEF Sound, WorldType
<1>2. /\ y \in WorldType /\ y.device.job = NoJob /\ Len(y.device.queue) = 1
      /\ y.device.queue[1].id = w.pending.id /\ y.device.queue[1].kind = w.pending.kind
      /\ w.session = NoSession => y.device.queue[1].outcome = "CANCELLED"
      /\ y.device.bound = w.device.bound /\ y.device.applied = w.device.applied
      /\ y.device.sameBus = w.device.sameBus
      /\ y.bus = w.bus /\ y.pending = w.pending /\ y.session = w.session
      /\ y.deferred = w.deferred /\ y.prompts = w.prompts /\ y.stopped = w.stopped
      /\ y.pass = w.pass
  <2>1. CASE JobActive(w)
    <3>1. w.device.job # NoJob /\ w.device.queue = <<>>
          /\ w.device.job.id = w.pending.id /\ w.device.job.kind = w.pending.kind
      BY <2>1 DEF JobActive, Sound, Correlated
    <3>2. Concluded(w, f, "CANCELLED")
      BY <1>1, <3>1, FinishedJob DEF Outcome, Batch
    <3> HIDE DEF f
    <3>3. /\ f.device.job = NoJob /\ f.device.applied = w.device.applied
          /\ f.device.sameBus = w.device.sameBus /\ f.device.bound = w.device.bound
      BY <1>1, <3>2 DEF Concluded, DeviceType
    <3>4. QED BY <2>1, <3>1, <3>2, <3>3 DEF Concluded
  <2>2. CASE ~JobActive(w)
    BY <1>1, <2>2 DEF JobActive, Sound, Correlated
  <2>3. QED BY <2>1, <2>2
<1> HIDE DEF y
<1>3. v = [y EXCEPT !.status = "OK"]
  BY DEF CancelJob, Passing, y
<1>4. /\ v \in WorldType /\ v.device = y.device /\ v.bus = y.bus /\ v.pending = y.pending
      /\ v.session = y.session /\ v.deferred = y.deferred /\ v.prompts = y.prompts
      /\ v.stopped = y.stopped /\ v.pass = y.pass
  BY <1>2, <1>3 DEF WorldType, Status
<1> HIDE DEF v
<1>5. Sound(v)
  BY <1>2, <1>4 DEF Sound, Correlated, Trusted
<1>6. QED BY <1>2, <1>4, <1>5 DEF v

\* What is stopped waits for its answer, which is a cancellation, or has it.
LEMMA StopStops ==
  ASSUME NEW w, Listening(w)
  PROVE  LET z == StopActiveWork(w)
         IN  /\ ~Busy(w) => z = w
             /\ Busy(w) =>
                  \/ /\ Sound(z) /\ Stopping(z) /\ z.prompts = 0 /\ z.pass = w.pass
                  \/ /\ Ends(w, z) /\ z.pass.transfers = 0
                     /\ Len(z.pass.answers) = 1 /\ z.pass.answers[1].outcome = "CANCELLED"
<1> DEFINE z == StopActiveWork(w)
           q == Told(w)
           Waits(x) == Sound(x) /\ Stopping(x) /\ x.prompts = 0 /\ x.pass = w.pass
<1>1. Sound(w) /\ w.prompts = 0 /\ w.pass = NewPass /\ NoPending.owner = "NONE"
      /\ w.pending \in PendingType
  BY DEF Listening, Sound, WorldType, NoPending
<1>2. CASE w.session = NoSession /\ w.pending.owner = "COMMAND"
  <2>1. w.pending # NoPending /\ Busy(w)
    BY <1>1, <1>2 DEF Busy
  <2>2. w.device.job = NoJob => w.device.queue[1].outcome = "CANCELLED"
    <3>1. SUFFICES ASSUME w.device.job = NoJob PROVE w.device.queue[1].outcome = "CANCELLED"
      OBVIOUS
    <3>2. w.device.queue # <<>>
      BY <1>1, <2>1, <3>1, EmptySeq DEF Sound, Correlated
    <3>3. QED BY <1>2, <3>2 DEF Listening, Stopping
  <2>3. z = CancelJob(w)
    BY <1>2 DEF StopActiveWork
  <2> HIDE DEF z
  <2>4. Waits(z)
    BY <1>1, <1>2, <2>1, <2>2, <2>3, CancelConcludes DEF Stopping
  <2>5. QED BY <2>1, <2>4 DEF z
<1>3. CASE w.session = NoSession /\ w.pending.owner # "COMMAND"
  <2>1. w.pending = NoPending
    BY <1>1, <1>3 DEF PendingType, Sound, Correlated
  <2>2. ~Busy(w)
    BY <1>1, <1>3, <2>1 DEF Busy, JobActive, Sound, Correlated
  <2>3. z = w
    BY <1>3 DEF StopActiveWork
  <2>4. QED BY <2>2, <2>3
<1>4. CASE w.session # NoSession /\ w.pending.owner = "SESSION" /\ JobActive(w)
  <2>1. w.pending # NoPending /\ Busy(w) /\ w.device.job # NoJob
    BY <1>1, <1>4 DEF Busy, JobActive
  <2>2. z = CancelJob(q)
    BY <1>4 DEF StopActiveWork, StopSession, Told
  <2>3. Sound(q) /\ Elsewhere(w, q) /\ q.session # NoSession /\ q.session.stopRequested
    BY <1>1, <1>4, ToldFacts
  <2> HIDE DEF z, q
  <2>4. Waits(z)
    BY <1>1, <2>1, <2>2, <2>3, CancelConcludes DEF Stopping, Elsewhere
  <2>5. QED BY <2>1, <2>4 DEF z
<1>5. CASE w.session # NoSession /\ w.pending = NoPending
  <2>1. Busy(w)
    BY <1>5 DEF Busy
  <2>2. z = FinishCancelled(q)
    BY <1>1, <1>5 DEF StopActiveWork, StopSession, Told
  <2>3. Sound(q) /\ Elsewhere(w, q) /\ q.session # NoSession
    BY <1>1, <1>5, ToldFacts
  <2> HIDE DEF z
  <2>4. w.pass.transfers = 0 /\ w.pass.answers = <<>>
    BY <1>1 DEF NewPass
  <2> DEFINE v == FinishSession(q, "CANCELLED", "CANCELLED")
  <2>5. w \in WorldType
    BY <1>1 DEF Sound
  <2>6. w.session.kind = q.session.kind
    BY <2>5 DEF Told, WorldType, SessionType
  <2> HIDE DEF q, v
  <2>7. Active(q) /\ Moves(q, q, 1)
    BY <1>5, <2>3, <2>4 DEF Active, Elsewhere, Moves, SameSession
  <2>8. /\ Ends(q, v) /\ v.pass.transfers = q.pass.transfers
        /\ \E a \in AnswerType : a.outcome = "CANCELLED" /\ v.pass.answers = Append(q.pass.answers, a)
    BY <2>7, FinishEnds DEF v, Code, Outcome
  <2>9. PICK a \in AnswerType : a.outcome = "CANCELLED" /\ v.pass.answers = Append(<<>>, a)
    BY <2>3, <2>4, <2>8 DEF Elsewhere
  <2>10. Len(v.pass.answers) = 1 /\ v.pass.answers[1].outcome = "CANCELLED"
    BY <2>9, EmptySeq, AppendProperties
  <2>11. Ends(w, v)
    BY <2>3, <2>8 DEF Ends, Elsewhere
  <2>12. z = v
    BY <2>2 DEF FinishCancelled, v
  <2>13. QED BY <2>1, <2>3, <2>4, <2>8, <2>10, <2>11, <2>12 DEF z, Elsewhere
<1>6. CASE w.session # NoSession /\ w.pending # NoPending /\ ~(w.pending.owner = "SESSION" /\ JobActive(w))
  <2>1. w.device.job = NoJob /\ Busy(w)
    BY <1>1, <1>6 DEF Sound, Correlated, PendingType, JobActive, Busy
  <2>2. z = q
    BY <1>6 DEF StopActiveWork, StopSession, Told
  <2>3. Sound(q) /\ Elsewhere(w, q) /\ q.session # NoSession /\ q.session.stopRequested
    BY <1>1, <1>6, ToldFacts
  <2> HIDE DEF z, q
  <2>4. Waits(z)
    BY <1>1, <1>6, <2>1, <2>2, <2>3 DEF Stopping, Elsewhere
  <2>5. QED BY <2>1, <2>4 DEF z
<1>7. w.pending = NoPending \/ w.pending.owner \in {"COMMAND", "SESSION"}
  BY <1>1 DEF PendingType
<1>8. QED BY <1>2, <1>3, <1>4, <1>5, <1>6, <1>7

\* A cancel command stops the work, and leaves its answer or a result that waits.
LEMMA CancelObeys ==
  ASSUME NEW w, Listening(w)
  PROVE  Obeyed(w, CancelCommand(w))
<1> DEFINE z == StopActiveWork(w)
           v == [z EXCEPT !.stopped = Busy(w)]
           x == CancelCommand(w)
<1>1. Sound(w) /\ w.prompts = 0 /\ w.pass = NewPass /\ w \in WorldType
  BY DEF Listening, Sound
<1>2. w.pass.transfers = 0 /\ w.pass.answers = <<>> /\ Len(<<>>) = 0
  BY <1>1, EmptySeq DEF NewPass
<1>3. x = Answered(IF Busy(v) THEN [v EXCEPT !.deferred = TRUE]
                   ELSE Prompt([v EXCEPT !.deferred = FALSE]))
  BY DEF CancelCommand
<1>4. /\ ~Busy(w) => z = w
      /\ Busy(w) =>
           \/ /\ Sound(z) /\ Stopping(z) /\ z.prompts = 0 /\ z.pass = w.pass
           \/ /\ Ends(w, z) /\ z.pass.transfers = 0
              /\ Len(z.pass.answers) = 1 /\ z.pass.answers[1].outcome = "CANCELLED"
  BY StopStops
<1> HIDE DEF z
<1>5. Sound(z) /\ z.prompts = 0 /\ z \in WorldType
  BY <1>1, <1>4 DEF Ends, Sound
<1>6. /\ v \in WorldType /\ (v.stopped <=> Busy(w)) /\ v.device = z.device /\ v.bus = z.bus
      /\ v.pending = z.pending /\ v.session = z.session /\ v.deferred = z.deferred
      /\ v.prompts = 0 /\ v.pass = z.pass
  BY <1>5 DEF WorldType, Busy, JobActive
<1> HIDE DEF v
<1>7. Busy(v) <=> Busy(z)
  BY <1>6 DEF Busy, JobActive
<1>8. CASE Busy(v)
  <2> DEFINE y == [v EXCEPT !.deferred = TRUE]
  <2>1. Busy(w) /\ Sound(z) /\ Stopping(z) /\ z.pass = w.pass
    BY <1>4, <1>7, <1>8, ListeningIsIdle DEF Ends, Sound, Correlated, Busy, JobActive
  <2>2. /\ y \in WorldType /\ y.stopped = v.stopped /\ y.device = v.device /\ y.bus = v.bus
        /\ y.pending = v.pending /\ y.session = v.session /\ y.deferred
        /\ y.prompts = v.prompts /\ y.pass = v.pass
    BY <1>6 DEF WorldType
  <2>3. Busy(y)
    BY <1>8, <2>2 DEF Busy, JobActive
  <2>4. x = y
    BY <1>3, <1>8, <2>3 DEF Answered
  <2> HIDE DEF y, x
  <2>5. Sound(y) /\ Stopping(y)
    BY <1>6, <2>1, <2>2 DEF Sound, Correlated, Trusted, Stopping
  <2>6. QED BY <1>2, <1>6, <2>1, <2>2, <2>3, <2>4, <2>5 DEF Obeyed, Rest, Fresh, x
<1>9. CASE ~Busy(v)
  <2> DEFINE d == [v EXCEPT !.deferred = FALSE]
             y == [d EXCEPT !.prompts = 1]
             o == [y EXCEPT !.stopped = FALSE]
  <2>1. d.prompts = 0
    BY <1>6 DEF WorldType
  <2>2. (IF d.prompts < 2 THEN d.prompts + 1 ELSE d.prompts) = 1
    BY <2>1
  <2>3. Prompt(d) = y
    BY <2>2 DEF Prompt
  <2>4. ~Busy(y)
    BY <1>6, <1>9 DEF Busy, JobActive, WorldType
  <2>5. x = o
    BY <1>3, <1>9, <2>3, <2>4 DEF Answered
  <2>6. /\ o \in WorldType /\ ~o.stopped /\ o.device = v.device /\ o.bus = v.bus
        /\ o.pending = v.pending /\ o.session = v.session /\ ~o.deferred
        /\ o.prompts = 1 /\ o.pass = v.pass
    BY <1>6 DEF WorldType
  <2> HIDE DEF d, y, o, x
  <2>7. Sound(o) /\ ~Busy(o)
    BY <1>5, <1>6, <1>9, <2>6 DEF Sound, Correlated, Trusted, Busy, JobActive
  <2>8. o.device.queue = <<>>
    BY <2>7 DEF Sound, Correlated, Busy
  <2>9. CASE Busy(w)
    <3>1. ~Stopping(z)
      BY <1>6, <1>7, <1>9 DEF Stopping, Busy
    <3>2. z.pass.transfers = 0 /\ Len(z.pass.answers) = 1 /\ z.pass.answers[1].outcome = "CANCELLED"
      BY <1>4, <2>9, <3>1
    <3>3. QED BY <1>6, <2>5, <2>6, <2>7, <2>8, <2>9, <3>2 DEF Obeyed, Rest, Fresh, x
  <2>10. CASE ~Busy(w)
    BY <1>2, <1>4, <1>6, <2>5, <2>6, <2>7, <2>8, <2>10 DEF Obeyed, Rest, Fresh, x
  <2>11. QED BY <2>9, <2>10
<1>10. QED BY <1>8, <1>9

\* Every command.
LEMMA CommandsObey ==
  ASSUME NEW w, Listening(w), NEW io \in IO, NEW fate \in Fate, NEW deadline \in Nat,
         NEW count \in Nat, NEW period \in Nat, NEW hz \in Hz, NEW mask, NEW reset
  PROVE  /\ Obeyed(w, BindCommand(w)) /\ Obeyed(w, EndCommand(w)) /\ Obeyed(w, InvalidateCommand(w))
         /\ Obeyed(w, BusRecoverCommand(w, io)) /\ Obeyed(w, BusFrequencyCommand(w, hz, io))
         /\ Obeyed(w, InitCommand(w, deadline)) /\ Obeyed(w, ApplyCommand(w, deadline))
         /\ Obeyed(w, ResetCommand(w, deadline)) /\ Obeyed(w, ReadCommand(w, mask))
         /\ Obeyed(w, SleepCommand(w, io, fate)) /\ Obeyed(w, WakeCommand(w, io, fate))
         /\ Obeyed(w, StatusCommand(w, io)) /\ Obeyed(w, IntbCommand(w, io))
         /\ Obeyed(w, InitDriveCommand(w, io)) /\ Obeyed(w, RegisterCommand(w, io))
         /\ Obeyed(w, WriteRegisterCommand(w, reset, io, fate))
         /\ Obeyed(w, ProbeCommand(w)) /\ Obeyed(w, DiscoverCommand(w)) /\ Obeyed(w, DumpCommand(w))
         /\ Obeyed(w, VerifyCommand(w)) /\ Obeyed(w, SelfTestCommand(w))
         /\ Obeyed(w, WatchCommand(w, count, mask, period)) /\ Obeyed(w, StressCommand(w, count, mask))
         /\ Obeyed(w, SampleRateCommand(w, count, mask)) /\ Obeyed(w, StressMixCommand(w, count, mask))
         /\ Obeyed(w, StressIdCommand(w, count)) /\ Obeyed(w, StressResetCommand(w, count))
         /\ Obeyed(w, StressBusFrequencyCommand(w, count)) /\ Obeyed(w, SoakCommand(w, count, mask))
<1>1. ~Busy(w) => Idled(w) /\ w.pass.transfers = 0
  BY ListeningIsIdle
<1>2. ASSUME NEW h, ~Busy(w) => Idled(h) PROVE Obeyed(w, WhenIdle(w, h))
  BY <1>2, IdledIsHandled, WhenIdleObeys
<1>3. /\ Obeyed(w, BindCommand(w)) /\ Obeyed(w, EndCommand(w)) /\ Obeyed(w, InvalidateCommand(w))
  BY <1>1, <1>2, BindingIdles DEF BindCommand, EndCommand, InvalidateCommand
<1>4. Obeyed(w, BusRecoverCommand(w, io))
  BY <1>1, <1>2, RecoveryIdles DEF BusRecoverCommand
<1>5. Obeyed(w, BusFrequencyCommand(w, hz, io))
  BY <1>1, <1>2, FrequencyIdles DEF BusFrequencyCommand
<1>6. /\ Obeyed(w, SleepCommand(w, io, fate)) /\ Obeyed(w, WakeCommand(w, io, fate))
      /\ Obeyed(w, StatusCommand(w, io)) /\ Obeyed(w, IntbCommand(w, io))
      /\ Obeyed(w, InitDriveCommand(w, io)) /\ Obeyed(w, RegisterCommand(w, io))
      /\ Obeyed(w, WriteRegisterCommand(w, reset, io, fate))
  BY <1>1, <1>2, ImmediateIdles
     DEF SleepCommand, WakeCommand, StatusCommand, IntbCommand, InitDriveCommand,
         RegisterCommand, WriteRegisterCommand
<1>7. ASSUME NEW kind \in JobKind, NEW m, NEW d \in Nat
      PROVE  Obeyed(w, WhenIdle(w, ScheduleCommandJob(w, kind, m, d)))
  BY <1>1, <1>7, CommandJobHandled, WhenIdleObeys
<1>8. ASSUME NEW kind \in SessionKind, NEW n \in Nat, NEW m, NEW p \in Nat
      PROVE  Obeyed(w, WhenIdle(w, StartSession(w, kind, n, m, p)))
  BY <1>1, <1>8, SessionHandled, WhenIdleObeys
<1>9. {"INITIALIZE", "APPLY_CONFIG", "RESET_AND_REAPPLY", "ACQUIRE"} \subseteq JobKind /\ Deadline \in Nat
  BY DeviceAssumption DEF JobKind
<1>10. /\ Obeyed(w, InitCommand(w, deadline)) /\ Obeyed(w, ApplyCommand(w, deadline))
       /\ Obeyed(w, ResetCommand(w, deadline)) /\ Obeyed(w, ReadCommand(w, mask))
  BY <1>7, <1>9 DEF InitCommand, ApplyCommand, ResetCommand, ReadCommand
<1>11. Obeyed(w, WhenIdle(w, w))
  BY <1>1, <1>2
<1>12. {"PROBE", "DISCOVER", "DUMP", "VERIFY", "SELF_TEST", "WATCH", "SAMPLE_RATE", "STRESS_MIX",
        "STRESS_ID", "STRESS_RESET", "STRESS_BUS_FREQ", "SOAK"} \subseteq SessionKind
  BY DEF SessionKind, Sampling
<1>13. /\ Obeyed(w, ProbeCommand(w)) /\ Obeyed(w, DiscoverCommand(w)) /\ Obeyed(w, DumpCommand(w))
       /\ Obeyed(w, VerifyCommand(w)) /\ Obeyed(w, SelfTestCommand(w))
  BY <1>8, <1>12
     DEF ProbeCommand, DiscoverCommand, DumpCommand, VerifyCommand, SelfTestCommand
<1>14. /\ Obeyed(w, WatchCommand(w, count, mask, period)) /\ Obeyed(w, StressCommand(w, count, mask))
       /\ Obeyed(w, SampleRateCommand(w, count, mask)) /\ Obeyed(w, StressMixCommand(w, count, mask))
       /\ Obeyed(w, SoakCommand(w, count, mask))
  BY <1>8, <1>11, <1>12
     DEF WatchCommand, StressCommand, SampleRateCommand, StressMixCommand, SoakCommand
<1>15. /\ Obeyed(w, StressIdCommand(w, count)) /\ Obeyed(w, StressResetCommand(w, count))
       /\ Obeyed(w, StressBusFrequencyCommand(w, count))
  BY <1>8, <1>12 DEF StressIdCommand, StressResetCommand, StressBusFrequencyCommand
<1>16. QED BY <1>3, <1>4, <1>5, <1>6, <1>10, <1>13, <1>14, <1>15

-----------------------------------------------------------------------------
(* The application.                                                        *)

\* v is w but for the status.
Agrees(w, v) ==
  /\ v \in WorldType
  /\ v.device = w.device /\ v.bus = w.bus /\ v.pending = w.pending /\ v.session = w.session
  /\ v.deferred = w.deferred /\ v.nextId = w.nextId /\ v.prompts = w.prompts
  /\ v.stopped = w.stopped /\ v.pass = w.pass

\* The status does not count.
LEMMA AgreesRests ==
  ASSUME NEW w, Rest(w), NEW v, Agrees(w, v)
  PROVE  Rest(v) /\ (Busy(v) <=> Busy(w)) /\ (Fresh(v) <=> Fresh(w))
<1>1. Sound(v)
  BY DEF Agrees, Rest, Sound, Correlated, Trusted
<1>2. Busy(v) <=> Busy(w)
  BY DEF Agrees, Busy, JobActive
<1>3. QED BY <1>1, <1>2 DEF Agrees, Rest, Stopping, Fresh

\* A pass begins: with the line it has read, or with none.
LEMMA PassesBegin ==
  ASSUME NEW w, Rest(w)
  PROVE  LET e == [w EXCEPT !.prompts = 0, !.pass = NewPass]
             n == [w EXCEPT !.pass = NewPass]
         IN  /\ Listening(e) /\ (Busy(e) <=> Busy(w)) /\ e.stopped = w.stopped
             /\ Rest(n) /\ Fresh(n) /\ (Busy(n) <=> Busy(w)) /\ n.stopped = w.stopped
             /\ n.prompts = w.prompts /\ n.pass = NewPass
<1>1. w \in WorldType /\ NewPass \in PassType /\ Len(<<>>) = 0
  BY EmptySeq DEF Rest, Sound, NewPass, PassType
<1> DEFINE e == [w EXCEPT !.prompts = 0, !.pass = NewPass]
           n == [w EXCEPT !.pass = NewPass]
<1>2. /\ e \in WorldType /\ e.device = w.device /\ e.bus = w.bus /\ e.pending = w.pending
      /\ e.session = w.session /\ e.deferred = w.deferred /\ e.prompts = 0
      /\ e.stopped = w.stopped /\ e.pass = NewPass
  BY <1>1 DEF WorldType
<1>3. /\ n \in WorldType /\ n.device = w.device /\ n.bus = w.bus /\ n.pending = w.pending
      /\ n.session = w.session /\ n.deferred = w.deferred /\ n.prompts = w.prompts
      /\ n.stopped = w.stopped /\ n.pass = NewPass
  BY <1>1 DEF WorldType
<1> HIDE DEF e, n
<1>4. /\ Sound(e) /\ (Busy(e) <=> Busy(w))
      /\ Sound(n) /\ (Busy(n) <=> Busy(w))
  BY <1>2, <1>3 DEF Rest, Sound, Correlated, Trusted, Busy, JobActive
<1>5. Listening(e)
  BY <1>2, <1>4 DEF Rest, Listening, Stopping
<1>6. Rest(n) /\ Fresh(n)
  BY <1>1, <1>3, <1>4 DEF Rest, Stopping, Fresh, NewPass
<1>7. QED BY <1>2, <1>3, <1>4, <1>5, <1>6 DEF e, n

\* Time passes.
Ticked(w) ==
  [w EXCEPT !.device = [w.device EXCEPT !.job.deadline = Less(@)],
            !.session = [w.session EXCEPT !.due = Less(@), !.ready = Less(@), !.left = Less(@)]]

\* Deadlines come nearer, and nothing else changes.
LEMMA TimeRests ==
  ASSUME NEW w, Rest(w)
  PROVE  /\ Rest(Ticked(w)) /\ (Busy(Ticked(w)) <=> Busy(w)) /\ (Fresh(Ticked(w)) <=> Fresh(w))
         /\ Ticked(w).stopped = w.stopped /\ Ticked(w).prompts = w.prompts
         /\ Ticked(w).pass = w.pass /\ Ticked(w).pending = w.pending /\ Ticked(w).bus = w.bus
         /\ Ticked(w).deferred = w.deferred /\ Ticked(w).nextId = w.nextId
         /\ Ticked(w).status = w.status
         /\ Ticked(w).device = [w.device EXCEPT !.job.deadline = Less(@)]
         /\ Ticked(w).session
              = [w.session EXCEPT !.due = Less(@), !.ready = Less(@), !.left = Less(@)]
<1> DEFINE j == [w.device.job EXCEPT !.deadline = Less(@)]
           d == [w.device EXCEPT !.job = j]
           s == [w.session EXCEPT !.due = Less(@), !.ready = Less(@), !.left = Less(@)]
           x == [w EXCEPT !.device = d, !.session = s]
<1>1. w \in WorldType /\ w.device \in DeviceType /\ w.session \in SessionType
  BY DEF Rest, Sound, WorldType
<1>2. ASSUME NEW n \in Nat PROVE Less(n) \in Nat /\ (n = 0 => Less(n) = 0)
  BY <1>2 DEF Less
<1>3. /\ j \in JobType /\ (w.device.job = NoJob <=> j = NoJob)
      /\ j.id = w.device.job.id /\ j.kind = w.device.job.kind
  <2>1. CASE w.device.job = NoJob
    <3>1. j = NoJob
      BY <2>1 DEF NoJob, Less
    <3>2. QED BY <2>1, <3>1 DEF JobType
  <2>2. CASE w.device.job # NoJob
    <3>1. w.device.job \in [id : Nat, kind : JobKind, left : Nat, deadline : Nat]
      BY <1>1, <2>2 DEF DeviceType, JobType
    <3>2. /\ j \in [id : Nat, kind : JobKind, left : Nat, deadline : Nat]
          /\ j.id = w.device.job.id /\ j.kind = w.device.job.kind
      BY <1>2, <3>1
    <3>3. j.kind # NoJob.kind
      BY <3>2 DEF NoJob, JobKind
    <3>4. QED BY <2>2, <3>2, <3>3 DEF JobType
  <2>3. QED BY <2>1, <2>2
<1>4. Ticked(w) = x
  BY <1>1 DEF Ticked, DeviceType
<1> HIDE DEF j
<1>5. /\ d \in DeviceType /\ d.job = j /\ d.queue = w.device.queue /\ d.bound = w.device.bound
      /\ d.applied = w.device.applied /\ d.sameBus = w.device.sameBus
  BY <1>1, <1>3 DEF DeviceType
<1>6. /\ s \in SessionType /\ s.kind = w.session.kind
      /\ s.stopRequested = w.session.stopRequested
  BY <1>1, <1>2 DEF SessionType
<1>7. w.session = NoSession <=> s = NoSession
  <2>1. w.session.due = 0 /\ w.session.ready = 0 /\ w.session.left = 0 => s = w.session
    BY <1>1, <1>2 DEF SessionType
  <2>2. s = NoSession => w.session.kind = "NONE"
    BY <1>6 DEF NoSession
  <2>3. NoSession.due = 0 /\ NoSession.ready = 0 /\ NoSession.left = 0
    BY DEF NoSession
  <2>4. QED BY <2>1, <2>2, <2>3 DEF Rest, Sound
<1> HIDE DEF d, s
<1>8. /\ x \in WorldType /\ x.device = d /\ x.bus = w.bus /\ x.pending = w.pending /\ x.session = s
      /\ x.deferred = w.deferred /\ x.nextId = w.nextId /\ x.prompts = w.prompts
      /\ x.stopped = w.stopped /\ x.pass = w.pass /\ x.status = w.status
  BY <1>1, <1>5, <1>6 DEF WorldType
<1> HIDE DEF x
<1>9. Sound(x) /\ (Busy(x) <=> Busy(w))
  BY <1>3, <1>5, <1>6, <1>7, <1>8
     DEF Rest, Sound, Correlated, Trusted, Busy, JobActive
<1>10. Rest(x) /\ (Fresh(x) <=> Fresh(w))
  BY <1>3, <1>5, <1>6, <1>7, <1>8, <1>9 DEF Rest, Stopping, Fresh
<1>11. d = [w.device EXCEPT !.job.deadline = Less(@)]
  BY <1>1 DEF d, j, DeviceType
<1>12. QED BY <1>4, <1>8, <1>9, <1>10, <1>11 DEF s

\* The inductive invariant: between the halves of a pass the world rests, and
\* before service() the pass has made no transfer on behalf of work.
CliInv ==
  /\ Rest(World) /\ turn \in {"INPUT", "SERVICE"} /\ linesOnly \in BOOLEAN
  /\ turn = "SERVICE" => Fresh(World)

\* The variables after a step hold the world that the step has made.
LEMMA DoneAgrees ==
  ASSUME NEW w \in WorldType, Do(w)
  PROVE  Agrees(w, World')
<1>1. "OK" \in Status
  BY DEF Status
<1>2. World' \in WorldType
  BY <1>1 DEF Do, World, WorldType
<1>3. QED BY <1>2 DEF Do, World, Agrees

\* setup()
LEMMA InitCli == Init => CliInv
<1> SUFFICES ASSUME Init PROVE CliInv
  OBVIOUS
<1>1. /\ pass = NewPass /\ stopped = FALSE /\ session = NoSession
      /\ bus \in [open : BOOLEAN, hz : Hz] /\ turn = "INPUT" /\ linesOnly \in BOOLEAN
  BY DEF Init, Hz
<1>2. /\ NewPass \in PassType /\ NewPass.transfers = 0 /\ Len(NewPass.answers) = 0
      /\ NewPass.answers = <<>>
  BY EmptySeq DEF NewPass, PassType
<1>3. /\ NoDevice \in DeviceType /\ NoDevice.job = NoJob /\ NoDevice.queue = <<>>
      /\ NoDevice.applied = "UNKNOWN"
  BY EmptySeq DEF NoDevice, DeviceType, JobType, Applied
<1>4. NoPending.owner = "NONE" /\ NoSession.kind = "NONE" /\ NoPending \in PendingType
  BY DEF NoPending, NoSession, PendingType
<1>5. /\ World.device = device /\ World.bus = bus /\ World.pending = pending
      /\ World.session = session /\ World.deferred = deferred /\ World.prompts = prompts
      /\ World.stopped = stopped /\ World.pass = pass
  BY DEF World
<1>6. /\ device \in DeviceType /\ pending \in PendingType /\ nextId \in Nat
      /\ deferred \in BOOLEAN /\ prompts \in Nat
      => World \in WorldType
  BY <1>1, <1>2, NoSessionType DEF World, WorldType, Status
<1>7. CASE /\ device = NoDevice /\ pending = NoPending /\ nextId = 1
           /\ deferred = FALSE /\ prompts = 1
  <2>1. World \in WorldType
    BY <1>3, <1>4, <1>6, <1>7
  <2>2. Sound(World) /\ ~Busy(World)
    BY <1>1, <1>3, <1>4, <1>5, <1>7, <2>1 DEF Sound, Correlated, Trusted, Busy, JobActive
  <2>3. QED BY <1>1, <1>2, <1>3, <1>5, <1>7, <2>2 DEF CliInv, Rest, Fresh
<1>8. CASE /\ device = [NoDevice EXCEPT !.bound = TRUE,
                                        !.job = [id |-> 1, kind |-> "INITIALIZE",
                                                 left |-> JobTransfers, deadline |-> Deadline]]
           /\ pending = [owner |-> "COMMAND", id |-> 1, kind |-> "INITIALIZE"]
           /\ nextId = 2 /\ deferred = TRUE /\ prompts = 0
  <2> DEFINE j == [id |-> 1, kind |-> "INITIALIZE", left |-> JobTransfers, deadline |-> Deadline]
  <2>1. j \in JobType /\ j # NoJob /\ j.id = 1 /\ j.kind = "INITIALIZE"
    BY DeviceAssumption DEF JobType, JobKind, NoJob
  <2>2. /\ pending \in PendingType /\ pending # NoPending /\ pending.owner = "COMMAND"
        /\ pending.id = 1 /\ pending.kind = "INITIALIZE"
    BY <1>8 DEF PendingType, JobKind, NoPending
  <2> HIDE DEF j
  <2>3. device = [NoDevice EXCEPT !.bound = TRUE, !.job = j]
    BY <1>8 DEF j
  <2>4. /\ device \in DeviceType /\ device.job = j /\ device.queue = <<>>
        /\ device.applied = "UNKNOWN" /\ device.bound
    BY <1>3, <2>1, <2>3 DEF DeviceType
  <2>5. World \in WorldType
    BY <1>6, <1>8, <2>2, <2>4
  <2>6. Sound(World) /\ Busy(World)
    BY <1>1, <1>4, <1>5, <2>1, <2>2, <2>4, <2>5
       DEF Sound, Correlated, Trusted, Busy, JobActive
  <2>7. QED BY <1>1, <1>2, <1>5, <1>8, <2>4, <2>6 DEF CliInv, Rest, Fresh
<1>9. QED BY <1>7, <1>8 DEF Init

\* The lines of the console, all of them.
Line ==
  \/ BindingLine \/ BusLine \/ JobLine \/ ReadingLine \/ ImmediateLine
  \/ SessionLine \/ SamplingLine \/ OtherLine

\* Whatever the line, what it makes of the world is what the contract says.
LEMMA LinesObey ==
  ASSUME Rest(World), Line
  PROVE  /\ turn = "INPUT" /\ turn' \in {"INPUT", "SERVICE"}
         /\ \E w : Do(w) /\ Obeyed(Entered, w)
<1> DEFINE e == Entered
<1>1. Listening(e)
  BY PassesBegin DEF Entered
<1>2. ASSUME NEW worlds, ReadLine(worlds), \A w \in worlds : Obeyed(e, w)
      PROVE  /\ turn = "INPUT" /\ turn' \in {"INPUT", "SERVICE"}
             /\ \E w : Do(w) /\ Obeyed(e, w)
  BY <1>2 DEF ReadLine
<1> HIDE DEF e
<1>3. "ok" \in IO /\ "keep" \in Fate /\ 0 \in Nat /\ LowHz \in Hz /\ HighHz \in Hz
      /\ 1 .. Deadline \subseteq Nat /\ Counts \subseteq Nat /\ 0 .. MaxPeriod \subseteq Nat
  BY DeviceAssumption DEF IO, Fate, Hz, Counts
<1>4. CASE BindingLine
  <2>1. Obeyed(e, BindCommand(e)) /\ Obeyed(e, EndCommand(e)) /\ Obeyed(e, InvalidateCommand(e))
    BY <1>1, <1>3, CommandsObey
  <2>2. QED BY <1>2, <1>4, <2>1 DEF BindingLine, e
<1>5. CASE BusLine
  <2>1. ASSUME NEW io \in IO, NEW hz \in {LowHz, HighHz}
        PROVE  Obeyed(e, BusRecoverCommand(e, io)) /\ Obeyed(e, BusFrequencyCommand(e, hz, io))
    <3>1. hz \in Hz
      BY <1>3
    <3>2. QED BY <1>1, <1>3, <3>1, CommandsObey
  <2>2. QED BY <1>2, <1>5, <2>1 DEF BusLine, e
<1>6. CASE JobLine
  <2>1. ASSUME NEW deadline \in 1 .. Deadline
        PROVE  /\ Obeyed(e, InitCommand(e, deadline)) /\ Obeyed(e, ApplyCommand(e, deadline))
               /\ Obeyed(e, ResetCommand(e, deadline))
    BY <1>1, <1>3, CommandsObey
  <2>2. QED BY <1>2, <1>6, <2>1 DEF JobLine, e
<1>7. CASE ReadingLine
  <2>1. ASSUME NEW mask PROVE Obeyed(e, ReadCommand(e, mask))
    BY <1>1, <1>3, CommandsObey
  <2>2. QED BY <1>2, <1>7, <2>1 DEF ReadingLine, e
<1>8. CASE ImmediateLine
  <2>1. ASSUME NEW io \in IO, NEW fate \in Fate, NEW reset
        PROVE  /\ Obeyed(e, SleepCommand(e, io, fate)) /\ Obeyed(e, WakeCommand(e, io, fate))
               /\ Obeyed(e, StatusCommand(e, io)) /\ Obeyed(e, IntbCommand(e, io))
               /\ Obeyed(e, InitDriveCommand(e, io)) /\ Obeyed(e, RegisterCommand(e, io))
               /\ Obeyed(e, WriteRegisterCommand(e, reset, io, fate))
    BY <1>1, <1>3, CommandsObey
  <2>2. QED BY <1>2, <1>8, <2>1 DEF ImmediateLine, e
<1>9. CASE SessionLine
  <2>1. /\ Obeyed(e, ProbeCommand(e)) /\ Obeyed(e, DiscoverCommand(e)) /\ Obeyed(e, DumpCommand(e))
        /\ Obeyed(e, VerifyCommand(e)) /\ Obeyed(e, SelfTestCommand(e))
    BY <1>1, <1>3, CommandsObey
  <2>2. ASSUME NEW count \in Counts
        PROVE  /\ Obeyed(e, StressIdCommand(e, count)) /\ Obeyed(e, StressResetCommand(e, count))
               /\ Obeyed(e, StressBusFrequencyCommand(e, count))
    BY <1>1, <1>3, CommandsObey
  <2>3. QED BY <1>2, <1>9, <2>1, <2>2 DEF SessionLine, e
<1>10. CASE SamplingLine
  <2>1. ASSUME NEW count \in Counts, NEW mask, NEW period \in 0 .. MaxPeriod
        PROVE  Obeyed(e, WatchCommand(e, count, mask, period))
    BY <1>1, <1>3, CommandsObey
  <2>2. ASSUME NEW count \in Counts, NEW mask
        PROVE  /\ Obeyed(e, StressCommand(e, count, mask)) /\ Obeyed(e, SampleRateCommand(e, count, mask))
               /\ Obeyed(e, StressMixCommand(e, count, mask)) /\ Obeyed(e, SoakCommand(e, count, mask))
    BY <1>1, <1>3, CommandsObey
  <2>3. QED BY <1>2, <1>10, <2>1, <2>2 DEF SamplingLine, e
<1>11. CASE OtherLine
  <2>1. Obeyed(e, QueryCommand(e)) /\ Obeyed(e, LineTooLong(e)) /\ Obeyed(e, CancelCommand(e))
    BY <1>1, QuietLinesObey, CancelObeys
  <2>2. QED BY <1>2, <1>11, <2>1 DEF OtherLine, e
<1>12. QED
  BY <1>4, <1>5, <1>6, <1>7, <1>8, <1>9, <1>10, <1>11 DEF Line, e

\* Working is Busy of the present world.
LEMMA WorkIsBusy == (Working <=> Busy(World)) /\ (Working' <=> Busy(World'))
BY DEF Working, Busy, World, JobActive

\* A step that makes a world of rest of the present one, for service() too
\* when that is what comes next.
LEMMA RestsAgain ==
  ASSUME NEW w, Rest(w), Do(w), turn' \in {"INPUT", "SERVICE"}, linesOnly \in BOOLEAN,
         turn' = "SERVICE" => Fresh(w)
  PROVE  /\ CliInv' /\ (Working' <=> Busy(w))
         /\ pass' = w.pass /\ stopped' = w.stopped /\ prompts' = w.prompts
<1>1. Agrees(w, World')
  BY DoneAgrees DEF Rest, Sound
<1>2. Rest(World') /\ (Busy(World') <=> Busy(w)) /\ (Fresh(World') <=> Fresh(w))
  BY <1>1, AgreesRests
<1>3. linesOnly' = linesOnly /\ pass' = w.pass /\ stopped' = w.stopped /\ prompts' = w.prompts
  BY DEF Do
<1>4. QED BY <1>2, <1>3, WorkIsBusy DEF CliInv

\* A line, with what the theorems below need to know about it.
LEMMA LineKeeps ==
  ASSUME CliInv, Line
  PROVE  /\ CliInv' /\ turn = "INPUT"
         /\ Working' => prompts' = 0 /\ pass'.answers = <<>>
         /\ ~Working' => prompts' = 1 /\ ~stopped'
         /\ ~Working => pass'.answers = <<>> /\ ~stopped'
         /\ Working =>
              /\ pass'.transfers = 0
              /\ Working' => (stopped => stopped')
              /\ ~Working' => Len(pass'.answers) = 1 /\ pass'.answers[1].outcome = "CANCELLED"
<1>1. Rest(World) /\ linesOnly \in BOOLEAN
  BY DEF CliInv
<1>2. PICK w : Do(w) /\ Obeyed(Entered, w)
  BY <1>1, LinesObey
<1>3. turn = "INPUT" /\ turn' \in {"INPUT", "SERVICE"}
  BY <1>1, LinesObey
<1>4. (Busy(Entered) <=> Working) /\ Entered.stopped = stopped
  <2>1. World.stopped = stopped
    BY DEF World
  <2>2. QED BY <1>1, <2>1, PassesBegin, WorkIsBusy DEF Entered
<1>5. Rest(w) /\ Fresh(w)
  BY <1>2 DEF Obeyed
<1>6. /\ CliInv' /\ (Working' <=> Busy(w)) /\ pass' = w.pass /\ stopped' = w.stopped
      /\ prompts' = w.prompts
  BY <1>1, <1>2, <1>3, <1>5, RestsAgain
<1>7. QED BY <1>2, <1>3, <1>4, <1>5, <1>6 DEF Obeyed, Rest

\* A pass without a line.
LEMMA NoLineKeeps ==
  ASSUME CliInv, NoLine
  PROVE  /\ CliInv' /\ turn = "INPUT" /\ (Working' <=> Working) /\ stopped' = stopped
         /\ prompts' = prompts /\ pass' = NewPass
<1> DEFINE n == [World EXCEPT !.pass = NewPass]
<1>1. Rest(World) /\ linesOnly \in BOOLEAN
  BY DEF CliInv
<1>2. turn = "INPUT" /\ turn' = "SERVICE" /\ Do(n)
  BY DEF NoLine
<1>3. /\ Rest(n) /\ Fresh(n) /\ (Busy(n) <=> Busy(World)) /\ n.stopped = World.stopped
      /\ n.prompts = World.prompts /\ n.pass = NewPass
  BY <1>1, PassesBegin
<1> HIDE DEF n
<1>4. World.stopped = stopped /\ World.prompts = prompts
  BY DEF World
<1>5. QED BY <1>1, <1>2, <1>3, <1>4, RestsAgain, WorkIsBusy

\* service().
LEMMA ServiceKeeps ==
  ASSUME CliInv, ServiceStep
  PROVE  /\ CliInv' /\ turn = "SERVICE" /\ turn' = "INPUT"
         /\ Working' => prompts' = 0 /\ pass'.answers = <<>>
         /\ ~Working' => prompts' = 1 /\ ~stopped'
         /\ ~Working => ~Working' /\ pass' = pass
         /\ Working /\ ~Working' => Len(pass'.answers) = 1 /\ pass'.answers[1].outcome \in Outcome
         /\ stopped => /\ ~Working' /\ pass'.transfers = 0
                       /\ pass'.answers[1].outcome = "CANCELLED"
<1>1. Rest(World) /\ linesOnly \in BOOLEAN /\ turn = "SERVICE" /\ turn' = "INPUT" /\ Fresh(World)
  BY DEF CliInv, ServiceStep
<1>2. PICK io \in IO, fate \in Fate : Do(Service(World, io, fate))
  BY DEF ServiceStep
<1> DEFINE x == Service(World, io, fate)
<1>3. /\ Rest(x)
      /\ ~Busy(World) => ~Busy(x) /\ x.pass = World.pass
      /\ Busy(World) => Served(World, x)
      /\ World.stopped => /\ ~Busy(x) /\ x.pass.transfers = 0
                          /\ x.pass.answers[1].outcome = "CANCELLED"
  BY <1>1, ServiceServes
<1>4. Do(x)
  BY <1>2
<1> HIDE DEF x
<1>5. World.stopped = stopped /\ World.pass = pass
  BY DEF World
<1>6. /\ CliInv' /\ (Working' <=> Busy(x)) /\ pass' = x.pass /\ stopped' = x.stopped
      /\ prompts' = x.prompts
  BY <1>1, <1>3, <1>4, RestsAgain
<1>7. QED BY <1>1, <1>3, <1>5, <1>6, WorkIsBusy DEF Served, Rest

\* Time.
LEMMA TickKeeps ==
  ASSUME CliInv, Tick
  PROVE  /\ CliInv' /\ (Working' <=> Working) /\ stopped' = stopped /\ prompts' = prompts
         /\ pass' = pass /\ turn' = turn
<1>1. Rest(World)
  BY DEF CliInv
<1> DEFINE x == Ticked(World)
<1>2. /\ World.device = device /\ World.bus = bus /\ World.pending = pending
      /\ World.session = session /\ World.deferred = deferred /\ World.nextId = nextId
      /\ World.prompts = prompts /\ World.stopped = stopped /\ World.pass = pass
      /\ World.status = "OK"
  BY DEF World
<1>3. /\ Rest(x) /\ (Busy(x) <=> Busy(World)) /\ (Fresh(x) <=> Fresh(World))
      /\ x.stopped = stopped /\ x.prompts = prompts
      /\ x.pass = pass /\ x.pending = pending /\ x.bus = bus
      /\ x.deferred = deferred /\ x.nextId = nextId
      /\ x.device = [device EXCEPT !.job.deadline = Less(@)]
      /\ x.session = [session EXCEPT !.due = Less(@), !.ready = Less(@), !.left = Less(@)]
  BY <1>1, <1>2, TimeRests
<1> HIDE DEF x
<1>4. Do(x) /\ turn' = turn
  BY <1>3 DEF Tick, Do
<1>5. turn \in {"INPUT", "SERVICE"} /\ linesOnly \in BOOLEAN /\ (turn = "SERVICE" => Fresh(World))
  BY DEF CliInv
<1>6. QED BY <1>3, <1>4, <1>5, RestsAgain, WorkIsBusy

\* CliInv is inductive.
LEMMA NextCli == CliInv /\ [Next]_vars => CliInv'
<1> SUFFICES ASSUME CliInv, [Next]_vars PROVE CliInv'
  OBVIOUS
<1>1. CASE UNCHANGED vars
  BY <1>1 DEF vars, CliInv, World
<1>2. CASE Next
  BY <1>2, LineKeeps, NoLineKeeps, ServiceKeeps, TickKeeps DEF Next, Line
<1>3. QED BY <1>1, <1>2

\* Between any two steps of the console the work, its job, its result, its prompt
\* and its answer belong together: loop() and service() in Ldc1614Cli.cpp.
THEOREM CliInvariant == Spec => []CliInv
<1>1. QED BY InitCli, NextCli, PTL DEF Spec

\* What CliInv says about the variables.
LEMMA RestFacts ==
  ASSUME CliInv
  PROVE  /\ Working => prompts = 0 /\ pass.answers = <<>>
         /\ ~Working => prompts = 1 /\ ~stopped
         /\ pass.transfers <= 1 /\ Len(pass.answers) <= 1
         /\ stopped => pass.transfers = 0
<1>1. Rest(World) /\ World.prompts = prompts /\ World.pass = pass /\ World.stopped = stopped
  BY DEF CliInv, World
<1>2. QED BY <1>1, WorkIsBusy DEF Rest

\* A profile is trusted only on the bus it was written on: switching, recovering
\* or stressing the bus under a bound driver distrusts it (cmdBusFrequency,
\* advanceBusFrequencyStress).
THEOREM TrustKnowsItsBus == Spec => []TrustMatchesBus
<1>1. CliInv => TrustMatchesBus
  <2>1. World.device = device
    BY DEF World
  <2>2. QED BY <2>1 DEF CliInv, Rest, Sound, Trusted, TrustMatchesBus
<1>2. QED BY <1>1, CliInvariant, PTL

\* No pass of loop() makes two transfers or answers two requests, whatever line
\* it has read and whatever session or job it serves.
THEOREM PassesAreBounded == Spec => []OneTransferPerPass
<1>1. CliInv => OneTransferPerPass
  BY RestFacts DEF OneTransferPerPass
<1>2. QED BY <1>1, CliInvariant, PTL

\* The operation that service() waits for is the job that runs or the only result
\* in the queue, with its id and kind; handleResult never meets another.
THEOREM ResultsFindTheirRequest == Spec => []PendingIsCorrelated
<1>1. ASSUME CliInv PROVE PendingIsCorrelated
  <2>1. Correlated(World) /\ World \in WorldType
    BY <1>1 DEF CliInv, Rest, Sound
  <2>2. World.device = device /\ World.pending = pending /\ World.session = session
    BY DEF World
  <2>3. Len(<<>>) = 0
    BY EmptySeq
  <2>4. /\ pending.owner = "SESSION" => session # NoSession
        /\ pending.owner = "COMMAND" => session = NoSession
    BY <2>1, <2>2 DEF Correlated
  <2>5. CASE pending = NoPending
    <3>1. device.job = NoJob /\ device.queue = <<>>
      BY <2>1, <2>2, <2>5 DEF Correlated
    <3>2. Waiting = {}
      BY <2>3, <3>1 DEF Waiting
    <3>3. QED BY <2>3, <2>4, <2>5, <3>1, <3>2 DEF PendingIsCorrelated
  <2>6. CASE pending # NoPending
    <3>1. CASE /\ device.job # NoJob /\ device.queue = <<>>
               /\ device.job.id = pending.id /\ device.job.kind = pending.kind
      <4>1. Waiting = {}
        BY <2>3, <3>1 DEF Waiting
      <4>2. QED BY <2>3, <2>4, <2>6, <3>1, <4>1 DEF PendingIsCorrelated
    <3>2. CASE /\ device.job = NoJob /\ Len(device.queue) = 1
               /\ device.queue[1].id = pending.id /\ device.queue[1].kind = pending.kind
      <4>1. Waiting = {device.queue[1]}
        BY <3>2 DEF Waiting
      <4>2. QED BY <2>4, <2>6, <3>2, <4>1 DEF PendingIsCorrelated
    <3>3. QED BY <2>1, <2>2, <2>6, <3>1, <3>2 DEF Correlated
  <2>7. QED BY <2>5, <2>6
<1>2. QED BY <1>1, CliInvariant, PTL

\* After a cancel command no transfer is made, and the next service pass has
\* the answer.
LEMMA CancelStaysSilent ==
  CliInv /\ [Next]_vars =>
    [stopped => /\ pass'.transfers = 0
                /\ (turn = "SERVICE" /\ turn' = "INPUT") => ~Working']_vars
<1> SUFFICES ASSUME CliInv, Next, stopped
             PROVE  /\ pass'.transfers = 0
                    /\ (turn = "SERVICE" /\ turn' = "INPUT") => ~Working'
  OBVIOUS
<1>1. Working /\ pass.transfers = 0
  BY RestFacts
<1>2. CASE Line
  BY <1>1, <1>2, LineKeeps
<1>3. CASE NoLine
  BY <1>3, NoLineKeeps DEF NewPass
<1>4. CASE ServiceStep
  BY <1>4, ServiceKeeps
<1>5. CASE Tick
  BY <1>1, <1>5, TickKeeps
<1>6. QED BY <1>2, <1>3, <1>4, <1>5 DEF Next, Line

\* From cancel or stop to its answer no transfer is made, and the next service
\* pass gives the answer (stopActiveWork, service).
THEOREM CancelSilencesTheBus == Spec => CancelIsSilent
<1>1. QED BY CancelStaysSilent, CliInvariant, PTL DEF Spec, CancelIsSilent

\* stopped is Boolean, which Zenon must be told.
LEMMA CliTypes == (CliInv => stopped \in BOOLEAN) /\ (CliInv' => stopped' \in BOOLEAN)
BY DEF CliInv, Rest, Sound, WorldType, World

\* The CLI keeps the promise of RequestReply: its initial states are initial
\* there, ...
LEMMA ConversationStarts == Init => Console!ConversationInit
<1> SUFFICES ASSUME Init PROVE Console!ConversationInit
  OBVIOUS
<1>1. CliInv
  BY InitCli
<1>2. stopped = FALSE /\ pass.answers = <<>>
  BY DEF Init, NewPass
<1>3. QED BY <1>1, <1>2, RestFacts DEF Console!ConversationInit, LastAnswer, Working

\* ... and each of its steps is a step there, or changes nothing there.
LEMMA ConversationGoesOn ==
  CliInv /\ [Next]_vars => [Console!ConversationNext]_(Console!conversation)
<1> SUFFICES ASSUME CliInv, [Next]_vars
             PROVE  [Console!ConversationNext]_(Console!conversation)
  OBVIOUS
<1> USE DEF Console!ConversationNext, Console!conversation
<1>1. /\ Working => prompts = 0 /\ pass.answers = <<>>
      /\ ~Working => prompts = 1 /\ ~stopped
  BY RestFacts
<1>2. /\ pass'.answers = <<>> => LastAnswer' = "NONE"
      /\ pass' = pass => LastAnswer' = LastAnswer
      /\ Len(pass'.answers) = 1 => LastAnswer' = pass'.answers[1].outcome
  BY EmptySeq DEF LastAnswer
<1>3. Answers = Outcome /\ "CANCELLED" \in Answers
  BY DEF Answers, Outcome
<1>4. CASE Line
  <2>1. /\ Working' => prompts' = 0 /\ pass'.answers = <<>>
        /\ ~Working' => prompts' = 1 /\ ~stopped'
        /\ ~Working => pass'.answers = <<>> /\ ~stopped'
        /\ Working =>
             /\ Working' => (stopped => stopped')
             /\ ~Working' => Len(pass'.answers) = 1 /\ pass'.answers[1].outcome = "CANCELLED"
    BY <1>4, LineKeeps
  <2>2. CASE ~Working /\ ~Working'
    BY <1>1, <1>2, <2>1, <2>2 DEF Console!Idle
  <2>3. CASE ~Working /\ Working'
    BY <1>1, <1>2, <2>1, <2>3 DEF Console!Accept
  <2>4. CASE Working /\ Working'
    BY <1>1, <1>2, <2>1, <2>4 DEF Console!Continue
  <2>5. CASE Working /\ ~Working'
    BY <1>1, <1>2, <1>3, <2>1, <2>5 DEF Console!Answer
  <2>6. QED BY <2>2, <2>3, <2>4, <2>5
<1>5. CASE NoLine
  <2>1. (Working' <=> Working) /\ stopped' = stopped /\ prompts' = prompts /\ pass'.answers = <<>>
    BY <1>5, NoLineKeeps DEF NewPass
  <2>2. CASE Working
    BY <1>1, <1>2, <2>1, <2>2 DEF Console!Continue
  <2>3. CASE ~Working
    BY <1>1, <1>2, <2>1, <2>3 DEF Console!Idle
  <2>4. QED BY <2>2, <2>3
<1>6. CASE ServiceStep
  <2>1. /\ Working' => prompts' = 0 /\ pass'.answers = <<>>
        /\ ~Working' => prompts' = 1 /\ ~stopped'
        /\ ~Working => ~Working' /\ pass' = pass
        /\ Working /\ ~Working' => Len(pass'.answers) = 1 /\ pass'.answers[1].outcome \in Outcome
        /\ stopped => ~Working' /\ pass'.answers[1].outcome = "CANCELLED"
    BY <1>6, ServiceKeeps
  <2>2. CASE ~Working
    <3>1. Working' = Working
      BY <2>1, <2>2 DEF Working
    <3>2. stopped \in BOOLEAN /\ stopped' \in BOOLEAN
      BY <1>6, ServiceKeeps, CliTypes
    <3>3. stopped' = stopped
      BY <1>1, <2>1, <2>2, <3>2
    <3>4. QED BY <1>1, <1>2, <2>1, <2>2, <3>1, <3>3
  <2>3. CASE Working /\ Working'
    BY <1>1, <1>2, <2>1, <2>3 DEF Console!Continue
  <2>4. CASE Working /\ ~Working'
    BY <1>1, <1>2, <1>3, <2>1, <2>4 DEF Console!Answer
  <2>5. QED BY <2>2, <2>3, <2>4
<1>7. CASE Tick
  <2>1. Working' = Working /\ stopped' = stopped /\ prompts' = prompts /\ pass' = pass
    BY <1>7, TickKeeps DEF Working
  <2>2. QED BY <1>2, <2>1
<1>8. CASE UNCHANGED vars
  BY <1>8 DEF vars, Working, LastAnswer
<1>9. QED BY <1>4, <1>5, <1>6, <1>7, <1>8 DEF Next, Line

\* Every request is answered once, with one prompt after it and none before, and
\* as CANCELLED when it was stopped: the console implements RequestReply.
THEOREM RequestsAreAnsweredOnce == Spec => AnswersOnce
<1>1. QED
  BY ConversationStarts, ConversationGoesOn, CliInvariant, PTL
     DEF Spec, AnswersOnce, Console!Conversation

-----------------------------------------------------------------------------
(* What a session reports.                                                 *)

\* An answer that says what happened, which is what ReportIsHonest asks.
Honest(a) ==
  a.kind \in SessionKind =>
    /\ a.outcome = "SUCCESS" <=> a.code = "OK"
    /\ a.outcome = "SUCCESS" => a.stats.failed = 0 /\ ~a.stats.hasFailure /\ ~a.moved
    /\ a.outcome = "FAILED" => a.stats.hasFailure
    /\ a.kind \in Sums => a.stats.completed = a.stats.passed + a.stats.failed
    /\ a.kind = "VERIFY" =>
         a.stats.completed = a.stats.passed + a.stats.failed + a.stats.skipped
    /\ a.count > 0 /\ a.kind # "SOAK" =>
         /\ a.stats.completed <= a.count
         /\ a.outcome = "SUCCESS" => a.stats.passed = a.count

\* All the answers of a pass are honest.
HonestAnswers(w) == \A k \in 1 .. Len(w.pass.answers) : Honest(w.pass.answers[k])

\* The sessions that repeat a round, and those that schedule jobs.
Repeating == {"WATCH", "SAMPLE_RATE", "STRESS_MIX", "STRESS_ID", "STRESS_RESET",
              "STRESS_BUS_FREQ"}
Scheduling == Sampling \cup {"STRESS_RESET", "STRESS_BUS_FREQ", "SELF_TEST"}

\* The books of a session add up, and stay within what was asked for.
Adds(s) ==
  /\ s.kind \in Sums => s.stats.completed = s.stats.passed + s.stats.failed
  /\ s.kind = "VERIFY" => s.stats.completed = s.stats.passed + s.stats.failed + s.stats.skipped
  /\ s.kind \in Repeating => s.count \in 1 .. MaxCount /\ s.stats.completed <= s.count
  /\ s.kind \notin Repeating \cup {"SOAK"} => s.count = 0

\* A failure is remembered exactly when one was counted, or when the
\* iteration it happened in is still to be counted.
Remembers(s) ==
  /\ s.kind \notin {"PROBE", "DISCOVER", "VERIFY", "STRESS_MIX"} =>
       (s.stats.hasFailure <=> s.stats.failed > 0)
  /\ s.kind = "STRESS_MIX" => (s.stats.hasFailure <=> s.stats.failed > 0 \/ s.iterationFailed)
  /\ s.kind = "VERIFY" => (s.stats.hasFailure <=> s.stats.failed > 0 \/ s.stats.skipped > 0)
  /\ s.kind \in {"PROBE", "DISCOVER"} => s.stats.failed = 0 /\ ~s.stats.hasFailure

\* How far a session is: its counters are where its loop is.
Keeps(s) ==
  /\ s.kind \in {"DUMP", "VERIFY"} => s.stats.completed = s.cursor /\ s.cursor <= Registers
  /\ s.kind \in {"STRESS_ID", "STRESS_RESET"} =>
       s.stats.failed = 0 /\ s.stats.passed = s.index /\ s.index <= s.count
  /\ s.kind = "STRESS_BUS_FREQ" /\ s.phase # "STRESS_BUS_FREQ_RESTORE" =>
       s.stats.failed = 0 /\ s.stats.passed = s.index /\ s.index < s.count
  /\ s.kind = "STRESS_BUS_FREQ" /\ s.phase = "STRESS_BUS_FREQ_RESTORE" =>
       (s.stats.failed = 0 => s.stats.passed = s.count)
  /\ s.kind = "STRESS_MIX" /\ s.iterationFailed => s.stats.completed < s.count

\* A job is one more iteration, which there is room for.
Expects(s) ==
  /\ s.kind \in Scheduling
  /\ s.kind \in {"WATCH", "SAMPLE_RATE", "STRESS_MIX", "STRESS_RESET"} =>
       s.stats.completed < s.count

\* The books of a session are in order, ...
Books(s) == Adds(s) /\ Remembers(s) /\ Keeps(s)

\* The job that ends the stress of the bus frequency runs with the bus back.
Homed(w) == w.session.phase = "STRESS_BUS_FREQ_RESTORE" => ~Moved(w)

\* ... and with them those of a world: a job that is pending has been expected,
\* and what was answered in this pass was honest.
Candid(w) ==
  /\ w.session # NoSession =>
       Books(w.session) /\ (w.pending # NoPending => Expects(w.session) /\ Homed(w))
  /\ HonestAnswers(w)

\* A session that ends with an honest answer leaves nothing to account for.
LEMMA FinishCandid ==
  ASSUME NEW w \in WorldType, HonestAnswers(w), NEW code \in Code, NEW outcome \in Outcome,
         w.session.kind # "NONE",
         Honest([kind |-> w.session.kind, outcome |-> outcome, code |-> code,
                 count |-> w.session.count, stats |-> w.session.stats, moved |-> Moved(w)])
  PROVE  Candid(FinishSession(w, code, outcome))
<1> DEFINE a == [kind |-> w.session.kind, outcome |-> outcome, code |-> code,
                 count |-> w.session.count, stats |-> w.session.stats, moved |-> Moved(w)]
           v == FinishSession(w, code, outcome)
           q == Append(w.pass.answers, a)
<1>1. a \in AnswerType /\ Honest(a)
  BY DEF WorldType, SessionType, AnswerType, Moved
<1>2. w.pass.answers \in Seq(AnswerType)
  BY DEF WorldType, PassType
<1>3. v.session = NoSession /\ v.pass.answers = q
  BY DEF FinishSession, WorldType, PassType
<1> HIDE DEF a, v
<1>4. /\ Len(q) = Len(w.pass.answers) + 1 /\ q[Len(w.pass.answers) + 1] = a
      /\ \A k \in 1 .. Len(w.pass.answers) : q[k] = w.pass.answers[k]
      /\ Len(w.pass.answers) \in Nat
  BY <1>1, <1>2, AppendProperties, LenProperties
<1> HIDE DEF q
<1>5. \A k \in 1 .. Len(q) : Honest(q[k])
  <2>1. SUFFICES ASSUME NEW k \in 1 .. Len(q) PROVE Honest(q[k])
    OBVIOUS
  <2>2. CASE k \in 1 .. Len(w.pass.answers)
    BY <1>4, <2>2 DEF HonestAnswers
  <2>3. CASE k = Len(w.pass.answers) + 1
    BY <1>1, <1>4, <2>3
  <2>4. QED BY <1>4, <2>2, <2>3
<1>6. QED BY <1>3, <1>5 DEF Candid, HonestAnswers, v

\* However it ends, a session whose books are in order says so.
LEMMA EndsAreHonest ==
  ASSUME NEW w \in WorldType, HonestAnswers(w), w.session.kind # "NONE", Adds(w.session)
  PROVE  /\ Candid(FinishFailed(w)) /\ Candid(FinishCancelled(w))
         /\ w.session.stats.hasFailure => Candid(FinishSession(w, "ERROR", "FAILED"))
         /\ /\ w.session.stats.failed = 0 /\ ~w.session.stats.hasFailure /\ ~Moved(w)
            /\ w.session.kind \in Repeating => w.session.stats.passed = w.session.count
            => Candid(FinishSession(w, "OK", "SUCCESS"))
<1> DEFINE answer(v, code, outcome) ==
             [kind |-> v.session.kind, outcome |-> outcome, code |-> code,
              count |-> v.session.count, stats |-> v.session.stats, moved |-> Moved(v)]
           f == RecordFailure(w)
<1>1. {"OK", "ERROR", "CANCELLED"} \subseteq Code /\ {"SUCCESS", "FAILED", "CANCELLED"} \subseteq Outcome
  BY DEF Code, Outcome
<1>2. Sums \subseteq Repeating \cup {"DUMP"}
  BY DEF Sums, Repeating
<1>3. ASSUME NEW v \in WorldType, Adds(v.session)
      PROVE  /\ Honest(answer(v, "CANCELLED", "CANCELLED"))
             /\ v.session.stats.hasFailure => Honest(answer(v, "ERROR", "FAILED"))
             /\ /\ v.session.stats.failed = 0 /\ ~v.session.stats.hasFailure /\ ~Moved(v)
                /\ v.session.kind \in Repeating => v.session.stats.passed = v.session.count
                => Honest(answer(v, "OK", "SUCCESS"))
  BY <1>3 DEF Honest, Adds
<1>4. /\ f \in WorldType /\ f.session.kind = w.session.kind /\ f.session.count = w.session.count
      /\ f.session.stats = [w.session.stats EXCEPT !.hasFailure = TRUE]
      /\ f.pass = w.pass
  BY RecordFailureEdits DEF Edits, Elsewhere, SameSession
<1> HIDE DEF f, answer
<1>5. f.session.stats.hasFailure /\ Adds(f.session) /\ HonestAnswers(f)
  <2>1. w.session.stats \in Stats
    BY DEF WorldType, SessionType
  <2>2. QED BY <1>4, <2>1 DEF Adds, Stats, HonestAnswers
<1>6. Candid(FinishSession(f, "ERROR", "FAILED"))
  BY <1>1, <1>3, <1>4, <1>5, FinishCandid DEF answer
<1>7. Candid(FinishSession(w, "CANCELLED", "CANCELLED"))
  BY <1>1, <1>3, FinishCandid DEF answer
<1>8. w.session.stats.hasFailure => Candid(FinishSession(w, "ERROR", "FAILED"))
  BY <1>1, <1>3, FinishCandid DEF answer
<1>9. /\ w.session.stats.failed = 0 /\ ~w.session.stats.hasFailure /\ ~Moved(w)
      /\ w.session.kind \in Repeating => w.session.stats.passed = w.session.count
      => Candid(FinishSession(w, "OK", "SUCCESS"))
  BY <1>1, <1>3, FinishCandid DEF answer
<1>10. QED BY <1>6, <1>7, <1>8, <1>9 DEF FinishFailed, FinishCancelled, f

\* A session that ends by its tally says whether it failed.
LEMMA TallyIsHonest ==
  ASSUME NEW w \in WorldType, HonestAnswers(w), w.session.kind # "NONE", Adds(w.session),
         w.session.stats.hasFailure <=> w.session.stats.failed > 0,
         w.session.kind \in Repeating /\ w.session.stats.failed = 0 =>
           w.session.stats.passed = w.session.count,
         ~Moved(w)
  PROVE  Candid(FinishByTally(w))
<1>1. w.session.stats.failed \in Nat
  BY DEF WorldType, SessionType, Stats
<1>2. QED BY <1>1, EndsAreHonest DEF FinishByTally

\* A counter with room counts.
LEMMA BumpCounts == ASSUME NEW n \in Nat PROVE Bump(n) > 0 /\ (n < MaxTally => Bump(n) = n + 1)
BY SessionAssumption DEF Bump

\* v is w with a round that is counted under a verdict, and its books in order.
Tallied(w, v, verdict) ==
  LET s == w.session
      t == v.session
  IN  /\ v \in WorldType /\ v.pass = w.pass /\ v.pending = w.pending
      /\ t.kind = s.kind /\ t.count = s.count /\ t.index = s.index /\ t.cursor = s.cursor
      /\ t.phase = s.phase /\ t.iterationFailed = s.iterationFailed /\ t.due = s.due
      /\ Adds(t)
      /\ t.stats.hasFailure <=> (verdict # "passed" \/ s.stats.hasFailure)
      /\ verdict # "failed" => t.stats.failed = s.stats.failed
      /\ verdict = "failed" => t.stats.failed > 0
      /\ verdict # "skipped" => t.stats.skipped = s.stats.skipped
      /\ verdict = "skipped" => t.stats.skipped > 0
      /\ s.kind \in Sums \cup {"VERIFY"} =>
           /\ t.stats.completed = s.stats.completed + 1
           /\ verdict = "passed" => t.stats.passed = s.stats.passed + 1

\* A round that is counted keeps the books where there is room for it.
LEMMA CompleteAdds ==
  ASSUME NEW w \in WorldType, NEW verdict \in {"passed", "failed", "skipped"}, Adds(w.session),
         w.session.kind \in Sums => verdict # "skipped",
         w.session.kind \in Repeating => w.session.stats.completed < w.session.count,
         w.session.kind \in {"DUMP", "VERIFY"} => w.session.stats.completed < Registers
  PROVE  Tallied(w, Complete(w, verdict), verdict)
<1> DEFINE v == Complete(w, verdict)
           t == v.session.stats
           u == w.session.stats
<1>0. verdict \in Tally
  BY DEF Tally
<1>1. Rounds(w, v, verdict)
  BY <1>0, CompleteEdits
<1> HIDE DEF v
<1>2. u \in Stats /\ w.session \in SessionType
  BY DEF WorldType, SessionType
<1>3. /\ u.completed \in Nat /\ u.passed \in Nat /\ u.failed \in Nat /\ u.skipped \in Nat
      /\ u.hasFailure \in BOOLEAN
  BY <1>2 DEF Stats
<1>4. /\ t.completed = Bump(u.completed)
      /\ t.passed = IF verdict = "passed" THEN Bump(u.passed) ELSE u.passed
      /\ t.failed = IF verdict = "failed" THEN Bump(u.failed) ELSE u.failed
      /\ t.skipped = IF verdict = "skipped" THEN Bump(u.skipped) ELSE u.skipped
      /\ t.hasFailure = IF verdict = "passed" THEN u.hasFailure ELSE TRUE
  BY <1>1, <1>2 DEF Rounds, Stats
<1> HIDE DEF t, u
<1>5. w.session.kind \in Repeating \cup {"DUMP", "VERIFY"} => u.completed < MaxTally
  <2>1. w.session.kind \in Repeating => w.session.count <= MaxTally /\ w.session.count \in Nat
    BY CountAssumption, SessionAssumption DEF Adds
  <2>2. QED BY <1>3, <2>1, SessionAssumption DEF u
<1>6. Sums \cup {"VERIFY"} \subseteq Repeating \cup {"DUMP", "VERIFY"}
  BY DEF Sums, Repeating
<1>7. w.session.kind \in Sums \cup {"VERIFY"} =>
        /\ t.completed = u.completed + 1
        /\ t.passed = IF verdict = "passed" THEN u.passed + 1 ELSE u.passed
        /\ t.failed = IF verdict = "failed" THEN u.failed + 1 ELSE u.failed
        /\ w.session.kind = "VERIFY" =>
             t.skipped = IF verdict = "skipped" THEN u.skipped + 1 ELSE u.skipped
  <2>1. /\ w.session.kind \in Sums => u.completed = u.passed + u.failed
        /\ w.session.kind = "VERIFY" => u.completed = u.passed + u.failed + u.skipped
    BY DEF Adds, u
  <2>2. SessionAssumption /\ MaxTally \in Nat
    BY SessionAssumption
  <2>3. QED BY <1>3, <1>4, <1>5, <1>6, <2>1, <2>2, BumpCounts
<1>8. /\ v.session.kind = w.session.kind /\ v.session.count = w.session.count
      /\ v.session.stats = t
  BY <1>1 DEF Rounds, Edits, SameSession, t
<1>9. w.session.kind \in Repeating => t.completed <= w.session.count
  <2>1. Repeating \subseteq Sums
    BY DEF Sums, Repeating
  <2>2. w.session.kind \in Repeating => w.session.count \in Nat
    BY CountAssumption, SessionAssumption DEF Adds
  <2>3. QED BY <1>3, <1>7, <2>1, <2>2 DEF u
<1>10. Adds(v.session)
  BY <1>3, <1>7, <1>8, <1>9 DEF Adds, u
<1>11. /\ v.session.index = w.session.index /\ v.session.cursor = w.session.cursor
       /\ v.session.phase = w.session.phase /\ v.session.due = w.session.due
       /\ v.session.iterationFailed = w.session.iterationFailed
  BY <1>1, <1>2 DEF Rounds, SessionType
<1>12. v \in WorldType /\ v.pass = w.pass /\ v.pending = w.pending
  BY <1>1 DEF Rounds, Edits, Elsewhere
<1>13. QED
  BY <1>3, <1>4, <1>7, <1>8, <1>10, <1>11, <1>12, BumpCounts DEF Tallied, t, u, v

\* A session between two passes, with its books in order.
Open(w) == Active(w) /\ Candid(w)

\* What Open says.
LEMMA OpenFacts ==
  ASSUME NEW w, Open(w)
  PROVE  /\ w \in WorldType /\ w.session \in SessionType /\ w.session.stats \in Stats
         /\ w.pending = NoPending /\ w.pass.transfers \in Nat
         /\ w.session # NoSession /\ w.session.kind # "NONE" /\ HonestAnswers(w)
         /\ Adds(w.session) /\ Remembers(w.session) /\ Keeps(w.session)
BY DEF Open, Active, Candid, Sound, WorldType, SessionType, PassType, Books

\* A read does not touch the books, ...
LEMMA ReadsOpen ==
  ASSUME NEW w, Open(w), NEW v, Reads(w, v)
  PROVE  Open(v) /\ v.session = w.session
<1>1. Active(v)
  BY ReadsStay DEF Open
<1>2. QED BY <1>1 DEF Open, Candid, HonestAnswers, Reads, Active

\* The books do not depend on the rest of the session.
SameBooks(s, t) ==
  /\ t.kind = s.kind /\ t.count = s.count /\ t.index = s.index /\ t.cursor = s.cursor
  /\ t.iterationFailed = s.iterationFailed /\ t.stats = s.stats
  /\ s.kind = "STRESS_BUS_FREQ" => t.phase = s.phase

\* ... nor does an edit that keeps them, ...
LEMMA EditsOpen ==
  ASSUME NEW w, Open(w), NEW v, Edits(w, v), SameBooks(w.session, v.session)
  PROVE  Open(v)
<1>1. Active(v) /\ v.pass = w.pass
  BY EditsStay DEF Open, Edits, Elsewhere
<1>2. Adds(v.session) /\ Remembers(v.session) /\ Keeps(v.session)
  BY OpenFacts DEF SameBooks, Adds, Remembers, Keeps
<1>3. QED BY <1>1, <1>2 DEF Open, Candid, Books, HonestAnswers, Active

\* ... nor another phase, where the books do not depend on it.
LEMMA PhaseOpens ==
  ASSUME NEW w, Open(w), NEW phase \in Phase, w.session.kind # "STRESS_BUS_FREQ"
  PROVE  Open(At(w, phase)) /\ SameBooks(w.session, At(w, phase).session)
<1> DEFINE v == At(w, phase)
<1>1. Edits(w, v) /\ v.session = [w.session EXCEPT !.phase = phase]
  BY AtEdits, OpenFacts
<1> HIDE DEF v
<1>2. SameBooks(w.session, v.session)
  BY <1>1, OpenFacts DEF SessionType, SameBooks
<1>3. QED BY <1>1, <1>2, EditsOpen DEF v

\* A round that fails ends the session.
LEMMA FailedNow ==
  ASSUME NEW w \in WorldType, HonestAnswers(w), w.session.kind # "NONE", Adds(w.session),
         w.session.kind \notin {"DUMP", "VERIFY"},
         w.session.kind \in Repeating => w.session.stats.completed < w.session.count
  PROVE  Candid(FinishFailed(Complete(w, "failed")))
<1> DEFINE v == Complete(w, "failed")
<1>1. /\ v \in WorldType /\ v.pass = w.pass /\ Adds(v.session)
      /\ v.session.kind = w.session.kind
  BY CompleteAdds DEF Tallied
<1> HIDE DEF v
<1>2. HonestAnswers(v)
  BY <1>1 DEF HonestAnswers
<1>3. QED BY <1>1, <1>2, EndsAreHonest DEF v

\* dump counts the registers it has read.
LEMMA DumpIsCandid ==
  ASSUME NEW w, Open(w), NEW io \in IO, w.session.kind = "DUMP"
  PROVE  Candid(AdvanceDump(w, io))
<1> DEFINE u == [w EXCEPT !.session.cursor = @ + 1]
           v == DirectRead(u, io)
           verdict == IF v.status = "OK" THEN "passed" ELSE "failed"
           x == Complete(v, verdict)
<1>1. /\ w \in WorldType /\ w.session \in SessionType /\ w.session.stats \in Stats
      /\ w.pending = NoPending /\ HonestAnswers(w)
      /\ Adds(w.session) /\ Remembers(w.session) /\ Keeps(w.session)
  BY OpenFacts
<1>2. AdvanceDump(w, io) = IF w.session.cursor >= Registers THEN FinishByTally(w) ELSE x
  BY DEF AdvanceDump
<1>3. CASE w.session.cursor >= Registers
  BY <1>1, <1>2, <1>3, TallyIsHonest DEF Remembers, Repeating, Moved
<1>4. CASE ~(w.session.cursor >= Registers)
  <2>1. /\ Edits(w, u) /\ u.session.kind = "DUMP" /\ u.session.cursor = w.session.cursor + 1
        /\ u.session.stats = w.session.stats /\ u.session.count = w.session.count
    BY <1>1, FieldEdits DEF SessionType, WorldType
  <2>2. u \in WorldType /\ u.pending = NoPending /\ u.pass = w.pass
    BY <1>1, <2>1 DEF Edits, Elsewhere
  <2> HIDE DEF u
  <2>3. Reads(u, v)
    BY <2>2, CallsRead
  <2> HIDE DEF v
  <2>4. verdict \in {"passed", "failed"}
    OBVIOUS
  <2> HIDE DEF verdict
  <2>5. /\ v \in WorldType /\ v.session = u.session /\ v.pending = NoPending
        /\ v.pass.answers = w.pass.answers
    BY <2>2, <2>3 DEF Reads
  <2>6. /\ Adds(v.session) /\ v.session.stats.completed < Registers
        /\ v.session.kind = "DUMP" /\ v.session.cursor = w.session.cursor + 1
        /\ v.session.stats = w.session.stats /\ v.session \in SessionType
        /\ v.session.stats.completed = w.session.cursor /\ w.session.cursor \in Nat
    BY <1>1, <1>4, <2>1, <2>5, SessionAssumption DEF Adds, Keeps, SessionType, WorldType
  <2>7. "DUMP" \in Sums /\ "DUMP" \notin Repeating
    BY DEF Sums, Repeating
  <2>8. Tallied(v, x, verdict)
    BY <2>4, <2>5, <2>6, <2>7, CompleteAdds
  <2> HIDE DEF x
  <2>9. x.session.cursor = w.session.cursor + 1 /\ x.session.kind = "DUMP"
    BY <2>6, <2>8 DEF Tallied
  <2>10. Remembers(x.session)
    BY <1>1, <2>4, <2>6, <2>8, <2>9 DEF Tallied, Remembers
  <2>11. Keeps(x.session)
    BY <1>4, <2>6, <2>7, <2>8, <2>9, SessionAssumption DEF Tallied, Keeps
  <2>12. Candid(x)
    BY <1>1, <2>5, <2>8, <2>10, <2>11 DEF Tallied, Candid, Books, HonestAnswers
  <2>13. QED BY <1>2, <1>4, <2>12 DEF x, verdict, v, u
<1>5. QED BY <1>3, <1>4

\* verify counts matches, mismatches and failed reads, each register once.
LEMMA VerifyIsCandid ==
  ASSUME NEW w, Open(w), NEW io \in IO, w.session.kind = "VERIFY"
  PROVE  Candid(AdvanceVerify(w, io))
<1> DEFINE u == [w EXCEPT !.session.cursor = @ + 1]
           v == DirectRead(u, io)
           verdict == IF v.status # "OK" THEN "skipped"
                      ELSE IF io = "odd" THEN "failed" ELSE "passed"
           x == Complete(v, verdict)
           clean == w.session.stats.failed = 0 /\ w.session.stats.skipped = 0
<1>1. /\ w \in WorldType /\ w.session \in SessionType /\ w.session.stats \in Stats
      /\ w.pending = NoPending /\ HonestAnswers(w)
      /\ Adds(w.session) /\ Remembers(w.session) /\ Keeps(w.session)
  BY OpenFacts
<1>2. AdvanceVerify(w, io) =
        IF w.session.cursor >= Registers
        THEN IF clean THEN FinishSession(w, "OK", "SUCCESS")
             ELSE FinishSession(w, "ERROR", "FAILED")
        ELSE x
  BY DEF AdvanceVerify
<1>3. CASE w.session.cursor >= Registers
  <2>1. clean <=> ~w.session.stats.hasFailure
    BY <1>1 DEF Remembers, Stats
  <2>2. QED BY <1>1, <1>2, <1>3, <2>1, EndsAreHonest DEF Repeating, Moved
<1>4. CASE ~(w.session.cursor >= Registers)
  <2>1. /\ Edits(w, u) /\ u.session.kind = "VERIFY" /\ u.session.cursor = w.session.cursor + 1
        /\ u.session.stats = w.session.stats /\ u.session.count = w.session.count
    BY <1>1, FieldEdits DEF SessionType, WorldType
  <2>2. u \in WorldType /\ u.pending = NoPending /\ u.pass = w.pass
    BY <1>1, <2>1 DEF Edits, Elsewhere
  <2> HIDE DEF u
  <2>3. Reads(u, v)
    BY <2>2, CallsRead
  <2> HIDE DEF v
  <2>4. verdict \in {"passed", "failed", "skipped"}
    OBVIOUS
  <2> HIDE DEF verdict
  <2>5. /\ v \in WorldType /\ v.session = u.session /\ v.pending = NoPending
        /\ v.pass.answers = w.pass.answers
    BY <2>2, <2>3 DEF Reads
  <2>6. /\ Adds(v.session) /\ v.session.stats.completed < Registers
        /\ v.session.kind = "VERIFY" /\ v.session.cursor = w.session.cursor + 1
        /\ v.session.stats = w.session.stats /\ v.session \in SessionType
        /\ v.session.stats.completed = w.session.cursor /\ w.session.cursor \in Nat
    BY <1>1, <1>4, <2>1, <2>5, SessionAssumption DEF Adds, Keeps, SessionType, WorldType
  <2>7. "VERIFY" \notin Sums /\ "VERIFY" \notin Repeating
    BY DEF Sums, Repeating
  <2>8. Tallied(v, x, verdict)
    BY <2>4, <2>5, <2>6, <2>7, CompleteAdds
  <2> HIDE DEF x
  <2>9. x.session.cursor = w.session.cursor + 1 /\ x.session.kind = "VERIFY"
    BY <2>6, <2>8 DEF Tallied
  <2>10. Remembers(x.session)
    BY <1>1, <2>4, <2>6, <2>8, <2>9 DEF Tallied, Remembers
  <2>11. Keeps(x.session)
    BY <1>4, <2>6, <2>7, <2>8, <2>9, SessionAssumption DEF Tallied, Keeps
  <2>12. Candid(x)
    BY <1>1, <2>5, <2>8, <2>10, <2>11 DEF Tallied, Candid, Books, HonestAnswers
  <2>13. QED BY <1>2, <1>4, <2>12 DEF x, verdict, v, u
<1>5. QED BY <1>3, <1>4

\* v is w with one counter of its session bumped.
Recorded(w, v, verdict) ==
  LET s == w.session
      t == v.session
  IN  /\ Edits(w, v)
      /\ t.index = s.index /\ t.cursor = s.cursor /\ t.phase = s.phase
      /\ t.iterationFailed = s.iterationFailed
      /\ t.stats.hasFailure = s.stats.hasFailure
      /\ verdict # "completed" => t.stats.completed = s.stats.completed
      /\ verdict # "passed" => t.stats.passed = s.stats.passed
      /\ verdict # "failed" => t.stats.failed = s.stats.failed
      /\ verdict = "failed" => t.stats.failed > 0

\* Record bumps its counter and no other.
LEMMA RecordIsRecorded ==
  ASSUME NEW w \in WorldType, NEW verdict \in Tally
  PROVE  Recorded(w, Record(w, verdict), verdict)
<1> DEFINE v == Record(w, verdict)
<1>1. /\ Edits(w, v) /\ v.session = [w.session EXCEPT !.stats = v.session.stats]
      /\ v.session.stats = [w.session.stats EXCEPT ![verdict] = Bump(@)]
  BY RecordEdits
<1> HIDE DEF v
<1>2. w.session \in SessionType /\ w.session.stats \in Stats
  BY DEF WorldType, SessionType
<1>3. /\ v.session.index = w.session.index /\ v.session.cursor = w.session.cursor
      /\ v.session.phase = w.session.phase
      /\ v.session.iterationFailed = w.session.iterationFailed
  BY <1>1, <1>2 DEF SessionType
<1>4. /\ v.session.stats.hasFailure = w.session.stats.hasFailure
      /\ verdict # "completed" => v.session.stats.completed = w.session.stats.completed
      /\ verdict # "passed" => v.session.stats.passed = w.session.stats.passed
      /\ verdict # "failed" => v.session.stats.failed = w.session.stats.failed
      /\ verdict = "failed" => v.session.stats.failed = Bump(w.session.stats.failed)
  BY <1>1, <1>2 DEF Stats, Tally
<1>5. w.session.stats.failed \in Nat
  BY <1>2 DEF Stats
<1>6. QED BY <1>1, <1>3, <1>4, <1>5, BumpCounts DEF Recorded, v

\* The counters of a probe, a search and a self test are only shown.
LEMMA RecordOpens ==
  ASSUME NEW w, Open(w), NEW verdict \in Tally,
         \/ w.session.kind \in {"PROBE", "DISCOVER", "SELF_TEST"} /\ verdict # "failed"
         \/ w.session.kind = "STRESS_MIX" /\ verdict = "skipped"
  PROVE  Open(Record(w, verdict)) /\ Record(w, verdict).session.kind = w.session.kind
<1> DEFINE v == Record(w, verdict)
<1>1. Recorded(w, v, verdict)
  BY OpenFacts, RecordIsRecorded
<1> HIDE DEF v
<1>2. Active(v) /\ v.pass = w.pass /\ v.session.kind = w.session.kind /\ v.session.count = w.session.count
  BY <1>1, EditsStay DEF Open, Recorded, Edits, Elsewhere, SameSession
<1>3. Adds(v.session) /\ Remembers(v.session) /\ Keeps(v.session)
  BY <1>1, <1>2, OpenFacts DEF Recorded, Adds, Remembers, Keeps, Sums, Repeating
<1>4. QED BY <1>2, <1>3 DEF Open, Candid, Books, HonestAnswers, Active, v

\* The next round begins.
LEMMA NextRound ==
  ASSUME NEW w \in WorldType, NEW phase \in Phase
  PROVE  LET s == w.session
             t == At(Iterated(w), phase).session
         IN  /\ Edits(w, At(Iterated(w), phase))
             /\ t.stats = s.stats /\ t.index = s.index + 1 /\ t.cursor = s.cursor
             /\ t.phase = phase /\ t.iterationFailed = s.iterationFailed
<1> DEFINE u == Iterated(w)
           v == At(u, phase)
<1>1. Edits(w, u) /\ u.session = [w.session EXCEPT !.index = @ + 1]
  BY IteratedEdits
<1> HIDE DEF u
<1>2. Edits(u, v) /\ v.session = [u.session EXCEPT !.phase = phase]
  BY <1>1, AtEdits DEF Edits
<1> HIDE DEF v
<1>3. w.session \in SessionType /\ u.session \in SessionType
  BY <1>1 DEF Edits, WorldType
<1>4. /\ u.session.stats = w.session.stats /\ u.session.index = w.session.index + 1
      /\ u.session.cursor = w.session.cursor
      /\ u.session.iterationFailed = w.session.iterationFailed
  BY <1>1, <1>3 DEF SessionType
<1>5. /\ v.session.stats = u.session.stats /\ v.session.index = u.session.index
      /\ v.session.cursor = u.session.cursor /\ v.session.phase = phase
      /\ v.session.iterationFailed = u.session.iterationFailed
  BY <1>2, <1>3 DEF SessionType
<1>6. Edits(w, v)
  BY <1>1, <1>2 DEF Edits, Elsewhere, SameSession
<1>7. QED BY <1>4, <1>5, <1>6 DEF u, v

\* A session with its books in order may stay as it is.
LEMMA OpenIsCandid == ASSUME NEW w, Open(w) PROVE Candid(w)
BY DEF Open

\* A probe or a search ends with the failure it met, or with none.
LEMMA OpenEnds ==
  ASSUME NEW w, Open(w)
  PROVE  /\ Candid(FinishFailed(w)) /\ Candid(FinishCancelled(w))
         /\ w.session.kind \in {"PROBE", "DISCOVER"} => Candid(FinishSession(w, "OK", "SUCCESS"))
BY OpenFacts, EndsAreHonest DEF Remembers, Repeating, Moved

\* probe fails with the first read that fails.
LEMMA ProbeIsCandid ==
  ASSUME NEW w, Open(w), NEW io \in IO, w.session.kind = "PROBE"
  PROVE  Candid(AdvanceProbe(w, io))
<1> DEFINE v == DirectRead(w, io)
           identity == v.status = "OK" /\ io # "odd"
           two == [v EXCEPT !.session.stats.completed = 2]
           named == [v EXCEPT !.session.identity = identity]
<1>1. Open(v) /\ v.session = w.session
  BY CallsRead, ReadsOpen, OpenFacts
<1>2. AdvanceProbe(w, io) =
        IF w.session.phase = "PROBE_MANUFACTURER"
        THEN IF v.status # "OK" THEN FinishFailed(Record(v, "failed"))
             ELSE At(named, "PROBE_DEVICE")
        ELSE IF identity /\ w.session.identity
        THEN FinishSession(Record(two, "passed"), "OK", "SUCCESS")
        ELSE FinishFailed(Record(two, "failed"))
  BY DEF AdvanceProbe
<1>3. identity \in BOOLEAN
  OBVIOUS
<1> HIDE DEF v, identity
<1>4. v \in WorldType /\ HonestAnswers(v) /\ Adds(v.session) /\ v.session.kind = "PROBE"
      /\ v.session \in SessionType /\ v.session.stats \in Stats
  BY <1>1, OpenFacts
<1>5. Open(named) /\ named.session.kind = "PROBE"
  <2>1. Edits(v, named)
    BY <1>3, <1>4, FieldEdits
  <2>2. SameBooks(v.session, named.session) /\ named.session.kind = "PROBE"
    BY <1>4 DEF WorldType, SessionType, SameBooks
  <2>3. QED BY <1>1, <2>1, <2>2, EditsOpen
<1>6. Open(two) /\ two.session.kind = "PROBE"
  <2>1. Edits(v, two)
    BY <1>4, FieldEdits
  <2>2. /\ two.session.kind = "PROBE" /\ two.session.count = v.session.count
        /\ two.session.stats.failed = v.session.stats.failed
        /\ two.session.stats.hasFailure = v.session.stats.hasFailure
    BY <1>4 DEF WorldType, SessionType, Stats
  <2> HIDE DEF two
  <2>3. Active(two) /\ two.pass = v.pass
    BY <1>1, <2>1, EditsStay DEF Open, Edits, Elsewhere
  <2>4. Adds(two.session) /\ Remembers(two.session) /\ Keeps(two.session)
    BY <1>1, <1>4, <2>2, OpenFacts DEF Adds, Remembers, Keeps, Sums, Repeating
  <2>5. QED BY <1>4, <2>2, <2>3, <2>4 DEF Open, Candid, Books, HonestAnswers, Active
<1> HIDE DEF named, two
<1>7. ASSUME NEW u, Open(u), u.session.kind = "PROBE"
      PROVE  /\ Candid(FinishFailed(Record(u, "failed")))
             /\ Candid(FinishSession(Record(u, "passed"), "OK", "SUCCESS"))
  <2>1. Open(Record(u, "passed")) /\ Record(u, "passed").session.kind = "PROBE"
    BY <1>7, RecordOpens DEF Tally
  <2> DEFINE x == Record(u, "failed")
  <2>2. Recorded(u, x, "failed")
    BY <1>7, OpenFacts, RecordIsRecorded DEF Tally
  <2> HIDE DEF x
  <2>3. x \in WorldType /\ x.pass = u.pass /\ x.session.kind = "PROBE" /\ x.session.count = u.session.count
    BY <1>7, <2>2 DEF Recorded, Edits, Elsewhere, SameSession
  <2>4. Adds(x.session) /\ HonestAnswers(x)
    BY <1>7, <2>3, OpenFacts DEF Adds, Sums, Repeating, HonestAnswers
  <2>5. Candid(FinishFailed(x))
    BY <2>3, <2>4, EndsAreHonest
  <2>6. QED BY <2>1, <2>5, OpenEnds DEF x
<1>8. Candid(At(named, "PROBE_DEVICE"))
  BY <1>5, PhaseOpens, OpenIsCandid DEF Phase
<1>9. QED BY <1>1, <1>2, <1>4, <1>6, <1>7, <1>8

\* discover goes through the addresses.
LEMMA DiscoverIsCandid ==
  ASSUME NEW w, Open(w), NEW io \in IO, w.session.kind = "DISCOVER"
  PROVE  Candid(AdvanceDiscover(w, io))
<1> DEFINE r == DiscoveryRead(w, io)
           v == Record(r, "completed")
           identity == v.status = "OK" /\ io # "odd"
           matches == identity /\ w.session.identity
           found == [v EXCEPT !.session.matched = @ \/ matches]
           named == [v EXCEPT !.session.identity = identity]
<1>1. Open(r) /\ r.session = w.session
  BY CallsRead, ReadsOpen, OpenFacts
<1>2. Open(v) /\ v.session.kind = "DISCOVER"
  BY <1>1, RecordOpens DEF Tally
<1>3. AdvanceDiscover(w, io) =
        IF w.session.stopRequested THEN FinishCancelled(w)
        ELSE IF w.session.phase = "DISCOVER_DEVICE" THEN NextAddress(found)
        ELSE IF v.status # "OK" THEN NextAddress(v)
        ELSE At(named, "DISCOVER_DEVICE")
  BY DEF AdvanceDiscover
<1>4. identity \in BOOLEAN /\ matches \in BOOLEAN
  BY OpenFacts DEF SessionType
<1> HIDE DEF v, identity, matches
<1>5. ASSUME NEW u, Open(u), u.session.kind = "DISCOVER", NEW b \in BOOLEAN
      PROVE  /\ Open([u EXCEPT !.session.matched = @ \/ b])
             /\ [u EXCEPT !.session.matched = @ \/ b].session.kind = "DISCOVER"
             /\ Open([u EXCEPT !.session.identity = b])
             /\ [u EXCEPT !.session.identity = b].session.kind = "DISCOVER"
             /\ Open([u EXCEPT !.session.cursor = 1, !.session.identity = b])
             /\ [u EXCEPT !.session.cursor = 1, !.session.identity = b].session.kind = "DISCOVER"
  <2> DEFINE m == [u EXCEPT !.session.matched = @ \/ b]
             i == [u EXCEPT !.session.identity = b]
             c == [u EXCEPT !.session.cursor = 1, !.session.identity = b]
  <2>1. u \in WorldType /\ u.session \in SessionType
    BY <1>5, OpenFacts
  <2>2. Edits(u, m) /\ Edits(u, i) /\ Edits(u, c)
    BY <1>5, <2>1, FieldEdits
  <2>3. SameBooks(u.session, m.session) /\ SameBooks(u.session, i.session)
    BY <2>1 DEF WorldType, SessionType, SameBooks
  <2>4. /\ c.session.kind = u.session.kind /\ c.session.count = u.session.count
        /\ c.session.stats = u.session.stats
    BY <2>1 DEF WorldType, SessionType
  <2>5. m.session.kind = "DISCOVER" /\ i.session.kind = "DISCOVER" /\ c.session.kind = "DISCOVER"
    BY <1>5, <2>3, <2>4 DEF SameBooks
  <2> HIDE DEF m, i, c
  <2>6. Open(m) /\ Open(i)
    BY <1>5, <2>2, <2>3, EditsOpen
  <2>7. Active(c) /\ c.pass = u.pass
    BY <1>5, <2>2, EditsStay DEF Open, Edits, Elsewhere
  <2>8. Adds(c.session) /\ Remembers(c.session) /\ Keeps(c.session) /\ HonestAnswers(c)
    BY <1>5, <2>4, <2>7, OpenFacts DEF Adds, Remembers, Keeps, HonestAnswers
  <2>9. Open(c)
    BY <2>7, <2>8 DEF Open, Candid, Books, Active
  <2>10. QED BY <2>5, <2>6, <2>9 DEF m, i, c
<1>6. ASSUME NEW u, Open(u), u.session.kind = "DISCOVER" PROVE Candid(NextAddress(u))
  <2> DEFINE c == [u EXCEPT !.session.cursor = 1, !.session.identity = FALSE]
  <2>1. Open(c) /\ c.session.kind = "DISCOVER"
    <3>1. \E b \in BOOLEAN : b = FALSE
      OBVIOUS
    <3>2. QED BY <1>5, <1>6, <3>1
  <2>2. NextAddress(u) =
          IF u.session.cursor = 0 THEN At(c, "DISCOVER_MANUFACTURER")
          ELSE IF u.session.matched THEN FinishSession(u, "OK", "SUCCESS") ELSE FinishFailed(u)
    BY DEF NextAddress
  <2> HIDE DEF c
  <2>3. Candid(At(c, "DISCOVER_MANUFACTURER"))
    BY <2>1, PhaseOpens, OpenIsCandid DEF Phase
  <2>4. QED BY <1>6, <2>2, <2>3, OpenEnds
<1>7. /\ Open(found) /\ found.session.kind = "DISCOVER"
      /\ Open(named) /\ named.session.kind = "DISCOVER"
  BY <1>2, <1>4, <1>5
<1> HIDE DEF found, named
<1>8. Candid(At(named, "DISCOVER_DEVICE"))
  BY <1>7, PhaseOpens, OpenIsCandid DEF Phase
<1>9. QED BY <1>2, <1>3, <1>6, <1>7, <1>8, OpenEnds

\* stress_id counts a round when both words have been read.
LEMMA IdentityStressIsCandid ==
  ASSUME NEW w, Open(w), NEW io \in IO, w.session.kind = "STRESS_ID"
  PROVE  Candid(AdvanceIdentityStress(w, io))
<1> DEFINE v == DirectRead(w, io)
           identity == v.status = "OK" /\ io # "odd"
           x == Complete(v, "passed")
           y == At(Iterated(x), "STRESS_ID_MANUFACTURER")
<1>1. Open(v) /\ v.session = w.session
  BY CallsRead, ReadsOpen, OpenFacts
<1>2. AdvanceIdentityStress(w, io) =
        IF w.session.index >= w.session.count THEN FinishByTally(w)
        ELSE IF ~identity THEN FinishFailed(Complete(v, "failed"))
        ELSE IF w.session.phase = "STRESS_ID_MANUFACTURER" THEN At(v, "STRESS_ID_DEVICE")
        ELSE y
  BY DEF AdvanceIdentityStress
<1> HIDE DEF v, identity
<1>3. /\ v \in WorldType /\ HonestAnswers(v) /\ Adds(v.session) /\ v.session \in SessionType
      /\ v.session.stats \in Stats /\ Remembers(v.session) /\ Keeps(v.session)
      /\ v.pending = NoPending /\ v.session.kind = "STRESS_ID"
  BY <1>1, OpenFacts
<1>4. "STRESS_ID" \in Repeating /\ "STRESS_ID" \in Sums /\ "STRESS_ID_MANUFACTURER" \in Phase
      /\ "STRESS_ID_DEVICE" \in Phase
  BY DEF Repeating, Sums, Phase
<1>5. /\ v.session.stats.failed = 0 /\ ~v.session.stats.hasFailure
      /\ v.session.stats.passed = v.session.index /\ v.session.index <= v.session.count
      /\ v.session.stats.completed = v.session.index
      /\ v.session.count \in Nat /\ v.session.index \in Nat
  BY <1>3, <1>4 DEF Adds, Remembers, Keeps, Stats, SessionType
<1>6. CASE w.session.index >= w.session.count
  <2>1. w \in WorldType /\ HonestAnswers(w)
    BY OpenFacts
  <2>2. Candid(FinishByTally(w))
    BY <1>1, <1>3, <1>5, <1>6, <2>1, TallyIsHonest DEF Moved
  <2>3. QED BY <1>2, <1>6, <2>2
<1>7. CASE ~(w.session.index >= w.session.count)
  <2>1. v.session.stats.completed < v.session.count /\ v.session.index + 1 <= v.session.count
    BY <1>1, <1>5, <1>7
  <2>2. Candid(FinishFailed(Complete(v, "failed")))
    BY <1>3, <2>1, FailedNow
  <2>3. Candid(At(v, "STRESS_ID_DEVICE"))
    BY <1>1, <1>3, <1>4, PhaseOpens, OpenIsCandid
  <2>4. Tallied(v, x, "passed")
    BY <1>3, <1>4, <2>1, CompleteAdds
  <2> HIDE DEF x
  <2>5. /\ Edits(x, y) /\ y.session.stats = x.session.stats
        /\ y.session.index = x.session.index + 1
    BY <1>4, <2>4, NextRound DEF Tallied
  <2> HIDE DEF y
  <2>6. y.session.kind = "STRESS_ID" /\ y.session.count = v.session.count
        /\ y.pending = NoPending /\ y.pass = v.pass
    BY <1>3, <2>4, <2>5 DEF Tallied, Edits, SameSession, Elsewhere
  <2>7. Adds(y.session) /\ Remembers(y.session) /\ Keeps(y.session)
    BY <1>4, <1>5, <2>1, <2>4, <2>5, <2>6, <1>3 DEF Tallied, Adds, Remembers, Keeps
  <2>8. Candid(y)
    BY <1>3, <2>6, <2>7 DEF Candid, Books, HonestAnswers
  <2>9. QED BY <1>2, <1>7, <2>2, <2>3, <2>8 DEF x, y
<1>8. QED BY <1>6, <1>7

\* A job that is scheduled is one the books have room for.
LEMMA ScheduledIsCandid ==
  ASSUME NEW w, Open(w), NEW kind \in JobKind, NEW deadline \in Nat, Expects(w.session)
  PROVE  LET v == ScheduleSession(w, kind, deadline)
         IN  /\ Homed(w) => Candid(v)
             /\ v \in WorldType /\ v.session = w.session /\ HonestAnswers(v)
             /\ v.status # "IN_PROGRESS" => Open(v)
<1> DEFINE v == ScheduleSession(w, kind, deadline)
<1>1. /\ Moves(w, v, 0) /\ Sound(v) /\ v.session = w.session /\ v.bus = w.bus
      /\ v.status # "IN_PROGRESS" => Active(v)
  BY SessionSchedules DEF Open
<1> HIDE DEF v
<1>2. HonestAnswers(v)
  BY <1>1, OpenFacts DEF HonestAnswers, Moves
<1>3. Homed(w) => Candid(v)
  BY <1>1, <1>2 DEF Open, Active, Candid, Homed, Moved
<1>4. v.status # "IN_PROGRESS" => Open(v)
  BY <1>1, <1>2 DEF Open, Active, Candid
<1>5. QED BY <1>1, <1>2, <1>3, <1>4 DEF Sound, v

\* An acquisition is one more sample, which there is room for.
LEMMA AcquisitionIsCandid ==
  ASSUME NEW w, Open(w), w.session.kind \in Sampling \cup {"SELF_TEST"}, Expects(w.session)
  PROVE  LET v == ScheduleSessionAcquire(w)
         IN  /\ Candid(v)
             /\ v.status # "IN_PROGRESS" => Open(v) /\ v.session = w.session
<1> DEFINE d == IF w.session.kind = "SAMPLE_RATE" THEN w.session.ready ELSE Deadline
           x == ScheduleSession(w, "ACQUIRE", d)
           v == At(x, "WAIT_ACQUIRE")
<1>1. d \in Nat /\ "ACQUIRE" \in JobKind /\ "WAIT_ACQUIRE" \in Phase
  BY DeviceAssumption, OpenFacts DEF SessionType, JobKind, Phase
<1>2. /\ Candid(x) /\ x \in WorldType /\ x.session = w.session /\ HonestAnswers(x)
      /\ x.status # "IN_PROGRESS" => Open(x)
  BY <1>1, ScheduledIsCandid DEF Homed, Moved, Sampling
<1>3. ScheduleSessionAcquire(w) = IF x.status = "IN_PROGRESS" THEN v ELSE x
  BY DEF ScheduleSessionAcquire
<1> HIDE DEF x
<1>4. Edits(x, v) /\ v.session = [x.session EXCEPT !.phase = "WAIT_ACQUIRE"]
  BY <1>1, <1>2, AtEdits
<1> HIDE DEF v
<1>5. v.status = x.status /\ v.pass = x.pass
  BY <1>4 DEF Edits, Elsewhere
<1>6. w.session.kind # "STRESS_BUS_FREQ"
  BY DEF Sampling
<1>7. SameBooks(w.session, v.session)
  BY <1>2, <1>4, <1>6, OpenFacts DEF SessionType, SameBooks
<1>8. Books(v.session) /\ Expects(v.session)
  BY <1>6, <1>7, OpenFacts DEF SameBooks, Books, Adds, Remembers, Keeps, Expects
<1>9. Candid(v)
  BY <1>2, <1>5, <1>6, <1>7, <1>8 DEF Candid, HonestAnswers, SameBooks, Homed, Moved
<1>10. QED BY <1>2, <1>3, <1>5, <1>9

\* watch, sample_rate and soak end with the count or the time they were given.
LEMMA SamplingIsCandid ==
  ASSUME NEW w, Open(w), w.session.kind \in {"WATCH", "SAMPLE_RATE", "SOAK"}
  PROVE  Candid(AdvanceSampling(w))
<1> DEFINE s == w.session
           due == s.phase = "WAIT_INTERVAL" /\ s.due = 0
           over == IF s.kind = "SOAK" THEN s.left = 0 ELSE s.stats.completed >= s.count
           a == At(w, "SAMPLE_READY")
           r == [a EXCEPT !.session.ready = Deadline]
           v == IF due THEN r ELSE w
<1>1. /\ w \in WorldType /\ HonestAnswers(w) /\ s \in SessionType /\ s.stats \in Stats
      /\ Adds(s) /\ Remembers(s) /\ Keeps(s) /\ s.kind # "NONE"
  BY OpenFacts
<1>2. /\ s.stats.completed \in Nat /\ s.count \in Nat
      /\ s.kind \in Repeating <=> s.kind # "SOAK"
      /\ s.kind \in Sums <=> s.kind # "SOAK"
      /\ s.kind \in Sampling \cup {"SELF_TEST"} /\ s.kind \in Scheduling
      /\ s.kind \notin {"DUMP", "VERIFY", "STRESS_BUS_FREQ", "STRESS_RESET", "STRESS_MIX"}
      /\ "SAMPLE_READY" \in Phase
  BY <1>1 DEF Stats, SessionType, Repeating, Sums, Scheduling, Sampling, Phase
<1>3. ASSUME NEW u, Open(u), SameBooks(s, u.session),
             u.session.kind # "SOAK" => u.session.stats.completed < u.session.count
      PROVE  Candid(SampleNow(u)) /\ Candid(FinishFailed(Complete(u, "failed")))
  <2> DEFINE x == ScheduleSessionAcquire(u)
  <2>1. u.session.kind = s.kind
    BY <1>3 DEF SameBooks
  <2>2. Expects(u.session)
    BY <1>2, <1>3, <2>1 DEF Expects
  <2>3. Candid(x) /\ (x.status # "IN_PROGRESS" => Open(x) /\ x.session = u.session)
    BY <1>2, <1>3, <2>1, <2>2, AcquisitionIsCandid
  <2> HIDE DEF x
  <2>4. ASSUME NEW z, Open(z), z.session = u.session
        PROVE  Candid(FinishFailed(Complete(z, "failed")))
    <3>1. /\ z \in WorldType /\ HonestAnswers(z) /\ z.session.kind # "NONE" /\ Adds(z.session)
      BY <2>4, OpenFacts
    <3>2. /\ z.session.kind \notin {"DUMP", "VERIFY"}
          /\ z.session.kind \in Repeating => z.session.stats.completed < z.session.count
      BY <1>2, <1>3, <2>1, <2>4
    <3>3. QED BY <3>1, <3>2, FailedNow
  <2>5. QED BY <1>3, <2>3, <2>4 DEF SampleNow, x
<1>4. Open(a) /\ SameBooks(s, a.session)
  BY <1>2, PhaseOpens
<1> HIDE DEF a
<1>5. Open(r) /\ SameBooks(s, r.session)
  <2>1. a \in WorldType /\ a.session \in SessionType
    BY <1>4, OpenFacts
  <2>2. Edits(a, r)
    BY <2>1, FieldEdits, DeviceAssumption
  <2>3. SameBooks(a.session, r.session)
    BY <2>1 DEF WorldType, SessionType, SameBooks
  <2>4. Open(r)
    BY <1>4, <2>2, <2>3, EditsOpen
  <2>5. QED BY <1>4, <2>3, <2>4 DEF SameBooks
<1> HIDE DEF r
<1>6. Open(v) /\ SameBooks(s, v.session) /\ SameBooks(s, w.session)
  BY <1>5 DEF SameBooks
<1>7. AdvanceSampling(w) =
        IF s.stopRequested THEN FinishCancelled(w)
        ELSE IF over THEN FinishByTally(w)
        ELSE IF s.kind # "SAMPLE_RATE" THEN IF due THEN SampleNow(w) ELSE w
        ELSE IF v.session.phase # "SAMPLE_READY" THEN w
        ELSE IF v.session.ready = 0 THEN FinishFailed(Complete(v, "failed"))
        ELSE SampleNow(v)
  BY DEF AdvanceSampling, r, a
<1> HIDE DEF v, due
<1>8. CASE s.stopRequested
  BY <1>7, <1>8, OpenEnds
<1>9. CASE ~s.stopRequested /\ over
  <2>1. s.stats.hasFailure <=> s.stats.failed > 0
    BY <1>1, <1>2 DEF Remembers
  <2>2. s.kind \in Repeating /\ s.stats.failed = 0 => s.stats.passed = s.count
    BY <1>1, <1>2, <1>9 DEF Adds, Stats
  <2>3. Candid(FinishByTally(w))
    BY <1>1, <2>1, <2>2, TallyIsHonest DEF Moved, Sampling
  <2>4. QED BY <1>7, <1>9, <2>3
<1>10. CASE ~s.stopRequested /\ ~over
  <2>1. s.kind # "SOAK" => s.stats.completed < s.count
    BY <1>2, <1>10
  <2>2. /\ v.session.kind # "SOAK" => v.session.stats.completed < v.session.count
    BY <1>6, <2>1 DEF SameBooks
  <2>3. Candid(SampleNow(w)) /\ Candid(SampleNow(v)) /\ Candid(FinishFailed(Complete(v, "failed")))
    BY <1>3, <1>6, <2>1, <2>2
  <2>4. QED BY <1>7, <1>10, <2>3, OpenIsCandid
<1>11. QED BY <1>8, <1>9, <1>10

\* stress_reset ends after its last round.
LEMMA ResetStressIsCandid ==
  ASSUME NEW w, Open(w), w.session.kind = "STRESS_RESET"
  PROVE  Candid(AdvanceResetStress(w))
<1> DEFINE s == w.session
           v == ScheduleSession(w, "RESET_AND_REAPPLY", Deadline)
<1>1. /\ w \in WorldType /\ HonestAnswers(w) /\ s \in SessionType /\ s.stats \in Stats
      /\ Adds(s) /\ Remembers(s) /\ Keeps(s) /\ s.kind # "NONE"
  BY OpenFacts
<1>2. /\ "STRESS_RESET" \in Repeating /\ "STRESS_RESET" \in Sums /\ "STRESS_RESET" \in Scheduling
      /\ "RESET_AND_REAPPLY" \in JobKind /\ Deadline \in Nat
  BY DeviceAssumption DEF Repeating, Sums, Scheduling, JobKind
<1>3. /\ s.stats.failed = 0 /\ ~s.stats.hasFailure /\ s.stats.passed = s.index
      /\ s.stats.completed = s.index /\ s.index <= s.count
      /\ s.count \in Nat /\ s.index \in Nat
  BY <1>1, <1>2 DEF Adds, Remembers, Keeps, Stats, SessionType
<1>4. CASE s.index >= s.count
  <2>1. s.stats.passed = s.count
    BY <1>3, <1>4
  <2>2. Candid(FinishSession(w, "OK", "SUCCESS"))
    BY <1>1, <1>3, <2>1, EndsAreHonest DEF Moved
  <2>3. QED BY <1>4, <2>2 DEF AdvanceResetStress
<1>5. CASE ~(s.index >= s.count)
  <2>1. s.stats.completed < s.count
    BY <1>3, <1>5
  <2>2. Expects(s)
    BY <1>2, <2>1 DEF Expects
  <2>3. Candid(v) /\ v \in WorldType /\ v.session = s /\ HonestAnswers(v)
    BY <1>2, <2>2, ScheduledIsCandid DEF Homed, Moved
  <2> HIDE DEF v
  <2>4. Candid(FinishFailed(Complete(v, "failed")))
    BY <1>1, <2>1, <2>3, FailedNow
  <2>5. QED BY <1>5, <2>3, <2>4 DEF AdvanceResetStress, v
<1>6. QED BY <1>4, <1>5

\* A round is counted and the next one begins.
LEMMA RoundIsCandid ==
  ASSUME NEW w \in WorldType, HonestAnswers(w), w.pending = NoPending, Adds(w.session),
         w.session.kind \in Sampling, ~w.session.iterationFailed \/ w.session.kind # "STRESS_MIX",
         NEW verdict \in {"passed", "failed"},
         verdict = "passed" => (w.session.stats.hasFailure <=> w.session.stats.failed > 0),
         NEW x, Tallied(w, x, verdict), NEW z, Edits(x, z), SameBooks(x.session, z.session),
         NEW phase \in Phase
  PROVE  Candid(At(Iterated(z), phase))
<1> DEFINE y == At(Iterated(z), phase)
<1>1. z \in WorldType
  BY DEF Edits
<1>2. /\ Edits(z, y) /\ y.session.stats = z.session.stats
      /\ y.session.iterationFailed = z.session.iterationFailed
  BY <1>1, NextRound
<1> HIDE DEF y
<1>3. /\ y.session.kind = w.session.kind /\ y.session.count = x.session.count
      /\ y.session.stats = x.session.stats
      /\ y.session.iterationFailed = w.session.iterationFailed
      /\ y.pass = w.pass /\ y.pending = NoPending
  BY <1>2 DEF Tallied, Edits, Elsewhere, SameSession, SameBooks
<1>4. w.session.kind \in {"WATCH", "SAMPLE_RATE", "STRESS_MIX", "SOAK"}
  BY DEF Sampling
<1>5. Adds(y.session)
  BY <1>3 DEF Tallied, Adds
<1>6. Remembers(y.session)
  BY <1>3, <1>4 DEF Tallied, Remembers
<1>7. Keeps(y.session)
  BY <1>3, <1>4 DEF Keeps
<1>8. Candid(y)
  BY <1>3, <1>5, <1>6, <1>7 DEF Candid, Books, HonestAnswers
<1>9. QED BY <1>8 DEF y

\* A round of stress_mix that is over, whatever failed in it.
LEMMA MixedRoundIsCandid ==
  ASSUME NEW w \in WorldType, HonestAnswers(w), w.pending = NoPending, Adds(w.session),
         w.session.kind = "STRESS_MIX", w.session.stats.completed < w.session.count,
         NEW verdict \in {"passed", "failed"},
         verdict = "passed" => (w.session.stats.hasFailure <=> w.session.stats.failed > 0)
  PROVE  Candid(At(Iterated(Complete([w EXCEPT !.session.iterationFailed = FALSE], verdict)),
                   "MIX_STATUS"))
<1> DEFINE f == [w EXCEPT !.session.iterationFailed = FALSE]
           x == Complete(f, verdict)
<1>1. Edits(w, f) /\ w.session \in SessionType
  BY FieldEdits DEF WorldType
<1>2. /\ f.session.stats = w.session.stats /\ f.session.iterationFailed = FALSE
      /\ f.session.kind = "STRESS_MIX" /\ f.session.count = w.session.count
  BY <1>1 DEF WorldType, SessionType
<1> HIDE DEF f
<1>3. f \in WorldType /\ f.pending = NoPending /\ f.pass = w.pass
  BY <1>1 DEF Edits, Elsewhere
<1>4. Adds(f.session) /\ HonestAnswers(f)
  BY <1>2, <1>3 DEF Adds, HonestAnswers
<1>5. Tallied(f, x, verdict)
  BY <1>2, <1>3, <1>4, CompleteAdds
<1> HIDE DEF x
<1>6. Edits(x, x) /\ SameBooks(x.session, x.session)
  BY <1>5 DEF Tallied, Edits, Elsewhere, SameSession, SameBooks
<1>7. "MIX_STATUS" \in Phase /\ "STRESS_MIX" \in Sampling
  BY DEF Phase, Sampling
<1>8. Candid(At(Iterated(x), "MIX_STATUS"))
  BY <1>2, <1>3, <1>4, <1>5, <1>6, <1>7, RoundIsCandid
<1>9. QED BY <1>8 DEF x, f

\* stress_mix remembers a failure until the round is counted.
LEMMA MixedIsCandid ==
  ASSUME NEW w, Open(w), NEW io \in IO, w.session.kind = "STRESS_MIX"
  PROVE  Candid(AdvanceMixed(w, io))
<1> DEFINE s == w.session
           d == DirectRead(w, io)
           r == ReadIntb(w, io)
           k == Record(r, "skipped")
           a == ScheduleSessionAcquire(w)
<1>1. /\ w \in WorldType /\ HonestAnswers(w) /\ s \in SessionType /\ s.stats \in Stats
      /\ Adds(s) /\ Remembers(s) /\ Keeps(s) /\ s.kind # "NONE" /\ w.pending = NoPending
  BY OpenFacts
<1>2. /\ "STRESS_MIX" \in Repeating /\ "STRESS_MIX" \in Sums /\ "STRESS_MIX" \in Scheduling
      /\ "STRESS_MIX" \in Sampling
  BY DEF Repeating, Sums, Scheduling, Sampling
<1>3. s.stats.completed \in Nat /\ s.count \in Nat
  BY <1>1 DEF Stats, SessionType
<1>4. CASE s.stopRequested
  BY <1>4, OpenEnds DEF AdvanceMixed
<1>5. CASE ~s.stopRequested /\ s.stats.completed >= s.count
  <2>1. s.stats.completed = s.count /\ ~s.iterationFailed
    BY <1>1, <1>2, <1>3, <1>5 DEF Adds, Keeps
  <2>2. /\ s.stats.hasFailure <=> s.stats.failed > 0
        /\ s.stats.failed = 0 => s.stats.passed = s.count
    BY <1>1, <1>2, <2>1 DEF Adds, Remembers, Stats
  <2>3. Candid(FinishByTally(w))
    BY <1>1, <2>2, TallyIsHonest DEF Moved
  <2>4. QED BY <1>5, <2>3 DEF AdvanceMixed
<1>6. CASE ~s.stopRequested /\ ~(s.stats.completed >= s.count)
  <2>1. s.stats.completed < s.count
    BY <1>3, <1>6
  <2>2. ASSUME NEW u, Open(u), u.session.kind = "STRESS_MIX",
               u.session.stats.completed < u.session.count, NEW next \in Phase
        PROVE  Candid(MixRead(w, u, next))
    <3> DEFINE f == [u EXCEPT !.session.iterationFailed = TRUE]
               g == RecordFailure(f)
               y == At(g, next)
    <3>1. /\ u \in WorldType /\ u.session \in SessionType /\ u.pending = NoPending
          /\ HonestAnswers(u) /\ Adds(u.session)
      BY <2>2, OpenFacts
    <3>2. Edits(u, f)
      BY <3>1, FieldEdits
    <3>3. /\ f.session.stats = u.session.stats /\ f.session.iterationFailed = TRUE
      BY <3>1 DEF WorldType, SessionType
    <3> HIDE DEF f
    <3>4. f \in WorldType /\ f.session \in SessionType
      BY <3>2 DEF Edits, WorldType
    <3>5. /\ Edits(f, g) /\ g.session = [f.session EXCEPT !.stats = g.session.stats]
          /\ g.session.stats = [f.session.stats EXCEPT !.hasFailure = TRUE]
      BY <3>4, RecordFailureEdits
    <3> HIDE DEF g
    <3>6. Edits(g, y) /\ y.session = [g.session EXCEPT !.phase = next]
      BY <2>2, <3>5, AtEdits DEF Edits
    <3> HIDE DEF y
    <3>7. g.session \in SessionType /\ f.session.stats \in Stats
      BY <3>4, <3>5 DEF Edits, WorldType, SessionType
    <3>8. /\ y.session.iterationFailed = TRUE /\ y.session.stats.hasFailure = TRUE
          /\ y.session.stats.completed = u.session.stats.completed
          /\ y.session.stats.passed = u.session.stats.passed
          /\ y.session.stats.failed = u.session.stats.failed
      BY <3>3, <3>4, <3>5, <3>6, <3>7 DEF SessionType, Stats
    <3>9. /\ y.session.kind = "STRESS_MIX" /\ y.session.count = u.session.count
          /\ y.pending = NoPending /\ y.pass = u.pass
      BY <2>2, <3>1, <3>2, <3>5, <3>6 DEF Edits, Elsewhere, SameSession
    <3>10. Adds(y.session) /\ Remembers(y.session) /\ Keeps(y.session)
      BY <2>2, <3>1, <3>8, <3>9 DEF Adds, Remembers, Keeps
    <3>11. Candid(y)
      BY <3>1, <3>9, <3>10 DEF Candid, Books, HonestAnswers
    <3>12. Candid(At(u, next))
      BY <2>2, PhaseOpens, OpenIsCandid
    <3>13. QED BY <3>11, <3>12 DEF MixRead, f, g, y
  <2>3. Open(d) /\ d.session = s /\ Open(r) /\ r.session = s
    BY <1>1, CallsRead, ReadsOpen
  <2> HIDE DEF d, r
  <2>4. /\ Open(k) /\ k.session.kind = "STRESS_MIX"
        /\ k.session.stats.completed < k.session.count
    <3>1. Open(k) /\ k.session.kind = "STRESS_MIX"
      BY <2>3, RecordOpens DEF Tally
    <3>2. Recorded(r, k, "skipped")
      BY <2>3, OpenFacts, RecordIsRecorded DEF Tally
    <3>3. k.session.stats.completed = s.stats.completed /\ k.session.count = s.count
      BY <2>3, <3>2 DEF Recorded, Edits, SameSession
    <3>4. QED BY <2>1, <3>1, <3>3
  <2> HIDE DEF k
  <2>5. /\ Candid(MixRead(w, d, "MIX_READY")) /\ Candid(MixRead(w, d, "MIX_INTB"))
        /\ Candid(MixRead(w, k, "MIX_INIT_DRIVE")) /\ Candid(MixRead(w, r, "MIX_INIT_DRIVE"))
        /\ Candid(MixRead(w, d, "MIX_ACQUIRE"))
    BY <2>1, <2>2, <2>3, <2>4 DEF Phase
  <2>6. Expects(s)
    BY <1>2, <2>1 DEF Expects
  <2>7. Candid(a) /\ (a.status # "IN_PROGRESS" => Open(a) /\ a.session = s)
    BY <1>2, <2>6, AcquisitionIsCandid
  <2> HIDE DEF a
  <2>8. a.status # "IN_PROGRESS" =>
          Candid(At(Iterated(Complete([a EXCEPT !.session.iterationFailed = FALSE], "failed")),
                    "MIX_STATUS"))
    BY <2>1, <2>7, OpenFacts, MixedRoundIsCandid
  <2>9. QED BY <1>6, <2>5, <2>7, <2>8 DEF AdvanceMixed, a, d, r, k
<1>7. QED BY <1>4, <1>5, <1>6

\* stress_bus_freq fails with a switch that fails, or with a bus left elsewhere.
LEMMA BusFrequencyStressIsCandid ==
  ASSUME NEW w, Open(w), NEW io \in IO, w.session.kind = "STRESS_BUS_FREQ"
  PROVE  Candid(AdvanceBusFrequencyStress(w, io))
<1> DEFINE s == w.session
           hz == IF s.phase = "STRESS_BUS_FREQ_RESTORE" THEN s.home ELSE RequestedHz(s)
           v == SetFrequency(w, hz, io)
           x == InvalidateAppliedState(v)
           y == ScheduleSession(x, "INITIALIZE", Deadline)
           failed(u) == At(Complete(u, "failed"), "STRESS_BUS_FREQ_RESTORE")
<1>1. /\ w \in WorldType /\ HonestAnswers(w) /\ s \in SessionType /\ s.stats \in Stats
      /\ Adds(s) /\ Remembers(s) /\ Keeps(s) /\ s.kind # "NONE" /\ w.pending = NoPending
  BY OpenFacts
<1>2. /\ "STRESS_BUS_FREQ" \in Repeating /\ "STRESS_BUS_FREQ" \in Sums
      /\ "STRESS_BUS_FREQ" \in Scheduling /\ "STRESS_BUS_FREQ_RESTORE" \in Phase
      /\ "INITIALIZE" \in JobKind /\ Deadline \in Nat
  BY DeviceAssumption DEF Repeating, Sums, Scheduling, JobKind, Phase
<1>3. hz \in Hz
  BY <1>1 DEF RequestedHz, Hz, SessionType
<1>4. AdvanceBusFrequencyStress(w, io) =
        IF s.phase = "STRESS_BUS_FREQ_RESTORE"
        THEN IF v.status # "OK" THEN FinishFailed(v)
             ELSE IF y.status # "IN_PROGRESS" THEN FinishFailed(y) ELSE y
        ELSE IF s.index >= s.count THEN At(w, "STRESS_BUS_FREQ_RESTORE")
        ELSE IF v.status # "OK" THEN failed(v)
        ELSE IF y.status # "IN_PROGRESS" THEN failed(y) ELSE y
  BY DEF AdvanceBusFrequencyStress
<1> HIDE DEF hz
<1>5. /\ v \in WorldType
      /\ v.device.job = w.device.job /\ v.device.queue = w.device.queue
      /\ v.device.bound = w.device.bound /\ v.device.applied = w.device.applied
      /\ v.pending = w.pending /\ v.session = w.session /\ v.pass = w.pass
      /\ v.device.sameBus # w.device.sameBus => v.status = "OK"
      /\ v.status = "OK" => v.bus.hz = hz
  BY <1>1, <1>3, FrequencyChanges
<1> HIDE DEF v
<1>6. v.device.job = NoJob
  BY <1>5 DEF Open, Active, Sound, Correlated
<1>7. /\ x \in WorldType /\ x.device = [v.device EXCEPT !.applied = "UNKNOWN"]
      /\ x.pending = v.pending /\ x.session = v.session /\ x.pass = v.pass /\ x.bus = v.bus
  BY <1>5, <1>6, InvalidationDistrusts
<1>8. /\ x.device.job = v.device.job /\ x.device.queue = v.device.queue
      /\ x.device.applied = "UNKNOWN" /\ x.device.bound = v.device.bound
  BY <1>5, <1>7 DEF WorldType, DeviceType
<1> HIDE DEF x
<1>9. Open(x) /\ x.session = s
  <2>1. Active(x)
    BY <1>5, <1>6, <1>7, <1>8 DEF Open, Active, Sound, Correlated, Trusted
  <2>2. QED BY <1>1, <1>5, <1>7, <2>1 DEF Open, Candid, Books, HonestAnswers
<1>10. /\ v.status = "OK" => Candid(y)
       /\ y \in WorldType /\ y.session = s /\ HonestAnswers(y)
       /\ y.status # "IN_PROGRESS" => y.pending = NoPending
  <2>1. Expects(s)
    BY <1>2 DEF Expects
  <2>2. /\ Homed(x) => Candid(y)
        /\ y \in WorldType /\ y.session = s /\ HonestAnswers(y)
        /\ y.status # "IN_PROGRESS" => Open(y)
    BY <1>2, <1>9, <2>1, ScheduledIsCandid
  <2>3. v.status = "OK" => Homed(x)
    BY <1>5, <1>7, <1>9 DEF Homed, Moved, hz
  <2>4. QED BY <2>2, <2>3, OpenFacts
<1> HIDE DEF y
<1>11. v.session = s /\ v.pending = NoPending /\ HonestAnswers(v)
  BY <1>1, <1>5 DEF HonestAnswers
<1>12. CASE s.phase = "STRESS_BUS_FREQ_RESTORE"
  <2>1. Candid(FinishFailed(v)) /\ Candid(FinishFailed(y))
    BY <1>1, <1>5, <1>10, <1>11, EndsAreHonest
  <2>2. QED BY <1>4, <1>10, <1>12, <2>1
<1>13. CASE s.phase # "STRESS_BUS_FREQ_RESTORE"
  <2>1. /\ s.index < s.count /\ s.stats.failed = 0 /\ s.stats.completed = s.index
        /\ s.index \in Nat /\ s.count \in Nat
    BY <1>1, <1>2, <1>13 DEF Adds, Keeps, Stats, SessionType
  <2>2. ASSUME NEW u \in WorldType, u.session = s, u.pending = NoPending, HonestAnswers(u)
        PROVE  Candid(failed(u))
    <3> DEFINE c == Complete(u, "failed")
               z == At(c, "STRESS_BUS_FREQ_RESTORE")
    <3>1. Tallied(u, c, "failed")
      BY <1>1, <1>2, <2>1, <2>2, CompleteAdds
    <3> HIDE DEF c
    <3>2. Edits(c, z) /\ z.session = [c.session EXCEPT !.phase = "STRESS_BUS_FREQ_RESTORE"]
      BY <1>2, <3>1, AtEdits DEF Tallied
    <3> HIDE DEF z
    <3>3. c.session \in SessionType
      BY <3>1 DEF Tallied, WorldType
    <3>4. /\ z.session.kind = "STRESS_BUS_FREQ" /\ z.session.count = c.session.count
          /\ z.session.phase = "STRESS_BUS_FREQ_RESTORE"
          /\ z.session.stats = c.session.stats /\ z.pending = NoPending /\ z.pass = u.pass
      BY <2>2, <3>1, <3>2, <3>3 DEF SessionType, Tallied, Edits, Elsewhere
    <3>5. c.session.stats.failed > 0 /\ c.session.stats.hasFailure /\ Adds(c.session)
          /\ c.session.kind = "STRESS_BUS_FREQ"
      BY <2>2, <3>1 DEF Tallied
    <3>6. Adds(z.session) /\ Remembers(z.session) /\ Keeps(z.session)
      <4>1. c.session.stats.failed \in Nat
        BY <3>3 DEF SessionType, Stats
      <4>2. QED BY <3>4, <3>5, <4>1 DEF Adds, Remembers, Keeps
    <3>7. Candid(z)
      BY <2>2, <3>4, <3>6 DEF Candid, Books, HonestAnswers
    <3>8. QED BY <3>7 DEF z, c
  <2>3. Candid(failed(v)) /\ (y.status # "IN_PROGRESS" => Candid(failed(y)))
    BY <1>5, <1>10, <1>11, <2>2
  <2> HIDE DEF failed
  <2>4. ~(s.index >= s.count)
    BY <2>1
  <2>5. QED BY <1>4, <1>10, <1>13, <2>3, <2>4
<1>14. QED BY <1>12, <1>13

\* A self test whose books are in order, which needs only its counters.
Testing(w) == Open(w) /\ w.session.kind = "SELF_TEST"

\* A verdict of the self test keeps the books in order, and puts them so.
LEMMA SelfTestOpens ==
  ASSUME NEW w, Active(w), HonestAnswers(w), w.session.kind = "SELF_TEST", Adds(w.session),
         NEW ok, ok => Remembers(w.session)
  PROVE  Testing(SelfTest(w, ok))
<1>1. w \in WorldType
  BY DEF Active, Sound
<1>2. CASE ok
  <2>1. Open(w)
    BY <1>2 DEF Open, Candid, Books, Keeps, Active
  <2>2. QED BY <1>2, <2>1, RecordOpens DEF SelfTest, Testing, Tally
<1>3. CASE ~ok
  <2> DEFINE r == Record(w, "failed")
             f == RecordFailure(r)
  <2>1. Recorded(w, r, "failed")
    BY <1>1, RecordIsRecorded DEF Tally
  <2> HIDE DEF r
  <2>2. r \in WorldType
    BY <2>1 DEF Recorded, Edits
  <2>3. /\ Edits(r, f) /\ f.session = [r.session EXCEPT !.stats = f.session.stats]
        /\ f.session.stats = [r.session.stats EXCEPT !.hasFailure = TRUE]
    BY <2>2, RecordFailureEdits
  <2> HIDE DEF f
  <2>4. r.session.stats \in Stats
    BY <2>2 DEF WorldType, SessionType
  <2>5. f.session.stats.hasFailure /\ f.session.stats.failed > 0
    BY <2>1, <2>3, <2>4 DEF Recorded, Stats
  <2>6. Edits(w, f)
    BY <2>1, <2>3 DEF Recorded, Edits, Elsewhere, SameSession
  <2>7. /\ f.session.kind = "SELF_TEST" /\ f.session.count = w.session.count
        /\ f.pass = w.pass
    BY <2>6 DEF Edits, Elsewhere, SameSession
  <2>8. Active(f)
    BY <2>6, EditsStay
  <2>9. Adds(f.session) /\ Remembers(f.session) /\ Keeps(f.session)
    BY <2>5, <2>7 DEF Adds, Remembers, Keeps, Sums, Repeating
  <2>10. Open(f)
    BY <2>7, <2>8, <2>9 DEF Open, Candid, Books, HonestAnswers, Active
  <2>11. QED BY <1>3, <2>7, <2>10 DEF SelfTest, Testing, r, f
<1>4. QED BY <1>2, <1>3

\* What a self test goes through keeps its books.
LEMMA TestingSteps ==
  ASSUME NEW w, Testing(w), NEW ok, NEW phase \in Phase, NEW verdict \in Tally \ {"failed"},
         NEW io \in IO
  PROVE  /\ Testing(SelfTest(w, ok)) /\ Testing(At(w, phase)) /\ Testing(Record(w, verdict))
         /\ Testing(DirectRead(w, io)) /\ Testing(ReadIntb(w, io))
         /\ Testing([w EXCEPT !.session.cursor = 0])
         /\ Testing([w EXCEPT !.session.cursor = @ + 1])
<1>1. /\ w \in WorldType /\ Active(w) /\ HonestAnswers(w) /\ w.session.kind = "SELF_TEST"
      /\ Adds(w.session) /\ Remembers(w.session) /\ w.session \in SessionType /\ Open(w)
  BY OpenFacts DEF Testing, Open
<1>2. Testing(SelfTest(w, ok))
  BY <1>1, SelfTestOpens
<1>3. Testing(At(w, phase))
  BY <1>1, PhaseOpens DEF Testing, SameBooks
<1>4. Testing(Record(w, verdict))
  BY <1>1, RecordOpens DEF Testing
<1>5. Testing(DirectRead(w, io)) /\ Testing(ReadIntb(w, io))
  BY <1>1, CallsRead, ReadsOpen DEF Testing
<1>6. ASSUME NEW v, Edits(w, v), v.session.stats = w.session.stats PROVE Testing(v)
  <2>1. /\ v.session.kind = "SELF_TEST" /\ v.session.count = w.session.count
        /\ v.pass = w.pass /\ Active(v)
    BY <1>1, <1>6, EditsStay DEF Edits, Elsewhere, SameSession
  <2>2. Adds(v.session) /\ Remembers(v.session) /\ Keeps(v.session)
    BY <1>1, <1>6, <2>1 DEF Adds, Remembers, Keeps
  <2>3. QED BY <1>1, <2>1, <2>2 DEF Testing, Open, Candid, Books, HonestAnswers, Active
<1>7. Testing([w EXCEPT !.session.cursor = 0])
  <2> DEFINE v == [w EXCEPT !.session.cursor = 0]
  <2>1. Edits(w, v) /\ v.session.stats = w.session.stats
    BY <1>1, FieldEdits DEF WorldType, SessionType
  <2>2. QED BY <1>6, <2>1
<1>8. Testing([w EXCEPT !.session.cursor = @ + 1])
  <2> DEFINE v == [w EXCEPT !.session.cursor = @ + 1]
  <2>1. Edits(w, v) /\ v.session.stats = w.session.stats
    BY <1>1, FieldEdits DEF WorldType, SessionType
  <2>2. QED BY <1>6, <2>1
<1>9. QED BY <1>2, <1>3, <1>4, <1>5, <1>7, <1>8

\* However it goes on, a self test keeps its books.
LEMMA TestingEnds ==
  ASSUME NEW w, Testing(w)
  PROVE  /\ Candid(w) /\ Candid(FinishByTally(w)) /\ Candid(FinishFailed(w))
         /\ Candid(FinishCancelled(w))
<1>1. /\ w \in WorldType /\ Open(w) /\ HonestAnswers(w) /\ w.session.kind = "SELF_TEST"
      /\ Adds(w.session) /\ Remembers(w.session)
  BY OpenFacts DEF Testing
<1>2. Candid(FinishByTally(w))
  BY <1>1, TallyIsHonest DEF Remembers, Repeating, Moved
<1>3. QED BY <1>1, <1>2, OpenEnds, OpenIsCandid

\* selftest, check by check.
LEMMA SelfTestIsCandid ==
  ASSUME NEW w, Open(w), NEW io \in IO, w.session.kind = "SELF_TEST"
  PROVE  Candid(AdvanceSelfTest(w, io))
<1> DEFINE d == DirectRead(w, io)
           n == [w EXCEPT !.session.cursor = @ + 1]
           v == DirectRead(n, io)
           r == ReadIntb(w, io)
           x == ScheduleSessionAcquire(w)
<1>1. Testing(w) /\ io \in IO
  BY DEF Testing
<1>2. ASSUME NEW u, Testing(u), NEW ok, NEW phase \in Phase
      PROVE  Testing(SelfTest(u, ok)) /\ Candid(At(SelfTest(u, ok), phase)) /\ Candid(At(u, phase))
             /\ Candid(SelfRead(w, u, ok, phase))
  <2>1. "skipped" \in Tally \ {"failed"}
    BY DEF Tally
  <2>2. /\ Testing(SelfTest(u, ok)) /\ Testing(SelfTest(u, u.status = "OK" /\ ok))
        /\ Testing(At(u, phase))
    BY <1>1, <1>2, <2>1, TestingSteps
  <2>3. /\ Testing(At(SelfTest(u, ok), phase))
        /\ Testing(At(SelfTest(u, u.status = "OK" /\ ok), phase))
    BY <1>1, <1>2, <2>1, <2>2, TestingSteps
  <2>4. QED BY <2>2, <2>3, TestingEnds DEF SelfRead
<1>3. ASSUME NEW u, Testing(u), NEW verdict \in {"skipped", "completed"}
      PROVE  Testing(Record(u, verdict))
  BY <1>1, <1>3, TestingSteps DEF Tally, Phase
<1>4. /\ Testing(d) /\ Testing(r) /\ Testing(n) /\ Testing([w EXCEPT !.session.cursor = 0])
  <2>1. "skipped" \in Tally \ {"failed"} /\ "SELF_VERIFY" \in Phase
    BY DEF Tally, Phase
  <2>2. QED BY <1>1, <2>1, TestingSteps
<1>5. Testing(v)
  <2>1. "skipped" \in Tally \ {"failed"} /\ "SELF_VERIFY" \in Phase
    BY DEF Tally, Phase
  <2> HIDE DEF n
  <2>2. QED BY <1>1, <1>4, <2>1, TestingSteps
<1>6. {"SELF_MANUFACTURER", "SELF_DEVICE", "SELF_STATUS", "SELF_READY", "SELF_INTB",
       "SELF_INIT_DRIVE", "SELF_VERIFY", "SELF_ACQUIRE"} \subseteq Phase
  BY DEF Phase
<1> HIDE DEF d, n, v, r
<1>7. Candid(SelfPure(w))
  <2>1. Testing(SelfTest(SelfTest(w, w.device.bound), w.device.bound))
    BY <1>1, <1>2, <1>6
  <2>2. QED BY <1>2, <1>6, <2>1 DEF SelfPure
<1>8. Candid(SelfIntb(w, io))
  <2>1. Testing(Record(r, "skipped"))
    BY <1>3, <1>4
  <2>2. Candid(At(Record(r, "skipped"), "SELF_INIT_DRIVE"))
    BY <1>2, <1>6, <2>1
  <2>3. Candid(At(SelfTest(r, r.status = "OK"), "SELF_INIT_DRIVE"))
    BY <1>2, <1>4, <1>6
  <2>4. QED BY <2>2, <2>3 DEF SelfIntb, r
<1>9. Candid(SelfInitDrive(w, io))
  <2>1. Candid(At([w EXCEPT !.session.cursor = 0], "SELF_VERIFY"))
    BY <1>2, <1>4, <1>6
  <2>2. Candid(SelfTest(v, v.status = "OK"))
    BY <1>2, <1>5, <1>6, TestingEnds
  <2>3. QED BY <2>1, <2>2 DEF SelfInitDrive, v, n
<1>10. Candid(SelfVerify(w, io))
  <2>1. Candid(At(w, "SELF_ACQUIRE"))
    BY <1>1, <1>2, <1>6
  <2>2. Candid(FinishFailed(SelfTest(w, FALSE)))
    BY <1>1, <1>2, <1>6, TestingEnds
  <2>3. Testing(Record(v, "completed"))
    BY <1>3, <1>5
  <2>4. Candid(SelfTest(Record(v, "completed"), Record(v, "completed").status = "OK" /\ io # "odd"))
    BY <1>2, <1>6, <2>3, TestingEnds
  <2>5. QED BY <2>1, <2>2, <2>4 DEF SelfVerify, v, n
<1>11. Candid(SelfAcquire(w))
  <2>1. Testing(Record(Record(w, "skipped"), "skipped"))
    BY <1>1, <1>3
  <2>2. Expects(w.session)
    BY DEF Expects, Scheduling
  <2>3. Candid(x) /\ (x.status # "IN_PROGRESS" => Open(x) /\ x.session = w.session)
    BY <2>2, AcquisitionIsCandid
  <2> HIDE DEF x
  <2>4. x.status # "IN_PROGRESS" => Testing(Record(SelfTest(x, FALSE), "skipped"))
    BY <1>2, <1>3, <1>6, <2>3 DEF Testing
  <2>5. QED BY <2>1, <2>3, <2>4, TestingEnds DEF SelfAcquire, x
<1>12. /\ Candid(SelfRead(w, d, io # "odd", "SELF_DEVICE"))
       /\ Candid(SelfRead(w, d, io # "odd", "SELF_STATUS"))
       /\ Candid(SelfRead(w, d, TRUE, "SELF_READY")) /\ Candid(SelfRead(w, d, TRUE, "SELF_INTB"))
  BY <1>2, <1>4, <1>6
<1>13. Candid(FinishCancelled(w))
  BY <1>1, TestingEnds
<1>14. QED
  BY <1>7, <1>8, <1>9, <1>10, <1>11, <1>12, <1>13 DEF AdvanceSelfTest, d

\* Whatever the session, its pass keeps the books.
LEMMA SessionIsCandid ==
  ASSUME NEW w, Open(w), NEW io \in IO
  PROVE  Candid(AdvanceSession(w, io))
<1>1. w.session.kind \in SessionKind
  BY OpenFacts DEF SessionType
<1>2. QED
  BY <1>1, ProbeIsCandid, DiscoverIsCandid, DumpIsCandid, VerifyIsCandid, SamplingIsCandid,
     MixedIsCandid, IdentityStressIsCandid, ResetStressIsCandid, BusFrequencyStressIsCandid,
     SelfTestIsCandid
  DEF AdvanceSession, SessionKind, Sampling

\* u is the session v that waited for a job, once the job has been judged: a
\* failure is remembered before it is counted.
Judged(v, u, success) ==
  LET s == v.session
      t == u.session
  IN  /\ u \in WorldType /\ Active(u) /\ HonestAnswers(u) /\ u.pending = NoPending
      /\ t \in SessionType /\ t.stats \in Stats
      /\ t.kind = s.kind /\ t.count = s.count /\ t.index = s.index /\ t.cursor = s.cursor
      /\ t.phase = s.phase /\ t.iterationFailed = s.iterationFailed
      /\ Adds(t) /\ Keeps(t) /\ Expects(t) /\ Homed(u)
      /\ success => u = v /\ Open(u) /\ Remembers(t)

\* HandleSessionResult remembers a failure before the session counts it.
LEMMA ResultIsJudged ==
  ASSUME NEW v, Open(v), Expects(v.session), Homed(v), NEW success \in BOOLEAN
  PROVE  /\ Judged(v, IF success THEN v ELSE RecordFailure(v), success)
         /\ Judged(v, v, success)
<1> DEFINE f == RecordFailure(v)
<1>1. /\ v \in WorldType /\ v.session \in SessionType /\ v.session.stats \in Stats
      /\ v.pending = NoPending /\ HonestAnswers(v) /\ Active(v)
      /\ Adds(v.session) /\ Remembers(v.session) /\ Keeps(v.session)
  BY OpenFacts DEF Open
<1>2. Judged(v, v, success)
  BY <1>1 DEF Judged
<1>3. /\ Edits(v, f) /\ f.session = [v.session EXCEPT !.stats = f.session.stats]
      /\ f.session.stats = [v.session.stats EXCEPT !.hasFailure = TRUE]
  BY <1>1, RecordFailureEdits
<1> HIDE DEF f
<1>4. /\ f \in WorldType /\ f.pending = NoPending /\ f.pass = v.pass /\ f.bus = v.bus
  BY <1>1, <1>3 DEF Edits, Elsewhere
<1>5. Active(f) /\ HonestAnswers(f) /\ f.session \in SessionType /\ f.session.stats \in Stats
  BY <1>1, <1>3, <1>4, EditsStay DEF HonestAnswers, WorldType, SessionType
<1>6. /\ f.session.kind = v.session.kind /\ f.session.count = v.session.count
      /\ f.session.index = v.session.index /\ f.session.cursor = v.session.cursor
      /\ f.session.phase = v.session.phase /\ f.session.home = v.session.home
      /\ f.session.iterationFailed = v.session.iterationFailed
  BY <1>1, <1>3 DEF SessionType
<1>7. /\ f.session.stats.completed = v.session.stats.completed
      /\ f.session.stats.passed = v.session.stats.passed
      /\ f.session.stats.failed = v.session.stats.failed
      /\ f.session.stats.skipped = v.session.stats.skipped
  BY <1>1, <1>3 DEF Stats
<1>8. Adds(f.session) /\ Keeps(f.session) /\ Expects(f.session) /\ Homed(f)
  BY <1>1, <1>4, <1>6, <1>7 DEF Adds, Keeps, Expects, Homed, Moved
<1>9. ~success => Judged(v, f, success)
  BY <1>4, <1>5, <1>6, <1>8 DEF Judged
<1>10. QED BY <1>2, <1>9 DEF f

\* A session judged may end there.
LEMMA JudgedEnds ==
  ASSUME NEW v, NEW u, NEW success, Judged(v, u, success)
  PROVE  Candid(FinishFailed(u)) /\ Candid(FinishCancelled(u))
<1>1. u.session.kind # "NONE" /\ HonestAnswers(u) /\ u \in WorldType /\ Adds(u.session)
  BY DEF Judged, Active, Sound
<1>2. QED BY <1>1, EndsAreHonest

\* A round that passed is behind the session, and the next one to begin.
LEMMA PassedRound ==
  ASSUME NEW u, Open(u), u.session.kind \in {"STRESS_RESET", "STRESS_BUS_FREQ"},
         u.session.stats.failed = 0, u.session.stats.passed = u.session.index,
         u.session.index < u.session.count, NEW phase \in Phase,
         u.session.kind = "STRESS_BUS_FREQ" =>
           (phase # "STRESS_BUS_FREQ_RESTORE" <=> u.session.index + 1 < u.session.count)
  PROVE  Candid(At(Iterated(Complete(u, "passed")), phase))
<1> DEFINE x == Complete(u, "passed")
           y == At(Iterated(x), phase)
           s == u.session
<1>1. /\ u \in WorldType /\ s \in SessionType /\ s.stats \in Stats /\ u.pending = NoPending
      /\ HonestAnswers(u) /\ Adds(s) /\ Remembers(s)
  BY OpenFacts
<1>2. s.kind \in Repeating /\ s.kind \in Sums
  BY DEF Repeating, Sums
<1>3. s.stats.completed = s.index /\ s.index \in Nat /\ s.count \in Nat /\ ~s.stats.hasFailure
  BY <1>1, <1>2 DEF Adds, Remembers, Stats, SessionType
<1>4. Tallied(u, x, "passed")
  BY <1>1, <1>2, <1>3, CompleteAdds
<1> HIDE DEF x
<1>5. /\ Edits(x, y) /\ y.session.stats = x.session.stats
      /\ y.session.index = x.session.index + 1 /\ y.session.phase = phase
  BY <1>4, NextRound DEF Tallied
<1> HIDE DEF y
<1>6. /\ y.session.kind = s.kind /\ y.session.count = s.count
      /\ y.session.index = s.index + 1 /\ y.session.phase = phase
      /\ y.session.stats = x.session.stats /\ y.pending = NoPending /\ y.pass = u.pass
  BY <1>1, <1>4, <1>5 DEF Tallied, Edits, SameSession, Elsewhere
<1>7. /\ x.session.stats.failed = 0 /\ ~x.session.stats.hasFailure
      /\ x.session.stats.passed = s.index + 1 /\ Adds(x.session)
      /\ x.session.kind = s.kind /\ x.session.count = s.count
  BY <1>2, <1>3, <1>4 DEF Tallied
<1>8. Adds(y.session)
  BY <1>6, <1>7 DEF Adds
<1>9. Remembers(y.session)
  BY <1>6, <1>7 DEF Remembers
<1>10. Keeps(y.session)
  BY <1>3, <1>6, <1>7 DEF Keeps
<1>11. Candid(y)
  BY <1>1, <1>6, <1>8, <1>9, <1>10 DEF Candid, Books, HonestAnswers
<1>12. QED BY <1>11 DEF y, x

\* The results of jobs, session by session.
LEMMA ResetResultIsCandid ==
  ASSUME NEW v, NEW u, NEW success \in BOOLEAN, Judged(v, u, success),
         u.session.kind = "STRESS_RESET"
  PROVE  Candid(ResetStressResult(u, success))
<1>1. /\ u \in WorldType /\ HonestAnswers(u) /\ Adds(u.session) /\ u.session.kind # "NONE"
      /\ u.session.stats.completed < u.session.count
      /\ u.session.stats.failed = 0 /\ u.session.stats.passed = u.session.index
      /\ u.session.stats \in Stats /\ u.session.stats.completed = u.session.stats.passed
  BY DEF Judged, Expects, Keeps, Adds, Sums, Stats
<1>2. CASE success
  BY <1>1, <1>2, PassedRound DEF Judged, ResetStressResult, Phase
<1>3. CASE ~success
  BY <1>1, <1>3, FailedNow DEF ResetStressResult
<1>4. QED BY <1>2, <1>3

\* A frequency round that passed goes on, or brings the bus home.
LEMMA FrequencyResultIsCandid ==
  ASSUME NEW v, NEW u, NEW success \in BOOLEAN, Judged(v, u, success),
         u.session.kind = "STRESS_BUS_FREQ"
  PROVE  Candid(BusFrequencyResult(u, success))
<1> DEFINE s == u.session
           next == IF s.index + 1 >= s.count THEN "STRESS_BUS_FREQ_RESTORE"
                   ELSE "STRESS_BUS_FREQ_SWITCH"
           x == Complete(u, "failed")
           y == At(x, "STRESS_BUS_FREQ_RESTORE")
<1>1. /\ u \in WorldType /\ HonestAnswers(u) /\ Adds(s) /\ Keeps(s) /\ u.pending = NoPending
      /\ s \in SessionType /\ s.stats \in Stats
  BY DEF Judged
<1>2. /\ "STRESS_BUS_FREQ" \in Repeating /\ "STRESS_BUS_FREQ" \in Sums
      /\ "STRESS_BUS_FREQ_RESTORE" \in Phase /\ "STRESS_BUS_FREQ_SWITCH" \in Phase
  BY DEF Repeating, Sums, Phase
<1>3. s.index \in Nat /\ s.count \in Nat
  BY <1>1 DEF SessionType
<1>4. CASE s.phase = "STRESS_BUS_FREQ_RESTORE"
  <2>1. success => Candid(FinishByTally(u))
    <3>1. s.stats.failed = 0 => s.stats.passed = s.count
      BY <1>1, <1>4 DEF Keeps
    <3>2. success => (s.stats.hasFailure <=> s.stats.failed > 0)
      BY DEF Judged, Remembers
    <3>3. ~Moved(u)
      BY <1>4 DEF Judged, Homed
    <3>4. QED BY <1>1, <3>1, <3>2, <3>3, TallyIsHonest
  <2>2. Candid(FinishFailed(u))
    BY JudgedEnds
  <2>3. QED BY <1>4, <2>1, <2>2 DEF BusFrequencyResult
<1>5. CASE s.phase # "STRESS_BUS_FREQ_RESTORE"
  <2>1. /\ s.stats.failed = 0 /\ s.stats.passed = s.index /\ s.index < s.count
        /\ s.stats.completed = s.index
    BY <1>1, <1>2, <1>5 DEF Keeps, Adds, Stats
  <2>2. CASE success
    <3>1. /\ next \in Phase
          /\ next # "STRESS_BUS_FREQ_RESTORE" <=> s.index + 1 < s.count
      BY <1>2, <1>3
    <3> HIDE DEF next
    <3>2. Candid(At(Iterated(Complete(u, "passed")), next))
      BY <2>1, <2>2, <3>1, PassedRound DEF Judged
    <3>3. QED BY <1>5, <2>2, <3>2 DEF BusFrequencyResult, next
  <2>3. CASE ~success
    <3>1. Tallied(u, x, "failed")
      BY <1>1, <1>2, <2>1, CompleteAdds
    <3> HIDE DEF x
    <3>2. Edits(x, y) /\ y.session = [x.session EXCEPT !.phase = "STRESS_BUS_FREQ_RESTORE"]
      BY <1>2, <3>1, AtEdits DEF Tallied
    <3> HIDE DEF y
    <3>3. x.session \in SessionType /\ x.session.stats.failed \in Nat
      BY <3>1 DEF Tallied, WorldType, SessionType, Stats
    <3>4. /\ y.session.kind = "STRESS_BUS_FREQ" /\ y.session.count = x.session.count
          /\ y.session.phase = "STRESS_BUS_FREQ_RESTORE"
          /\ y.session.stats = x.session.stats /\ y.pending = NoPending /\ y.pass = u.pass
      BY <1>1, <3>1, <3>2, <3>3 DEF SessionType, Tallied, Edits, Elsewhere
    <3>5. x.session.stats.failed > 0 /\ x.session.stats.hasFailure /\ Adds(x.session)
          /\ x.session.kind = "STRESS_BUS_FREQ"
      BY <3>1 DEF Tallied
    <3>6. Adds(y.session) /\ Remembers(y.session) /\ Keeps(y.session)
      BY <3>3, <3>4, <3>5 DEF Adds, Remembers, Keeps
    <3>7. Candid(y)
      BY <1>1, <3>4, <3>6 DEF Candid, Books, HonestAnswers
    <3>8. QED BY <1>5, <2>3, <3>7 DEF BusFrequencyResult, x, y
  <2>4. QED BY <2>2, <2>3
<1>6. QED BY <1>4, <1>5

\* The acquisition of the self test is its last check.
LEMMA SelfTestResultIsCandid ==
  ASSUME NEW v, NEW u, NEW success \in BOOLEAN, Judged(v, u, success), NEW batch,
         u.session.kind = "SELF_TEST"
  PROVE  Candid(SelfTestResult(u, success, batch))
<1> DEFINE t == SelfTest(u, success)
<1>1. Testing(t)
  BY SelfTestOpens DEF Judged
<1> HIDE DEF t
<1>2. \E io \in IO : TRUE
  BY DEF IO
<1>3. ASSUME NEW verdict \in {"passed", "skipped"} PROVE Candid(FinishByTally(Record(t, verdict)))
  <2>1. verdict \in Tally \ {"failed"} /\ "NONE" \in Phase
    BY <1>3 DEF Tally, Phase
  <2>2. Testing(Record(t, verdict))
    BY <1>1, <1>2, <2>1, TestingSteps
  <2>3. QED BY <2>2, TestingEnds
<1>4. QED BY <1>3 DEF SelfTestResult, t

\* The acquisition of a mixed round ends the round.
LEMMA MixedResultIsCandid ==
  ASSUME NEW v, NEW u, NEW success \in BOOLEAN, Judged(v, u, success),
         u.session.kind = "STRESS_MIX"
  PROVE  Candid(MixedResult(u, success))
<1> DEFINE failed == u.session.iterationFailed \/ ~success
           verdict == IF failed THEN "failed" ELSE "passed"
<1>1. verdict \in {"passed", "failed"}
  OBVIOUS
<1>2. verdict = "passed" => (u.session.stats.hasFailure <=> u.session.stats.failed > 0)
  BY DEF Judged, Remembers
<1>3. u.session.stats.completed < u.session.count
  BY DEF Judged, Expects
<1>4. MixedResult(u, success) =
        At(Iterated(Complete([u EXCEPT !.session.iterationFailed = FALSE], verdict)), "MIX_STATUS")
  BY DEF MixedResult
<1> HIDE DEF verdict
<1>5. QED BY <1>1, <1>2, <1>3, <1>4, MixedRoundIsCandid DEF Judged

\* A sample that was counted, and when the next one is due.
LEMMA SampleIsCandid ==
  ASSUME NEW v, NEW u, NEW success \in BOOLEAN, Judged(v, u, success),
         u.session.kind \in {"WATCH", "SAMPLE_RATE", "SOAK"}, NEW n \in Nat
  PROVE  LET verdict == IF success THEN "passed" ELSE "failed"
         IN  Candid(At(Iterated([Complete(u, verdict) EXCEPT !.session.due = n]), "WAIT_INTERVAL"))
<1> DEFINE verdict == IF success THEN "passed" ELSE "failed"
           x == Complete(u, verdict)
           z == [x EXCEPT !.session.due = n]
<1>1. verdict \in {"passed", "failed"}
  OBVIOUS
<1>2. verdict = "passed" => (u.session.stats.hasFailure <=> u.session.stats.failed > 0)
  BY DEF Judged, Remembers
<1> HIDE DEF verdict
<1>3. /\ u \in WorldType /\ HonestAnswers(u) /\ u.pending = NoPending /\ Adds(u.session)
      /\ u.session.kind \in Repeating => u.session.stats.completed < u.session.count
  BY DEF Judged, Expects, Repeating
<1>4. Tallied(u, x, verdict)
  BY <1>1, <1>3, CompleteAdds
<1> HIDE DEF x
<1>5. x \in WorldType
  BY <1>4 DEF Tallied
<1>6. Edits(x, z)
  BY <1>5, FieldEdits
<1>7. SameBooks(x.session, z.session)
  BY <1>5 DEF WorldType, SessionType, SameBooks
<1> HIDE DEF z
<1>8. Candid(At(Iterated(z), "WAIT_INTERVAL"))
  BY <1>1, <1>2, <1>3, <1>4, <1>6, <1>7, RoundIsCandid DEF Sampling, Phase
<1>9. QED BY <1>8 DEF z, x, verdict

\* sample_rate counts samples, its first batch and its failures.
LEMMA SampleRateResultIsCandid ==
  ASSUME NEW v, NEW u, NEW success \in BOOLEAN, Judged(v, u, success), NEW batch,
         u.session.kind = "SAMPLE_RATE"
  PROVE  Candid(SampleRateResult(u, success, batch))
<1> DEFINE x == Complete(u, "failed")
           y == Iterated(x)
<1>1. success => Candid(At(u, "SAMPLE_READY"))
  BY PhaseOpens, OpenIsCandid DEF Judged, Phase
<1>2. success => Candid(At(Iterated([Complete(u, "passed") EXCEPT !.session.due = 0]), "WAIT_INTERVAL"))
  BY SampleIsCandid
<1>3. Candid(FinishFailed(y))
  <2>1. /\ u \in WorldType /\ HonestAnswers(u) /\ Adds(u.session)
        /\ u.session.stats.completed < u.session.count
    BY DEF Judged, Expects
  <2>2. Tallied(u, x, "failed")
    BY <2>1, CompleteAdds
  <2> HIDE DEF x
  <2>3. x \in WorldType /\ x.session \in SessionType
    BY <2>2 DEF Tallied, WorldType
  <2>4. Edits(x, y) /\ y.session = [x.session EXCEPT !.index = @ + 1]
    BY <2>3, IteratedEdits
  <2> HIDE DEF y
  <2>5. /\ y \in WorldType /\ y.pass = u.pass /\ y.session.kind = "SAMPLE_RATE"
        /\ y.session.count = x.session.count /\ y.session.stats = x.session.stats
    BY <2>2, <2>3, <2>4 DEF Tallied, Edits, Elsewhere, SameSession, SessionType
  <2>6. Adds(y.session) /\ HonestAnswers(y)
    BY <2>1, <2>2, <2>5 DEF Tallied, Adds, HonestAnswers
  <2>7. QED BY <2>5, <2>6, EndsAreHonest
<1>4. QED BY <1>1, <1>2, <1>3 DEF SampleRateResult, x, y

\* watch and soak count samples.
LEMMA SamplingResultIsCandid ==
  ASSUME NEW v, NEW u, NEW success \in BOOLEAN, Judged(v, u, success),
         u.session.kind \in {"WATCH", "SOAK"}
  PROVE  Candid(SamplingResult(u, success))
<1>1. u.session.period \in Nat
  BY DEF Judged, SessionType
<1>2. QED BY <1>1, SampleIsCandid DEF SamplingResult

\* Every result, a cancelled one included, is judged before it is counted.
LEMMA SessionResultIsCandid ==
  ASSUME NEW w, NEW result, Open([w EXCEPT !.pending = NoPending]), w.session # NoSession,
         Expects(w.session), [w EXCEPT !.pending = NoPending].session = w.session,
         Homed([w EXCEPT !.pending = NoPending])
  PROVE  Candid(HandleSessionResult(w, result))
<1> DEFINE v == [w EXCEPT !.pending = NoPending]
           batched == result.kind = "ACQUIRE" => result.batch # "none"
           success == result.outcome = "SUCCESS" /\ batched
           u == IF success \/ result.outcome = "CANCELLED" THEN v ELSE RecordFailure(v)
<1>1. success \in BOOLEAN
  OBVIOUS
<1>2. HandleSessionResult(w, result) =
        IF w.session.stopRequested \/ result.outcome = "CANCELLED" THEN FinishCancelled(u)
        ELSE CASE w.session.kind = "STRESS_RESET" -> ResetStressResult(u, success)
             [] w.session.kind = "STRESS_BUS_FREQ" -> BusFrequencyResult(u, success)
             [] w.session.kind = "SELF_TEST" -> SelfTestResult(u, success, result.batch)
             [] w.session.kind = "STRESS_MIX" -> MixedResult(u, success)
             [] w.session.kind = "SAMPLE_RATE" -> SampleRateResult(u, success, result.batch)
             [] OTHER -> SamplingResult(u, success)
  BY DEF HandleSessionResult
<1> HIDE DEF v, success
<1>3. /\ Judged(v, IF success THEN v ELSE RecordFailure(v), success) /\ Judged(v, v, success)
      /\ Judged(v, RecordFailure(v), FALSE)
  <2>1. Open(v) /\ Expects(v.session) /\ Homed(v)
    BY DEF v
  <2>2. Judged(v, IF FALSE THEN v ELSE RecordFailure(v), FALSE)
    BY <2>1, ResultIsJudged
  <2>3. QED BY <1>1, <2>1, <2>2, ResultIsJudged
<1>4. Candid(FinishCancelled(u))
  BY <1>3, JudgedEnds
<1>5. CASE result.outcome # "CANCELLED"
  <2>1. Judged(v, u, success)
    BY <1>3, <1>5
  <2> HIDE DEF u
  <2>2. u.session.kind = w.session.kind /\ u.session.kind \in Scheduling
    BY <2>1 DEF Judged, Expects, v
  <2>3. u.session.kind \in {"STRESS_RESET", "STRESS_BUS_FREQ", "SELF_TEST", "STRESS_MIX",
                            "SAMPLE_RATE", "WATCH", "SOAK"}
    BY <2>2 DEF Scheduling, Sampling
  <2>4. /\ u.session.kind = "STRESS_RESET" => Candid(ResetStressResult(u, success))
        /\ u.session.kind = "STRESS_BUS_FREQ" => Candid(BusFrequencyResult(u, success))
        /\ u.session.kind = "SELF_TEST" => Candid(SelfTestResult(u, success, result.batch))
        /\ u.session.kind = "STRESS_MIX" => Candid(MixedResult(u, success))
        /\ u.session.kind = "SAMPLE_RATE" => Candid(SampleRateResult(u, success, result.batch))
        /\ u.session.kind \in {"WATCH", "SOAK"} => Candid(SamplingResult(u, success))
    BY <1>1, <2>1, ResetResultIsCandid, FrequencyResultIsCandid, SelfTestResultIsCandid,
       MixedResultIsCandid, SampleRateResultIsCandid, SamplingResultIsCandid
  <2>5. QED BY <1>2, <1>4, <1>5, <2>2, <2>3, <2>4
<1>6. QED BY <1>2, <1>4, <1>5

\* The prompt says nothing.
LEMMA SettledIsCandid == ASSUME NEW w \in WorldType, Candid(w) PROVE Candid(Settled(w))
<1> DEFINE v == Settled(w)
<1>1. /\ v.session = w.session /\ v.pending = w.pending /\ v.pass = w.pass
      /\ v.bus = w.bus
  BY DEF Settled, Answered, Prompt, WorldType
<1> HIDE DEF v
<1>2. QED BY <1>1 DEF Candid, HonestAnswers, Homed, Moved, v

\* A command's answer reports nothing but how its job ended.
LEMMA CommandIsCandid ==
  ASSUME NEW w, Sound(w), Candid(w), w.device.queue # <<>>, w.pending.owner = "COMMAND"
  PROVE  Candid(CommandResult(Popped(w), w.device.queue[1]))
<1> DEFINE r == w.device.queue[1]
           a == [kind |-> r.kind, outcome |-> r.outcome,
                 code |-> IF r.outcome = "SUCCESS" THEN "OK" ELSE "ERROR",
                 count |-> 0, stats |-> NoStats, moved |-> FALSE]
           v == CommandResult(Popped(w), r)
           p == w.pass.answers
<1>1. /\ r \in ResultType /\ Popped(w).session = w.session
  BY ResultTaken
<1>2. w.session = NoSession /\ p \in Seq(AnswerType) /\ w \in WorldType
  BY DEF Sound, Correlated, WorldType, PassType
<1>3. a \in AnswerType
  BY <1>1 DEF ResultType, AnswerType, Code, Stats, NoStats
<1>4. Honest(a)
  BY <1>1 DEF Honest, ResultType, JobKind, SessionKind, Sampling
<1>5. Popped(w).pass = w.pass
  BY <1>2 DEF Popped, WorldType
<1>6. v.session = NoSession /\ v.pass.answers = Append(p, a)
  <2>1. Popped(w) = [w EXCEPT !.device = Popped(w).device]
    BY <1>2 DEF Popped, WorldType
  <2>2. QED BY <1>2, <1>5, <2>1 DEF CommandResult, WorldType, PassType
<1> HIDE DEF a, v
<1>7. /\ Len(Append(p, a)) = Len(p) + 1 /\ Append(p, a)[Len(p) + 1] = a
      /\ \A k \in 1 .. Len(p) : Append(p, a)[k] = p[k]
      /\ Len(p) \in Nat
  BY <1>2, <1>3, AppendProperties, LenProperties
<1>8. \A k \in 1 .. Len(p) : Honest(p[k])
  BY DEF Candid, HonestAnswers
<1>9. \A k \in 1 .. Len(Append(p, a)) : Honest(Append(p, a)[k])
  <2>1. SUFFICES ASSUME NEW k \in 1 .. Len(Append(p, a)) PROVE Honest(Append(p, a)[k])
    OBVIOUS
  <2>2. CASE k \in 1 .. Len(p)
    BY <1>7, <1>8, <2>2
  <2>3. CASE k = Len(p) + 1
    BY <1>4, <1>7, <2>3
  <2>4. QED BY <1>7, <2>2, <2>3
<1>10. QED BY <1>6, <1>9 DEF Candid, HonestAnswers, v

\* Draining the results keeps the books.
LEMMA DrainIsCandid ==
  ASSUME NEW w, Sound(w), Candid(w)
  PROVE  Candid(DrainResults(w)) /\ DrainResults(w) \in WorldType
<1>1. w \in WorldType /\ Moves(w, w, 1)
  BY DEF Sound, Moves, SameSession, WorldType, PassType
<1>2. CASE w.device.queue = <<>>
  BY <1>1, <1>2, DrainAnswers
<1>3. CASE w.device.queue # <<>>
  <2> DEFINE r == w.device.queue[1]
             y == DrainResults(w)
  <2>1. /\ Advances(w, y)
        /\ y = IF w.pending.owner = "SESSION" THEN HandleSessionResult(Popped(w), r)
               ELSE CommandResult(Popped(w), r)
    BY <1>1, <1>3, DrainAnswers
  <2> HIDE DEF y
  <2>2. y \in WorldType
    BY <2>1 DEF Advances, GoesOn, Ends, Sound
  <2>3. /\ Took(w, Resulting(w)) /\ Sound(Resulting(w)) /\ w.pending # NoPending
        /\ Popped(w).session = w.session
    BY <1>3, ResultTaken
  <2>4. w.pending.owner \in {"SESSION", "COMMAND"}
    BY <1>1, <2>3 DEF WorldType, PendingType
  <2>5. CASE w.pending.owner = "SESSION"
    <3>1. /\ Resulting(w).session = w.session /\ w.session # NoSession
          /\ Resulting(w).pending = NoPending /\ Resulting(w).pass = w.pass
          /\ Resulting(w).bus = w.bus
      BY <2>3, <2>5 DEF Took, Sound, Correlated
    <3>2. Books(w.session) /\ Expects(w.session) /\ HonestAnswers(w) /\ Homed(Resulting(w))
      BY <2>3, <3>1 DEF Candid, Homed, Moved
    <3>3. Open(Resulting(w))
      BY <2>3, <3>1, <3>2 DEF Open, Active, Candid, HonestAnswers
    <3>4. Candid(HandleSessionResult(Popped(w), r))
      BY <2>3, <3>1, <3>2, <3>3, SessionResultIsCandid DEF Resulting
    <3>5. QED BY <2>1, <2>2, <2>5, <3>4 DEF y
  <2>6. CASE w.pending.owner = "COMMAND"
    BY <1>3, <2>1, <2>2, <2>6, CommandIsCandid DEF y
  <2>7. QED BY <2>4, <2>5, <2>6
<1>4. QED BY <1>2, <1>3

\* service() keeps the books, whatever it does in the pass.
LEMMA ServiceIsCandid ==
  ASSUME NEW w, Rest(w), Candid(w), NEW io \in IO, NEW fate \in Fate
  PROVE  Candid(Service(w, io, fate))
<1>1. Sound(w) /\ w \in WorldType
  BY DEF Rest, Sound
<1>2. CASE JobActive(w)
  <2> DEFINE p == Poll(w, io, fate)
  <2>1. w.device.job # NoJob
    BY <1>2 DEF JobActive
  <2>2. /\ Sound(p) /\ Moves(w, p, 1) /\ p.session = w.session /\ p.pending = w.pending
        /\ p.bus = w.bus
    BY <1>1, <2>1, PollKeeps
  <2> HIDE DEF p
  <2>3. Candid(p)
    BY <2>2 DEF Candid, HonestAnswers, Moves, Homed, Moved
  <2>4. Candid(DrainResults(p)) /\ DrainResults(p) \in WorldType
    BY <2>2, <2>3, DrainIsCandid
  <2>5. QED BY <1>2, <2>4, SettledIsCandid DEF Service, p
<1>3. CASE ~JobActive(w)
  <2> DEFINE d == DrainResults(w)
             y == Advanced(d, io)
  <2>1. Candid(d) /\ d \in WorldType
    BY <1>1, DrainIsCandid
  <2>2. y \in WorldType /\ Candid(y)
    <3>1. CASE w.device.queue = <<>> /\ w.pending = NoPending /\ w.session # NoSession
      <4>1. d = w
        BY <1>1, <3>1, DrainAnswers DEF Moves, SameSession, WorldType, PassType
      <4>2. Open(w) /\ Active(w)
        BY <1>1, <3>1 DEF Open, Active
      <4>3. Candid(AdvanceSession(w, io)) /\ Advances(w, AdvanceSession(w, io))
        BY <4>2, SessionIsCandid, AdvanceSessionAdvances
      <4>4. AdvanceSession(w, io) \in WorldType
        BY <4>3 DEF Advances, GoesOn, Ends, Sound
      <4>5. QED BY <3>1, <4>1, <4>3, <4>4 DEF Advanced
    <3>2. CASE w.device.queue = <<>> /\ ~(w.pending = NoPending /\ w.session # NoSession)
      <4>1. d = w
        BY <1>1, <3>2, DrainAnswers DEF Moves, SameSession, WorldType, PassType
      <4> HIDE DEF d
      <4>2. y = d
        BY <3>2, <4>1 DEF Advanced
      <4>3. QED BY <2>1, <4>2
    <3>3. CASE w.device.queue # <<>>
      <4>1. w.stopped
        BY <3>3 DEF Rest
      <4>2. Ends(w, d)
        BY <4>1, StoppedAnswers
      <4> HIDE DEF d
      <4>3. y = d
        BY <4>2 DEF Advanced, Ends
      <4>4. QED BY <2>1, <4>3
    <3>4. QED BY <3>1, <3>2, <3>3
  <2> HIDE DEF y
  <2>3. QED BY <1>3, <2>2, SettledIsCandid DEF Service, y, d
<1>4. QED BY <1>2, <1>3

\* Books that are the same are in order together.
LEMMA SameBooksAgree ==
  ASSUME NEW s, NEW t, SameBooks(s, t)
  PROVE  (Books(s) => Books(t)) /\ (Expects(s) => Expects(t))
BY DEF SameBooks, Books, Adds, Remembers, Keeps, Expects

\* A world with no session and no answer has nothing to report.
LEMMA NothingToReport ==
  ASSUME NEW w, w.session = NoSession, w.pass.answers = <<>>
  PROVE  Candid(w)
BY EmptySeq DEF Candid, HonestAnswers

\* A line that is refused keeps the books, and so does one that keeps them.
LEMMA PromptIsCandid ==
  ASSUME NEW w, NEW h, Candid(w), ~Busy(w) => h \in WorldType /\ Candid(h)
  PROVE  Candid(WhenIdle(w, h))
<1>1. CASE Busy(w)
  BY <1>1 DEF WhenIdle, PromptForState
<1>2. CASE ~Busy(w)
  <2> DEFINE x == PromptForState(h)
  <2>1. /\ x.session = h.session /\ x.pending = h.pending /\ x.pass = h.pass
        /\ x.bus = h.bus
    BY <1>2 DEF PromptForState, Prompt, WorldType
  <2> HIDE DEF x
  <2>2. WhenIdle(w, h) = x
    BY <1>2 DEF WhenIdle, x
  <2>3. QED BY <1>2, <2>1, <2>2 DEF Candid, HonestAnswers, Homed, Moved
<1>3. QED BY <1>1, <1>2

\* A command's job has no books.
LEMMA CommandJobIsCandid ==
  ASSUME NEW w, Idled(w), w.pass.transfers = 0, NEW kind \in JobKind, NEW mask,
         NEW deadline \in Nat
  PROVE  LET v == ScheduleCommandJob(w, kind, mask, deadline)
         IN  v \in WorldType /\ Candid(v)
<1> DEFINE a == [w EXCEPT !.nextId = NextId(@)]
           b == StartJob(a, kind, w.nextId, mask, deadline)
           p == [owner |-> "COMMAND", id |-> w.nextId, kind |-> kind]
           c == [b EXCEPT !.deferred = TRUE, !.pending = p]
           v == ScheduleCommandJob(w, kind, mask, deadline)
<1>1. ~Busy(w) /\ w \in WorldType /\ w.nextId \in Nat
  BY DEF Idled, Busy, JobActive, WorldType
<1>2. a \in WorldType /\ a.session = w.session
  BY <1>1, NextIdType DEF WorldType
<1>3. v = IF b.status # "IN_PROGRESS" THEN b ELSE c
  BY <1>1 DEF ScheduleCommandJob
<1>4. v \in WorldType /\ v.pass.answers = <<>>
  BY CommandJobHandled DEF Handled, Sound
<1> HIDE DEF a, v
<1>5. Started(a, b, kind, w.nextId)
  BY <1>1, <1>2, JobsStart DEF StartJob, Admissible
<1> HIDE DEF b, p
<1>6. b.session = NoSession /\ c.session = NoSession
  BY <1>2, <1>5 DEF Idled, Started, WorldType
<1>7. QED BY <1>3, <1>4, <1>6, NothingToReport DEF v

\* A session starts with empty books.
LEMMA StartIsCandid ==
  ASSUME NEW w, Idled(w), w.pass.transfers = 0, NEW kind \in SessionKind, NEW count \in Nat,
         NEW mask, NEW period \in Nat,
         IF kind \in Repeating \cup {"SOAK"} THEN count \in 1 .. MaxCount ELSE count = 0
  PROVE  LET v == StartSession(w, kind, count, mask, period)
         IN  v \in WorldType /\ Candid(v)
<1> DEFINE left == IF kind = "SOAK" THEN count ELSE 0
           home == IF kind = "STRESS_BUS_FREQ" THEN w.bus.hz ELSE 0
           s == [NoSession EXCEPT !.kind = kind, !.phase = InitialPhase[kind], !.count = count,
                                  !.period = period, !.left = left, !.home = home]
           v == [w EXCEPT !.status = "IN_PROGRESS", !.deferred = TRUE, !.session = s]
           x == StartSession(w, kind, count, mask, period)
<1>1. /\ kind \in Repeating => count \in 1 .. MaxCount
      /\ kind \notin Repeating \cup {"SOAK"} => count = 0
  OBVIOUS
<1>2. w \in WorldType /\ Failing(w) \in WorldType /\ Failing(w).session = NoSession
      /\ Failing(w).pass.answers = <<>>
  BY DEF Idled, Failing, WorldType, Status
<1>3. x = IF MayStart(w, kind, mask) THEN v ELSE Failing(w)
  BY DEF StartSession
<1>4. x \in WorldType
  BY SessionHandled DEF Handled, Sound
<1>5. /\ s.kind = kind /\ s.count = count /\ s.index = 0 /\ s.cursor = 0 /\ s.stats = NoStats
      /\ s.iterationFailed = FALSE /\ s.phase = InitialPhase[kind]
  BY DEF NoSession
<1>6. InitialPhase["STRESS_BUS_FREQ"] = "STRESS_BUS_FREQ_SWITCH"
  BY DEF InitialPhase, SessionKind
<1> HIDE DEF s, x
<1>7. /\ NoStats.completed = 0 /\ NoStats.passed = 0 /\ NoStats.failed = 0
      /\ NoStats.skipped = 0 /\ NoStats.hasFailure = FALSE
  BY DEF NoStats
<1>8. Adds(s)
  BY <1>1, <1>5, <1>7 DEF Adds
<1>9. Remembers(s)
  BY <1>5, <1>7 DEF Remembers
<1>10. Keeps(s)
  <2>1. kind \in Repeating => count > 0
    BY <1>1
  <2>2. {"STRESS_ID", "STRESS_RESET", "STRESS_BUS_FREQ"} \subseteq Repeating
    BY DEF Repeating
  <2>3. QED BY <1>5, <1>6, <1>7, <2>1, <2>2, SessionAssumption DEF Keeps
<1>11. v.session = s /\ v.pass = w.pass /\ v.pending = NoPending
  BY <1>2 DEF Idled, WorldType
<1> HIDE DEF v
<1>12. Candid(v)
  <2>1. Len(<<>>) = 0
    BY EmptySeq
  <2>2. QED BY <1>8, <1>9, <1>10, <1>11, <2>1 DEF Idled, Candid, Books, HonestAnswers
<1>13. Candid(Failing(w))
  BY <1>2, NothingToReport
<1>14. Candid(x)
  BY <1>3, <1>12, <1>13
<1>15. QED BY <1>4, <1>14 DEF x

\* A cancel command ends a session as cancelled, or leaves its books alone.
LEMMA CancelIsCandid ==
  ASSUME NEW w, Listening(w), Candid(w)
  PROVE  Candid(CancelCommand(w))
<1> DEFINE z == StopActiveWork(w)
           v == [z EXCEPT !.stopped = Busy(w)]
           x == CancelCommand(w)
           q == Told(w)
<1>1. /\ Sound(w) /\ w \in WorldType /\ w.pass.answers = <<>> /\ w.pending \in PendingType
      /\ NoPending.owner = "NONE"
  BY DEF Listening, Sound, NewPass, WorldType, NoPending
<1>2. z \in WorldType
  BY <1>1, StopStops DEF Ends, Sound
<1>3. w.session # NoSession =>
        /\ Sound(q) /\ q \in WorldType /\ q.session # NoSession /\ q.pending = w.pending
        /\ q.pass = w.pass /\ Candid(q) /\ Adds(q.session) /\ HonestAnswers(q)
        /\ q.session.kind # "NONE"
  <2>1. SUFFICES ASSUME w.session # NoSession
                 PROVE  /\ Sound(q) /\ q \in WorldType /\ q.session # NoSession
                        /\ q.pending = w.pending /\ q.pass = w.pass /\ Candid(q)
                        /\ Adds(q.session) /\ HonestAnswers(q) /\ q.session.kind # "NONE"
    OBVIOUS
  <2>2. Sound(q) /\ Elsewhere(w, q) /\ q.session # NoSession
    BY <1>1, <2>1, ToldFacts
  <2>3. /\ SameBooks(w.session, q.session) /\ q.session.home = w.session.home
        /\ q.session.phase = w.session.phase
    BY <1>1 DEF Told, WorldType, SessionType, SameBooks
  <2> HIDE DEF q
  <2>4. Books(q.session) /\ (w.pending # NoPending => Expects(q.session) /\ Homed(q))
    BY <2>1, <2>2, <2>3, SameBooksAgree DEF Candid, SameBooks, Elsewhere, Homed, Moved
  <2>5. QED BY <2>2, <2>4 DEF Candid, HonestAnswers, Elsewhere, Sound, Books
<1> HIDE DEF q
<1>4. Candid(z)
  <2>1. CASE w.session # NoSession /\ w.pending.owner = "SESSION" /\ JobActive(w)
    <3>1. z = CancelJob(q) /\ w.pending # NoPending
      BY <1>1, <2>1 DEF StopActiveWork, StopSession, q, Told
    <3> HIDE DEF z
    <3>2. /\ z.session = q.session /\ z.pending = q.pending /\ z.pass = q.pass
          /\ z.bus = q.bus
      BY <1>3, <2>1, <3>1, CancelConcludes
    <3>3. QED BY <1>3, <2>1, <3>2 DEF Candid, HonestAnswers, Homed, Moved
  <2>2. CASE w.session # NoSession /\ ~(w.pending.owner = "SESSION" /\ JobActive(w)) /\ w.pending = NoPending
    <3>1. z = FinishCancelled(q)
      BY <1>1, <2>2 DEF StopActiveWork, StopSession, q, Told
    <3>2. QED BY <1>3, <2>2, <3>1, EndsAreHonest
  <2>3. CASE w.session # NoSession /\ ~(w.pending.owner = "SESSION" /\ JobActive(w)) /\ w.pending # NoPending
    <3>1. z = q
      BY <2>3 DEF StopActiveWork, StopSession, q, Told
    <3>2. QED BY <1>3, <2>3, <3>1
  <2>4. CASE w.session = NoSession /\ w.pending.owner = "COMMAND"
    <3>1. w.pending # NoPending /\ Busy(w)
      BY <1>1, <2>4 DEF Busy
    <3>2. w.device.job = NoJob => w.device.queue[1].outcome = "CANCELLED"
      <4>1. SUFFICES ASSUME w.device.job = NoJob PROVE w.device.queue[1].outcome = "CANCELLED"
        OBVIOUS
      <4>2. w.device.queue # <<>>
        BY <1>1, <3>1, <4>1, EmptySeq DEF Sound, Correlated
      <4>3. QED BY <2>4, <4>2 DEF Listening, Stopping
    <3>3. z = CancelJob(w)
      BY <2>4 DEF StopActiveWork
    <3> HIDE DEF z
    <3>4. z.session = w.session /\ z.pass = w.pass
      BY <1>1, <3>1, <3>2, <3>3, CancelConcludes
    <3>5. QED BY <1>1, <2>4, <3>4, NothingToReport
  <2>5. CASE w.session = NoSession /\ w.pending.owner # "COMMAND"
    BY <2>5 DEF StopActiveWork
  <2>6. QED BY <2>1, <2>2, <2>3, <2>4, <2>5
<1> HIDE DEF z
<1>5. /\ x.session = z.session /\ x.pending = z.pending /\ x.pass = z.pass
      /\ x.bus = z.bus
  <2>1. /\ v \in WorldType /\ v.session = z.session /\ v.pending = z.pending /\ v.pass = z.pass
        /\ v.bus = z.bus
    BY <1>2 DEF WorldType, Busy, JobActive
  <2>2. x = Answered(IF Busy(v) THEN [v EXCEPT !.deferred = TRUE]
                     ELSE Prompt([v EXCEPT !.deferred = FALSE]))
    BY DEF CancelCommand, z
  <2> HIDE DEF v, x
  <2>3. QED BY <2>1, <2>2 DEF Answered, Prompt, WorldType
<1> HIDE DEF x
<1>6. QED BY <1>4, <1>5 DEF Candid, HonestAnswers, Homed, Moved, x

\* Every command keeps the books, those that take no count ...
LEMMA CommandsAreCandid ==
  ASSUME NEW w, Listening(w), Candid(w), NEW io \in IO, NEW fate \in Fate,
         NEW deadline \in Nat, NEW hz \in Hz, NEW mask, NEW reset
  PROVE  /\ Candid(BindCommand(w)) /\ Candid(EndCommand(w)) /\ Candid(InvalidateCommand(w))
         /\ Candid(BusRecoverCommand(w, io)) /\ Candid(BusFrequencyCommand(w, hz, io))
         /\ Candid(InitCommand(w, deadline)) /\ Candid(ApplyCommand(w, deadline))
         /\ Candid(ResetCommand(w, deadline)) /\ Candid(ReadCommand(w, mask))
         /\ Candid(SleepCommand(w, io, fate)) /\ Candid(WakeCommand(w, io, fate))
         /\ Candid(StatusCommand(w, io)) /\ Candid(IntbCommand(w, io))
         /\ Candid(InitDriveCommand(w, io)) /\ Candid(RegisterCommand(w, io))
         /\ Candid(WriteRegisterCommand(w, reset, io, fate))
         /\ Candid(ProbeCommand(w)) /\ Candid(DiscoverCommand(w)) /\ Candid(DumpCommand(w))
         /\ Candid(VerifyCommand(w)) /\ Candid(SelfTestCommand(w))
         /\ Candid(QueryCommand(w)) /\ Candid(LineTooLong(w))
<1>1. ~Busy(w) => Idled(w) /\ w.pass.transfers = 0
  BY ListeningIsIdle
<1>2. ASSUME NEW h, ~Busy(w) => Idled(h) PROVE Candid(WhenIdle(w, h))
  <2>1. ~Busy(w) => h \in WorldType /\ Candid(h)
    BY <1>2, NothingToReport DEF Idled
  <2>2. QED BY <2>1, PromptIsCandid
<1>3. /\ Candid(BindCommand(w)) /\ Candid(EndCommand(w)) /\ Candid(InvalidateCommand(w))
  BY <1>1, <1>2, BindingIdles DEF BindCommand, EndCommand, InvalidateCommand
<1>4. Candid(BusRecoverCommand(w, io))
  BY <1>1, <1>2, RecoveryIdles DEF BusRecoverCommand
<1>5. Candid(BusFrequencyCommand(w, hz, io))
  BY <1>1, <1>2, FrequencyIdles DEF BusFrequencyCommand
<1>6. /\ Candid(SleepCommand(w, io, fate)) /\ Candid(WakeCommand(w, io, fate))
      /\ Candid(StatusCommand(w, io)) /\ Candid(IntbCommand(w, io))
      /\ Candid(InitDriveCommand(w, io)) /\ Candid(RegisterCommand(w, io))
      /\ Candid(WriteRegisterCommand(w, reset, io, fate))
  BY <1>1, <1>2, ImmediateIdles
     DEF SleepCommand, WakeCommand, StatusCommand, IntbCommand, InitDriveCommand,
         RegisterCommand, WriteRegisterCommand
<1>7. ASSUME NEW kind \in JobKind, NEW m, NEW d \in Nat
      PROVE  Candid(WhenIdle(w, ScheduleCommandJob(w, kind, m, d)))
  BY <1>1, <1>7, CommandJobIsCandid, PromptIsCandid
<1>8. {"INITIALIZE", "APPLY_CONFIG", "RESET_AND_REAPPLY", "ACQUIRE"} \subseteq JobKind /\ Deadline \in Nat
  BY DeviceAssumption DEF JobKind
<1>9. /\ Candid(InitCommand(w, deadline)) /\ Candid(ApplyCommand(w, deadline))
      /\ Candid(ResetCommand(w, deadline)) /\ Candid(ReadCommand(w, mask))
  BY <1>7, <1>8 DEF InitCommand, ApplyCommand, ResetCommand, ReadCommand
<1>10. ASSUME NEW kind \in {"PROBE", "DISCOVER", "DUMP", "VERIFY", "SELF_TEST"}
       PROVE  Candid(WhenIdle(w, StartSession(w, kind, 0, TRUE, 0)))
  <2>1. kind \notin Repeating \cup {"SOAK"} /\ kind \in SessionKind
    BY DEF Repeating, SessionKind
  <2>2. QED BY <1>1, <2>1, StartIsCandid, PromptIsCandid
<1>11. /\ Candid(ProbeCommand(w)) /\ Candid(DiscoverCommand(w)) /\ Candid(DumpCommand(w))
       /\ Candid(VerifyCommand(w)) /\ Candid(SelfTestCommand(w))
  BY <1>10 DEF ProbeCommand, DiscoverCommand, DumpCommand, VerifyCommand, SelfTestCommand
<1>12. Candid(QueryCommand(w)) /\ Candid(LineTooLong(w))
  <2> DEFINE x == Prompt(w)
  <2>1. w \in WorldType
    BY DEF Listening, Sound
  <2>2. x.session = w.session /\ x.pending = w.pending /\ x.pass = w.pass /\ x.bus = w.bus
    BY <2>1 DEF Prompt, WorldType
  <2> HIDE DEF x
  <2>3. Candid(x)
    BY <2>2 DEF Candid, HonestAnswers, Homed, Moved
  <2>4. QED BY <2>3 DEF QueryCommand, LineTooLong, PromptForState, x
<1>13. QED BY <1>3, <1>4, <1>5, <1>6, <1>9, <1>11, <1>12

\* ... and those that take one, which the parser bounds.
LEMMA CountedCommandsAreCandid ==
  ASSUME NEW w, Listening(w), Candid(w), NEW count \in Counts, NEW period \in Nat, NEW mask
  PROVE  /\ Candid(WatchCommand(w, count, mask, period)) /\ Candid(StressCommand(w, count, mask))
         /\ Candid(SampleRateCommand(w, count, mask)) /\ Candid(StressMixCommand(w, count, mask))
         /\ Candid(StressIdCommand(w, count)) /\ Candid(StressResetCommand(w, count))
         /\ Candid(StressBusFrequencyCommand(w, count)) /\ Candid(SoakCommand(w, count, mask))
<1>1. ~Busy(w) => Idled(w) /\ w.pass.transfers = 0
  BY ListeningIsIdle
<1>2. Candid(WhenIdle(w, w))
  <2>1. ~Busy(w) => w \in WorldType
    BY <1>1 DEF Idled
  <2>2. QED BY <2>1, PromptIsCandid
<1>3. count \in Nat /\ count \in 1 .. MaxCount
  BY DEF Counts
<1>4. ASSUME NEW kind \in Repeating \cup {"SOAK"}, NEW m, NEW p \in Nat
      PROVE  Candid(WhenIdle(w, StartSession(w, kind, count, m, p)))
  <2>1. kind \in SessionKind
    BY <1>4 DEF Repeating, SessionKind, Sampling
  <2>2. QED BY <1>1, <1>3, <1>4, <2>1, StartIsCandid, PromptIsCandid
<1>5. {"WATCH", "SAMPLE_RATE", "STRESS_MIX", "STRESS_ID", "STRESS_RESET", "STRESS_BUS_FREQ",
       "SOAK"} = Repeating \cup {"SOAK"}
  BY DEF Repeating
<1>6. /\ Candid(WatchCommand(w, count, mask, period)) /\ Candid(StressCommand(w, count, mask))
      /\ Candid(SampleRateCommand(w, count, mask)) /\ Candid(StressMixCommand(w, count, mask))
      /\ Candid(SoakCommand(w, count, mask))
  BY <1>2, <1>4, <1>5
     DEF WatchCommand, StressCommand, SampleRateCommand, StressMixCommand, SoakCommand
<1>7. /\ Candid(StressIdCommand(w, count)) /\ Candid(StressResetCommand(w, count))
      /\ Candid(StressBusFrequencyCommand(w, count))
  BY <1>4, <1>5 DEF StressIdCommand, StressResetCommand, StressBusFrequencyCommand
<1>8. QED BY <1>6, <1>7

\* Whatever the line.
LEMMA LinesAreCandid ==
  ASSUME Rest(World), Candid(World), Line
  PROVE  \E w : Do(w) /\ Candid(w)
<1> DEFINE e == Entered
<1>1. Listening(e)
  BY PassesBegin DEF Entered
<1>2. Candid(e)
  <2>1. /\ e.session = World.session /\ e.pending = World.pending /\ e.pass = NewPass
        /\ e.bus = World.bus
    BY DEF Entered, World
  <2>2. Len(NewPass.answers) = 0
    BY EmptySeq DEF NewPass
  <2> HIDE DEF e
  <2>3. QED BY <2>1, <2>2 DEF Candid, HonestAnswers, Homed, Moved
<1>3. ASSUME NEW worlds, ReadLine(worlds), \A w \in worlds : Candid(w)
      PROVE  \E w : Do(w) /\ Candid(w)
  BY <1>3 DEF ReadLine
<1> HIDE DEF e
<1>4. "ok" \in IO /\ "keep" \in Fate /\ 0 \in Nat /\ LowHz \in Hz /\ HighHz \in Hz
      /\ 1 .. Deadline \subseteq Nat /\ 0 .. MaxPeriod \subseteq Nat
  BY DeviceAssumption DEF IO, Fate, Hz
<1>5. CASE BindingLine
  <2>1. Candid(BindCommand(e)) /\ Candid(EndCommand(e)) /\ Candid(InvalidateCommand(e))
    BY <1>1, <1>2, <1>4, CommandsAreCandid
  <2>2. QED BY <1>3, <1>5, <2>1 DEF BindingLine, e
<1>6. CASE BusLine
  <2>1. ASSUME NEW io \in IO, NEW hz \in {LowHz, HighHz}
        PROVE  Candid(BusRecoverCommand(e, io)) /\ Candid(BusFrequencyCommand(e, hz, io))
    <3>1. hz \in Hz
      BY <1>4
    <3>2. QED BY <1>1, <1>2, <1>4, <3>1, CommandsAreCandid
  <2>2. QED BY <1>3, <1>6, <2>1 DEF BusLine, e
<1>7. CASE JobLine
  <2>1. ASSUME NEW deadline \in 1 .. Deadline
        PROVE  /\ Candid(InitCommand(e, deadline)) /\ Candid(ApplyCommand(e, deadline))
               /\ Candid(ResetCommand(e, deadline))
    BY <1>1, <1>2, <1>4, CommandsAreCandid
  <2>2. QED BY <1>3, <1>7, <2>1 DEF JobLine, e
<1>8. CASE ReadingLine
  <2>1. ASSUME NEW mask PROVE Candid(ReadCommand(e, mask))
    BY <1>1, <1>2, <1>4, CommandsAreCandid
  <2>2. QED BY <1>3, <1>8, <2>1 DEF ReadingLine, e
<1>9. CASE ImmediateLine
  <2>1. ASSUME NEW io \in IO, NEW fate \in Fate, NEW reset
        PROVE  /\ Candid(SleepCommand(e, io, fate)) /\ Candid(WakeCommand(e, io, fate))
               /\ Candid(StatusCommand(e, io)) /\ Candid(IntbCommand(e, io))
               /\ Candid(InitDriveCommand(e, io)) /\ Candid(RegisterCommand(e, io))
               /\ Candid(WriteRegisterCommand(e, reset, io, fate))
    BY <1>1, <1>2, <1>4, CommandsAreCandid
  <2>2. QED BY <1>3, <1>9, <2>1 DEF ImmediateLine, e
<1>10. CASE SessionLine
  <2>1. /\ Candid(ProbeCommand(e)) /\ Candid(DiscoverCommand(e)) /\ Candid(DumpCommand(e))
        /\ Candid(VerifyCommand(e)) /\ Candid(SelfTestCommand(e))
    BY <1>1, <1>2, <1>4, CommandsAreCandid
  <2>2. ASSUME NEW count \in Counts
        PROVE  /\ Candid(StressIdCommand(e, count)) /\ Candid(StressResetCommand(e, count))
               /\ Candid(StressBusFrequencyCommand(e, count))
    BY <1>1, <1>2, <1>4, CountedCommandsAreCandid
  <2>3. QED BY <1>3, <1>10, <2>1, <2>2 DEF SessionLine, e
<1>11. CASE SamplingLine
  <2>1. ASSUME NEW count \in Counts, NEW mask, NEW period \in 0 .. MaxPeriod
        PROVE  Candid(WatchCommand(e, count, mask, period))
    BY <1>1, <1>2, <1>4, CountedCommandsAreCandid
  <2>2. ASSUME NEW count \in Counts, NEW mask
        PROVE  /\ Candid(StressCommand(e, count, mask)) /\ Candid(SampleRateCommand(e, count, mask))
               /\ Candid(StressMixCommand(e, count, mask)) /\ Candid(SoakCommand(e, count, mask))
    BY <1>1, <1>2, <1>4, CountedCommandsAreCandid
  <2>3. QED BY <1>3, <1>11, <2>1, <2>2 DEF SamplingLine, e
<1>12. CASE OtherLine
  <2>1. Candid(QueryCommand(e)) /\ Candid(LineTooLong(e)) /\ Candid(CancelCommand(e))
    BY <1>1, <1>2, <1>4, CommandsAreCandid, CancelIsCandid
  <2>2. QED BY <1>3, <1>12, <2>1 DEF OtherLine, e
<1>13. QED
  BY <1>5, <1>6, <1>7, <1>8, <1>9, <1>10, <1>11, <1>12 DEF Line, e

\* The present world with its books in order.
CandidInv == CliInv /\ Candid(World)

\* A step that makes a candid world makes the variables so.
LEMMA DoneIsCandid ==
  ASSUME NEW w, Candid(w), Do(w)
  PROVE  Candid(World')
<1>1. /\ World'.session = w.session /\ World'.pending = w.pending /\ World'.pass = w.pass
      /\ World'.bus = w.bus
  BY DEF Do, World
<1>2. QED BY <1>1 DEF Candid, HonestAnswers, Homed, Moved

\* At the start there is nothing to report.
LEMMA InitCandid == Init => CandidInv
<1> SUFFICES ASSUME Init PROVE CandidInv
  OBVIOUS
<1>1. World.session = NoSession /\ World.pass.answers = <<>>
  BY DEF Init, World, NewPass
<1>2. QED BY <1>1, InitCli, NothingToReport DEF CandidInv

\* Time does not touch the books.
LEMMA TickIsCandid ==
  ASSUME CandidInv, Tick
  PROVE  Candid(World')
<1>1. /\ World'.session = session' /\ World'.pending = pending /\ World'.pass = pass
      /\ World.session = session /\ World.pending = pending /\ World.pass = pass
      /\ World'.bus = World.bus
  BY DEF World, Tick
<1>2. session \in SessionType /\ (session.kind = "NONE" => session = NoSession)
  BY <1>1 DEF CandidInv, CliInv, Rest, Sound, WorldType
<1>3. session' = [session EXCEPT !.due = Less(@), !.ready = Less(@), !.left = Less(@)]
  BY DEF Tick
<1>4. /\ SameBooks(session, session') /\ session'.home = session.home
      /\ session'.phase = session.phase
  BY <1>2, <1>3 DEF SessionType, SameBooks
<1>5. session' # NoSession => session # NoSession
  <2>1. Less(0) = 0
    BY DEF Less
  <2>2. session.due = 0 /\ session.ready = 0 /\ session.left = 0 => session' = session
    BY <1>2, <1>3, <2>1 DEF SessionType
  <2>3. NoSession.due = 0 /\ NoSession.ready = 0 /\ NoSession.left = 0
    BY DEF NoSession
  <2>4. QED BY <2>2, <2>3
<1>6. Homed(World) => Homed(World')
  BY <1>1, <1>4 DEF SameBooks, Homed, Moved
<1>7. QED BY <1>1, <1>4, <1>5, <1>6, SameBooksAgree DEF CandidInv, Candid, HonestAnswers

\* CandidInv is inductive.
LEMMA NextCandid == CandidInv /\ [Next]_vars => CandidInv'
<1> SUFFICES ASSUME CandidInv, [Next]_vars PROVE CandidInv'
  OBVIOUS
<1>1. Rest(World) /\ Candid(World)
  BY DEF CandidInv, CliInv
<1>2. CliInv'
  BY NextCli DEF CandidInv
<1>3. Candid(World')
  <2>1. CASE UNCHANGED vars
    <3>1. World' = World
      BY <2>1 DEF vars, World
    <3>2. QED BY <1>1, <3>1
  <2>2. CASE Line
    BY <1>1, <2>2, LinesAreCandid, DoneIsCandid
  <2>3. CASE NoLine
    <3> DEFINE n == [World EXCEPT !.pass = NewPass]
    <3>1. /\ n.session = World.session /\ n.pending = World.pending /\ n.pass = NewPass
          /\ n.bus = World.bus
      BY DEF World
    <3>2. Do(n) /\ Len(NewPass.answers) = 0
      BY <2>3, EmptySeq DEF NoLine, NewPass
    <3> HIDE DEF n
    <3>3. Candid(n)
      BY <1>1, <3>1, <3>2 DEF Candid, HonestAnswers, Homed, Moved
    <3>4. QED BY <3>2, <3>3, DoneIsCandid
  <2>4. CASE ServiceStep
    <3>1. PICK io \in IO, fate \in Fate : Do(Service(World, io, fate))
      BY <2>4 DEF ServiceStep
    <3>2. QED BY <1>1, <3>1, ServiceIsCandid, DoneIsCandid
  <2>5. CASE Tick
    BY <2>5, TickIsCandid
  <2>6. QED BY <2>1, <2>2, <2>3, <2>4, <2>5 DEF Next, Line
<1>4. QED BY <1>2, <1>3 DEF CandidInv

\* What a session reports is what happened (finishSession): the parts add up to
\* the whole, no success hides a failure or falls short of the rounds asked for,
\* a session that failed remembers a failure, and a frequency stress that
\* succeeded leaves the bus at the frequency it found.
THEOREM ReportsAreHonest == Spec => []ReportIsHonest
<1>1. CandidInv => ReportIsHonest
  <2>1. World.pass = pass
    BY DEF World
  <2>2. QED BY <2>1 DEF CandidInv, Candid, HonestAnswers, Honest, ReportIsHonest
<1>2. QED BY <1>1, InitCandid, NextCandid, PTL DEF Spec
=============================================================================
