---------------------------------- MODULE Cli ----------------------------------
(***************************************************************************)
(* The diagnostic application: the commands of src/examples/common/        *)
(* Ldc1614Cli.cpp and the loops of the two mains that call it.  A pass of  *)
(* the Arduino loop handles at most one line and then serves; a pass of    *)
(* the ESP-IDF loop either handles a line or serves.                       *)
(***************************************************************************)
EXTENDS CliSessions

CONSTANTS MaxCount, MaxPeriod  \* what the bounds of a session's arguments become

\* MAX_SESSION_COUNT is far below what the counters can hold.
ASSUME CountAssumption == MaxCount \in 0 .. MaxTally

VARIABLES
  device,      \* the driver
  bus,         \* the owner's I2C bus: whether it is open, and its frequency
  pending,     \* Cli::_pending
  session,     \* Cli::_session
  deferred,    \* Cli::_promptDeferred
  nextId,      \* Cli::_nextOperationId
  prompts,     \* prompts printed since the last line
  stopped,     \* a cancel command has been accepted and not been answered
  pass,        \* what this pass has done: transfers, and requests answered
  turn,        \* the half of the pass that comes next
  linesOnly    \* whether a pass that handles a line skips service()

vars == <<device, bus, pending, session, deferred, nextId, prompts, stopped, pass, turn,
          linesOnly>>

NewPass == [transfers |-> 0, answers |-> <<>>]

World == [device |-> device, bus |-> bus, pending |-> pending, session |-> session,
          deferred |-> deferred, nextId |-> nextId, prompts |-> prompts,
          stopped |-> stopped, pass |-> pass, status |-> "OK"]

Do(w) ==
  /\ device' = w.device /\ bus' = w.bus /\ pending' = w.pending /\ session' = w.session
  /\ deferred' = w.deferred /\ nextId' = w.nextId /\ prompts' = w.prompts
  /\ stopped' = w.stopped /\ pass' = w.pass /\ UNCHANGED linesOnly

-----------------------------------------------------------------------------
(* Results.                                                                *)

CommandResult(w, result) ==
  [w EXCEPT !.pending = NoPending,
            !.pass.answers = Append(@, [kind |-> result.kind, outcome |-> result.outcome,
                                        code |-> IF result.outcome = "SUCCESS" THEN "OK"
                                                 ELSE "ERROR",
                                        count |-> 0, stats |-> NoStats,
                                        moved |-> FALSE])]

HandleOperationResult(w, result) ==
  IF w.pending.owner = "SESSION" THEN HandleSessionResult(w, result)
  ELSE CommandResult(w, result)

\* One result, which is dropped when it is not the pending operation's.
DrainOne(w) ==
  LET result == Head(w.device.queue)
      v == [w EXCEPT !.device.queue = Tail(@)]
  IN  IF w.device.queue = <<>> THEN w
      ELSE IF w.pending # NoPending /\ result.id = w.pending.id /\ result.kind = w.pending.kind
      THEN HandleOperationResult(v, result)
      ELSE v

LostResult(w) ==
  LET v == [w EXCEPT !.pending = NoPending]
  IN  IF w.pending = NoPending \/ JobActive(w) \/ w.device.queue # <<>> THEN w
      ELSE IF w.pending.owner = "SESSION" /\ w.session # NoSession
      THEN FinishFailed(Record(v, "failed"))
      ELSE CommandResult(w, [kind |-> w.pending.kind, outcome |-> "FAILED"])

DrainResults(w) == LostResult(DrainOne(DrainOne(w)))

-----------------------------------------------------------------------------
(* A service pass.                                                         *)

Prompt(w) == [w EXCEPT !.prompts = IF @ < 2 THEN @ + 1 ELSE @]
Answered(w) == IF Busy(w) THEN w ELSE [w EXCEPT !.stopped = FALSE]

Settled(w) ==
  Answered(IF w.deferred /\ ~Busy(w) THEN Prompt([w EXCEPT !.deferred = FALSE]) ELSE w)

Advanced(w, io) ==
  IF w.pending = NoPending /\ w.session # NoSession THEN AdvanceSession(w, io) ELSE w

\* Mutant: a pass that polls goes on to advance the session.
ServicePollsAndAdvances(w, io, fate) ==
  Settled(Advanced(DrainResults(IF JobActive(w) THEN Poll(w, io, fate) ELSE w), io))

Service(w, io, fate) ==
  Settled(IF JobActive(w) THEN DrainResults(Poll(w, io, fate))
          ELSE Advanced(DrainResults(w), io))

-----------------------------------------------------------------------------
(* Commands.  A line that needs an idle CLI is refused while work is       *)
(* active; `prompt` is decided after the command has run.                  *)

PromptForState(w) == IF Busy(w) \/ w.deferred THEN w ELSE Prompt(w)
WhenIdle(w, handled) == PromptForState(IF Busy(w) THEN w ELSE handled)

\* Mutant: the operation is pending before the job is known to have started.
ScheduleCommandJobPendsFirst(w, kind, mask, deadline) ==
  LET v == StartJob([w EXCEPT !.nextId = NextId(@),
                              !.pending = [owner |-> "COMMAND", id |-> w.nextId, kind |-> kind]],
                    kind, w.nextId, mask, deadline)
  IN  IF Busy(w) THEN Failing(w)
      ELSE IF v.status # "IN_PROGRESS" THEN v ELSE [v EXCEPT !.deferred = TRUE]

ScheduleCommandJob(w, kind, mask, deadline) ==
  LET v == StartJob([w EXCEPT !.nextId = NextId(@)], kind, w.nextId, mask, deadline)
  IN  IF Busy(w) THEN Failing(w)
      ELSE IF v.status # "IN_PROGRESS" THEN v
      ELSE [v EXCEPT !.deferred = TRUE,
                     !.pending = [owner |-> "COMMAND", id |-> w.nextId, kind |-> kind]]

\* binding and invalidation
BindCommand(w) == WhenIdle(w, BindDevice(w))
EndCommand(w) == WhenIdle(w, [EndDevice(w) EXCEPT !.pending = NoPending])
InvalidateCommand(w) == WhenIdle(w, InvalidateAppliedState(w))
BusRecoverCommand(w, io) == WhenIdle(w, InvalidateAppliedState(RecoverBus(w, io)))

\* Mutant: a failed change is taken for no change.
BusFrequencyCommandTrusts(w, hz, io) ==
  WhenIdle(w, SetFrequency(w, hz, io))

BusFrequencyCommand(w, hz, io) ==
  LET v == SetFrequency(w, hz, io)
      changed == w.bus.hz # v.bus.hz
  IN  WhenIdle(w, IF v.device.bound /\ (v.status # "OK" \/ changed)
                  THEN InvalidateAppliedState(v) ELSE v)

\* jobs
InitCommand(w, deadline) == WhenIdle(w, ScheduleCommandJob(w, "INITIALIZE", TRUE, deadline))
ApplyCommand(w, deadline) == WhenIdle(w, ScheduleCommandJob(w, "APPLY_CONFIG", TRUE, deadline))
ResetCommand(w, deadline) ==
  WhenIdle(w, ScheduleCommandJob(w, "RESET_AND_REAPPLY", TRUE, deadline))
ReadCommand(w, mask) == WhenIdle(w, ScheduleCommandJob(w, "ACQUIRE", mask, Deadline))

\* immediate device commands: one transfer at most
SleepCommand(w, io, fate) == WhenIdle(w, SetSleeping(w, "ACTIVE", "SLEEPING", io, fate))
WakeCommand(w, io, fate) == WhenIdle(w, SetSleeping(w, "SLEEPING", "ACTIVE", io, fate))
StatusCommand(w, io) == WhenIdle(w, DirectRead(w, io))
IntbCommand(w, io) == WhenIdle(w, ReadIntb(w, io))
InitDriveCommand(w, io) == WhenIdle(w, DirectRead(w, io))
RegisterCommand(w, io) == WhenIdle(w, DirectRead(w, io))
WriteRegisterCommand(w, reset, io, fate) == WhenIdle(w, WriteRegister(w, reset, io, fate))

\* sessions
ProbeCommand(w) == WhenIdle(w, StartSession(w, "PROBE", 0, TRUE, 0))
DiscoverCommand(w) == WhenIdle(w, StartSession(w, "DISCOVER", 0, TRUE, 0))
DumpCommand(w) == WhenIdle(w, StartSession(w, "DUMP", 0, TRUE, 0))
VerifyCommand(w) == WhenIdle(w, StartSession(w, "VERIFY", 0, TRUE, 0))
SelfTestCommand(w) == WhenIdle(w, StartSession(w, "SELF_TEST", 0, TRUE, 0))
WatchCommand(w, count, mask, period) ==
  WhenIdle(w, StartSession(w, "WATCH", count, mask, period))
StressCommand(w, count, mask) == WhenIdle(w, StartSession(w, "WATCH", count, mask, 0))
SampleRateCommand(w, count, mask) ==
  WhenIdle(w, IF w.device.bound THEN StartSession(w, "SAMPLE_RATE", count, mask, 0) ELSE w)
StressMixCommand(w, count, mask) ==
  WhenIdle(w, StartSession(w, "STRESS_MIX", count, mask, 0))
StressIdCommand(w, count) == WhenIdle(w, StartSession(w, "STRESS_ID", count, TRUE, 0))
StressResetCommand(w, count) == WhenIdle(w, StartSession(w, "STRESS_RESET", count, TRUE, 0))
StressBusFrequencyCommand(w, count) ==
  WhenIdle(w, StartSession(w, "STRESS_BUS_FREQ", count, TRUE, 0))
SoakCommand(w, seconds, mask) == WhenIdle(w, StartSession(w, "SOAK", seconds, mask, 1))

\* Queries and refused lines change nothing, busy or not, and neither does a
\* profile command (its staged profile is CliProfile's) or `sd`, whose pin
\* neither main has wired.
QueryCommand(w) == PromptForState(w)
\* An overlong line looks at the work alone, not at a prompt still owed.
LineTooLong(w) == IF Busy(w) THEN w ELSE Prompt(w)

StopSession(w) ==
  LET v == [w EXCEPT !.session.stopRequested = TRUE]
  IN  IF w.pending.owner = "SESSION" /\ JobActive(w) THEN CancelJob(v)
      ELSE IF w.pending = NoPending THEN FinishCancelled(v)
      ELSE v

StopActiveWork(w) ==
  IF w.session # NoSession THEN StopSession(w)
  ELSE IF w.pending.owner = "COMMAND" THEN CancelJob(w) ELSE w

\* Mutant: the prompt that the ended session deferred stays owed.
CancelCommandStillDefers(w) ==
  LET v == [StopActiveWork(w) EXCEPT !.stopped = Busy(w)]
  IN  Answered(IF Busy(v) THEN [v EXCEPT !.deferred = TRUE] ELSE Prompt(v))

CancelCommand(w) ==
  LET v == [StopActiveWork(w) EXCEPT !.stopped = Busy(w)]
  IN  Answered(IF Busy(v) THEN [v EXCEPT !.deferred = TRUE]
               ELSE Prompt([v EXCEPT !.deferred = FALSE]))

-----------------------------------------------------------------------------
(* The application.                                                        *)

Counts == 1 .. MaxCount

\* A line is entered: the prompt before it is used up, and a new pass begins.
Entered == [World EXCEPT !.prompts = 0, !.pass = NewPass]

\* A line of the kind that makes one of these worlds of the present one.
ReadLine(worlds) ==
  /\ turn = "INPUT" /\ turn' = IF linesOnly THEN "INPUT" ELSE "SERVICE"
  /\ \E w \in worlds : Do(w)

NoLine ==
  /\ turn = "INPUT" /\ turn' = "SERVICE"
  /\ \E w \in {[World EXCEPT !.pass = NewPass]} : Do(w)

ServiceStep ==
  /\ turn = "SERVICE" /\ turn' = "INPUT"
  /\ \E w \in {Service(World, io, fate) : io \in IO, fate \in Fate} : Do(w)

BindingLine ==
  ReadLine({BindCommand(Entered), EndCommand(Entered), InvalidateCommand(Entered)})
BusLine ==
  \/ ReadLine({BusRecoverCommand(Entered, io) : io \in IO})
  \/ ReadLine({BusFrequencyCommand(Entered, hz, io) : hz \in {LowHz, HighHz}, io \in IO})
JobLine ==
  \E deadline \in 1 .. Deadline :
    ReadLine({InitCommand(Entered, deadline), ApplyCommand(Entered, deadline),
              ResetCommand(Entered, deadline)})
ReadingLine == ReadLine({ReadCommand(Entered, mask) : mask \in BOOLEAN})
ImmediateLine ==
  \E io \in IO, fate \in Fate :
    \/ ReadLine({SleepCommand(Entered, io, fate), WakeCommand(Entered, io, fate)})
    \/ ReadLine({StatusCommand(Entered, io), IntbCommand(Entered, io),
                 InitDriveCommand(Entered, io), RegisterCommand(Entered, io)})
    \/ ReadLine({WriteRegisterCommand(Entered, reset, io, fate) : reset \in BOOLEAN})
SessionLine ==
  \/ ReadLine({ProbeCommand(Entered), DiscoverCommand(Entered), DumpCommand(Entered),
               VerifyCommand(Entered), SelfTestCommand(Entered)})
  \/ \E count \in Counts :
       ReadLine({StressIdCommand(Entered, count), StressResetCommand(Entered, count),
                 StressBusFrequencyCommand(Entered, count)})
SamplingLine ==
  \E count \in Counts, mask \in BOOLEAN :
    \/ ReadLine({WatchCommand(Entered, count, mask, period) : period \in 0 .. MaxPeriod})
    \/ ReadLine({StressCommand(Entered, count, mask), SampleRateCommand(Entered, count, mask),
                 StressMixCommand(Entered, count, mask), SoakCommand(Entered, count, mask)})
OtherLine ==
  ReadLine({QueryCommand(Entered), LineTooLong(Entered), CancelCommand(Entered)})

Less(n) == IF n = 0 THEN 0 ELSE n - 1

Tick ==
  /\ device.job.deadline + session.due + session.ready + session.left > 0
  /\ device' = [device EXCEPT !.job.deadline = Less(@)]
  /\ session' = [session EXCEPT !.due = Less(@), !.ready = Less(@), !.left = Less(@)]
  /\ UNCHANGED <<bus, pending, deferred, nextId, prompts, stopped, pass, turn, linesOnly>>

\* setup(): the bus does not open, or the profile does not bind, or it does
\* and the `init` command is run.
Init ==
  /\ linesOnly \in BOOLEAN /\ turn = "INPUT"
  /\ bus \in [open : BOOLEAN, hz : {HighHz}]
  /\ pass = NewPass /\ stopped = FALSE /\ session = NoSession
  /\ \/ /\ device = NoDevice /\ pending = NoPending /\ nextId = 1
        /\ deferred = FALSE /\ prompts = 1
     \/ /\ bus.open
        /\ device = [NoDevice EXCEPT !.bound = TRUE,
                                     !.job = [id |-> 1, kind |-> "INITIALIZE",
                                              left |-> JobTransfers, deadline |-> Deadline]]
        /\ pending = [owner |-> "COMMAND", id |-> 1, kind |-> "INITIALIZE"]
        /\ nextId = 2 /\ deferred = TRUE /\ prompts = 0

Next ==
  \/ NoLine \/ ServiceStep \/ Tick
  \/ BindingLine \/ BusLine \/ JobLine \/ ReadingLine \/ ImmediateLine
  \/ SessionLine \/ SamplingLine \/ OtherLine

\* The loop goes round, which takes a pause of the console where a line
\* takes the place of service(), and time passes.
Fairness == WF_turn(turn' \in {"INPUT", "SERVICE"}) /\ WF_vars(Tick)

Spec == Init /\ [][Next]_vars /\ Fairness

-----------------------------------------------------------------------------
(* Properties.                                                             *)

Working == pending # NoPending \/ session # NoSession \/ device.job # NoJob
Answers == {"SUCCESS", "FAILED", "CANCELLED", "TIMED_OUT"}
LastAnswer == IF pass.answers = <<>> THEN "NONE" ELSE pass.answers[1].outcome

Console == INSTANCE RequestReply WITH
  Replies <- Answers, Nothing <- "NONE", busy <- Working, stopping <- stopped,
  prompts <- prompts, reply <- LastAnswer

\* Every request is answered once, with one prompt after it and none before,
\* and as CANCELLED when it was stopped: handlers return a prompt or not,
\* service() prints the one they deferred.
AnswersOnce == Console!Conversation

\* No pass makes two transfers, and none answers two requests.
OneTransferPerPass == pass.transfers <= 1 /\ Len(pass.answers) <= 1

\* From a cancel command to its answer the bus is silent, and the very next
\* service pass answers.
CancelIsSilent ==
  [][stopped => /\ pass'.transfers = 0
                /\ (turn = "SERVICE" /\ turn' = "INPUT") => ~Working']_vars

\* An operation is pending exactly while its job runs or its one result
\* waits; no other result and no other job is ever there.
Waiting == {device.queue[k] : k \in 1 .. Len(device.queue)}
PendingIsCorrelated ==
  /\ Len(device.queue) + (IF device.job # NoJob THEN 1 ELSE 0)
       = IF pending = NoPending THEN 0 ELSE 1
  /\ \A o \in Waiting \cup ({device.job} \ {NoJob}) :
       o.id = pending.id /\ o.kind = pending.kind
  /\ pending.owner = "SESSION" => session # NoSession
  /\ pending.owner = "COMMAND" => session = NoSession

\* What a session reports is what happened: the parts add up to the whole,
\* nothing failed in a success, a session that failed remembers a failure, and
\* a stress of the bus frequency that succeeded has left the bus at the
\* frequency it found.
Sums == {"WATCH", "SAMPLE_RATE", "STRESS_MIX", "STRESS_ID", "STRESS_RESET",
         "STRESS_BUS_FREQ", "DUMP"}
ReportIsHonest ==
  \A k \in 1 .. Len(pass.answers) :
    LET a == pass.answers[k]
        s == a.stats
    IN  a.kind \in SessionKind =>
          /\ a.outcome = "SUCCESS" <=> a.code = "OK"
          /\ a.outcome = "SUCCESS" => s.failed = 0 /\ ~s.hasFailure /\ ~a.moved
          /\ a.outcome = "FAILED" => s.hasFailure
          /\ a.kind \in Sums => s.completed = s.passed + s.failed
          /\ a.kind = "VERIFY" => s.completed = s.passed + s.failed + s.skipped
          /\ a.count > 0 /\ a.kind # "SOAK" =>
               /\ s.completed <= a.count
               /\ a.outcome = "SUCCESS" => s.passed = a.count

\* A profile is trusted only on a bus that still runs as when it was written:
\* every change of frequency and every recovery, tried by a command or by the
\* stress session, takes trust with it before the next pass.
TrustMatchesBus == device.applied \in {"SLEEPING", "ACTIVE"} => device.sameBus

\* Every request ends, failing transfers and stale samples or not.
RequestsEnd == Working ~> ~Working
=============================================================================
