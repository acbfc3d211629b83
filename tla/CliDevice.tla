------------------------------- MODULE CliDevice -------------------------------
(***************************************************************************)
(* The driver and the owner's bus as the diagnostic CLI uses them.  What   *)
(* LdcDriver and I2cTransport model in detail is here only as much as the  *)
(* CLI can tell apart: a job ends after a bounded number of transfers or   *)
(* at its deadline, with exactly one result in a queue of two.             *)
(*                                                                         *)
(* The operators take and return a world, the record of all the CLI's      *)
(* state; its `status` is what the last call returned.  The outside world  *)
(* answers a call with `io`: "ok"; "odd" for what is answered but not what *)
(* was hoped for; "stale" for a sample with no new conversion; "fail".     *)
(***************************************************************************)
EXTENDS Naturals, Sequences

CONSTANTS
  MaxId,         \* identities run from 1 to here and around, 2^64 - 1 in the code
  Deadline,      \* JOB_DEADLINE_MS, in ticks
  JobTransfers   \* the transfers of a job

Capacity == 2  \* RESULT_CAPACITY

ASSUME DeviceAssumption == MaxId \in Nat /\ MaxId > Capacity /\ Deadline \in Nat \ {0}
                           /\ JobTransfers \in Nat \ {0}

IO == {"ok", "odd", "stale", "fail"}
Status == {"OK", "IN_PROGRESS", "ERROR", "CANCELLED", "TIMEOUT", "ABSENT"}
\* DIRTY stands for APPLYING too: the CLI never tells them apart.
Applied == {"UNKNOWN", "DIRTY", "SLEEPING", "ACTIVE"}
JobKind == {"INITIALIZE", "APPLY_CONFIG", "RESET_AND_REAPPLY", "ACQUIRE"}
Outcome == {"SUCCESS", "FAILED", "CANCELLED", "TIMED_OUT"}
\* How a transfer that failed, or the first writes of a replay, leave the
\* applied state; which of them depends on detail the CLI does not see.
Fate == {"keep", "unknown", "dirty"}

NoJob == [id |-> 0, kind |-> "NONE", left |-> 0, deadline |-> 0]
JobActive(w) == w.device.job # NoJob

Failing(w) == [w EXCEPT !.status = "ERROR"]
Passing(w) == [w EXCEPT !.status = "OK"]

\* One physical transport callback, which fails when the bus is not open.
Counted(w) == [w EXCEPT !.pass.transfers = IF @ < 2 THEN @ + 1 ELSE @]
Reaches(w, io) == w.bus.open /\ io # "fail"

-----------------------------------------------------------------------------
(* Jobs.                                                                   *)

IdInUse(w, id) ==
  w.device.job.id = id \/ \E k \in 1 .. Len(w.device.queue) : w.device.queue[k].id = id

Admissible(w, kind, id, mask) ==
  /\ w.device.bound
  /\ kind = "APPLY_CONFIG" => w.device.applied # "UNKNOWN"
  /\ kind = "ACQUIRE" => w.device.applied = "ACTIVE" /\ mask
  /\ ~IdInUse(w, id) /\ ~JobActive(w)
  /\ Len(w.device.queue) < Capacity

StartJob(w, kind, id, mask, deadline) ==
  IF ~Admissible(w, kind, id, mask) THEN Failing(w)
  ELSE [w EXCEPT !.status = "IN_PROGRESS",
                 !.device.job = [id |-> id, kind |-> kind, left |-> JobTransfers,
                                 deadline |-> deadline]]

FinishJob(w, outcome, batch) ==
  [w EXCEPT !.device.queue = Append(@, [id |-> w.device.job.id, kind |-> w.device.job.kind,
                                        outcome |-> outcome, batch |-> batch]),
            !.device.job = NoJob]

AfterFailure(w, fate) ==
  IF w.device.job.kind = "ACQUIRE" THEN w
  ELSE [w EXCEPT !.device.applied =
          CASE fate = "keep" -> @ [] fate = "unknown" -> "UNKNOWN" [] OTHER -> "DIRTY"]

Midway(w, fate) ==
  LET kind == w.device.job.kind
  IN  IF kind = "ACQUIRE" \/ (kind = "INITIALIZE" /\ fate = "keep") THEN w
      ELSE [w EXCEPT !.device.applied =
              IF kind = "RESET_AND_REAPPLY" /\ fate = "keep" THEN "UNKNOWN" ELSE "DIRTY"]

\* `sameBus`: the bus has neither changed its frequency nor been set up anew
\* since a replay wrote the profile over it.
Replayed(w) ==
  IF w.device.job.kind = "ACQUIRE" THEN w
  ELSE [w EXCEPT !.device.applied = "SLEEPING", !.device.sameBus = TRUE]

\* poll(now, 1): a step of the job, or its end.  A job that is overdue ends
\* without a transfer.
Poll(w, io, fate) ==
  LET v == Counted(w)
      kind == w.device.job.kind
  IN  IF ~JobActive(w) THEN w
      ELSE IF w.device.job.deadline = 0 THEN FinishJob(w, "TIMED_OUT", "none")
      ELSE IF ~Reaches(w, io) THEN FinishJob(AfterFailure(v, fate), "FAILED", "none")
      ELSE IF w.device.job.left > 1
      THEN [Midway(v, fate) EXCEPT !.device.job.left = @ - 1]
      ELSE FinishJob(Replayed(v), "SUCCESS", IF kind = "ACQUIRE" THEN io ELSE "none")

CancelJob(w) ==
  Passing(IF JobActive(w) THEN FinishJob(w, "CANCELLED", "none") ELSE w)

InvalidateAppliedState(w) == [CancelJob(w) EXCEPT !.device.applied = "UNKNOWN"]

-----------------------------------------------------------------------------
(* Binding and direct operations.                                          *)

NoDevice == [bound |-> FALSE, applied |-> "UNKNOWN", sameBus |-> FALSE,
             job |-> NoJob, queue |-> <<>>]

BindDevice(w) ==
  IF w.device.bound THEN Failing(w)
  ELSE Passing([w EXCEPT !.device = [NoDevice EXCEPT !.bound = TRUE]])

EndDevice(w) == [w EXCEPT !.device = NoDevice]

\* A direct operation makes one transfer, of a bound device without a job.
DirectRead(w, io) ==
  IF ~w.device.bound \/ JobActive(w) THEN Failing(w)
  ELSE IF Reaches(w, io) THEN Passing(Counted(w)) ELSE Failing(Counted(w))

\* The interrupt pin is no transfer, and may not be there.
ReadIntb(w, io) ==
  IF ~w.device.bound \/ io = "fail" THEN Failing(w)
  ELSE IF io = "odd" THEN [w EXCEPT !.status = "ABSENT"] ELSE Passing(w)

SetSleeping(w, from, to, io, fate) ==
  LET v == Counted(w)
  IN  IF ~w.device.bound \/ JobActive(w) THEN Failing(w)
      ELSE IF w.device.applied = to THEN Passing(w)
      ELSE IF w.device.applied # from THEN Failing(w)
      ELSE IF Reaches(w, io) THEN Passing([v EXCEPT !.device.applied = to])
      ELSE Failing([v EXCEPT !.device.applied = IF fate = "keep" THEN @ ELSE "DIRTY"])

\* A raw write; `reset` when it is to RESET_DEV.
WriteRegister(w, reset, io, fate) ==
  LET v == Counted(w)
  IN  IF ~w.device.bound \/ JobActive(w) THEN Failing(w)
      ELSE IF ~Reaches(w, io) /\ fate = "keep" THEN Failing(v)
      ELSE [v EXCEPT !.status = IF Reaches(w, io) THEN "OK" ELSE "ERROR",
                     !.device.applied =
                       IF reset \/ @ = "UNKNOWN" THEN "UNKNOWN" ELSE "DIRTY"]

-----------------------------------------------------------------------------
(* The owner's bus, as BusLifecycle promises it: a call that fails may     *)
(* leave it half set up, and never changes its frequency.                  *)

SetFrequency(w, hz, io) ==
  IF ~w.bus.open THEN Failing(w)
  ELSE IF hz = w.bus.hz THEN Passing(w)
  ELSE IF io = "ok" THEN Passing([w EXCEPT !.bus.hz = hz, !.device.sameBus = FALSE])
  ELSE Failing([w EXCEPT !.bus.open = io = "fail"])

\* A recovery may have torn the bus down however it ends.
RecoverBus(w, io) ==
  LET v == [w EXCEPT !.device.sameBus = FALSE]
  IN  IF io = "ok" THEN Passing([v EXCEPT !.bus.open = TRUE])
      ELSE Failing([v EXCEPT !.bus.open = @ /\ io = "fail"])

DiscoveryRead(w, io) ==
  IF ~w.bus.open THEN Failing(w)
  ELSE IF io = "fail" THEN Failing(Counted(w)) ELSE Passing(Counted(w))
=============================================================================
