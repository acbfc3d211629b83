--------------------------- MODULE LdcDriverProofs ---------------------------
(***************************************************************************)
(* What holds of the driver for every value of the constants: types, the   *)
(* accounting of transfers and result slots, and the budget of a poll;     *)
(* then what the driver believes about the configuration of the device,    *)
(* what it reports when it stops believing and what it would blame; and    *)
(* last that it implements the ledger of operations, with what follows for *)
(* their identities.                                                       *)
(***************************************************************************)
EXTENDS LdcOperations, FiniteSetTheorems, SequenceTheorems, TLAPS

-----------------------------------------------------------------------------
(* Arithmetic of budgets and of the wrapping timeline.                     *)

\* A share of a budget, taken as often as there are sharers, stays within it.
LEMMA ShareWithinBudget ==
  ASSUME NEW b \in Nat, NEW r \in Nat \ {0}, r <= b
  PROVE  /\ b \div r \in Nat
         /\ b \div r >= 1
         /\ r * (b \div r) <= b
  BY Z3

\* A difference of two times lies on the timeline.
LEMMA TimelineRemainder ==
  ASSUME NEW m \in Nat \ {0}, NEW a \in 0 .. m - 1, NEW b \in 0 .. m - 1
  PROVE  (a - b) % m = IF a >= b THEN a - b ELSE a - b + m
  BY Z3

\* poll() before the deadline finds a budget of at least one millisecond.
LEMMA NotDueLeavesBudget ==
  ASSUME NEW now \in Times, NEW deadline \in 0 .. TimeModulus - 1,
         ~DueOrPast(now, deadline)
  PROVE  (deadline - now) % TimeModulus \in Nat \ {0}
<1>1. TimeModulus \in Nat \ {0} /\ TimeModulus % 2 = 0 /\ now \in 0 .. TimeModulus - 1
  BY DriverAssumption
<1>2. TimeModulus \div 2 >= 1
  BY <1>1
<1>3. (deadline - now) % TimeModulus
        = IF deadline >= now THEN deadline - now ELSE deadline - now + TimeModulus
  BY <1>1, TimelineRemainder
<1>4. (now - deadline) % TimeModulus
        = IF now >= deadline THEN now - deadline ELSE now - deadline + TimeModulus
  BY <1>1, TimelineRemainder
<1> QED
  BY <1>1, <1>2, <1>3, <1>4 DEF DueOrPast

\* The next channel of a mask is its least member above the given one.
LEMMA NextChannelIsLeast ==
  ASSUME NEW mask \in SUBSET (0 .. 3), NEW after \in 0 .. 255,
         NEW above, above = {ch \in mask : after = NoChannel \/ ch > after}
  PROVE  IF above = {} THEN NextChannel(mask, after) = NoChannel
         ELSE /\ NextChannel(mask, after) \in above
              /\ \A ch \in above : NextChannel(mask, after) <= ch
<1>1. ASSUME above # {} PROVE \E x \in above : \A y \in above : x <= y
  <2>1. above \subseteq 0 .. 3
    OBVIOUS
  <2> QED
    BY <1>1, <2>1
<1> QED
  BY <1>1 DEF NextChannel, Min

-----------------------------------------------------------------------------
(* The replay plan.                                                        *)

\* The replay of either variant has at least one transfer.
LEMMA PlanLength ==
  /\ ConfigurationTransferCount(ChannelCount) = 1 + ChannelCount * 5 + 2
  /\ ConfigurationTransferCount(ChannelCount) \in {13, 23}
  BY DriverAssumption DEF ConfigurationTransferCount

\* Every step of the plan addresses a register of the map, in a write phase,
\* for a channel of the variant or for none.
LEMMA PlanType ==
  ASSUME NEW k \in 0 .. ConfigurationTransferCount(ChannelCount) - 1
  PROVE  ConfigWriteAt(ChannelCount, k)
           \in [reg : 0 .. 255, phase : WritePhase, channel : Channel]
<1> DEFINE field == ((k - 1) % 5) + 1
           ch == (k - 1) \div 5
<1>1. CASE k >= 1 /\ k - 1 < ChannelCount * 5
  <2>1. field \in 1 .. 5 /\ ch \in 0 .. ChannelCount - 1
    BY <1>1, DriverAssumption, PlanLength
  <2>2. ch \in 0 .. 3
    BY <2>1, DriverAssumption
  <2> HIDE DEF field, ch
  <2>3. ChannelRegister(field, ch) \in 0 .. 255
    BY <2>1, <2>2 DEF ChannelRegister, RegRcount, RegOffset, RegSettleCount,
       RegClockDividers, RegDriveCurrent
  <2>4. ChannelPhases[field] \in WritePhase
    BY <2>1 DEF ChannelPhases, WritePhase
  <2>5. ConfigWriteAt(ChannelCount, k)
          = [reg |-> ChannelRegister(field, ch), phase |-> ChannelPhases[field], channel |-> ch]
    BY <1>1, PlanLength DEF ConfigWriteAt, field, ch
  <2> QED
    BY <2>1, <2>3, <2>4, <2>5 DEF Channel, ChannelIndex
<1>2. CASE ~(k >= 1 /\ k - 1 < ChannelCount * 5)
  BY <1>2, DriverAssumption, PlanLength
  DEF ConfigWriteAt, RegConfig, RegErrorConfig, RegMuxConfig, WritePhase, Channel, NoChannel
<1> QED
  BY <1>1, <1>2

-----------------------------------------------------------------------------
(* The inductive invariant.  The type of the counters rests on the         *)
(* accounting of transfers and on the budget of the running poll; the      *)
(* count of results on the slot being reserved; and that no call is open   *)
(* on an unbound driver rests on a job existing only while it is bound.    *)

EngineInv ==
  TypeOK /\ JobAccounting /\ SlotReserved /\ TimeoutsFitDeadline /\ JobMatchesConfiguration

\* The idle values of the records have the records' types.
LEMMA IdleTypes ==
  /\ NoJob \in Job
  /\ NoResult \in OperationResult
  /\ NoFault \in ConfigFault
  /\ NoWrite \in [phase : JobPhase, reg : 0 .. 255, channel : Channel]
  /\ NoCall \in [active : BOOLEAN, remaining : Nat, transferTimeoutMs : Nat, unspentMs : Nat]
<1>1. "NONE" \in JobPhase /\ {} \in EffectFlags /\ NoChannel \in Channel
  BY DEF JobPhase, EffectFlags, Channel
<1>2. 0 \in 0 .. TimeModulus - 1 /\ 0 \in 0 .. MaxConfigRevision
  BY DriverAssumption
<1>3. NoJob \in Job
  BY <1>1, <1>2 DEF NoJob, Job
<1>4. NoResult \in OperationResult
  BY <1>1, <1>2 DEF NoResult, OperationResult, TerminalOutcome
<1>5. NoFault \in ConfigFault
  BY <1>1 DEF NoFault, ConfigFault, FaultCause, TransferStatus, InvalidRegister, NoChannel
<1>6. NoWrite \in [phase : JobPhase, reg : 0 .. 255, channel : Channel]
  BY <1>1 DEF NoWrite, InvalidRegister
<1>7. NoCall \in [active : BOOLEAN, remaining : Nat, transferTimeoutMs : Nat, unspentMs : Nat]
  BY DEF NoCall
<1> QED
  BY <1>3, <1>4, <1>5, <1>6, <1>7

\* A constructed driver satisfies the invariant.
LEMMA InitEngine == Init => EngineInv
<1> SUFFICES ASSUME Init PROVE EngineInv
  OBVIOUS
<1>6. 0 \in 0 .. MaxConfigRevision
  BY DriverAssumption
<1>1. BindingType
  BY <1>6, Zenon DEF Init, BindingType
<1>5. TrustType
  BY IdleTypes DEF Init, TrustType, AppliedConfigState
<1>2. JobType /\ CallType
  BY IdleTypes DEF Init, JobType, CallType
<1>3. RingType
  BY IdleTypes, DriverAssumption DEF Init, RingType, EmptyRing
<1>4. JobAccounting /\ SlotReserved /\ TimeoutsFitDeadline /\ JobMatchesConfiguration
  BY DEF Init, JobAccounting, SlotReserved, TimeoutsFitDeadline, JobMatchesConfiguration, NoJob, NoCall
<1> QED
  BY <1>1, <1>2, <1>3, <1>4, <1>5 DEF EngineInv, TypeOK

\* Channel masks are small finite sets.
LEMMA MaskCardinality ==
  ASSUME NEW mask \in SUBSET ChannelIndex
  PROVE  IsFiniteSet(mask) /\ Cardinality(mask) \in Nat
<1>1. IsFiniteSet(ChannelIndex)
  BY DriverAssumption, FS_Interval DEF ChannelIndex
<1> QED
  BY <1>1, FS_Subset, FS_CardinalityType

\* The requested channels below one of them are fewer than all of them.
LEMMA BelowIsSmaller ==
  ASSUME NEW mask \in SUBSET ChannelIndex, NEW c \in mask
  PROVE  Cardinality({ch \in mask : ch < c}) <= Cardinality(mask) - 1
<1> DEFINE below == {ch \in mask : ch < c}
<1>1. below \subseteq mask \ {c}
  BY DriverAssumption DEF ChannelIndex
<1>2. IsFiniteSet(mask \ {c}) /\ Cardinality(mask \ {c}) = Cardinality(mask) - 1
  BY MaskCardinality, FS_RemoveElement
<1>3. Cardinality(below) <= Cardinality(mask \ {c})
  BY <1>1, <1>2, FS_Subset
<1> QED
  BY <1>2, <1>3

\* A job that satisfies the accounting has a transfer left.
LEMMA AccountingLeavesTransfer ==
  ASSUME EngineInv, progress.active
  PROVE  /\ progress.completedTransfers < progress.maximumTransfers
         /\ progress.kind \in JobKind
<1> DEFINE requested == progress.requestedChannels
           below == {ch \in requested : ch < progress.channel}
<1>1. progress \in Job /\ jobStep \in Nat /\ progress.kind \in JobKind
  BY DEF EngineInv, TypeOK, JobType, Job, JobAccounting
<1>2. requested \in SUBSET ChannelIndex /\ Cardinality(requested) \in Nat
  BY <1>1, MaskCardinality DEF Job
<1>3. CASE progress.kind # "ACQUIRE"
  BY <1>1, <1>3 DEF EngineInv, JobAccounting
<1>4. CASE progress.kind = "ACQUIRE"
  <2>1. progress.maximumTransfers = 2 + 2 * Cardinality(requested)
    BY <1>4 DEF EngineInv, JobAccounting, MaximumTransfers
  <2>2. ASSUME progress.channel \in requested
        PROVE  /\ Cardinality(below) \in Nat
               /\ Cardinality(below) <= Cardinality(requested) - 1
    <3>1. below \in SUBSET ChannelIndex
      BY <1>2
    <3> QED
      BY <1>2, <2>2, <3>1, BelowIsSmaller, MaskCardinality
  <2>3. \/ progress.completedTransfers = 0
        \/ progress.completedTransfers = 1 + 2 * Cardinality(requested)
        \/ /\ progress.channel \in requested
           /\ \/ progress.completedTransfers = 2 * Cardinality(below) + 1
              \/ progress.completedTransfers = 2 * Cardinality(below) + 2
    BY <1>4 DEF EngineInv, JobAccounting
  <2> HIDE DEF requested, below
  <2> QED
    BY <1>1, <1>2, <2>1, <2>2, <2>3
<1> QED
  BY <1>1, <1>3, <1>4

-----------------------------------------------------------------------------
(* What the shared parts of the actions preserve.                          *)

Write == [phase : JobPhase, reg : 0 .. 255, channel : 0 .. 255]

\* A recorded fault has the type of one.
LEMMA FaultType ==
  ASSUME NEW cause \in FaultCause, NEW job \in JobKind \cup {"NONE"},
         NEW w, w.phase \in JobPhase, w.reg \in 0 .. 255, w.channel \in 0 .. 255,
         NEW effects \in EffectFlags
  PROVE  Fault(cause, job, w, effects) \in ConfigFault
  BY DEF Fault, ConfigFault

\* An open call belongs to an active job, which will count one more transfer.
LEMMA CallOfActiveJob ==
  ASSUME EngineInv, pollCall.active
  PROVE  /\ progress.active /\ progress \in Job /\ Counted \in Job
         /\ progress.kind \in JobKind
         /\ \A f \in DOMAIN progress \ {"completedTransfers"} : Counted[f] = progress[f]
         /\ Counted.completedTransfers = progress.completedTransfers + 1
<1>1. progress.active /\ progress \in Job
  BY DEF EngineInv, TypeOK, JobType, TimeoutsFitDeadline
<1>2. progress.kind \in JobKind
  BY <1>1, AccountingLeavesTransfer
<1> QED
  BY <1>1, <1>2 DEF Counted, Job

\* A terminating job hands its reserved slot to its result and leaves no trace.
LEMMA FinishKeeps ==
  ASSUME EngineInv, progress.active,
         NEW p \in Job, NEW outcome \in TerminalOutcome, FinishJob(p, outcome),
         CallType', ~pollCall'.active
  PROVE  /\ JobType' /\ RingType'
         /\ JobAccounting' /\ SlotReserved' /\ TimeoutsFitDeadline' /\ JobMatchesConfiguration'
<1>1. progress' = NoJob /\ jobStep' = 0 /\ lastWrite' = NoWrite
  BY DEF FinishJob, ClearActiveJob
<1>2. JobType'
  BY <1>1, IdleTypes DEF JobType
<1>3. JobAccounting' /\ SlotReserved' /\ TimeoutsFitDeadline' /\ JobMatchesConfiguration'
  BY <1>1 DEF JobAccounting, SlotReserved, TimeoutsFitDeadline, JobMatchesConfiguration, NoJob
<1>4. RingType'
  <2>1. [operationId |-> p.operationId, kind |-> p.kind, outcome |-> outcome,
         effects |-> p.effects, configRevision |-> p.configRevision,
         hasSampleBatch |-> p.kind = "ACQUIRE" /\ outcome = "SUCCESS"] \in OperationResult
    BY DEF Job, OperationResult
  <2>2. results' \in [0 .. ResultCapacity - 1 -> OperationResult]
    BY <2>1 DEF FinishJob, EngineInv, TypeOK, RingType
  <2>3. resultHead' \in 0 .. ResultCapacity - 1 /\ resultCount' \in 0 .. ResultCapacity
    BY DriverAssumption DEF FinishJob, EngineInv, TypeOK, RingType, ReserveResultSlot
  <2> QED
    BY <2>2, <2>3 DEF RingType
<1> QED
  BY <1>2, <1>3, <1>4

\* What a callback never changes in the job it belongs to.
SameJob(p) ==
  /\ p.active = progress.active /\ p.kind = progress.kind
  /\ p.maximumTransfers = progress.maximumTransfers
  /\ p.requestedChannels = progress.requestedChannels
  /\ p.configRevision = progress.configRevision
  /\ p.completedTransfers = progress.completedTransfers + 1

\* A callback that does not end the job spends one share of the call's budget.
LEMMA ContinueKeeps ==
  ASSUME EngineInv, pollCall.active,
         NEW p \in Job, SameJob(p), ContinueTransfer(p), UNCHANGED bindingVars,
         progress.kind # "ACQUIRE" \/ UNCHANGED appliedState
  PROVE  /\ CallType' /\ RingType' /\ progress' \in Job
         /\ SlotReserved' /\ TimeoutsFitDeadline' /\ JobMatchesConfiguration'
<1> DEFINE r == pollCall.remaining
           t == pollCall.transferTimeoutMs
           u == pollCall.unspentMs
<1>1. /\ progress.active /\ progress \in Job
      /\ r \in Nat /\ t \in Nat /\ u \in Nat
      /\ r \in 1 .. progress.maximumTransfers - progress.completedTransfers
      /\ t \in 1 .. I2cTimeoutMs /\ r * t <= u
  BY DEF EngineInv, TypeOK, JobType, CallType, TimeoutsFitDeadline
<1>2. RingType' /\ SlotReserved' /\ progress' \in Job
  BY <1>1 DEF ContinueTransfer, RingType, SlotReserved, EngineInv, TypeOK, ringVars
<1>5. JobMatchesConfiguration'
  BY <1>1 DEF SameJob, ContinueTransfer, EngineInv, JobMatchesConfiguration, bindingVars
<1>3. CASE r = 1
  <2>1. pollCall' = NoCall
    BY <1>3 DEF ContinueTransfer
  <2>2. CallType'
    BY <2>1, IdleTypes DEF CallType
  <2>3. TimeoutsFitDeadline'
    BY <2>1 DEF TimeoutsFitDeadline, NoCall
  <2> QED
    BY <1>2, <1>5, <2>2, <2>3
<1>4. CASE r # 1
  <2>1. r - 1 \in Nat \ {0}
    BY <1>1, <1>4
  <2>2. (r - 1) * t = r * t - t
    BY <1>1, Z3
  <2>3. t <= (r - 1) * t
    BY <1>1, <2>1, Z3
  <2>4. u - t \in Nat /\ (r - 1) * t <= u - t
    BY <1>1, <2>1, <2>2, <2>3, Z3
  <2>5. pollCall' = [pollCall EXCEPT !.remaining = r - 1, !.unspentMs = u - t]
    BY <1>4 DEF ContinueTransfer
  <2>6. CallType'
    BY <2>1, <2>4, <2>5 DEF EngineInv, TypeOK, CallType
  <2>7. /\ pollCall'.remaining = r - 1 /\ pollCall'.transferTimeoutMs = t
        /\ pollCall'.unspentMs = u - t
    BY <2>5 DEF EngineInv, TypeOK, CallType
  <2>8. r - 1 \in 1 .. p.maximumTransfers - p.completedTransfers
    BY <1>1, <2>1 DEF Job, SameJob
  <2>9. TimeoutsFitDeadline'
    BY <1>1, <2>4, <2>7, <2>8 DEF TimeoutsFitDeadline, ContinueTransfer, SameJob
  <2> QED
    BY <1>2, <1>5, <2>6, <2>9
<1> QED
  BY <1>2, <1>3, <1>4

-----------------------------------------------------------------------------
(* The owner's calls and the opening of a poll.                            *)

\* A call that forgets everything leaves the idle values behind.
LEMMA ForgetKeeps ==
  ASSUME EngineInv, ForgetEverything, BindingType', CallType', ~pollCall'.active
  PROVE  EngineInv'
<1>1. TrustType'
  BY IdleTypes DEF ForgetEverything, TrustType, AppliedConfigState
<1>2. JobType'
  BY IdleTypes DEF ForgetEverything, ClearActiveJob, JobType
<1>3. RingType'
  BY IdleTypes, DriverAssumption DEF ForgetEverything, RingType, EmptyRing
<1>4. JobAccounting' /\ SlotReserved' /\ TimeoutsFitDeadline' /\ JobMatchesConfiguration'
  BY DEF ForgetEverything, ClearActiveJob, JobAccounting, SlotReserved, TimeoutsFitDeadline,
     JobMatchesConfiguration, NoJob
<1> QED
  BY <1>1, <1>2, <1>3, <1>4 DEF EngineInv, TypeOK

\* bind() starts from the idle values with a first revision.
LEMMA BindEngine ==
  ASSUME EngineInv, NEW c \in Profiles, Bind(c)
  PROVE  EngineInv'
<1>1. ~pollCall'.active
  BY DEF Bind, EngineInv, JobMatchesConfiguration, TimeoutsFitDeadline
<1>2. BindingType' /\ CallType'
  <2>1. 1 \in 0 .. MaxConfigRevision
    BY DriverAssumption
  <2> QED
    BY <2>1, Zenon DEF Bind, EngineInv, TypeOK, BindingType, CallType
<1> QED
  BY <1>1, <1>2, ForgetKeeps DEF Bind

\* end() goes back to them.
LEMMA EndEngine ==
  ASSUME EngineInv, End
  PROVE  EngineInv'
<1>1. 0 \in 0 .. MaxConfigRevision
  BY DriverAssumption
<1>2. BindingType' /\ CallType'
  BY <1>1, Zenon DEF End, EngineInv, TypeOK, BindingType, CallType
<1> QED
  BY <1>2, ForgetKeeps DEF End

\* updateDesiredConfig() runs with no job active and stops at the last revision.
LEMMA UpdateDesiredConfigEngine ==
  ASSUME EngineInv, NEW c \in Profiles, UpdateDesiredConfig(c)
  PROVE  EngineInv'
<1>1. BindingType'
  BY DriverAssumption DEF UpdateDesiredConfig, EngineInv, TypeOK, BindingType
<1>2. TrustType'
  BY DEF UpdateDesiredConfig, EngineInv, TypeOK, TrustType, AppliedConfigState
<1>3. JobType' /\ RingType' /\ CallType'
  BY DEF UpdateDesiredConfig, EngineInv, TypeOK, JobType, RingType, CallType, jobVars, ringVars
<1>4. JobAccounting' /\ SlotReserved' /\ TimeoutsFitDeadline' /\ JobMatchesConfiguration'
  BY DEF UpdateDesiredConfig, EngineInv, JobAccounting, SlotReserved, TimeoutsFitDeadline,
     JobMatchesConfiguration, jobVars, ringVars
<1> QED
  BY <1>1, <1>2, <1>3, <1>4 DEF EngineInv, TypeOK

\* Admission: the plan of the new job has transfers, none of them made.
LEMMA StartJobEngine ==
  ASSUME EngineInv, NEW kind \in JobKind, NEW channels \in SUBSET ChannelIndex,
         NEW id \in OperationIds, NEW deadline \in Deadlines,
         StartJob(kind, channels, id, deadline),
         kind = "ACQUIRE" =>
           appliedState = "APPLIED_ACTIVE" /\ channels \subseteq ProfileChannels[config]
  PROVE  EngineInv'
<1>1. FirstPhase(kind) \in JobPhase
      /\ (kind = "ACQUIRE" <=> FirstPhase(kind) = "READ_STATUS_BEFORE")
      /\ (kind # "ACQUIRE" => FirstPhase(kind) \notin ReadPhase)
  BY DEF JobKind, FirstPhase, JobPhase, ReadPhase, WritePhase
<1>2. MaximumTransfers(kind, channels) \in Nat \ {0}
  BY PlanLength, MaskCardinality DEF MaximumTransfers, ApplyOffset, JobKind
<1>3. deadline \in 0 .. TimeModulus - 1
  BY DriverAssumption
<1>4. progress' = [NoJob EXCEPT !.active = TRUE, !.operationId = id, !.kind = kind,
                    !.deadlineMs = deadline, !.phase = FirstPhase(kind),
                    !.maximumTransfers = MaximumTransfers(kind, channels),
                    !.requestedChannels = channels, !.configRevision = configRevision]
  BY DEF StartJob
<1>5. progress' \in Job
  BY <1>1, <1>2, <1>3, <1>4, IdleTypes DEF EngineInv, TypeOK, BindingType, Job
<1>6. JobType'
  BY <1>5, IdleTypes DEF StartJob, JobType
<1>7. BindingType' /\ TrustType' /\ RingType' /\ CallType'
  BY DEF StartJob, EngineInv, TypeOK, BindingType, TrustType, RingType, CallType,
     bindingVars, ringVars
<1>8. /\ progress'.active /\ progress'.kind = kind /\ progress'.phase = FirstPhase(kind)
      /\ progress'.completedTransfers = 0 /\ progress'.completedChannels = {}
      /\ progress'.maximumTransfers = MaximumTransfers(kind, channels)
      /\ progress'.requestedChannels = channels /\ progress'.configRevision = configRevision
      /\ jobStep' = 0
  BY <1>4 DEF NoJob, StartJob
<1>9. JobAccounting'
  BY <1>1, <1>2, <1>8 DEF JobAccounting, JobKind
<1>10. SlotReserved' /\ TimeoutsFitDeadline'
  BY DEF StartJob, ReserveResultSlot, SlotReserved, TimeoutsFitDeadline, EngineInv, ringVars
<1>11. JobMatchesConfiguration'
  BY <1>8 DEF StartJob, JobMatchesConfiguration, bindingVars
<1> QED
  BY <1>6, <1>7, <1>9, <1>10, <1>11 DEF EngineInv, TypeOK

\* poll() fixes the callbacks of the call and the timeout of each: the division
\* is by a positive number, and the shares add up to no more than the budget.
LEMMA PollBeginEngine ==
  ASSUME EngineInv, NEW now \in Times, NEW max \in 1 .. MaxTransferBudget,
         PollBegin(now, max)
  PROVE  EngineInv'
<1> DEFINE budgetMs == (progress.deadlineMs - now) % TimeModulus
           left == progress.maximumTransfers - progress.completedTransfers
           r == CallbackAllowance(budgetMs, max)
           t == CallbackTimeout(budgetMs, r)
<1>1. progress.active /\ progress \in Job
  BY DEF PollBegin, EngineInv, TypeOK, JobType
<1>2. left \in Nat \ {0}
  BY <1>1, AccountingLeavesTransfer DEF Job
<1>3. budgetMs \in Nat \ {0}
  BY <1>1, NotDueLeavesBudget DEF PollBegin, Job
<1>4. max \in Nat \ {0}
  BY DriverAssumption
<1> HIDE DEF budgetMs, left
<1>5. r \in Nat \ {0} /\ r <= budgetMs /\ r <= left
  BY <1>2, <1>3, <1>4 DEF CallbackAllowance, Smaller, left
<1> HIDE DEF r
<1>6. budgetMs \div r \in Nat /\ budgetMs \div r >= 1 /\ r * (budgetMs \div r) <= budgetMs
  BY <1>3, <1>5, ShareWithinBudget
<1>7. t \in 1 .. I2cTimeoutMs /\ t <= budgetMs \div r
  BY <1>6, DriverAssumption DEF CallbackTimeout, Smaller
<1> HIDE DEF t
<1>8. r * t <= budgetMs
  <2>1. t \in Nat /\ budgetMs \div r \in Nat /\ r \in Nat
    BY <1>5, <1>6, <1>7
  <2>2. r * t <= r * (budgetMs \div r)
    BY <2>1, <1>7, Z3
  <2>3. r * t \in Nat /\ r * (budgetMs \div r) \in Nat
    BY <2>1
  <2> QED
    BY <1>3, <1>6, <2>2, <2>3
<1>9. pollCall' = [active |-> TRUE, remaining |-> r, transferTimeoutMs |-> t,
                  unspentMs |-> budgetMs]
  BY DEF PollBegin, budgetMs, r, t
<1>10. CallType'
  BY <1>3, <1>5, <1>7, <1>9, DriverAssumption DEF CallType
<1>11. UNCHANGED <<bindingVars, appliedState, configFault, jobVars, ringVars>>
  BY DEF PollBegin
<1>12. TimeoutsFitDeadline'
  BY <1>1, <1>2, <1>5, <1>7, <1>8, <1>9, <1>11
  DEF TimeoutsFitDeadline, left, jobVars, Job
<1>13. BindingType' /\ TrustType' /\ JobType' /\ RingType' /\ SlotReserved'
  BY <1>11 DEF EngineInv, TypeOK, BindingType, TrustType, JobType, RingType, SlotReserved,
     bindingVars, jobVars, ringVars
<1>14. JobAccounting' /\ JobMatchesConfiguration'
  BY <1>11 DEF EngineInv, JobAccounting, JobMatchesConfiguration, bindingVars, jobVars
<1> QED
  BY <1>10, <1>12, <1>13, <1>14 DEF EngineInv, TypeOK

\* cancelJob() and an expired deadline finish the job between two calls.
LEMMA AbandonJobEngine ==
  ASSUME EngineInv, progress.active, ~pollCall.active,
         NEW cause \in FaultCause, NEW outcome \in TerminalOutcome,
         AbandonJob(cause, outcome)
  PROVE  EngineInv'
<1>1. progress \in Job /\ lastWrite \in Write
  BY DriverAssumption
  DEF EngineInv, TypeOK, JobType, Write, Channel, ChannelIndex, NoChannel
<1>2. BindingType' /\ CallType' /\ ~pollCall'.active
  BY DEF AbandonJob, EngineInv, TypeOK, BindingType, CallType, bindingVars
<1>3. Fault(cause, progress.kind, lastWrite, progress.effects) \in ConfigFault
  BY <1>1, FaultType DEF Job, Write
<1>4. TrustType'
  BY <1>3 DEF AbandonJob, EngineInv, TypeOK, TrustType, AppliedConfigState
<1> QED
  BY <1>1, <1>2, <1>4, FinishKeeps DEF AbandonJob, EngineInv, TypeOK

\* takeResult() leaves the job alone and frees a slot.
LEMMA TakeResultEngine ==
  ASSUME EngineInv, TakeResult
  PROVE  EngineInv'
<1>1. BindingType' /\ TrustType' /\ JobType' /\ CallType'
  BY DEF TakeResult, EngineInv, TypeOK, BindingType, TrustType, JobType, CallType,
     bindingVars, jobVars
<1>2. RingType' /\ SlotReserved'
  <2>1. results' \in [0 .. ResultCapacity - 1 -> OperationResult]
    BY IdleTypes DEF TakeResult, EngineInv, TypeOK, RingType
  <2>2. resultHead' \in 0 .. ResultCapacity - 1
    BY DriverAssumption DEF TakeResult, EngineInv, TypeOK, RingType
  <2>3. resultCount' \in 0 .. ResultCapacity /\ SlotReserved'
    BY DriverAssumption DEF TakeResult, EngineInv, TypeOK, RingType, SlotReserved, jobVars
  <2> QED
    BY <2>1, <2>2, <2>3 DEF RingType
<1>3. JobAccounting' /\ TimeoutsFitDeadline' /\ JobMatchesConfiguration'
  BY DEF TakeResult, EngineInv, JobAccounting, TimeoutsFitDeadline, JobMatchesConfiguration,
     bindingVars, jobVars
<1> QED
  BY <1>1, <1>2, <1>3 DEF EngineInv, TypeOK

\* invalidateAppliedState() finishes the job it interrupts.
LEMMA InvalidateAppliedStateEngine ==
  ASSUME EngineInv, InvalidateAppliedState
  PROVE  EngineInv'
<1>1. BindingType' /\ CallType' /\ ~pollCall'.active
  BY DEF InvalidateAppliedState, EngineInv, TypeOK, BindingType, CallType, bindingVars
<1>2. TrustType'
  BY IdleTypes
  DEF InvalidateAppliedState, TrustType, AppliedConfigState, ConfigFault, FaultCause
<1>3. CASE progress.active
  <2>1. progress \in Job
    BY DEF EngineInv, TypeOK, JobType
  <2> QED
    BY <1>1, <1>2, <1>3, <2>1, FinishKeeps
    DEF InvalidateAppliedState, TerminalOutcome, EngineInv, TypeOK
<1>4. CASE ~progress.active
  <2>1. JobType' /\ RingType'
    BY <1>4 DEF InvalidateAppliedState, EngineInv, TypeOK, JobType, RingType, jobVars, ringVars
  <2>2. JobAccounting' /\ SlotReserved' /\ TimeoutsFitDeadline' /\ JobMatchesConfiguration'
    BY <1>4 DEF InvalidateAppliedState, EngineInv, JobAccounting, SlotReserved,
       TimeoutsFitDeadline, JobMatchesConfiguration, jobVars, ringVars
  <2> QED
    BY <1>1, <1>2, <2>1, <2>2 DEF EngineInv, TypeOK
<1> QED
  BY <1>3, <1>4

\* The direct calls run with no job active and touch nothing but trust.
LEMMA DirectCallKeeps ==
  ASSUME EngineInv, ~progress.active, TrustType',
         UNCHANGED <<bindingVars, jobVars, ringVars, pollCall>>
  PROVE  EngineInv'
<1>1. BindingType' /\ JobType' /\ RingType' /\ CallType'
  BY DEF EngineInv, TypeOK, BindingType, JobType, RingType, CallType, bindingVars, jobVars, ringVars
<1>2. JobAccounting' /\ SlotReserved' /\ TimeoutsFitDeadline' /\ JobMatchesConfiguration'
  BY DEF EngineInv, JobAccounting, SlotReserved, TimeoutsFitDeadline, JobMatchesConfiguration,
     jobVars, ringVars
<1> QED
  BY <1>1, <1>2 DEF EngineInv, TypeOK

\* sleep() and wake() keep the types of trust and fault.
LEMMA DirectConfigWriteEngine ==
  ASSUME EngineInv, NEW status \in TransferStatus,
         NEW from \in AppliedConfigState, NEW to \in AppliedConfigState,
         DirectConfigWrite(status, from, to)
  PROVE  EngineInv'
<1>1. Fault(status, "NONE", FinalConfigWrite, {"INDETERMINATE_WRITE"}) \in ConfigFault
  BY FaultType DEF FinalConfigWrite, FaultCause, JobPhase, WritePhase, RegConfig, NoChannel,
     EffectFlags
<1>2. TrustType'
  BY <1>1 DEF DirectConfigWrite, EngineInv, TypeOK, TrustType, AppliedConfigState
<1> QED
  BY <1>2, DirectCallKeeps DEF DirectConfigWrite

\* So does writeRegister16(), for every register it accepts.
LEMMA WriteRegister16Engine ==
  ASSUME EngineInv, NEW reg \in DiagnosticRegisters, NEW status \in TransferStatus,
         WriteRegister16(reg, status)
  PROVE  EngineInv'
<1> DEFINE w == [phase |-> ConfigurationPhaseForRegister(reg), reg |-> reg,
                 channel |-> ConfigurationChannelForRegister(reg)]
<1>1. reg \in 0 .. 255
  BY DriverAssumption
<1>2. ConfigurationPhaseForRegister(reg) \in JobPhase
  BY DEF ConfigurationPhaseForRegister, JobPhase, WritePhase
<1>3. ConfigurationChannelForRegister(reg) \in 0 .. 255
  BY <1>1 DEF ConfigurationChannelForRegister, Rcounts, SettleCounts, ClockDividers, Offsets,
     DriveCurrents, RegRcount, RegSettleCount, RegClockDividers, RegOffset, RegDriveCurrent,
     NoChannel
<1>4. /\ Fault("DIAGNOSTIC", "NONE", w, {"PARTIAL_WRITE"}) \in ConfigFault
      /\ Fault(status, "NONE", w, {"INDETERMINATE_WRITE"}) \in ConfigFault
  BY <1>1, <1>2, <1>3, FaultType DEF FaultCause, EffectFlags
<1>5. TrustType'
  BY <1>4 DEF WriteRegister16, EngineInv, TypeOK, TrustType, AppliedConfigState
<1> QED
  BY <1>5, DirectCallKeeps DEF WriteRegister16

-----------------------------------------------------------------------------
(* The callbacks of a configuration job.                                   *)

\* The accounting of a configuration job, as far as a callback needs it.
LEMMA ConfigurationJobFacts ==
  ASSUME EngineInv, pollCall.active, progress.kind # "ACQUIRE"
  PROVE  /\ progress.phase \notin ReadPhase
         /\ progress.completedTransfers = jobStep /\ jobStep \in Nat
         /\ progress.maximumTransfers
              = ApplyOffset(progress.kind) + ConfigurationTransferCount(ChannelCount)
         /\ ApplyOffset(progress.kind) \in {0, 2, 3}
         /\ progress.effects \in EffectFlags
  BY CallOfActiveJob
  DEF EngineInv, TypeOK, JobType, Job, JobAccounting, MaximumTransfers, ApplyOffset, JobKind

\* A configuration job goes on: its step, its count and its phase move together.
LEMMA ConfigurationContinues ==
  ASSUME EngineInv, pollCall.active, progress.kind # "ACQUIRE",
         NEW p \in Job, SameJob(p), p.phase \notin ReadPhase,
         jobStep + 1 < progress.maximumTransfers,
         jobStep' = jobStep + 1, ContinueTransfer(p),
         lastWrite' \in [phase : JobPhase, reg : 0 .. 255, channel : Channel],
         TrustType', UNCHANGED bindingVars
  PROVE  EngineInv'
<1>1. /\ CallType' /\ RingType' /\ progress' \in Job
      /\ SlotReserved' /\ TimeoutsFitDeadline' /\ JobMatchesConfiguration'
  BY ContinueKeeps
<1>2. BindingType'
  BY DEF EngineInv, TypeOK, BindingType, bindingVars
<1>3. JobType'
  BY <1>1, ConfigurationJobFacts DEF JobType
<1>4. JobAccounting'
  BY CallOfActiveJob, ConfigurationJobFacts
  DEF JobAccounting, EngineInv, SameJob, ContinueTransfer
<1> QED
  BY <1>1, <1>2, <1>3, <1>4 DEF EngineInv, TypeOK

\* Announcing the next transfer of a configuration job changes nothing else.
LEMMA AnnounceKeeps ==
  ASSUME NEW q \in Job, SameJob(q), NEW phase \in JobPhase \ ReadPhase, NEW ch \in Channel
  PROVE  LET p == [q EXCEPT !.phase = phase, !.channel = ch]
             p1 == [q EXCEPT !.phase = phase]
         IN  /\ p \in Job /\ SameJob(p) /\ p.phase \notin ReadPhase
             /\ p1 \in Job /\ SameJob(p1) /\ p1.phase \notin ReadPhase
  BY DEF Job, SameJob

\* A failed write finishes the job, counted, with a well-typed fault.
LEMMA FailWriteKeeps ==
  ASSUME EngineInv, pollCall.active, NEW status \in TransferStatus,
         NEW w \in Write, NEW untrusted \in AppliedConfigState,
         FailWrite(status, w, untrusted), UNCHANGED bindingVars
  PROVE  EngineInv'
<1> DEFINE p == [Counted EXCEPT !.effects = @ \cup
                   IF TransferFailureMayHaveReachedDevice(status) THEN {"INDETERMINATE_WRITE"} ELSE {}]
<1>1. progress.active /\ Counted \in Job
  BY CallOfActiveJob
<1>2. p \in Job
  BY <1>1 DEF Job, EffectFlags
<1> HIDE DEF p
<1>3. Fault(status, p.kind, w, p.effects) \in ConfigFault
  BY <1>2, FaultType DEF Job, Write, FaultCause
<1>4. TrustType'
  BY <1>3 DEF FailWrite, EngineInv, TypeOK, TrustType, p
<1>5. BindingType' /\ CallType' /\ ~pollCall'.active
  BY IdleTypes DEF FailWrite, FinishTransfer, EngineInv, TypeOK, BindingType, CallType,
     bindingVars, NoCall
<1>6. FinishJob(p, "FAILED")
  BY DEF FailWrite, FinishTransfer, p
<1> QED
  BY <1>1, <1>2, <1>4, <1>5, <1>6, FinishKeeps DEF EngineInv, TypeOK, TerminalOutcome

\* The reset is the first of the three steps before the replay.
LEMMA WriteResetEngine ==
  ASSUME EngineInv, NEW status \in TransferStatus, WriteReset(status)
  PROVE  EngineInv'
<1>1. pollCall.active /\ progress.kind = "RESET_AND_REAPPLY" /\ jobStep = 0
  BY DEF WriteReset, AtReset
<1>2. ResetWrite \in [phase : JobPhase, reg : 0 .. 255, channel : Channel] /\ ResetWrite \in Write
  BY DEF ResetWrite, Write, JobPhase, WritePhase, RegResetDev, Channel, NoChannel
<1>3. UNCHANGED bindingVars
  BY DEF WriteReset
<1>4. CASE status = "OK"
  <2> DEFINE p == [Counted EXCEPT !.effects = @ \cup {"PARTIAL_WRITE"},
                                  !.phase = "VERIFY_MANUFACTURER"]
  <2>1. Counted \in Job /\ progress \in Job
    BY <1>1, CallOfActiveJob
  <2>2. p \in Job /\ SameJob(p) /\ p.phase \notin ReadPhase
    BY <2>1 DEF Job, EffectFlags, JobPhase, ReadPhase, SameJob, Counted
  <2>3. ContinueTransfer(p) /\ lastWrite' = ResetWrite /\ jobStep' = jobStep + 1
    BY <1>1, <1>4 DEF WriteReset
  <2>5. TrustType'
    BY <1>4 DEF WriteReset, EngineInv, TypeOK, TrustType, AppliedConfigState
  <2>4. jobStep + 1 < progress.maximumTransfers
    BY <1>1, ConfigurationJobFacts, PlanLength DEF ApplyOffset
  <2> QED
    BY <1>1, <1>2, <1>3, <2>2, <2>3, <2>4, <2>5, ConfigurationContinues
<1>5. CASE status # "OK"
  BY <1>1, <1>2, <1>3, <1>5, FailWriteKeeps DEF AppliedConfigState, WriteReset
<1> QED
  BY <1>4, <1>5 DEF WriteReset

\* An identity read moves a configuration job on by one step, or ends it.
LEMMA ReadIdentityEngine ==
  ASSUME EngineInv, NEW status \in TransferStatus, NEW matches \in BOOLEAN,
         ReadIdentity(status, matches)
  PROVE  EngineInv'
<1> DEFINE index == jobStep - (ApplyOffset(progress.kind) - 2)
           step == [phase |-> IdentityPhases[index + 1], channel |-> NoChannel,
                    reg |-> IF index = 0 THEN RegManufacturerId ELSE RegDeviceId]
           p == [Counted EXCEPT !.phase = IF index = 0 THEN "VERIFY_DEVICE" ELSE "FORCE_SLEEP"]
           cause == IF status = "OK" THEN "MISMATCH" ELSE status
<1>1. /\ pollCall.active /\ ApplyOffset(progress.kind) # 0 /\ progress.kind # "ACQUIRE"
      /\ jobStep \in ApplyOffset(progress.kind) - 2 .. ApplyOffset(progress.kind) - 1
  BY DEF ReadIdentity, AtIdentity, ApplyOffset
<1>2. Counted \in Job /\ progress \in Job /\ progress.active /\ UNCHANGED bindingVars
  BY <1>1, CallOfActiveJob DEF ReadIdentity
<1>3. ApplyOffset(progress.kind) \in {2, 3} /\ jobStep \in Nat
      /\ progress.maximumTransfers
              = ApplyOffset(progress.kind) + ConfigurationTransferCount(ChannelCount)
  BY <1>1, ConfigurationJobFacts
<1>4. index \in {0, 1}
  BY <1>1, <1>3
<1>5. CASE status = "OK" /\ matches
  <2>1. p \in Job /\ SameJob(p) /\ p.phase \notin ReadPhase
    <3>1. "VERIFY_DEVICE" \in JobPhase \ ReadPhase /\ "FORCE_SLEEP" \in JobPhase \ ReadPhase
          /\ NoChannel \in Channel
      BY DEF JobPhase, WritePhase, ReadPhase, Channel
    <3>2. SameJob(Counted)
      BY <1>2 DEF Job, SameJob, Counted
    <3> QED
      BY <1>2, <3>1, <3>2, AnnounceKeeps
  <2>2. jobStep + 1 < progress.maximumTransfers
    BY <1>1, <1>3, PlanLength
  <2>3. ContinueTransfer(p) /\ jobStep' = jobStep + 1 /\ UNCHANGED lastWrite
    BY <1>5 DEF ReadIdentity
  <2>4. TrustType'
    BY <1>5 DEF ReadIdentity, EngineInv, TypeOK, TrustType, AppliedConfigState
  <2>5. lastWrite' \in [phase : JobPhase, reg : 0 .. 255, channel : Channel]
    BY <2>3 DEF EngineInv, TypeOK, JobType
  <2> QED
    BY <1>1, <1>2, <2>1, <2>2, <2>3, <2>4, <2>5, ConfigurationContinues
<1>6. CASE ~(status = "OK" /\ matches)
  <2>1. /\ appliedState' = "UNKNOWN"
        /\ configFault' = Fault(cause, progress.kind, step, progress.effects)
        /\ FinishTransfer(Counted, "FAILED")
    BY <1>6 DEF ReadIdentity
  <2>2. step.phase \in JobPhase /\ step.reg \in 0 .. 255 /\ step.channel \in 0 .. 255
    BY <1>4 DEF IdentityPhases, JobPhase, RegManufacturerId, RegDeviceId, NoChannel
  <2>3. cause \in FaultCause
    BY DEF FaultCause
  <2> HIDE DEF step, cause
  <2>4. Fault(cause, progress.kind, step, progress.effects) \in ConfigFault
    BY <1>2, <2>2, <2>3, FaultType DEF Job
  <2>5. TrustType'
    BY <2>1, <2>4 DEF TrustType, AppliedConfigState
  <2>6. BindingType' /\ CallType' /\ ~pollCall'.active
    BY <1>2, <2>1, IdleTypes
    DEF FinishTransfer, EngineInv, TypeOK, BindingType, CallType, bindingVars, NoCall
  <2> QED
    BY <1>2, <2>1, <2>5, <2>6, FinishKeeps
    DEF FinishTransfer, EngineInv, TypeOK, TerminalOutcome
<1> QED
  BY <1>5, <1>6

\* A replay write moves the job on by one step; the last one ends it.
LEMMA WriteConfigurationEngine ==
  ASSUME EngineInv, NEW status \in TransferStatus, WriteConfiguration(status)
  PROVE  EngineInv'
<1> DEFINE applyStep == jobStep - ApplyOffset(progress.kind)
           written == [Counted EXCEPT !.effects = @ \cup {"PARTIAL_WRITE"}]
           next == ConfigWriteAt(ChannelCount, applyStep + 1)
           p == [written EXCEPT !.phase = next.phase, !.channel = next.channel]
           last == applyStep + 1 >= ConfigurationTransferCount(ChannelCount)
<1>1. /\ pollCall.active /\ progress.kind # "ACQUIRE"
      /\ jobStep >= ApplyOffset(progress.kind) /\ UNCHANGED bindingVars
  BY DEF WriteConfiguration, AtApply
<1>2. Counted \in Job /\ progress \in Job /\ progress.active
  BY <1>1, CallOfActiveJob
<1>3. /\ applyStep \in 0 .. ConfigurationTransferCount(ChannelCount) - 1
      /\ jobStep \in Nat /\ ApplyOffset(progress.kind) \in Nat
      /\ progress.maximumTransfers
              = ApplyOffset(progress.kind) + ConfigurationTransferCount(ChannelCount)
  <2>1. jobStep < progress.maximumTransfers
    BY <1>1, <1>2 DEF EngineInv, JobAccounting
  <2> QED
    BY <1>1, <2>1, ConfigurationJobFacts, PlanLength
<1>4. written \in Job /\ SameJob(written)
  BY <1>2 DEF Job, EffectFlags, SameJob, Counted
<1>5. ApplyWrite \in [phase : JobPhase, reg : 0 .. 255, channel : Channel]
      /\ ApplyWrite \in Write
  <2>1. ApplyWrite \in [reg : 0 .. 255, phase : WritePhase, channel : Channel]
    BY <1>3, PlanType DEF ApplyWrite
  <2>2. Channel \subseteq 0 .. 255 /\ WritePhase \subseteq JobPhase
    BY DriverAssumption DEF Channel, ChannelIndex, NoChannel, JobPhase
  <2> QED
    BY <2>1, <2>2 DEF Write
<1>6. CASE status = "OK" /\ last
  <2>1. appliedState' = "APPLIED_SLEEPING" /\ configFault' = NoFault
        /\ FinishTransfer(written, "SUCCESS")
    BY <1>6 DEF WriteConfiguration
  <2> HIDE DEF written
  <2>2. TrustType'
    BY <2>1, IdleTypes DEF TrustType, AppliedConfigState
  <2>3. BindingType' /\ CallType' /\ ~pollCall'.active
    BY <1>1, <2>1, IdleTypes
    DEF FinishTransfer, EngineInv, TypeOK, BindingType, CallType, bindingVars, NoCall
  <2> QED
    BY <1>2, <1>4, <2>1, <2>2, <2>3, FinishKeeps
    DEF FinishTransfer, EngineInv, TypeOK, TerminalOutcome
<1>7. CASE status = "OK" /\ ~last
  <2>1. appliedState' = "APPLYING" /\ UNCHANGED configFault /\ jobStep' = jobStep + 1
        /\ lastWrite' = ApplyWrite /\ ContinueTransfer(p)
    BY <1>7 DEF WriteConfiguration
  <2>2. next \in [reg : 0 .. 255, phase : WritePhase, channel : Channel]
    BY <1>3, <1>7, PlanLength, PlanType
  <2> HIDE DEF next, written
  <2>6. next.phase \in JobPhase \ ReadPhase /\ next.channel \in Channel
    BY <2>2 DEF JobPhase, WritePhase, ReadPhase
  <2>3. p \in Job /\ SameJob(p) /\ p.phase \notin ReadPhase
    BY <1>4, <2>6, AnnounceKeeps
  <2> HIDE DEF p
  <2>4. jobStep + 1 < progress.maximumTransfers
    BY <1>3, <1>7, PlanLength
  <2>5. TrustType'
    BY <2>1 DEF EngineInv, TypeOK, TrustType, AppliedConfigState
  <2> QED
    BY <1>1, <1>5, <2>1, <2>3, <2>4, <2>5, ConfigurationContinues
<1>8. CASE status # "OK"
  <2>1. FailWrite(status, ApplyWrite, "DIRTY")
    BY <1>8 DEF WriteConfiguration
  <2> QED
    BY <1>1, <1>5, <2>1, FailWriteKeeps DEF AppliedConfigState
<1> QED
  BY <1>6, <1>7, <1>8

-----------------------------------------------------------------------------
(* The callbacks of an acquisition.                                        *)

\* The accounting of an acquisition p between two of its reads.
ReadsCounted(p) ==
  \/ p.phase = "READ_STATUS_BEFORE" /\ p.completedTransfers = 0 /\ p.completedChannels = {}
  \/ /\ p.phase \in {"READ_DATA_MSB", "READ_DATA_LSB"}
     /\ p.channel \in p.requestedChannels
     /\ p.completedChannels = {ch \in p.requestedChannels : ch < p.channel}
     /\ p.completedTransfers = 2 * Cardinality(p.completedChannels)
          + IF p.phase = "READ_DATA_MSB" THEN 1 ELSE 2
  \/ /\ p.phase = "READ_STATUS_AFTER" /\ p.completedChannels = p.requestedChannels
     /\ p.completedTransfers = 1 + 2 * Cardinality(p.requestedChannels)

\* What the accounting says of an acquisition in each of its phases.
LEMMA AcquisitionFacts ==
  ASSUME EngineInv, pollCall.active, progress.phase \in ReadPhase
  PROVE  /\ progress.kind = "ACQUIRE" /\ progress.active
         /\ progress.requestedChannels \in SUBSET ChannelIndex
         /\ progress \in Job /\ Counted \in Job /\ SameJob(Counted)
         /\ ReadsCounted(progress)
<1>1. progress.active /\ progress \in Job /\ Counted \in Job
  BY CallOfActiveJob
<1>2. progress.kind = "ACQUIRE"
  BY <1>1 DEF EngineInv, JobAccounting
<1>3. ReadsCounted(progress)
  BY <1>2 DEF EngineInv, JobAccounting, ReadsCounted
<1>4. progress.requestedChannels \in SUBSET ChannelIndex /\ SameJob(Counted)
  BY <1>1 DEF Job, SameJob, Counted
<1> QED
  BY <1>1, <1>2, <1>3, <1>4

\* A read that ends its acquisition keeps the invariant.
LEMMA ReadFinishes ==
  ASSUME EngineInv, pollCall.active, NEW p \in Job, NEW outcome \in TerminalOutcome,
         FinishTransfer(p, outcome), UNCHANGED <<bindingVars, appliedState, configFault>>
  PROVE  EngineInv'
<1>1. BindingType' /\ TrustType' /\ CallType' /\ ~pollCall'.active
  BY IdleTypes
  DEF FinishTransfer, EngineInv, TypeOK, BindingType, TrustType, CallType, bindingVars, NoCall
<1> QED
  BY <1>1, CallOfActiveJob, FinishKeeps DEF FinishTransfer, EngineInv, TypeOK

\* A read that does not end it keeps the invariant if it keeps the account.
LEMMA ReadContinues ==
  ASSUME EngineInv, pollCall.active, progress.phase \in ReadPhase,
         NEW p \in Job, SameJob(p), ReadsCounted(p), ContinueTransfer(p),
         UNCHANGED <<bindingVars, appliedState, configFault, jobStep, lastWrite>>
  PROVE  EngineInv'
<1>1. /\ CallType' /\ RingType' /\ progress' \in Job
      /\ SlotReserved' /\ TimeoutsFitDeadline' /\ JobMatchesConfiguration'
  BY ContinueKeeps
<1>2. BindingType' /\ TrustType' /\ JobType'
  BY <1>1 DEF EngineInv, TypeOK, BindingType, TrustType, JobType, bindingVars
<1>3. JobAccounting'
  <2>1. progress' = p /\ p.kind = "ACQUIRE" /\ p.active
    BY AcquisitionFacts DEF ContinueTransfer, SameJob
  <2>2. p.maximumTransfers = MaximumTransfers(p.kind, p.requestedChannels)
    BY AcquisitionFacts DEF EngineInv, JobAccounting, SameJob
  <2> QED
    BY <2>1, <2>2 DEF JobAccounting, ReadsCounted
<1> QED
  BY <1>1, <1>2, <1>3 DEF EngineInv, TypeOK

\* Going on to the next channel, or to the closing STATUS, keeps the account.
LEMMA AdvanceKeepsCount ==
  ASSUME NEW q \in Job, SameJob(q), NEW after \in Channel,
         q.completedChannels = {ch \in q.requestedChannels : after # NoChannel /\ ch <= after},
         q.completedTransfers = 1 + 2 * Cardinality(q.completedChannels)
  PROVE  LET p == AdvanceAcquire(q, after)
         IN  p \in Job /\ SameJob(p) /\ ReadsCounted(p)
<1> DEFINE requested == q.requestedChannels
           above == {ch \in requested : after = NoChannel \/ ch > after}
           next == NextChannel(requested, after)
           p == AdvanceAcquire(q, after)
<1>1. requested \in SUBSET ChannelIndex /\ requested \in SUBSET (0 .. 3) /\ after \in 0 .. 255
      /\ ChannelIndex \subseteq 0 .. 3
  BY DriverAssumption DEF Job, Channel, ChannelIndex, NoChannel
<1>2. CASE above = {}
  <2>1. next = NoChannel
    BY <1>1, <1>2, NextChannelIsLeast
  <2>2. q.completedChannels = requested
    BY <1>1, <1>2
  <2>3. p = [q EXCEPT !.channel = NoChannel, !.phase = "READ_STATUS_AFTER"]
    BY <2>1 DEF AdvanceAcquire
  <2>4. p \in Job /\ SameJob(p)
    BY <2>3 DEF Job, SameJob, JobPhase, ReadPhase, Channel
  <2> QED
    BY <2>2, <2>3, <2>4 DEF ReadsCounted, Job
<1>3. CASE above # {}
  <2>1. next \in above /\ (\A ch \in above : next <= ch)
    BY <1>1, <1>3, NextChannelIsLeast, Zenon
  <2>2. next \in requested /\ next \in 0 .. 3 /\ next # NoChannel
    BY <1>1, <2>1 DEF NoChannel
  <2>3. q.completedChannels = {ch \in requested : ch < next}
    BY <1>1, <2>1, <2>2
  <2> HIDE DEF next
  <2>4. p = [q EXCEPT !.channel = next, !.phase = "READ_DATA_MSB"]
    BY <2>2 DEF AdvanceAcquire, next
  <2>5. p \in Job /\ SameJob(p)
    BY <1>1, <2>2, <2>4 DEF Job, SameJob, JobPhase, ReadPhase, Channel
  <2>6. /\ p.phase = "READ_DATA_MSB" /\ p.channel = next
        /\ p.completedChannels = q.completedChannels
        /\ p.completedTransfers = q.completedTransfers /\ p.requestedChannels = requested
    BY <2>4 DEF Job
  <2>7. Cardinality(q.completedChannels) \in Nat
    BY MaskCardinality DEF Job
  <2> HIDE DEF p, requested
  <2>8. ReadsCounted(p)
    <3>1. p.channel \in p.requestedChannels
          /\ p.completedChannels = {ch \in p.requestedChannels : ch < p.channel}
      BY <2>2, <2>3, <2>6
    <3>2. p.completedTransfers = 2 * Cardinality(p.completedChannels) + 1
      BY <2>6, <2>7
    <3> QED
      BY <2>6, <3>1, <3>2 DEF ReadsCounted
  <2> QED
    BY <2>5, <2>8 DEF p
<1> QED
  BY <1>2, <1>3

\* The opening STATUS leads to the first requested channel.
LEMMA ReadStatusBeforeEngine ==
  ASSUME EngineInv, NEW status \in TransferStatus, ReadStatusBefore(status)
  PROVE  EngineInv'
<1> DEFINE q == WithReadEffect(Counted)
<1>1. pollCall.active /\ progress.phase = "READ_STATUS_BEFORE" /\ progress.phase \in ReadPhase
  BY DEF ReadStatusBefore, AtRead, ReadPhase
<1>2. /\ q \in Job /\ SameJob(q) /\ q.completedTransfers = 1 /\ q.completedChannels = {}
      /\ Counted \in Job
  <2>1. progress.completedTransfers = 0 /\ progress.completedChannels = {}
    BY <1>1, AcquisitionFacts DEF ReadsCounted
  <2>2. Counted \in Job /\ SameJob(Counted) /\ progress \in Job
    BY <1>1, AcquisitionFacts
  <2>3. q \in Job /\ SameJob(q)
    BY <2>2 DEF WithReadEffect, Job, EffectFlags, SameJob
  <2>4. q.completedTransfers = 1 /\ q.completedChannels = {}
    BY <2>1, <2>2 DEF WithReadEffect, Counted, Job
  <2> QED
    BY <2>2, <2>3, <2>4
<1>3. CASE status = "OK"
  <2>1. AdvanceAcquire(q, NoChannel) \in Job /\ SameJob(AdvanceAcquire(q, NoChannel))
        /\ ReadsCounted(AdvanceAcquire(q, NoChannel))
    <3>1. NoChannel \in Channel
      BY DEF Channel
    <3>2. q.completedTransfers = 1 + 2 * Cardinality(q.completedChannels)
      BY <1>2, FS_EmptySet
    <3>3. q.completedChannels
            = {ch \in q.requestedChannels : NoChannel # NoChannel /\ ch <= NoChannel}
      BY <1>2
    <3> QED
      BY <1>2, <3>1, <3>2, <3>3, AdvanceKeepsCount
  <2> QED
    BY <1>1, <1>3, <2>1, ReadContinues DEF ReadStatusBefore
<1>4. CASE status # "OK"
  BY <1>1, <1>2, <1>4, ReadFinishes DEF ReadStatusBefore, TerminalOutcome
<1> QED
  BY <1>3, <1>4

\* The MSB of a channel leads to its LSB.
LEMMA ReadDataMsbEngine ==
  ASSUME EngineInv, NEW status \in TransferStatus, ReadDataMsb(status)
  PROVE  EngineInv'
<1> DEFINE p == [WithReadEffect(Counted) EXCEPT !.phase = "READ_DATA_LSB"]
<1>1. pollCall.active /\ progress.phase = "READ_DATA_MSB" /\ progress.phase \in ReadPhase
  BY DEF ReadDataMsb, AtRead, ReadPhase
<1>2. p \in Job /\ SameJob(p) /\ Counted \in Job
  BY <1>1, AcquisitionFacts
  DEF WithReadEffect, Job, EffectFlags, SameJob, Counted, JobPhase, ReadPhase
<1>3. ReadsCounted(p)
  <2>1. Cardinality(progress.completedChannels) \in Nat
    BY <1>1, AcquisitionFacts, MaskCardinality DEF Job
  <2>2. /\ p.channel = progress.channel /\ p.requestedChannels = progress.requestedChannels
        /\ p.completedChannels = progress.completedChannels /\ p.phase = "READ_DATA_LSB"
        /\ p.completedTransfers = progress.completedTransfers + 1
    BY <1>1, AcquisitionFacts DEF WithReadEffect, Counted, Job
  <2> QED
    BY <1>1, <2>1, <2>2, AcquisitionFacts DEF ReadsCounted
<1>4. CASE status = "OK"
  BY <1>1, <1>2, <1>3, <1>4, ReadContinues DEF ReadDataMsb
<1>5. CASE status # "OK"
  BY <1>1, <1>2, <1>5, ReadFinishes DEF ReadDataMsb, TerminalOutcome
<1> QED
  BY <1>4, <1>5

\* The LSB completes a channel and leads to the next, or to the closing STATUS.
LEMMA ReadDataLsbEngine ==
  ASSUME EngineInv, NEW status \in TransferStatus, ReadDataLsb(status)
  PROVE  EngineInv'
<1> DEFINE c == progress.channel
           read == progress.completedChannels
           q == [Counted EXCEPT !.completedChannels = @ \cup {c}]
<1>1. pollCall.active /\ progress.phase = "READ_DATA_LSB" /\ progress.phase \in ReadPhase
  BY DEF ReadDataLsb, AtRead, ReadPhase
<1>2. /\ progress \in Job /\ Counted \in Job /\ SameJob(Counted)
      /\ progress.requestedChannels \in SUBSET ChannelIndex
  BY <1>1, AcquisitionFacts
<1>3. /\ c \in progress.requestedChannels
      /\ read = {ch \in progress.requestedChannels : ch < c}
      /\ progress.completedTransfers = 2 * Cardinality(read) + 2
  BY <1>1, AcquisitionFacts DEF ReadsCounted
<1>4. q \in Job /\ SameJob(q)
  BY <1>2, <1>3 DEF Job, SameJob
<1>5. /\ q.completedChannels = read \cup {c} /\ q.requestedChannels = progress.requestedChannels
      /\ q.completedTransfers = progress.completedTransfers + 1
  BY <1>2 DEF Counted, Job
<1>6. Cardinality(read \cup {c}) = Cardinality(read) + 1 /\ Cardinality(read) \in Nat
  <2>1. c \notin read /\ read \in SUBSET ChannelIndex
    BY <1>2, <1>3, DriverAssumption DEF ChannelIndex
  <2>2. IsFiniteSet(read) /\ Cardinality(read) \in Nat
    BY <2>1, MaskCardinality
  <2> QED
    BY <2>1, <2>2, FS_AddElement
<1>7. q.completedTransfers = 1 + 2 * Cardinality(q.completedChannels)
  BY <1>3, <1>5, <1>6
<1>8. c # NoChannel /\ c \in Channel /\ ChannelIndex \subseteq 0 .. 3
  BY <1>2, <1>3, DriverAssumption DEF ChannelIndex, Channel, NoChannel
<1>9. q.completedChannels = {ch \in q.requestedChannels : c # NoChannel /\ ch <= c}
  <2>1. read \cup {c} = {ch \in progress.requestedChannels : ch <= c}
    <3>1. ASSUME NEW ch \in progress.requestedChannels
          PROVE  ch <= c <=> (ch < c \/ ch = c)
      <4>1. ch \in 0 .. 3 /\ c \in 0 .. 3
        BY <1>2, <1>3, <1>8
      <4> HIDE DEF c
      <4> QED
        BY <4>1
    <3> HIDE DEF c, read
    <3>2. read \cup {c} \subseteq {ch \in progress.requestedChannels : ch <= c}
      BY <1>3, <3>1
    <3>3. {ch \in progress.requestedChannels : ch <= c} \subseteq read \cup {c}
      BY <1>3, <3>1
    <3> QED
      BY <3>2, <3>3
  <2> QED
    BY <1>5, <1>8, <2>1
<1>10. AdvanceAcquire(q, c) \in Job /\ SameJob(AdvanceAcquire(q, c))
       /\ ReadsCounted(AdvanceAcquire(q, c))
  BY <1>4, <1>7, <1>8, <1>9, AdvanceKeepsCount
<1>11. CASE status = "OK"
  BY <1>1, <1>10, <1>11, ReadContinues DEF ReadDataLsb
<1>12. CASE status # "OK"
  BY <1>1, <1>2, <1>12, ReadFinishes DEF ReadDataLsb, TerminalOutcome
<1> QED
  BY <1>11, <1>12

\* The closing STATUS ends the acquisition.
LEMMA ReadStatusAfterEngine ==
  ASSUME EngineInv, NEW status \in TransferStatus, ReadStatusAfter(status)
  PROVE  EngineInv'
<1>1. pollCall.active /\ progress.phase \in ReadPhase
  BY DEF ReadStatusAfter, AtRead, ReadPhase
<1>2. Counted \in Job /\ WithReadEffect(Counted) \in Job
  BY <1>1, AcquisitionFacts DEF WithReadEffect, Job, EffectFlags
<1> QED
  BY <1>1, <1>2, ReadFinishes DEF ReadStatusAfter, TerminalOutcome

-----------------------------------------------------------------------------
(* The invariance theorems.                                                *)

\* Every step of the driver keeps the invariant.
LEMMA NextEngine == EngineInv /\ [Next]_vars => EngineInv'
<1> SUFFICES ASSUME EngineInv, [Next]_vars PROVE EngineInv'
  OBVIOUS
<1>1. CASE Owner
  <2>1. ASSUME NEW c \in Profiles, Bind(c) \/ UpdateDesiredConfig(c) PROVE EngineInv'
    BY <2>1, BindEngine, UpdateDesiredConfigEngine
  <2>2. CASE End \/ TakeResult \/ InvalidateAppliedState
    BY <2>2, EndEngine, TakeResultEngine, InvalidateAppliedStateEngine
  <2>3. CASE CancelJob
    BY <2>3, AbandonJobEngine DEF CancelJob, FaultCause, TerminalOutcome
  <2>4. ASSUME NEW id \in OperationIds, NEW d \in Deadlines,
               StartInitialize(id, d) \/ StartApplyConfig(id, d) \/ StartResetAndReapply(id, d)
        PROVE  EngineInv'
    BY <2>4, StartJobEngine
    DEF StartInitialize, StartApplyConfig, StartResetAndReapply, JobKind
  <2>5. ASSUME NEW id \in OperationIds, NEW d \in Deadlines,
               NEW channels \in SUBSET ChannelIndex, StartAcquire(channels, id, d)
        PROVE  EngineInv'
    BY <2>5, StartJobEngine DEF StartAcquire, JobKind
  <2> QED
    BY <1>1, <2>1, <2>2, <2>3, <2>4, <2>5 DEF Owner
<1>2. CASE Poll
  <2>1. ASSUME NEW now \in Times, PollTimeout(now) PROVE EngineInv'
    BY <2>1, AbandonJobEngine DEF PollTimeout, FaultCause, TerminalOutcome
  <2>2. ASSUME NEW now \in Times, NEW max \in 1 .. MaxTransferBudget, PollBegin(now, max)
        PROVE  EngineInv'
    BY <2>2, PollBeginEngine
  <2> QED
    BY <1>2, <2>1, <2>2 DEF Poll
<1>3. CASE Transfer
  <2>1. ASSUME NEW status \in TransferStatus, DirectTransfer(status) PROVE EngineInv'
    BY <2>1, DirectConfigWriteEngine, WriteRegister16Engine
    DEF DirectTransfer, Sleep, Wake, AppliedConfigState
  <2>2. ASSUME NEW status \in TransferStatus, NEW matches \in BOOLEAN,
               JobTransfer(status, matches)
        PROVE  EngineInv'
    BY <2>2, WriteResetEngine, ReadIdentityEngine, WriteConfigurationEngine,
       ReadStatusBeforeEngine, ReadDataMsbEngine, ReadDataLsbEngine, ReadStatusAfterEngine
    DEF JobTransfer
  <2> QED
    BY <1>3, <2>1, <2>2 DEF Transfer
<1>4. CASE UNCHANGED vars
  <2>1. TypeOK'
    BY <1>4 DEF EngineInv, TypeOK, BindingType, TrustType, JobType, RingType, CallType,
       vars, bindingVars, jobVars, ringVars
  <2>2. JobAccounting' /\ SlotReserved' /\ TimeoutsFitDeadline' /\ JobMatchesConfiguration'
    BY <1>4 DEF EngineInv, JobAccounting, SlotReserved, TimeoutsFitDeadline,
       JobMatchesConfiguration, vars, bindingVars, jobVars, ringVars
  <2> QED
    BY <2>1, <2>2 DEF EngineInv
<1> QED
  BY <1>1, <1>2, <1>3, <1>4 DEF Next

\* The inductive invariant holds of every reachable state of poll(), the start
\* operations and the direct calls.
THEOREM EngineInvariant == Spec => []EngineInv
  BY InitEngine, NextEngine, PTL DEF Spec

\* The fields of the driver object keep their types whatever the owner calls
\* and the transport answers.
THEOREM DriverTyped == Spec => []TypeOK
  BY EngineInvariant, PTL DEF EngineInv

\* poll() never divides the deadline budget by zero: an active job always has
\* a transfer of its fixed worst case left.
THEOREM TransferAlwaysRemains == Spec => []TransferRemains
<1>1. EngineInv => TransferRemains
  BY AccountingLeavesTransfer DEF TransferRemains
<1> QED
  BY <1>1, EngineInvariant, PTL

\* A configuration job makes one callback per step of its plan, an acquisition
\* two per requested channel and the two STATUS reads.
THEOREM TransfersAccounted == Spec => []JobAccounting
  BY EngineInvariant, PTL DEF EngineInv

\* _finishJob() always finds the slot that admission reserved.
THEOREM SlotStaysReserved == Spec => []SlotReserved
  BY EngineInvariant, PTL DEF EngineInv

\* The timeouts handed to the callbacks of one poll() never add up to more than
\* the deadline budget the call started with, for every pair of times.
THEOREM PollFitsDeadline == Spec => []TimeoutsFitDeadline
  BY EngineInvariant, PTL DEF EngineInv

\* The revision and the channels fixed at admission stay those of the desired
\* configuration, and an acquisition stays on a device trusted to convert.
THEOREM JobKeepsConfiguration == Spec => []JobMatchesConfiguration
  BY EngineInvariant, PTL DEF EngineInv

-----------------------------------------------------------------------------
(* The invariant of trust.  That APPLYING never outlives its job rests on *)
(* a job past the first write of its replay carrying PARTIAL_WRITE; that   *)
(* no replay lifts UNKNOWN, on the replay coming after the identity reads  *)
(* and on nothing forgetting the device while a replay runs.               *)

\* An acquisition writes nothing, and a configuration job that still runs has
\* written for certain or not at all.
JobEffects ==
  progress.active =>
    IF progress.kind = "ACQUIRE" THEN progress.effects \subseteq {"READ_SIDE_EFFECTS"}
    ELSE /\ progress.effects \subseteq {"PARTIAL_WRITE"}
         /\ jobStep > ApplyOffset(progress.kind) => "PARTIAL_WRITE" \in progress.effects

\* A replay is only ever under way on a device whose identity was read.
IdentityFirst ==
  progress.active /\ progress.kind # "ACQUIRE" =>
    /\ jobStep >= ApplyOffset(progress.kind) => appliedState # "UNKNOWN"
    /\ jobStep = ApplyOffset(progress.kind) - 1 => progress.phase = "VERIFY_DEVICE"

TrustConjuncts == ApplyingHasJob /\ TrustedIsFaultless /\ JobEffects /\ IdentityFirst
TrustInv == EngineInv /\ TrustConjuncts

WriteEffects == {"PARTIAL_WRITE", "INDETERMINATE_WRITE"}

\* What every step is shown to do besides keeping the invariant: to leave
\* UNKNOWN only through the identity reads, and to explain a failed job.
Fenced ==
  appliedState = "UNKNOWN" /\ appliedState' # "UNKNOWN" =>
    progress.kind \in {"INITIALIZE", "RESET_AND_REAPPLY"} /\ progress.phase = "VERIFY_DEVICE"
Explained ==
  Terminates /\ Newest'.outcome # "SUCCESS" /\ Newest'.effects \cap WriteEffects # {} =>
    /\ appliedState' \in {"DIRTY", "UNKNOWN"} /\ configFault'.valid
    /\ \/ configFault'.cause = "INVALIDATED"
       \/ configFault'.job = Newest'.kind /\ configFault'.effects = Newest'.effects
Sound == TrustConjuncts' /\ Fenced /\ Explained

\* A driver that was never bound trusts nothing.
LEMMA InitTrust == Init => TrustInv
  BY InitEngine
  DEF Init, TrustInv, TrustConjuncts, ApplyingHasJob, TrustedIsFaultless, Trusted, JobEffects,
      IdentityFirst, NoJob

-----------------------------------------------------------------------------
(* What the shared parts of the actions preserve.                          *)

\* The result of a terminating job is the newest of the ring.
LEMMA FinishedIsNewest ==
  ASSUME EngineInv, progress.active, NEW p, NEW outcome, FinishJob(p, outcome)
  PROVE  /\ Newest'.outcome = outcome /\ Newest'.effects = p.effects /\ Newest'.kind = p.kind
         /\ Newest'.hasSampleBatch = (p.kind = "ACQUIRE" /\ outcome = "SUCCESS")
         /\ progress' = NoJob
<1> DEFINE tail == (resultHead + resultCount) % ResultCapacity
           result == [operationId |-> p.operationId, kind |-> p.kind, outcome |-> outcome,
                      effects |-> p.effects, configRevision |-> p.configRevision,
                      hasSampleBatch |-> p.kind = "ACQUIRE" /\ outcome = "SUCCESS"]
<1>1. /\ results' = [results EXCEPT ![tail] = result] /\ resultHead' = resultHead
      /\ resultCount' = resultCount + 1 /\ progress' = NoJob
  BY DEF FinishJob, ClearActiveJob, ReserveResultSlot, EngineInv, SlotReserved
<1>2. /\ ResultCapacity \in Nat \ {0} /\ resultHead \in Nat /\ resultCount \in Nat
      /\ DOMAIN results = 0 .. ResultCapacity - 1
  BY DriverAssumption DEF EngineInv, TypeOK, RingType
<1>3. tail \in 0 .. ResultCapacity - 1
  BY <1>2
<1>4. resultHead' + resultCount' - 1 = resultHead + resultCount
  BY <1>1, <1>2
<1> HIDE DEF result
<1>5. Newest' = result
  BY <1>1, <1>2, <1>3, <1>4 DEF Newest
<1> QED
  BY <1>1, <1>5 DEF result

\* A job may end with any result that the state of trust explains.
LEMMA FinishSound ==
  ASSUME TrustInv, progress.active, NEW p, NEW outcome, FinishJob(p, outcome),
         appliedState' # "APPLYING", TrustedIsFaultless', Fenced,
         outcome # "SUCCESS" /\ p.effects \cap WriteEffects # {} =>
           /\ appliedState' \in {"DIRTY", "UNKNOWN"} /\ configFault'.valid
           /\ \/ configFault'.cause = "INVALIDATED"
              \/ configFault'.job = p.kind /\ configFault'.effects = p.effects
  PROVE  Sound
<1>1. /\ Newest'.outcome = outcome /\ Newest'.effects = p.effects /\ Newest'.kind = p.kind
      /\ progress' = NoJob
  BY FinishedIsNewest DEF TrustInv
<1>2. ApplyingHasJob' /\ JobEffects' /\ IdentityFirst'
  BY <1>1 DEF ApplyingHasJob, JobEffects, IdentityFirst, NoJob
<1>3. Explained
  BY <1>1 DEF Explained
<1> QED
  BY <1>2, <1>3 DEF Sound, TrustConjuncts

\* A step that adds no result has nothing to explain.
LEMMA NothingToExplain ==
  ASSUME EngineInv, resultCount' \in {resultCount, resultCount - 1, 0}
  PROVE  Explained
<1>1. resultCount \in Nat
  BY DriverAssumption DEF EngineInv, TypeOK, RingType
<1> QED
  BY <1>1 DEF Explained, Terminates

\* A call that touches no job: trust may only be kept, withdrawn, or passed
\* between the two trusted states.
LEMMA IdleCallSound ==
  ASSUME TrustInv, ~progress.active, ~progress'.active,
         resultCount' \in {resultCount, resultCount - 1, 0},
         \/ appliedState' \in {"UNKNOWN", "DIRTY"} /\ Fenced
         \/ UNCHANGED <<appliedState, configFault>>
         \/ Trusted /\ Trusted' /\ UNCHANGED configFault
  PROVE  Sound
<1>1. appliedState # "APPLYING"
  BY DEF TrustInv, TrustConjuncts, ApplyingHasJob
<1>2. ApplyingHasJob' /\ TrustedIsFaultless' /\ JobEffects' /\ IdentityFirst' /\ Fenced
  BY <1>1
  DEF TrustInv, TrustConjuncts, ApplyingHasJob, TrustedIsFaultless, Trusted, JobEffects,
      IdentityFirst, Fenced
<1>3. Explained
  BY NothingToExplain DEF TrustInv
<1> QED
  BY <1>2, <1>3 DEF Sound, TrustConjuncts

-----------------------------------------------------------------------------
(* The owner's calls.                                                      *)

\* Binding, and giving up the binding, leave no trust and no job.
LEMMA ForgetSound ==
  ASSUME TrustInv, ForgetEverything
  PROVE  Sound
<1>1. appliedState' = "UNKNOWN" /\ progress' = NoJob /\ resultCount' = 0
  BY DEF ForgetEverything, ClearActiveJob
<1>2. Explained
  BY <1>1, NothingToExplain DEF TrustInv
<1> QED
  BY <1>1, <1>2
  DEF Sound, TrustConjuncts, ApplyingHasJob, TrustedIsFaultless, Trusted, JobEffects,
      IdentityFirst, Fenced, NoJob

\* A new profile makes the applied one dirty.
LEMMA UpdateDesiredConfigSound ==
  ASSUME TrustInv, NEW c, UpdateDesiredConfig(c)
  PROVE  Sound
<1>1. /\ ~progress.active /\ progress' = progress /\ resultCount' = resultCount
      /\ appliedState' \in {"UNKNOWN", "DIRTY"} /\ Fenced
  BY DEF UpdateDesiredConfig, jobVars, ringVars, Fenced
<1> QED
  BY <1>1, IdleCallSound

\* A job is admitted with no effects, ahead of its identity reads, or without
\* any when the identity is known.
LEMMA StartJobSound ==
  ASSUME TrustInv, NEW kind \in JobKind, NEW channels, NEW id, NEW deadline,
         StartJob(kind, channels, id, deadline),
         kind = "APPLY_CONFIG" => appliedState # "UNKNOWN"
  PROVE  Sound
<1>1. /\ ~progress.active /\ jobStep' = 0
      /\ UNCHANGED <<appliedState, configFault, resultCount>>
      /\ progress'.active /\ progress'.kind = kind /\ progress'.effects = {}
      /\ progress'.phase = FirstPhase(kind)
  BY DEF StartJob, ringVars, NoJob
<1>2. appliedState # "APPLYING"
  BY <1>1 DEF TrustInv, TrustConjuncts, ApplyingHasJob
<1>3. ApplyingHasJob' /\ TrustedIsFaultless' /\ Fenced
  BY <1>1, <1>2
  DEF TrustInv, TrustConjuncts, ApplyingHasJob, TrustedIsFaultless, Trusted, Fenced
<1>4. JobEffects'
  BY <1>1 DEF JobEffects, ApplyOffset, JobKind
<1>5. IdentityFirst'
  BY <1>1 DEF IdentityFirst, ApplyOffset, JobKind
<1>6. Explained
  BY <1>1, NothingToExplain DEF TrustInv
<1> QED
  BY <1>3, <1>4, <1>5, <1>6 DEF Sound, TrustConjuncts

\* Timeout and cancellation withdraw trust from a configuration job that wrote.
LEMMA AbandonJobSound ==
  ASSUME TrustInv, progress.active, NEW cause, NEW outcome, outcome # "SUCCESS",
         AbandonJob(cause, outcome)
  PROVE  Sound
<1> DEFINE partial == progress.kind # "ACQUIRE" /\ "PARTIAL_WRITE" \in progress.effects
<1>1. FinishJob(progress, outcome)
  BY DEF AbandonJob
<1>2. CASE partial
  <2>1. /\ appliedState' \in {"DIRTY", "UNKNOWN"} \/ appliedState' = appliedState
        /\ appliedState' \in {"DIRTY", "UNKNOWN"} /\ Fenced
        /\ configFault' = Fault(cause, progress.kind, lastWrite, progress.effects)
    BY <1>2 DEF AbandonJob, Fenced
  <2>2. TrustedIsFaultless' /\ appliedState' # "APPLYING"
    BY <2>1 DEF TrustedIsFaultless, Trusted
  <2> QED
    BY <1>1, <2>1, <2>2, FinishSound DEF Fault
<1>3. CASE ~partial
  <2>1. UNCHANGED <<appliedState, configFault>>
    BY <1>3 DEF AbandonJob
  <2>2. progress.effects \cap WriteEffects = {}
    BY <1>3 DEF TrustInv, TrustConjuncts, JobEffects, WriteEffects
  <2>3. appliedState # "APPLYING"
    BY <1>3 DEF TrustInv, TrustConjuncts, ApplyingHasJob, JobEffects
  <2>4. TrustedIsFaultless' /\ Fenced
    BY <2>1 DEF TrustInv, TrustConjuncts, TrustedIsFaultless, Trusted, Fenced
  <2> QED
    BY <1>1, <2>1, <2>2, <2>3, <2>4, FinishSound
<1> QED
  BY <1>2, <1>3

\* Taking a result and opening a poll change nothing the driver believes.
LEMMA UntouchedSound ==
  ASSUME TrustInv, UNCHANGED <<progress, jobStep, appliedState, configFault>>,
         resultCount' \in {resultCount, resultCount - 1}
  PROVE  Sound
<1>1. Explained
  BY NothingToExplain DEF TrustInv
<1>2. ApplyingHasJob' /\ TrustedIsFaultless' /\ JobEffects' /\ IdentityFirst' /\ Fenced
  BY DEF TrustInv, TrustConjuncts, ApplyingHasJob, TrustedIsFaultless, Trusted, JobEffects,
     IdentityFirst, Fenced
<1> QED
  BY <1>1, <1>2 DEF Sound, TrustConjuncts

\* An invalidation ends the job it interrupts.
LEMMA InvalidateAppliedStateSound ==
  ASSUME TrustInv, InvalidateAppliedState
  PROVE  Sound
<1>1. /\ appliedState' = "UNKNOWN"
      /\ configFault'.valid /\ configFault'.cause = "INVALIDATED"
  BY DEF InvalidateAppliedState, NoFault
<1>2. TrustedIsFaultless' /\ Fenced
  BY <1>1 DEF TrustedIsFaultless, Trusted, Fenced
<1>3. CASE progress.active
  <2>1. FinishJob(progress, "CANCELLED")
    BY <1>3 DEF InvalidateAppliedState
  <2> QED
    BY <1>1, <1>2, <1>3, <2>1, FinishSound
<1>4. CASE ~progress.active
  <2>1. progress' = progress /\ resultCount' = resultCount
    BY <1>4 DEF InvalidateAppliedState, jobVars, ringVars
  <2> QED
    BY <1>1, <1>2, <1>4, <2>1, IdleCallSound
<1> QED
  BY <1>3, <1>4

\* sleep() and wake() pass between the trusted states or lose trust.
LEMMA DirectConfigWriteSound ==
  ASSUME TrustInv, NEW status,
         NEW from \in {"APPLIED_SLEEPING", "APPLIED_ACTIVE"},
         NEW to \in {"APPLIED_SLEEPING", "APPLIED_ACTIVE"},
         DirectConfigWrite(status, from, to)
  PROVE  Sound
<1>1. /\ ~progress.active /\ progress' = progress /\ resultCount' = resultCount
      /\ appliedState = from
  BY DEF DirectConfigWrite, jobVars, ringVars
<1>2. CASE status = "OK"
  <2>1. appliedState' = to /\ UNCHANGED configFault
    BY <1>2 DEF DirectConfigWrite
  <2> QED
    BY <1>1, <2>1, IdleCallSound DEF Trusted
<1>3. CASE status # "OK" /\ TransferFailureMayHaveReachedDevice(status)
  <2>1. appliedState' = "DIRTY" /\ Fenced
    BY <1>1, <1>3 DEF DirectConfigWrite, Fenced
  <2> QED
    BY <1>1, <2>1, IdleCallSound
<1>4. CASE status # "OK" /\ ~TransferFailureMayHaveReachedDevice(status)
  <2>1. UNCHANGED <<appliedState, configFault>>
    BY <1>4 DEF DirectConfigWrite
  <2> QED
    BY <1>1, <2>1, IdleCallSound
<1> QED
  BY <1>2, <1>3, <1>4

\* A diagnostic write that may have changed a register loses trust.
LEMMA WriteRegister16Sound ==
  ASSUME TrustInv, NEW reg, NEW status, WriteRegister16(reg, status)
  PROVE  Sound
<1> DEFINE possible == status = "OK" \/ TransferFailureMayHaveReachedDevice(status)
<1>1. ~progress.active /\ progress' = progress /\ resultCount' = resultCount
  BY DEF WriteRegister16, jobVars, ringVars
<1>2. CASE possible
  <2>1. appliedState' \in {"UNKNOWN", "DIRTY"} /\ Fenced
    BY <1>2 DEF WriteRegister16, Fenced
  <2> QED
    BY <1>1, <2>1, IdleCallSound
<1>3. CASE ~possible
  <2>1. UNCHANGED <<appliedState, configFault>>
    BY <1>3 DEF WriteRegister16
  <2> QED
    BY <1>1, <2>1, IdleCallSound
<1> QED
  BY <1>2, <1>3

-----------------------------------------------------------------------------
(* The callbacks of a configuration job.                                   *)

\* A failed write leaves trust alone only if it and all earlier writes of the
\* job are known not to have happened.
LEMMA FailWriteSound ==
  ASSUME TrustInv, pollCall.active, progress.kind # "ACQUIRE", NEW status, NEW w,
         NEW untrusted \in {"DIRTY", "UNKNOWN"}, FailWrite(status, w, untrusted),
         jobStep < ApplyOffset(progress.kind) => untrusted = "UNKNOWN"
  PROVE  Sound
<1> DEFINE reached == TransferFailureMayHaveReachedDevice(status)
           p == [Counted EXCEPT !.effects = @ \cup IF reached THEN {"INDETERMINATE_WRITE"} ELSE {}]
           damaged == reached \/ "PARTIAL_WRITE" \in p.effects
<1>1. /\ progress.active /\ Counted \in Job /\ Counted.effects = progress.effects
      /\ Counted.kind = progress.kind
  BY CallOfActiveJob DEF TrustInv, Job
<1>2. /\ p.effects = progress.effects \cup IF reached THEN {"INDETERMINATE_WRITE"} ELSE {}
      /\ p.kind = progress.kind
  BY <1>1 DEF Job
<1>3. progress.effects \subseteq {"PARTIAL_WRITE"}
  BY <1>1 DEF TrustInv, TrustConjuncts, JobEffects
<1>4. damaged <=> p.effects \cap WriteEffects # {}
  BY <1>2, <1>3 DEF WriteEffects
<1>5. FinishJob(p, "FAILED")
  BY DEF FailWrite, FinishTransfer
<1>6. /\ damaged => /\ appliedState' = untrusted
                    /\ configFault' = Fault(status, p.kind, w, p.effects)
      /\ ~damaged => UNCHANGED <<appliedState, configFault>>
  BY DEF FailWrite
<1> HIDE DEF p
<1>7. Fenced
  <2>1. jobStep >= ApplyOffset(progress.kind) => appliedState # "UNKNOWN"
    BY <1>1 DEF TrustInv, TrustConjuncts, IdentityFirst
  <2>2. jobStep \in Nat /\ ApplyOffset(progress.kind) \in Nat
    BY ConfigurationJobFacts DEF TrustInv
  <2> QED
    BY <1>6, <2>1, <2>2 DEF Fenced
<1>8. ~damaged => appliedState # "APPLYING"
  BY <1>1, <1>2 DEF TrustInv, TrustConjuncts, ApplyingHasJob, JobEffects
<1>9. TrustedIsFaultless'
  BY <1>6 DEF TrustInv, TrustConjuncts, TrustedIsFaultless, Trusted
<1> QED
  BY <1>1, <1>4, <1>5, <1>6, <1>7, <1>8, <1>9, FinishSound DEF Fault

\* The reset forgets the device, and the identity reads come next.
LEMMA WriteResetSound ==
  ASSUME TrustInv, NEW status \in TransferStatus, WriteReset(status)
  PROVE  Sound
<1>1. /\ pollCall.active /\ progress.kind = "RESET_AND_REAPPLY" /\ jobStep = 0
      /\ ApplyOffset(progress.kind) = 3
  BY DEF WriteReset, AtReset, ApplyOffset
<1>2. CASE status = "OK"
  <2> DEFINE p == [Counted EXCEPT !.effects = @ \cup {"PARTIAL_WRITE"},
                                  !.phase = "VERIFY_MANUFACTURER"]
  <2>1. Counted \in Job /\ progress.active /\ Counted.effects = progress.effects
        /\ Counted.kind = progress.kind /\ Counted.active
    BY <1>1, CallOfActiveJob DEF TrustInv, Job
  <2>2. /\ progress' = p /\ UNCHANGED resultCount /\ jobStep' = 1 /\ appliedState' = "UNKNOWN"
    BY <1>2 DEF WriteReset, ContinueTransfer, ringVars
  <2>3. p.effects = progress.effects \cup {"PARTIAL_WRITE"} /\ p.kind = progress.kind
    BY <2>1 DEF Job
  <2>4. JobEffects'
    BY <1>1, <2>1, <2>2, <2>3 DEF TrustInv, TrustConjuncts, JobEffects
  <2>5. IdentityFirst'
    BY <1>1, <2>2, <2>3 DEF IdentityFirst
  <2>6. ApplyingHasJob' /\ TrustedIsFaultless' /\ Fenced
    BY <2>2 DEF ApplyingHasJob, TrustedIsFaultless, Trusted, Fenced
  <2>7. Explained
    BY <2>2, NothingToExplain DEF TrustInv
  <2> QED
    BY <2>4, <2>5, <2>6, <2>7 DEF Sound, TrustConjuncts
<1>3. CASE status # "OK"
  <2>1. FailWrite(status, ResetWrite, "UNKNOWN")
    BY <1>3 DEF WriteReset
  <2> QED
    BY <1>1, <2>1, FailWriteSound
<1> QED
  BY <1>2, <1>3

\* The second identity read is what lifts UNKNOWN.
LEMMA ReadIdentitySound ==
  ASSUME TrustInv, NEW status \in TransferStatus, NEW matches \in BOOLEAN,
         ReadIdentity(status, matches)
  PROVE  Sound
<1> DEFINE offset == ApplyOffset(progress.kind)
           index == jobStep - (offset - 2)
           step == [phase |-> IdentityPhases[index + 1], channel |-> NoChannel,
                    reg |-> IF index = 0 THEN RegManufacturerId ELSE RegDeviceId]
           p == [Counted EXCEPT !.phase = IF index = 0 THEN "VERIFY_DEVICE" ELSE "FORCE_SLEEP"]
           cause == IF status = "OK" THEN "MISMATCH" ELSE status
<1>1. /\ pollCall.active /\ progress.kind \in {"INITIALIZE", "RESET_AND_REAPPLY"}
      /\ offset \in {2, 3} /\ jobStep \in {offset - 2, offset - 1} /\ jobStep \in Nat
  <2>1. pollCall.active /\ offset # 0 /\ jobStep \in offset - 2 .. offset - 1
    BY DEF ReadIdentity, AtIdentity
  <2>2. progress.kind \in {"INITIALIZE", "RESET_AND_REAPPLY"} /\ offset \in {2, 3}
    BY <2>1 DEF ApplyOffset
  <2> QED
    BY <2>1, <2>2
<1>2. Counted \in Job /\ progress.active /\ Counted.effects = progress.effects
      /\ Counted.kind = progress.kind /\ Counted.active
  BY <1>1, CallOfActiveJob DEF TrustInv, Job
<1>3. index = 1 => progress.phase = "VERIFY_DEVICE"
  BY <1>1, <1>2 DEF TrustInv, TrustConjuncts, IdentityFirst
<1>4. appliedState # "APPLYING"
  BY <1>1 DEF TrustInv, TrustConjuncts, ApplyingHasJob
<1>5. CASE status = "OK" /\ matches
  <2>1. /\ progress' = p /\ UNCHANGED <<resultCount, configFault>> /\ jobStep' = jobStep + 1
        /\ appliedState' = IF index = 1 /\ appliedState = "UNKNOWN" THEN "DIRTY" ELSE appliedState
    BY <1>5 DEF ReadIdentity, ContinueTransfer, ringVars
  <2>2. /\ p.kind = progress.kind /\ p.effects = progress.effects
        /\ p.phase = IF index = 0 THEN "VERIFY_DEVICE" ELSE "FORCE_SLEEP"
    BY <1>2 DEF Job
  <2> HIDE DEF p
  <2>3. JobEffects'
    BY <1>1, <1>2, <2>1, <2>2 DEF TrustInv, TrustConjuncts, JobEffects
  <2>4. IdentityFirst'
    BY <1>1, <2>1, <2>2 DEF IdentityFirst
  <2>5. ApplyingHasJob' /\ TrustedIsFaultless'
    BY <1>4, <2>1 DEF TrustInv, TrustConjuncts, ApplyingHasJob, TrustedIsFaultless, Trusted
  <2>6. Fenced
    BY <1>1, <1>3, <2>1 DEF Fenced
  <2>7. Explained
    BY <2>1, NothingToExplain DEF TrustInv
  <2> QED
    BY <2>3, <2>4, <2>5, <2>6, <2>7 DEF Sound, TrustConjuncts
<1>6. CASE ~(status = "OK" /\ matches)
  <2>1. /\ appliedState' = "UNKNOWN" /\ FinishJob(Counted, "FAILED")
        /\ configFault' = Fault(cause, progress.kind, step, progress.effects)
    BY <1>6 DEF ReadIdentity, FinishTransfer
  <2>2. TrustedIsFaultless' /\ Fenced
    BY <2>1 DEF TrustedIsFaultless, Trusted, Fenced
  <2> QED
    BY <1>2, <2>1, <2>2, FinishSound DEF Fault
<1> QED
  BY <1>5, <1>6

\* A write of the replay: the last one earns trust, any other is APPLYING.
LEMMA WriteConfigurationSound ==
  ASSUME TrustInv, NEW status \in TransferStatus, WriteConfiguration(status)
  PROVE  Sound
<1> DEFINE applyStep == jobStep - ApplyOffset(progress.kind)
           written == [Counted EXCEPT !.effects = @ \cup {"PARTIAL_WRITE"}]
           next == ConfigWriteAt(ChannelCount, applyStep + 1)
           p == [written EXCEPT !.phase = next.phase, !.channel = next.channel]
           last == applyStep + 1 >= ConfigurationTransferCount(ChannelCount)
<1>1. /\ pollCall.active /\ progress.kind # "ACQUIRE" /\ jobStep >= ApplyOffset(progress.kind)
  BY DEF WriteConfiguration, AtApply
<1>2. /\ Counted \in Job /\ progress.active /\ Counted.effects = progress.effects
      /\ Counted.kind = progress.kind /\ Counted.active /\ progress.kind \in JobKind
  BY <1>1, CallOfActiveJob DEF TrustInv, Job
<1>3. jobStep \in Nat /\ ApplyOffset(progress.kind) \in Nat
  BY <1>1, ConfigurationJobFacts DEF TrustInv
<1>4. /\ written.effects = progress.effects \cup {"PARTIAL_WRITE"}
      /\ written.kind = progress.kind /\ written.active /\ written \in Job
  BY <1>2 DEF Job, EffectFlags
<1>5. appliedState # "UNKNOWN"
  BY <1>1, <1>2 DEF TrustInv, TrustConjuncts, IdentityFirst
<1>6. CASE status = "OK" /\ last
  <2>1. /\ appliedState' = "APPLIED_SLEEPING" /\ configFault' = NoFault
        /\ FinishJob(written, "SUCCESS")
    BY <1>6 DEF WriteConfiguration, FinishTransfer
  <2>2. TrustedIsFaultless' /\ Fenced
    BY <1>5, <2>1 DEF TrustedIsFaultless, NoFault, Fenced
  <2> QED
    BY <1>2, <2>1, <2>2, FinishSound
<1>7. CASE status = "OK" /\ ~last
  <2>1. /\ appliedState' = "APPLYING" /\ UNCHANGED resultCount /\ jobStep' = jobStep + 1
        /\ progress' = p
    BY <1>7 DEF WriteConfiguration, ContinueTransfer, ringVars
  <2>2. p.kind = progress.kind /\ p.active /\ p.effects = progress.effects \cup {"PARTIAL_WRITE"}
    BY <1>4 DEF Job
  <2> HIDE DEF p
  <2>3. JobEffects'
    BY <1>1, <1>2, <2>1, <2>2 DEF TrustInv, TrustConjuncts, JobEffects
  <2>4. IdentityFirst'
    BY <1>1, <1>3, <2>1, <2>2 DEF IdentityFirst
  <2>5. ApplyingHasJob' /\ TrustedIsFaultless' /\ Fenced
    BY <1>1, <1>2, <1>3, <1>5, <2>1, <2>2
    DEF ApplyingHasJob, TrustedIsFaultless, Trusted, Fenced
  <2>6. Explained
    BY <2>1, NothingToExplain DEF TrustInv
  <2> QED
    BY <2>3, <2>4, <2>5, <2>6 DEF Sound, TrustConjuncts
<1>8. CASE status # "OK"
  <2>1. FailWrite(status, ApplyWrite, "DIRTY")
    BY <1>8 DEF WriteConfiguration
  <2> QED
    BY <1>1, <1>3, <2>1, FailWriteSound
<1> QED
  BY <1>6, <1>7, <1>8

-----------------------------------------------------------------------------
(* The callbacks of an acquisition.                                        *)

\* An acquisition that goes on has read and nothing else.
LEMMA ReadContinuesSound ==
  ASSUME TrustInv, pollCall.active, progress.phase \in ReadPhase,
         NEW p, ContinueTransfer(p), p.active, p.kind = "ACQUIRE",
         p.effects \subseteq {"READ_SIDE_EFFECTS"},
         UNCHANGED <<appliedState, configFault>>
  PROVE  Sound
<1>1. progress.kind = "ACQUIRE" /\ progress.active
  BY AcquisitionFacts DEF TrustInv
<1>2. progress' = p /\ UNCHANGED resultCount
  BY DEF ContinueTransfer, ringVars
<1>3. ApplyingHasJob' /\ TrustedIsFaultless' /\ Fenced
  BY <1>1, <1>2
  DEF TrustInv, TrustConjuncts, ApplyingHasJob, TrustedIsFaultless, Trusted, Fenced
<1>4. JobEffects' /\ IdentityFirst'
  BY <1>2 DEF JobEffects, IdentityFirst
<1>5. Explained
  BY <1>2, NothingToExplain DEF TrustInv
<1> QED
  BY <1>3, <1>4, <1>5 DEF Sound, TrustConjuncts

\* An acquisition that ends has written nothing that would need explaining.
LEMMA ReadFinishesSound ==
  ASSUME TrustInv, pollCall.active, progress.phase \in ReadPhase,
         NEW p, NEW outcome, FinishTransfer(p, outcome),
         p.effects \subseteq {"READ_SIDE_EFFECTS"},
         UNCHANGED <<appliedState, configFault>>
  PROVE  Sound
<1>1. progress.kind = "ACQUIRE" /\ progress.active
  BY AcquisitionFacts DEF TrustInv
<1>2. appliedState # "APPLYING" /\ TrustedIsFaultless' /\ Fenced
  BY <1>1
  DEF TrustInv, TrustConjuncts, ApplyingHasJob, TrustedIsFaultless, Trusted, Fenced
<1>3. p.effects \cap WriteEffects = {}
  BY DEF WriteEffects
<1> QED
  BY <1>1, <1>2, <1>3, FinishSound DEF FinishTransfer

\* The four reads of an acquisition, and what each may add to the effects.
LEMMA ReadsSound ==
  ASSUME TrustInv, NEW status \in TransferStatus,
         \/ ReadStatusBefore(status) \/ ReadDataMsb(status)
         \/ ReadDataLsb(status) \/ ReadStatusAfter(status)
  PROVE  Sound
<1> DEFINE withRead == WithReadEffect(Counted)
           lsbRead == [Counted EXCEPT !.completedChannels = @ \cup {progress.channel}]
<1>1. pollCall.active /\ progress.phase \in ReadPhase /\ UNCHANGED <<appliedState, configFault>>
  BY DEF ReadStatusBefore, ReadDataMsb, ReadDataLsb, ReadStatusAfter, AtRead, ReadPhase
<1>2. /\ Counted \in Job /\ Counted.active /\ Counted.kind = "ACQUIRE"
      /\ Counted.effects \subseteq {"READ_SIDE_EFFECTS"}
  <2>1. progress.kind = "ACQUIRE" /\ progress.active /\ Counted \in Job
    BY <1>1, AcquisitionFacts DEF TrustInv
  <2>2. progress.effects \subseteq {"READ_SIDE_EFFECTS"}
    BY <2>1 DEF TrustInv, TrustConjuncts, JobEffects
  <2> QED
    BY <1>1, <2>1, <2>2, CallOfActiveJob DEF TrustInv, Job
<1>3. /\ withRead \in Job /\ withRead.active /\ withRead.kind = "ACQUIRE"
      /\ withRead.effects \subseteq {"READ_SIDE_EFFECTS"}
  BY <1>2 DEF WithReadEffect, Job, EffectFlags
<1>4. /\ lsbRead.active /\ lsbRead.kind = "ACQUIRE"
      /\ lsbRead.effects \subseteq {"READ_SIDE_EFFECTS"}
      /\ DOMAIN lsbRead = DOMAIN Counted
  BY <1>2 DEF Job
<1>5. ASSUME NEW q, NEW after, q.active, q.kind = "ACQUIRE", DOMAIN q = DOMAIN Counted,
             q.effects \subseteq {"READ_SIDE_EFFECTS"}
      PROVE  LET p == AdvanceAcquire(q, after)
             IN  /\ p.active /\ p.kind = "ACQUIRE" /\ p.effects \subseteq {"READ_SIDE_EFFECTS"}
  BY <1>2, <1>5 DEF AdvanceAcquire, Job
<1> HIDE DEF withRead, lsbRead
<1>6. CASE ReadStatusBefore(status)
  <2>1. CASE status = "OK"
    <3>1. ContinueTransfer(AdvanceAcquire(withRead, NoChannel))
      BY <1>6, <2>1 DEF ReadStatusBefore, withRead
    <3> QED
      BY <1>1, <1>2, <1>3, <1>5, <3>1, ReadContinuesSound DEF Job
  <2>2. CASE status # "OK"
    BY <1>1, <1>2, <1>3, <1>6, <2>2, ReadFinishesSound DEF ReadStatusBefore, withRead
  <2> QED
    BY <2>1, <2>2
<1>7. CASE ReadDataMsb(status)
  <2>1. CASE status = "OK"
    <3>1. ContinueTransfer([withRead EXCEPT !.phase = "READ_DATA_LSB"])
      BY <1>7, <2>1 DEF ReadDataMsb, withRead
    <3> QED
      BY <1>1, <1>3, <3>1, ReadContinuesSound DEF Job
  <2>2. CASE status # "OK"
    BY <1>1, <1>2, <1>7, <2>2, ReadFinishesSound DEF ReadDataMsb
  <2> QED
    BY <2>1, <2>2
<1>8. CASE ReadDataLsb(status)
  <2>1. CASE status = "OK"
    <3>1. ContinueTransfer(AdvanceAcquire(lsbRead, progress.channel))
      BY <1>8, <2>1 DEF ReadDataLsb, lsbRead
    <3> QED
      BY <1>1, <1>4, <1>5, <3>1, ReadContinuesSound
  <2>2. CASE status # "OK"
    BY <1>1, <1>2, <1>8, <2>2, ReadFinishesSound DEF ReadDataLsb
  <2> QED
    BY <2>1, <2>2
<1>9. CASE ReadStatusAfter(status)
  BY <1>1, <1>2, <1>3, <1>9, ReadFinishesSound DEF ReadStatusAfter, withRead
<1> QED
  BY <1>6, <1>7, <1>8, <1>9

-----------------------------------------------------------------------------
(* The theorems.                                                           *)

\* Every step of the driver keeps the invariant, and is fenced and explained.
LEMMA NextSound ==
  ASSUME TrustInv, Next
  PROVE  Sound
<1>1. CASE Owner
  <2>1. ASSUME NEW c \in Profiles, Bind(c) \/ UpdateDesiredConfig(c) PROVE Sound
    BY <2>1, ForgetSound, UpdateDesiredConfigSound DEF Bind
  <2>2. CASE End \/ InvalidateAppliedState
    BY <2>2, ForgetSound, InvalidateAppliedStateSound DEF End
  <2>3. CASE CancelJob
    BY <2>3, AbandonJobSound DEF CancelJob
  <2>4. CASE TakeResult
    BY <2>4, UntouchedSound DEF TakeResult, jobVars
  <2>5. ASSUME NEW id \in OperationIds, NEW d \in Deadlines,
               StartInitialize(id, d) \/ StartApplyConfig(id, d) \/ StartResetAndReapply(id, d)
        PROVE  Sound
    BY <2>5, StartJobSound
    DEF StartInitialize, StartApplyConfig, StartResetAndReapply, JobKind
  <2>6. ASSUME NEW id \in OperationIds, NEW d \in Deadlines,
               NEW channels \in SUBSET ChannelIndex, StartAcquire(channels, id, d)
        PROVE  Sound
    BY <2>6, StartJobSound DEF StartAcquire, JobKind
  <2> QED
    BY <1>1, <2>1, <2>2, <2>3, <2>4, <2>5, <2>6 DEF Owner
<1>2. CASE Poll
  <2>1. ASSUME NEW now \in Times, PollTimeout(now) PROVE Sound
    BY <2>1, AbandonJobSound DEF PollTimeout
  <2>2. ASSUME NEW now \in Times, NEW max \in 1 .. MaxTransferBudget, PollBegin(now, max)
        PROVE  Sound
    BY <2>2, UntouchedSound DEF PollBegin, jobVars, ringVars
  <2> QED
    BY <1>2, <2>1, <2>2 DEF Poll
<1>3. CASE Transfer
  <2>1. ASSUME NEW status \in TransferStatus, DirectTransfer(status) PROVE Sound
    BY <2>1, DirectConfigWriteSound, WriteRegister16Sound DEF DirectTransfer, Sleep, Wake
  <2>2. ASSUME NEW status \in TransferStatus, NEW matches \in BOOLEAN,
               JobTransfer(status, matches)
        PROVE  Sound
    BY <2>2, WriteResetSound, ReadIdentitySound, WriteConfigurationSound, ReadsSound
    DEF JobTransfer
  <2> QED
    BY <1>3, <2>1, <2>2 DEF Transfer
<1> QED
  BY <1>1, <1>2, <1>3 DEF Next

\* A step that changes nothing keeps the invariant and has nothing to explain.
LEMMA StutterSound ==
  ASSUME TrustInv, UNCHANGED vars
  PROVE  Sound
  BY UntouchedSound DEF vars, jobVars, ringVars

\* The driver's beliefs are consistent with its jobs in every reachable state.
THEOREM TrustInvariant == Spec => []TrustInv
<1>1. TrustInv /\ [Next]_vars => TrustInv'
  BY NextSound, StutterSound, NextEngine DEF TrustInv, Sound
<1> QED
  BY <1>1, InitTrust, PTL DEF Spec

\* However a job ends (cancelJob(), a deadline seen by poll(), an
\* invalidation, a failed transfer), APPLYING ends with it.
THEOREM ApplyingEndsWithItsJob == Spec => []ApplyingHasJob
  BY TrustInvariant, PTL DEF TrustInv, TrustConjuncts

\* configFault() of a trusted configuration is empty, after whatever history
\* of failed, partial and repeated replays it was reached.
THEOREM TrustedMeansFaultless == Spec => []TrustedIsFaultless
  BY TrustInvariant, PTL DEF TrustInv, TrustConjuncts

\* Only a job that has read both identity registers makes the driver leave
\* UNKNOWN: neither a replay nor a direct write ever does.
THEOREM IdentityIsReadFirst == Spec => IdentityFence
<1>1. TrustInv /\ [Next]_vars =>
        [appliedState = "UNKNOWN" /\ appliedState' # "UNKNOWN" =>
           progress.kind \in {"INITIALIZE", "RESET_AND_REAPPLY"} /\ progress.phase = "VERIFY_DEVICE"]_vars
  BY NextSound DEF Sound, Fenced
<1> QED
  BY <1>1, TrustInvariant, PTL DEF Spec, IdentityFence

\* A configuration job that fails, is cancelled or times out after it wrote or
\* may have written leaves an untrusted configuration and a fault naming it.
THEOREM FailedWritesAreExplained == Spec => WriteEffectsAreExplained
<1>1. TrustInv /\ [Next]_vars =>
        [Terminates /\ Newest'.outcome # "SUCCESS"
           /\ Newest'.effects \cap {"PARTIAL_WRITE", "INDETERMINATE_WRITE"} # {} =>
         /\ appliedState' \in {"DIRTY", "UNKNOWN"} /\ configFault'.valid
         /\ \/ configFault'.cause = "INVALIDATED"
            \/ configFault'.job = Newest'.kind /\ configFault'.effects = Newest'.effects]_vars
  BY NextSound DEF Sound, Explained, WriteEffects
<1> QED
  BY <1>1, TrustInvariant, PTL DEF Spec, WriteEffectsAreExplained

-----------------------------------------------------------------------------
(* What jobProgress() announces and what a fault would blame.  The phase,  *)
(* the channel, the effects and the record of the last write are stored    *)
(* apart from the step of the plan and updated at different places of      *)
(* _pollInitializeOrApply(); that they agree is inductive only as a        *)
(* conjunction: an identity read keeps the channel it finds, and a replay  *)
(* write the effects.                                                      *)

ProvenanceInv == PhaseNamesNextTransfer /\ LastWriteIsProvenance

-----------------------------------------------------------------------------
(* The kinds of steps.                                                     *)

\* Without a job nothing is announced and nothing could be blamed.
LEMMA IdleIsSilent ==
  ASSUME progress' = NoJob, lastWrite' = NoWrite
  PROVE  ProvenanceInv'
  BY DEF ProvenanceInv, PhaseNamesNextTransfer, LastWriteIsProvenance, NoJob

\* A step that leaves the job alone leaves its provenance alone.
LEMMA SameJobSameProvenance ==
  ASSUME ProvenanceInv, UNCHANGED jobVars
  PROVE  ProvenanceInv'
<1>1. progress' = progress /\ jobStep' = jobStep /\ lastWrite' = lastWrite
  BY DEF jobVars
<1> QED
  BY <1>1 DEF ProvenanceInv, PhaseNamesNextTransfer, LastWriteIsProvenance

\* A replay always begins by putting the device to sleep.
LEMMA ReplayStartsAsleep ==
  ConfigWriteAt(ChannelCount, 0) = [reg |-> RegConfig, phase |-> "FORCE_SLEEP", channel |-> NoChannel]
  BY DEF ConfigWriteAt

\* Every write of the replay, and the reset, is told apart from no write.
LEMMA WritesAreWrites ==
  /\ ResetWrite # NoWrite
  /\ \A k \in 0 .. ConfigurationTransferCount(ChannelCount) - 1 :
       ConfigWriteAt(ChannelCount, k) # NoWrite
<1>1. ResetWrite.phase # NoWrite.phase
  BY DEF ResetWrite, NoWrite
<1>2. ASSUME NEW k \in 0 .. ConfigurationTransferCount(ChannelCount) - 1
      PROVE  ConfigWriteAt(ChannelCount, k) # NoWrite
  <2>1. ConfigWriteAt(ChannelCount, k).phase \in WritePhase
    BY PlanType
  <2>2. NoWrite.phase \notin WritePhase
    BY DEF NoWrite, WritePhase
  <2> QED
    BY <2>1, <2>2
<1> QED
  BY <1>1, <1>2

\* An admitted job announces its first transfer and has written nothing.
LEMMA StartAnnounces ==
  ASSUME NEW kind \in JobKind, NEW channels, NEW id, NEW deadline,
         StartJob(kind, channels, id, deadline)
  PROVE  ProvenanceInv'
<1>1. /\ progress'.kind = kind /\ progress'.active /\ progress'.phase = FirstPhase(kind)
      /\ progress'.channel = NoChannel /\ progress'.effects = {}
      /\ jobStep' = 0 /\ lastWrite' = NoWrite
  BY DEF StartJob, NoJob
<1>2. PhaseNamesNextTransfer'
  <2>1. CASE kind = "INITIALIZE"
    BY <1>1, <2>1 DEF PhaseNamesNextTransfer, FirstPhase, ApplyOffset, IdentityPhases
  <2>2. CASE kind = "APPLY_CONFIG"
    BY <1>1, <2>2, ReplayStartsAsleep DEF PhaseNamesNextTransfer, FirstPhase, ApplyOffset
  <2>3. CASE kind = "RESET_AND_REAPPLY"
    BY <1>1, <2>3 DEF PhaseNamesNextTransfer, FirstPhase, ApplyOffset
  <2>4. CASE kind = "ACQUIRE"
    BY <1>1, <2>4 DEF PhaseNamesNextTransfer
  <2> QED
    BY <2>1, <2>2, <2>3, <2>4 DEF JobKind
<1>3. LastWriteIsProvenance'
  BY <1>1 DEF LastWriteIsProvenance, ApplyOffset, JobKind
<1> QED
  BY <1>2, <1>3 DEF ProvenanceInv

-----------------------------------------------------------------------------
(* The callbacks of a configuration job.                                   *)

\* The write of RESET_DEV is remembered, and the identity is read next.
LEMMA WriteResetAnnounces ==
  ASSUME EngineInv, ProvenanceInv, NEW status \in TransferStatus, WriteReset(status)
  PROVE  ProvenanceInv'
<1>1. pollCall.active /\ progress.kind = "RESET_AND_REAPPLY" /\ jobStep = 0
  BY DEF WriteReset, AtReset
<1>2. progress.active /\ Counted \in Job /\ progress \in Job
      /\ Counted.kind = progress.kind /\ Counted.channel = progress.channel
      /\ Counted.active = progress.active /\ Counted.effects = progress.effects
  BY <1>1, CallOfActiveJob DEF Job
<1>3. CASE status = "OK"
  <2>1. /\ progress' = [Counted EXCEPT !.effects = @ \cup {"PARTIAL_WRITE"},
                                       !.phase = "VERIFY_MANUFACTURER"]
        /\ jobStep' = 1 /\ lastWrite' = ResetWrite
    BY <1>3 DEF WriteReset, ContinueTransfer
  <2>2. /\ progress'.kind = "RESET_AND_REAPPLY" /\ progress'.active
        /\ progress'.phase = "VERIFY_MANUFACTURER" /\ "PARTIAL_WRITE" \in progress'.effects
        /\ progress'.channel = progress.channel
    BY <1>1, <1>2, <2>1 DEF Job
  <2>3. progress.channel = NoChannel
    BY <1>1, <1>2 DEF ProvenanceInv, PhaseNamesNextTransfer, ApplyOffset
  <2>4. PhaseNamesNextTransfer'
    BY <2>1, <2>2, <2>3 DEF PhaseNamesNextTransfer, ApplyOffset, IdentityPhases
  <2>5. LastWriteIsProvenance'
    BY <2>1, <2>2, WritesAreWrites DEF LastWriteIsProvenance, ApplyOffset
  <2> QED
    BY <2>4, <2>5 DEF ProvenanceInv
<1>4. CASE status # "OK"
  BY <1>4, IdleIsSilent DEF WriteReset, FailWrite, FinishTransfer, FinishJob, ClearActiveJob
<1> QED
  BY <1>3, <1>4

\* An identity read announces the other one or the start of the replay; the
\* last write stays the reset, if the job made one.
LEMMA ReadIdentityAnnounces ==
  ASSUME EngineInv, ProvenanceInv, NEW status \in TransferStatus, NEW matches \in BOOLEAN,
         ReadIdentity(status, matches)
  PROVE  ProvenanceInv'
<1> DEFINE offset == ApplyOffset(progress.kind)
           index == jobStep - (offset - 2)
<1>1. /\ pollCall.active /\ offset # 0 /\ progress.kind # "ACQUIRE"
      /\ jobStep \in offset - 2 .. offset - 1
  BY DEF ReadIdentity, AtIdentity, ApplyOffset
<1>2. progress.active /\ Counted \in Job /\ progress \in Job
      /\ Counted.kind = progress.kind /\ Counted.channel = progress.channel
      /\ Counted.active = progress.active /\ Counted.effects = progress.effects
  BY <1>1, CallOfActiveJob DEF Job
<1>3. jobStep \in Nat /\ offset \in {2, 3}
  BY <1>1, <1>2, ConfigurationJobFacts
<1>4. CASE status = "OK" /\ matches
  <2>1. /\ progress' = [Counted EXCEPT
             !.phase = IF index = 0 THEN "VERIFY_DEVICE" ELSE "FORCE_SLEEP"]
        /\ jobStep' = jobStep + 1 /\ lastWrite' = lastWrite
    BY <1>4 DEF ReadIdentity, ContinueTransfer
  <2>2. /\ progress'.kind = progress.kind /\ progress'.active
        /\ progress'.phase = (IF index = 0 THEN "VERIFY_DEVICE" ELSE "FORCE_SLEEP")
        /\ progress'.effects = progress.effects /\ progress'.channel = progress.channel
    BY <1>2, <2>1 DEF Job
  <2>3. progress.channel = NoChannel
    BY <1>1, <1>2, <1>3 DEF ProvenanceInv, PhaseNamesNextTransfer
  <2>4. ApplyOffset(progress'.kind) = offset
    BY <2>2
  <2>5. PhaseNamesNextTransfer'
    <3>1. CASE index = 0
      <4>1. jobStep' = offset - 1
        BY <1>3, <2>1, <3>1
      <4> QED
        BY <1>3, <2>2, <2>3, <2>4, <3>1, <4>1 DEF PhaseNamesNextTransfer, IdentityPhases
    <3>2. CASE index = 1
      <4>1. jobStep' = offset /\ jobStep' - offset = 0
        BY <1>3, <2>1, <3>2
      <4> QED
        BY <1>3, <2>2, <2>3, <2>4, <3>2, <4>1, ReplayStartsAsleep DEF PhaseNamesNextTransfer
    <3> QED
      BY <1>1, <1>3, <3>1, <3>2
  <2>6. LastWriteIsProvenance'
    <3> HIDE DEF offset
    <3>1. ~(jobStep > offset) /\ ~(jobStep' > offset)
      BY <1>1, <1>3, <2>1
    <3>2. progress.kind = "RESET_AND_REAPPLY" => jobStep > 0 /\ jobStep' > 0
      BY <1>1, <1>3, <2>1 DEF offset, ApplyOffset
    <3>3. LastWriteIsProvenance
      BY DEF ProvenanceInv
    <3>4. lastWrite = IF progress.kind = "RESET_AND_REAPPLY" THEN ResetWrite ELSE NoWrite
      BY <1>1, <1>2, <3>1, <3>2, <3>3 DEF LastWriteIsProvenance, offset
    <3> QED
      BY <1>1, <1>2, <2>1, <2>2, <2>4, <3>1, <3>2, <3>3, <3>4 DEF LastWriteIsProvenance
  <2> QED
    BY <2>5, <2>6 DEF ProvenanceInv
<1>5. CASE ~(status = "OK" /\ matches)
  BY <1>5, IdleIsSilent DEF ReadIdentity, FinishTransfer, FinishJob, ClearActiveJob
<1> QED
  BY <1>4, <1>5

\* A replay write is remembered and the next register of the plan announced.
LEMMA WriteConfigurationAnnounces ==
  ASSUME EngineInv, ProvenanceInv, NEW status \in TransferStatus, WriteConfiguration(status)
  PROVE  ProvenanceInv'
<1> DEFINE offset == ApplyOffset(progress.kind)
           applyStep == jobStep - offset
           next == ConfigWriteAt(ChannelCount, applyStep + 1)
           last == applyStep + 1 >= ConfigurationTransferCount(ChannelCount)
<1>1. pollCall.active /\ progress.kind # "ACQUIRE" /\ jobStep >= offset
  BY DEF WriteConfiguration, AtApply
<1>2. progress.active /\ Counted \in Job /\ progress \in Job
      /\ Counted.kind = progress.kind /\ Counted.active = progress.active
  BY <1>1, CallOfActiveJob DEF Job
<1>3. jobStep \in Nat /\ offset \in Nat
  BY <1>1, <1>2, ConfigurationJobFacts
<1>4. CASE status = "OK" /\ ~last
  <2>1. /\ progress' = [[Counted EXCEPT !.effects = @ \cup {"PARTIAL_WRITE"}]
                          EXCEPT !.phase = next.phase, !.channel = next.channel]
        /\ jobStep' = jobStep + 1 /\ lastWrite' = ApplyWrite
    BY <1>4 DEF WriteConfiguration, ContinueTransfer
  <2> HIDE DEF next
  <2>2. /\ progress'.kind = progress.kind /\ progress'.active
        /\ progress'.phase = next.phase /\ progress'.channel = next.channel
        /\ "PARTIAL_WRITE" \in progress'.effects
    BY <1>2, <2>1 DEF Job
  <2>3. applyStep \in 0 .. ConfigurationTransferCount(ChannelCount) - 1
    BY <1>1, <1>3, <1>4, PlanLength
  <2>4. jobStep' - offset = applyStep + 1 /\ jobStep' - offset - 1 = applyStep
        /\ jobStep' >= offset /\ jobStep' > offset
    BY <1>1, <1>3, <2>1
  <2>5. ApplyOffset(progress'.kind) = offset
    BY <2>2
  <2>6. ApplyWrite # NoWrite /\ ApplyWrite = ConfigWriteAt(ChannelCount, applyStep)
    BY <2>3, WritesAreWrites DEF ApplyWrite
  <2> HIDE DEF offset, applyStep
  <2>7. PhaseNamesNextTransfer'
    BY <2>2, <2>4, <2>5 DEF PhaseNamesNextTransfer, next
  <2>8. LastWriteIsProvenance'
    BY <1>1, <2>1, <2>2, <2>4, <2>5, <2>6 DEF LastWriteIsProvenance
  <2> QED
    BY <2>7, <2>8 DEF ProvenanceInv
<1>5. CASE ~(status = "OK" /\ ~last)
  BY <1>5, IdleIsSilent
  DEF WriteConfiguration, FailWrite, FinishTransfer, FinishJob, ClearActiveJob
<1> QED
  BY <1>4, <1>5

-----------------------------------------------------------------------------
(* The callbacks of an acquisition.                                        *)

\* An acquisition that goes on reads: it announces no write and makes none.
LEMMA ReadAnnouncesNoWrite ==
  ASSUME ProvenanceInv, progress.kind = "ACQUIRE", progress.active, NEW p \in Job,
         p.kind = "ACQUIRE", p.active,
         "PARTIAL_WRITE" \in p.effects <=> "PARTIAL_WRITE" \in progress.effects,
         progress' = p, UNCHANGED <<jobStep, lastWrite>>
  PROVE  ProvenanceInv'
<1>1. PhaseNamesNextTransfer'
  BY DEF PhaseNamesNextTransfer
<1>2. LastWriteIsProvenance'
  BY DEF ProvenanceInv, LastWriteIsProvenance
<1> QED
  BY <1>1, <1>2 DEF ProvenanceInv

\* Every read of an acquisition that goes on is of that kind.
LEMMA ReadsAnnounce ==
  ASSUME EngineInv, ProvenanceInv, NEW status \in TransferStatus,
         \/ ReadStatusBefore(status) \/ ReadDataMsb(status)
         \/ ReadDataLsb(status) \/ ReadStatusAfter(status)
  PROVE  ProvenanceInv'
<1>1. pollCall.active /\ progress.phase \in ReadPhase
  BY DEF ReadStatusBefore, ReadDataMsb, ReadDataLsb, ReadStatusAfter, AtRead, ReadPhase
<1>2. /\ progress.kind = "ACQUIRE" /\ progress.active /\ Counted \in Job
      /\ Counted.kind = "ACQUIRE" /\ Counted.active /\ Counted.effects = progress.effects
  BY <1>1, AcquisitionFacts, CallOfActiveJob DEF Job
<1>3. ASSUME progress' = NoJob, lastWrite' = NoWrite PROVE ProvenanceInv'
  BY <1>3, IdleIsSilent
<1>4. ASSUME NEW outcome, NEW p, FinishTransfer(p, outcome) PROVE ProvenanceInv'
  BY <1>3, <1>4 DEF FinishTransfer, FinishJob, ClearActiveJob
<1>5. ASSUME EngineInv', NEW q \in Job, q.kind = "ACQUIRE", q.active,
             "PARTIAL_WRITE" \in q.effects <=> "PARTIAL_WRITE" \in progress.effects,
             UNCHANGED <<jobStep, lastWrite>>,
             \/ progress' = q
             \/ \E after : progress' = AdvanceAcquire(q, after)
             \/ progress' = [q EXCEPT !.phase = "READ_DATA_LSB"]
      PROVE  ProvenanceInv'
  <2>1. progress' \in Job
    BY <1>5 DEF EngineInv, TypeOK, JobType
  <2>2. progress'.kind = q.kind /\ progress'.active = q.active /\ progress'.effects = q.effects
    BY <1>5 DEF AdvanceAcquire, Job
  <2> QED
    BY <1>2, <1>5, <2>1, <2>2, ReadAnnouncesNoWrite
<1>6. LET q == WithReadEffect(Counted)
      IN  q \in Job /\ q.kind = "ACQUIRE" /\ q.active
          /\ ("PARTIAL_WRITE" \in q.effects <=> "PARTIAL_WRITE" \in progress.effects)
  BY <1>2 DEF WithReadEffect, Job, EffectFlags
<1>7. CASE ReadStatusBefore(status)
  <2>1. EngineInv'
    BY <1>7, ReadStatusBeforeEngine
  <2> QED
    BY <1>4, <1>5, <1>6, <1>7, <2>1 DEF ReadStatusBefore, ContinueTransfer
<1>8. CASE ReadDataMsb(status)
  <2>1. EngineInv'
    BY <1>8, ReadDataMsbEngine
  <2> QED
    BY <1>4, <1>5, <1>6, <1>8, <2>1 DEF ReadDataMsb, ContinueTransfer
<1>9. CASE ReadDataLsb(status)
  <2> DEFINE q == [Counted EXCEPT !.completedChannels = @ \cup {progress.channel}]
  <2>1. EngineInv'
    BY <1>9, ReadDataLsbEngine
  <2>2. progress.channel \in ChannelIndex
    <3>1. progress.phase = "READ_DATA_LSB"
      BY <1>9 DEF ReadDataLsb, AtRead
    <3> QED
      BY <1>1, <3>1, AcquisitionFacts DEF ReadsCounted
  <2>3. /\ q \in Job /\ q.kind = "ACQUIRE" /\ q.active
        /\ ("PARTIAL_WRITE" \in q.effects <=> "PARTIAL_WRITE" \in progress.effects)
    BY <1>2, <2>2 DEF Job
  <2>4. CASE status = "OK"
    <3>1. progress' = AdvanceAcquire(q, progress.channel) /\ UNCHANGED <<jobStep, lastWrite>>
      BY <1>9, <2>4 DEF ReadDataLsb, ContinueTransfer
    <3> HIDE DEF q
    <3> QED
      BY <1>5, <2>1, <2>3, <3>1
  <2>5. CASE status # "OK"
    BY <1>4, <1>9, <2>5 DEF ReadDataLsb
  <2> QED
    BY <2>4, <2>5
<1>10. CASE ReadStatusAfter(status)
  BY <1>4, <1>10 DEF ReadStatusAfter
<1> QED
  BY <1>7, <1>8, <1>9, <1>10

-----------------------------------------------------------------------------
(* The invariance theorems.                                                *)

\* Every step of the driver keeps what is announced and what is remembered.
LEMMA NextProvenance == EngineInv /\ ProvenanceInv /\ [Next]_vars => ProvenanceInv'
<1> SUFFICES ASSUME EngineInv, ProvenanceInv, [Next]_vars PROVE ProvenanceInv'
  OBVIOUS
<1>1. ASSUME NEW p, NEW outcome, FinishJob(p, outcome) PROVE ProvenanceInv'
  BY <1>1, IdleIsSilent DEF FinishJob, ClearActiveJob
<1>2. CASE Owner
  <2>1. ASSUME NEW c \in Profiles, Bind(c) PROVE ProvenanceInv'
    BY <2>1, IdleIsSilent DEF Bind, ForgetEverything, ClearActiveJob
  <2>2. ASSUME NEW c \in Profiles, UpdateDesiredConfig(c) PROVE ProvenanceInv'
    BY <2>2, SameJobSameProvenance DEF UpdateDesiredConfig
  <2>3. CASE End
    BY <2>3, IdleIsSilent DEF End, ForgetEverything, ClearActiveJob
  <2>4. CASE CancelJob
    BY <1>1, <2>4 DEF CancelJob, AbandonJob
  <2>5. CASE TakeResult
    BY <2>5, SameJobSameProvenance DEF TakeResult
  <2>6. CASE InvalidateAppliedState
    BY <1>1, <2>6, SameJobSameProvenance DEF InvalidateAppliedState
  <2>7. ASSUME NEW id \in OperationIds, NEW d \in Deadlines,
               StartInitialize(id, d) \/ StartApplyConfig(id, d) \/ StartResetAndReapply(id, d)
        PROVE  ProvenanceInv'
    BY <2>7, StartAnnounces
    DEF StartInitialize, StartApplyConfig, StartResetAndReapply, JobKind
  <2>8. ASSUME NEW id \in OperationIds, NEW d \in Deadlines,
               NEW channels \in SUBSET ChannelIndex, StartAcquire(channels, id, d)
        PROVE  ProvenanceInv'
    BY <2>8, StartAnnounces DEF StartAcquire, JobKind
  <2> QED
    BY <1>2, <2>1, <2>2, <2>3, <2>4, <2>5, <2>6, <2>7, <2>8 DEF Owner
<1>3. CASE Poll
  <2>1. ASSUME NEW now \in Times, PollTimeout(now) PROVE ProvenanceInv'
    BY <1>1, <2>1 DEF PollTimeout, AbandonJob
  <2>2. ASSUME NEW now \in Times, NEW max \in 1 .. MaxTransferBudget, PollBegin(now, max)
        PROVE  ProvenanceInv'
    BY <2>2, SameJobSameProvenance DEF PollBegin
  <2> QED
    BY <1>3, <2>1, <2>2 DEF Poll
<1>4. CASE Transfer
  <2>1. ASSUME NEW status \in TransferStatus, DirectTransfer(status) PROVE ProvenanceInv'
    BY <2>1, SameJobSameProvenance
    DEF DirectTransfer, Sleep, Wake, DirectConfigWrite, WriteRegister16
  <2>2. ASSUME NEW status \in TransferStatus, NEW matches \in BOOLEAN,
               JobTransfer(status, matches)
        PROVE  ProvenanceInv'
    BY <2>2, WriteResetAnnounces, ReadIdentityAnnounces, WriteConfigurationAnnounces,
       ReadsAnnounce
    DEF JobTransfer
  <2> QED
    BY <1>4, <2>1, <2>2 DEF Transfer
<1>5. CASE UNCHANGED vars
  BY <1>5, SameJobSameProvenance DEF vars, jobVars
<1> QED
  BY <1>2, <1>3, <1>4, <1>5 DEF Next

\* What is announced and what is remembered agree with the job's step.
LEMMA ProvenanceInvariant == Spec => []ProvenanceInv
<1>1. Init => ProvenanceInv
  BY DEF Init, ProvenanceInv, PhaseNamesNextTransfer, LastWriteIsProvenance, NoJob
<1> QED
  BY <1>1, NextProvenance, EngineInvariant, PTL DEF Spec

\* Between polls jobProgress() reports the phase and the channel of the register
\* that the next callback will address, in every job and on either variant.
THEOREM NextTransferIsAnnounced == Spec => []PhaseNamesNextTransfer
  BY ProvenanceInvariant, PTL DEF ProvenanceInv

\* A timeout or a cancellation would blame the write the job made last, and
\* PARTIAL_WRITE is set exactly when there is one.
THEOREM LastWriteIsRemembered == Spec => []LastWriteIsProvenance
  BY ProvenanceInvariant, PTL DEF ProvenanceInv

-----------------------------------------------------------------------------
(* The ring as a queue.                                                    *)

\* A position counted from the head wraps around the ring at most once.
LEMMA RingPosition ==
  ASSUME NEW c \in Nat \ {0}, NEW h \in 0 .. c - 1, NEW k \in 0 .. c
  PROVE  (h + k) % c = IF h + k < c THEN h + k ELSE h + k - c
  BY Z3

\* Positions of one turn of the ring name different slots.
LEMMA SlotsDiffer ==
  ASSUME NEW c \in Nat \ {0}, NEW h \in 0 .. c - 1,
         NEW j \in 0 .. c - 1, NEW k \in 0 .. c - 1, j # k
  PROVE  (h + j) % c # (h + k) % c
<1>1. j \in 0 .. c /\ k \in 0 .. c
  OBVIOUS
<1> DEFINE a == (h + j) % c
           b == (h + k) % c
<1>2. a = (IF h + j < c THEN h + j ELSE h + j - c)
  BY <1>1, RingPosition, Zenon
<1>3. b = (IF h + k < c THEN h + k ELSE h + k - c)
  BY <1>1, RingPosition, Zenon
<1> HIDE DEF a, b
<1>4. a # b
  BY <1>2, <1>3
<1> QED BY <1>4 DEF a, b

\* Once the head has moved on, a position is that of the one after it before.
LEMMA NextHead ==
  ASSUME NEW c \in Nat \ {0}, NEW h \in 0 .. c - 1, NEW k \in 0 .. c - 1
  PROVE  (((h + 1) % c) + k) % c = (h + (k + 1)) % c
<1>1. 1 \in 0 .. c /\ k \in 0 .. c /\ k + 1 \in 0 .. c
  OBVIOUS
<1> DEFINE next == (h + 1) % c
           slot == (next + k) % c
           later == (h + (k + 1)) % c
<1>2. next = (IF h + 1 < c THEN h + 1 ELSE h + 1 - c)
  BY <1>1, RingPosition, Zenon
<1>3. later = (IF h + (k + 1) < c THEN h + (k + 1) ELSE h + (k + 1) - c)
  BY <1>1, RingPosition, Zenon
<1> HIDE DEF next, later
<1>4. next \in 0 .. c - 1
  BY <1>2
<1>5. slot = (IF next + k < c THEN next + k ELSE next + k - c)
  BY <1>1, <1>4, RingPosition, Zenon
<1> HIDE DEF slot
<1>6. slot = later
  BY <1>2, <1>3, <1>4, <1>5
<1> QED BY <1>6 DEF next, slot, later

Item == [operationId : OperationIds \cup {0}, kind : JobKind \cup {"NONE"}]

\* The queue that a ring r with its head at h and n results stands for.
QueueOf(r, h, n) == [k \in 1 .. n |-> AsOperation(r[(h + k - 1) % ResultCapacity])]

\* It has one well-typed entry for each occupied slot, in order.
LEMMA QueueOfRing ==
  ASSUME NEW r \in [0 .. ResultCapacity - 1 -> OperationResult],
         NEW h \in 0 .. ResultCapacity - 1, NEW n \in 0 .. ResultCapacity
  PROVE  QueueOf(r, h, n) \in Seq(Item) /\ Len(QueueOf(r, h, n)) = n
<1>1. ResultCapacity \in Nat \ {0} /\ n \in Nat
  BY DriverAssumption
<1>2. ASSUME NEW k \in 1 .. n PROVE AsOperation(r[(h + k - 1) % ResultCapacity]) \in Item
  <2>1. (h + k - 1) % ResultCapacity \in 0 .. ResultCapacity - 1
    BY <1>1
  <2>2. r[(h + k - 1) % ResultCapacity] \in OperationResult
    BY <2>1
  <2>3. QED BY <2>2 DEF AsOperation, Item, OperationResult
<1>3. QueueOf(r, h, n) \in [1 .. n -> Item]
  BY <1>2 DEF QueueOf
<1>4. QueueOf(r, h, n) \in Seq(Item)
  BY <1>1, <1>3
<1>5. DOMAIN QueueOf(r, h, n) = 1 .. n
  BY DEF QueueOf
<1>6. Len(QueueOf(r, h, n)) = n
  BY <1>1, <1>4, <1>5, LenProperties
<1>7. QED BY <1>4, <1>6

\* A terminating job joins the queue at its end.
LEMMA FinishAppends ==
  ASSUME EngineInv, RingType', progress.active, NEW p, NEW outcome, FinishJob(p, outcome),
         p.operationId = progress.operationId, p.kind = progress.kind
  PROVE  /\ ResultQueue' = Append(ResultQueue, AsOperation(progress))
         /\ AdmittedOperation' = <<>>
<1> DEFINE tail == (resultHead + resultCount) % ResultCapacity
           r == [operationId |-> p.operationId, kind |-> p.kind, outcome |-> outcome,
                 effects |-> p.effects, configRevision |-> p.configRevision,
                 hasSampleBatch |-> p.kind = "ACQUIRE" /\ outcome = "SUCCESS"]
           item == AsOperation(progress)
<1>1. /\ resultHead \in 0 .. ResultCapacity - 1 /\ resultCount \in 0 .. ResultCapacity - 1
      /\ ResultCapacity \in Nat \ {0} /\ RingType
  BY DriverAssumption DEF EngineInv, TypeOK, RingType, SlotReserved
<1>2. tail \in 0 .. ResultCapacity - 1
  BY <1>1
<1>3. /\ results' = [results EXCEPT ![tail] = r] /\ resultCount' = resultCount + 1
      /\ resultHead' = resultHead
  BY <1>1 DEF FinishJob, ReserveResultSlot
<1>4. item = AsOperation(r)
  BY DEF AsOperation
<1>5. item \in Item
  <2>1. progress \in Job
    BY DEF EngineInv, TypeOK, JobType
  <2>2. QED BY <2>1 DEF Job, AsOperation, Item
<1>6. /\ ResultQueue \in Seq(Item) /\ Len(ResultQueue) = resultCount
      /\ ResultQueue' \in Seq(Item) /\ Len(ResultQueue') = resultCount + 1
  <2>1. /\ ResultQueue = QueueOf(results, resultHead, resultCount)
        /\ ResultQueue' = QueueOf(results', resultHead', resultCount')
    BY DEF ResultQueue, QueueOf, AsOperation
  <2>2. ResultQueue \in Seq(Item) /\ Len(ResultQueue) = resultCount
    BY <1>1, <2>1, QueueOfRing DEF RingType
  <2>3. ResultQueue' \in Seq(Item) /\ Len(ResultQueue') = resultCount'
    BY <2>1, QueueOfRing DEF RingType
  <2>4. QED BY <1>3, <2>2, <2>3
<1>7. ASSUME NEW k \in 1 .. resultCount + 1
      PROVE  ResultQueue'[k] = Append(ResultQueue, item)[k]
  <2>1. ResultQueue'[k] = AsOperation(results'[(resultHead + k - 1) % ResultCapacity])
    BY <1>3 DEF ResultQueue, AsOperation
  <2>2. CASE k = resultCount + 1
    <3>1. (resultHead + k - 1) % ResultCapacity = tail
      BY <1>1, <2>2
    <3>2. results'[tail] = r
      BY <1>1, <1>2, <1>3 DEF RingType
    <3>3. Append(ResultQueue, item)[k] = item
      BY <1>5, <1>6, <2>2, AppendProperties
    <3>4. QED BY <2>1, <3>1, <3>2, <3>3, <1>4
  <2>3. CASE k # resultCount + 1
    <3>1. k - 1 \in 0 .. ResultCapacity - 1 /\ k - 1 # resultCount /\ k \in 1 .. resultCount
      BY <1>1, <2>3
    <3>2. (resultHead + (k - 1)) % ResultCapacity # tail
      BY <1>1, <3>1, SlotsDiffer
    <3>3. resultHead + (k - 1) = resultHead + k - 1
      BY <1>1
    <3>4. results'[(resultHead + k - 1) % ResultCapacity]
            = results[(resultHead + k - 1) % ResultCapacity]
      <4> DEFINE slot == (resultHead + k - 1) % ResultCapacity
      <4>1. slot \in 0 .. ResultCapacity - 1 /\ slot # tail
        BY <1>1, <3>1, <3>2, <3>3
      <4> HIDE DEF slot, tail, r
      <4>2. results'[slot] = results[slot]
        BY <1>1, <1>3, <4>1 DEF RingType
      <4>3. QED BY <4>2 DEF slot
    <3>5. Append(ResultQueue, item)[k] = ResultQueue[k]
      BY <1>5, <1>6, <3>1, AppendProperties
    <3>6. QED BY <2>1, <3>1, <3>4, <3>5 DEF ResultQueue
  <2>4. QED BY <2>2, <2>3
<1>8. Append(ResultQueue, item) \in Seq(Item) /\ Len(Append(ResultQueue, item)) = resultCount + 1
  BY <1>5, <1>6, AppendProperties
<1>9. ResultQueue' = Append(ResultQueue, item)
  <2> HIDE DEF item
  <2>1. QED BY <1>6, <1>7, <1>8, SeqEqual
<1>10. AdmittedOperation' = <<>>
  BY DEF FinishJob, ClearActiveJob, NoJob, AdmittedOperation
<1>11. QED BY <1>9, <1>10

\* takeResult() takes the oldest result and only that.
LEMMA TakeTakesOldest ==
  ASSUME EngineInv, RingType', TakeResult
  PROVE  ResultQueue # <<>> /\ ResultQueue' = Tail(ResultQueue)
<1>1. /\ resultHead \in 0 .. ResultCapacity - 1 /\ resultCount \in 1 .. ResultCapacity
      /\ ResultCapacity \in Nat \ {0} /\ RingType
  BY DriverAssumption DEF EngineInv, TypeOK, RingType, TakeResult
<1>2. /\ results' = [results EXCEPT ![resultHead] = NoResult]
      /\ resultHead' = (resultHead + 1) % ResultCapacity /\ resultCount' = resultCount - 1
  BY DEF TakeResult
<1>3. /\ ResultQueue \in Seq(Item) /\ Len(ResultQueue) = resultCount
      /\ ResultQueue' \in Seq(Item) /\ Len(ResultQueue') = resultCount - 1
  <2>1. /\ ResultQueue = QueueOf(results, resultHead, resultCount)
        /\ ResultQueue' = QueueOf(results', resultHead', resultCount')
    BY DEF ResultQueue, QueueOf, AsOperation
  <2>2. QED BY <1>1, <1>2, <2>1, QueueOfRing DEF RingType
<1>4. ResultQueue # <<>>
  BY <1>1, <1>3
<1>5. /\ Tail(ResultQueue) \in Seq(Item) /\ Len(Tail(ResultQueue)) = resultCount - 1
      /\ \A k \in 1 .. resultCount - 1 : Tail(ResultQueue)[k] = ResultQueue[k + 1]
  BY <1>1, <1>3, <1>4, HeadTailProperties
<1>6. ASSUME NEW k \in 1 .. resultCount - 1
      PROVE  ResultQueue'[k] = Tail(ResultQueue)[k]
  <2> DEFINE slot == (resultHead + k) % ResultCapacity
  <2>1. /\ k - 1 \in 0 .. ResultCapacity - 1 /\ k \in 0 .. ResultCapacity - 1 /\ k # 0
        /\ k + 1 \in 1 .. resultCount
    BY <1>1
  <2>2. (resultHead' + (k - 1)) % ResultCapacity = slot
    <3>1. (resultHead' + (k - 1)) % ResultCapacity = (resultHead + ((k - 1) + 1)) % ResultCapacity
      BY <1>1, <1>2, <2>1, NextHead
    <3>2. QED BY <3>1, <2>1
  <2>3. slot \in 0 .. ResultCapacity - 1 /\ slot # resultHead
    <3>1. (resultHead + 0) % ResultCapacity # slot
      BY <1>1, <2>1, SlotsDiffer
    <3>2. (resultHead + 0) % ResultCapacity = resultHead
      BY <1>1, RingPosition
    <3>3. QED BY <1>1, <2>1, <3>1, <3>2
  <2>4. ResultQueue'[k] = AsOperation(results'[slot])
    <3>1. ResultQueue'[k] = AsOperation(results'[(resultHead' + k - 1) % ResultCapacity])
      BY <1>2 DEF ResultQueue, AsOperation
    <3>2. resultHead' + k - 1 = resultHead' + (k - 1)
      BY <1>1, <1>2, <2>1
    <3>3. QED BY <2>2, <3>1, <3>2
  <2>5. results'[slot] = results[slot]
    <3> HIDE DEF slot
    <3>1. QED BY <1>1, <1>2, <2>3 DEF RingType
  <2>6. ResultQueue[k + 1] = AsOperation(results[slot])
    <3>1. resultHead + (k + 1) - 1 = resultHead + k
      BY <1>1, <2>1
    <3>2. QED BY <2>1, <3>1 DEF ResultQueue, AsOperation
  <2>7. QED BY <1>5, <2>4, <2>5, <2>6
<1>7. QED
  BY <1>1, <1>3, <1>4, <1>5, <1>6, SeqEqual

-----------------------------------------------------------------------------
(* The kinds of steps the driver makes, and the ledger's steps they are.   *)

LedgerStep == Ledger!LedgerNext \/ UNCHANGED <<AdmittedOperation, ResultQueue>>

SameOperation(p) ==
  p.active = progress.active /\ p.operationId = progress.operationId /\ p.kind = progress.kind

\* A step that neither begins nor ends a job nor touches the ring.
LEMMA QuietStep ==
  ASSUME UNCHANGED ringVars, SameOperation(progress')
  PROVE  LedgerStep
<1>1. ResultQueue' = ResultQueue
  BY DEF ResultQueue, ringVars, AsOperation
<1>2. AdmittedOperation' = AdmittedOperation
  BY DEF AdmittedOperation, AsOperation, SameOperation
<1> QED BY <1>1, <1>2 DEF LedgerStep

\* A start operation admits what it is asked to, under a free identity.
LEMMA StartStep ==
  ASSUME EngineInv, NEW kind \in JobKind, NEW channels, NEW id \in OperationIds, NEW deadline,
         StartJob(kind, channels, id, deadline)
  PROVE  LedgerStep
<1>1. /\ resultHead \in 0 .. ResultCapacity - 1 /\ resultCount \in 0 .. ResultCapacity - 1
      /\ ResultCapacity \in Nat \ {0} /\ RingType
  BY DriverAssumption DEF EngineInv, TypeOK, RingType, StartJob, ReserveResultSlot
<1>2. ResultQueue \in Seq(Item) /\ Len(ResultQueue) = resultCount
  <2>1. ResultQueue = QueueOf(results, resultHead, resultCount)
    BY DEF ResultQueue, QueueOf, AsOperation
  <2>2. QED BY <1>1, <2>1, QueueOfRing DEF RingType
<1>3. ASSUME NEW k \in 1 .. Len(ResultQueue) PROVE ResultQueue[k].operationId # id
  <2>1. k \in 1 .. resultCount /\ k - 1 \in 0 .. resultCount - 1
    BY <1>1, <1>2
  <2>2. results[(resultHead + (k - 1)) % ResultCapacity].operationId # id
    BY <2>1 DEF StartJob, OperationIdInUse
  <2>3. resultHead + (k - 1) = resultHead + k - 1
    BY <1>1, <2>1
  <2>4. QED BY <2>1, <2>2, <2>3 DEF ResultQueue, AsOperation
<1>4. AdmittedOperation = <<>>
  BY DEF StartJob, AdmittedOperation
<1>5. AdmittedOperation' = <<[operationId |-> id, kind |-> kind]>>
  BY DEF StartJob, AdmittedOperation, AsOperation, NoJob
<1>6. ResultQueue' = ResultQueue
  BY DEF StartJob, ResultQueue, ringVars, AsOperation
<1>7. Len(ResultQueue) < ResultCapacity
  BY <1>1, <1>2
<1>8. Ledger!Admit(id, kind)
  BY <1>3, <1>4, <1>5, <1>6, <1>7 DEF Ledger!Admit
<1> QED BY <1>8 DEF LedgerStep, Ledger!LedgerNext

\* A job that ends, however it does, moves to the end of the queue.
LEMMA FinishStep ==
  ASSUME EngineInv, EngineInv', progress.active, NEW p, SameOperation(p), NEW outcome,
         FinishJob(p, outcome)
  PROVE  LedgerStep
<1>1. RingType'
  BY DEF EngineInv, TypeOK
<1>2. ResultQueue' = Append(ResultQueue, AsOperation(progress)) /\ AdmittedOperation' = <<>>
  BY <1>1, FinishAppends DEF SameOperation
<1>3. AdmittedOperation = <<AsOperation(progress)>>
  BY DEF AdmittedOperation
<1>4. AdmittedOperation # <<>> /\ AdmittedOperation[1] = AsOperation(progress)
  BY <1>3
<1>5. Ledger!Terminate
  BY <1>2, <1>4 DEF Ledger!Terminate
<1> QED BY <1>5 DEF LedgerStep, Ledger!LedgerNext

\* bind() and end() give up what is pending.
LEMMA ForgetStep ==
  ASSUME EngineInv', ForgetEverything
  PROVE  LedgerStep
<1>1. AdmittedOperation' = <<>>
  BY DEF ForgetEverything, ClearActiveJob, NoJob, AdmittedOperation
<1>2. ResultQueue' \in Seq(Item) /\ Len(ResultQueue') = 0
  <2>1. ResultQueue' = QueueOf(results', resultHead', resultCount') /\ resultCount' = 0
    BY DEF ResultQueue, QueueOf, AsOperation, ForgetEverything
  <2>2. RingType'
    BY DEF EngineInv, TypeOK
  <2>3. ResultQueue' \in Seq(Item) /\ Len(ResultQueue') = resultCount'
    BY <2>1, <2>2, QueueOfRing DEF RingType
  <2>4. QED BY <2>1, <2>3
<1>3. ResultQueue' = <<>>
  BY <1>2, EmptySeq
<1>4. Ledger!Abandon
  BY <1>1, <1>3 DEF Ledger!Abandon
<1> QED BY <1>4 DEF LedgerStep, Ledger!LedgerNext

\* takeResult() is the ledger's Take.
LEMMA TakeStep ==
  ASSUME EngineInv, EngineInv', TakeResult
  PROVE  LedgerStep
<1>1. RingType'
  BY DEF EngineInv, TypeOK
<1>2. ResultQueue # <<>> /\ ResultQueue' = Tail(ResultQueue)
  BY <1>1, TakeTakesOldest
<1>3. AdmittedOperation' = AdmittedOperation
  BY DEF TakeResult, jobVars, AdmittedOperation, AsOperation
<1>4. Ledger!Take
  BY <1>2, <1>3 DEF Ledger!Take
<1> QED BY <1>4 DEF LedgerStep, Ledger!LedgerNext

-----------------------------------------------------------------------------
(* The callbacks of a job go on with it or end it.                         *)

\* Counting a transfer, and noting its effects, leaves the job the same.
LEMMA NotedIsSame ==
  ASSUME EngineInv, pollCall.active, NEW effects, NEW phase, NEW ch, NEW channels
  PROVE  /\ SameOperation(Counted)
         /\ SameOperation([Counted EXCEPT !.effects = effects])
         /\ SameOperation([Counted EXCEPT !.phase = phase])
         /\ SameOperation([Counted EXCEPT !.effects = effects, !.phase = phase])
         /\ SameOperation([[Counted EXCEPT !.effects = effects] EXCEPT !.phase = phase])
         /\ SameOperation([[Counted EXCEPT !.effects = effects]
                              EXCEPT !.phase = phase, !.channel = ch])
         /\ SameOperation([[Counted EXCEPT !.effects = effects]
                              EXCEPT !.channel = ch, !.phase = phase])
         /\ SameOperation([[Counted EXCEPT !.completedChannels = channels]
                              EXCEPT !.channel = ch, !.phase = phase])
<1>1. progress \in Job
  BY CallOfActiveJob
<1> QED BY <1>1 DEF SameOperation, Counted, Job

\* A callback that ends its job, or goes on with it.
LEMMA CallbackStep ==
  ASSUME EngineInv, EngineInv', pollCall.active, NEW p, SameOperation(p),
         ContinueTransfer(p) \/ \E outcome : FinishTransfer(p, outcome)
  PROVE  LedgerStep
<1>1. CASE ContinueTransfer(p)
  <2>1. UNCHANGED ringVars /\ progress' = p
    BY <1>1 DEF ContinueTransfer
  <2>2. QED BY <2>1, QuietStep
<1>2. ASSUME NEW outcome, FinishTransfer(p, outcome) PROVE LedgerStep
  <2>1. FinishJob(p, outcome) /\ progress.active
    BY <1>2, CallOfActiveJob DEF FinishTransfer
  <2>2. QED BY <2>1, FinishStep
<1> QED BY <1>1, <1>2

\* The callbacks of a configuration job.
LEMMA ConfigurationStep ==
  ASSUME EngineInv, EngineInv', NEW status, NEW matches,
         WriteReset(status) \/ ReadIdentity(status, matches) \/ WriteConfiguration(status)
  PROVE  LedgerStep
<1>1. pollCall.active
  BY DEF WriteReset, AtReset, ReadIdentity, AtIdentity, WriteConfiguration, AtApply
<1>2. ASSUME NEW w, NEW untrusted, FailWrite(status, w, untrusted) PROVE LedgerStep
  <2> DEFINE p == [Counted EXCEPT !.effects = @ \cup
                     IF TransferFailureMayHaveReachedDevice(status) THEN {"INDETERMINATE_WRITE"} ELSE {}]
  <2>1. FinishTransfer(p, "FAILED")
    BY <1>2 DEF FailWrite
  <2>2. SameOperation(p)
    BY <1>1, NotedIsSame
  <2> HIDE DEF p
  <2>3. QED BY <1>1, <2>1, <2>2, CallbackStep
<1> DEFINE written == [Counted EXCEPT !.effects = @ \cup {"PARTIAL_WRITE"}]
<1>3. CASE WriteReset(status)
  <2> DEFINE p == [Counted EXCEPT !.effects = @ \cup {"PARTIAL_WRITE"}, !.phase = "VERIFY_MANUFACTURER"]
  <2>1. ContinueTransfer(p) \/ FailWrite(status, ResetWrite, "UNKNOWN")
    BY <1>3 DEF WriteReset
  <2>2. SameOperation(p)
    BY <1>1, NotedIsSame
  <2> HIDE DEF p
  <2>3. QED BY <1>1, <1>2, <2>1, <2>2, CallbackStep
<1>4. CASE ReadIdentity(status, matches)
  <2>1. \/ \E phase : ContinueTransfer([Counted EXCEPT !.phase = phase])
        \/ FinishTransfer(Counted, "FAILED")
    BY <1>4 DEF ReadIdentity
  <2>2. CASE FinishTransfer(Counted, "FAILED")
    BY <1>1, <2>2, NotedIsSame, CallbackStep
  <2>3. ASSUME NEW phase, ContinueTransfer([Counted EXCEPT !.phase = phase]) PROVE LedgerStep
    <3> DEFINE p == [Counted EXCEPT !.phase = phase]
    <3>1. SameOperation(p)
      BY <1>1, NotedIsSame
    <3>2. ContinueTransfer(p)
      BY <2>3
    <3> HIDE DEF p
    <3>3. QED BY <1>1, <3>1, <3>2, CallbackStep
  <2>4. QED BY <2>1, <2>2, <2>3
<1>5. CASE WriteConfiguration(status)
  <2> DEFINE next == ConfigWriteAt(ChannelCount, jobStep - ApplyOffset(progress.kind) + 1)
             p == [written EXCEPT !.phase = next.phase, !.channel = next.channel]
  <2>1. \/ FinishTransfer(written, "SUCCESS") \/ ContinueTransfer(p)
        \/ FailWrite(status, ApplyWrite, "DIRTY")
    BY <1>5 DEF WriteConfiguration
  <2>2. SameOperation(written) /\ SameOperation(p)
    BY <1>1, NotedIsSame
  <2> HIDE DEF p, written
  <2>3. QED BY <1>1, <1>2, <2>1, <2>2, CallbackStep
<1> QED BY <1>3, <1>4, <1>5

\* The callbacks of an acquisition.
LEMMA AcquisitionStep ==
  ASSUME EngineInv, EngineInv', NEW status,
         \/ ReadStatusBefore(status) \/ ReadDataMsb(status)
         \/ ReadDataLsb(status) \/ ReadStatusAfter(status)
  PROVE  LedgerStep
<1>1. pollCall.active
  BY DEF ReadStatusBefore, ReadDataMsb, ReadDataLsb, ReadStatusAfter, AtRead
<1> DEFINE q == WithReadEffect(Counted)
           begun == AdvanceAcquire(q, NoChannel)
           half == [q EXCEPT !.phase = "READ_DATA_LSB"]
           whole == AdvanceAcquire([Counted EXCEPT !.completedChannels = @ \cup {progress.channel}],
                                   progress.channel)
<1>2. \/ ContinueTransfer(begun) \/ ContinueTransfer(half) \/ ContinueTransfer(whole)
      \/ \E outcome : FinishTransfer(q, outcome) \/ FinishTransfer(Counted, outcome)
  BY DEF ReadStatusBefore, ReadDataMsb, ReadDataLsb, ReadStatusAfter
<1>3. SameOperation(Counted) /\ SameOperation(q) /\ SameOperation(half)
  BY <1>1, NotedIsSame DEF WithReadEffect
<1>4. SameOperation(begun) /\ SameOperation(whole)
  BY <1>1, NotedIsSame DEF WithReadEffect, AdvanceAcquire
<1> HIDE DEF q, begun, half, whole
<1> QED BY <1>1, <1>2, <1>3, <1>4, CallbackStep

-----------------------------------------------------------------------------
(* The theorems.                                                           *)

\* Every step of the driver is one of the ledger, or leaves it alone.
LEMMA NextLedger ==
  ASSUME EngineInv, EngineInv', [Next]_vars
  PROVE  LedgerStep
<1>1. ASSUME UNCHANGED progress, UNCHANGED ringVars PROVE LedgerStep
  BY <1>1, QuietStep DEF SameOperation
<1>2. CASE Owner
  <2>1. ASSUME NEW c \in Profiles, Bind(c) \/ UpdateDesiredConfig(c) PROVE LedgerStep
    BY <1>1, <2>1, ForgetStep DEF Bind, UpdateDesiredConfig, jobVars
  <2>2. CASE End \/ TakeResult
    BY <2>2, ForgetStep, TakeStep DEF End
  <2>3. ASSUME progress.active, NEW outcome, FinishJob(progress, outcome) PROVE LedgerStep
    BY <2>3, FinishStep DEF SameOperation
  <2>4. CASE CancelJob
    BY <2>3, <2>4 DEF CancelJob, AbandonJob
  <2>5. CASE InvalidateAppliedState
    BY <1>1, <2>3, <2>5 DEF InvalidateAppliedState, jobVars
  <2>6. ASSUME NEW id \in OperationIds, NEW d \in Deadlines,
               StartInitialize(id, d) \/ StartApplyConfig(id, d) \/ StartResetAndReapply(id, d)
        PROVE  LedgerStep
    BY <2>6, StartStep
    DEF StartInitialize, StartApplyConfig, StartResetAndReapply, JobKind
  <2>7. ASSUME NEW id \in OperationIds, NEW d \in Deadlines,
               NEW channels \in SUBSET ChannelIndex, StartAcquire(channels, id, d)
        PROVE  LedgerStep
    BY <2>7, StartStep DEF StartAcquire, JobKind
  <2> QED
    BY <1>2, <2>1, <2>2, <2>4, <2>5, <2>6, <2>7 DEF Owner
<1>3. CASE Poll
  <2>1. ASSUME NEW now \in Times, PollTimeout(now) PROVE LedgerStep
    BY <2>1, FinishStep DEF PollTimeout, AbandonJob, SameOperation
  <2>2. ASSUME NEW now \in Times, NEW max \in 1 .. MaxTransferBudget, PollBegin(now, max)
        PROVE  LedgerStep
    BY <1>1, <2>2 DEF PollBegin, jobVars
  <2> QED
    BY <1>3, <2>1, <2>2 DEF Poll
<1>4. CASE Transfer
  <2>1. ASSUME NEW status \in TransferStatus, DirectTransfer(status) PROVE LedgerStep
    BY <1>1, <2>1 DEF DirectTransfer, Sleep, Wake, DirectConfigWrite, WriteRegister16, jobVars
  <2>2. ASSUME NEW status \in TransferStatus, NEW matches \in BOOLEAN,
               JobTransfer(status, matches)
        PROVE  LedgerStep
    BY <2>2, ConfigurationStep, AcquisitionStep DEF JobTransfer
  <2> QED
    BY <1>4, <2>1, <2>2 DEF Transfer
<1>5. CASE UNCHANGED vars
  BY <1>1, <1>5 DEF vars, jobVars
<1> QED
  BY <1>2, <1>3, <1>4, <1>5 DEF Next

\* A constructed driver has an empty ledger.
LEMMA InitLedger == Init => Ledger!LedgerInit
<1> SUFFICES ASSUME Init PROVE Ledger!LedgerInit
  OBVIOUS
<1>1. RingType
  BY InitEngine DEF EngineInv, TypeOK
<1>2. ResultQueue = QueueOf(results, resultHead, resultCount) /\ resultCount = 0
  BY DEF ResultQueue, QueueOf, AsOperation, Init
<1>3. ResultQueue \in Seq(Item) /\ Len(ResultQueue) = 0
  BY <1>1, <1>2, QueueOfRing DEF RingType
<1>4. ResultQueue = <<>>
  BY <1>3, EmptySeq
<1>5. AdmittedOperation = <<>>
  BY DEF Init, NoJob, AdmittedOperation
<1> QED BY <1>4, <1>5 DEF Ledger!LedgerInit

\* Whatever the owner calls and the transport answers, admitted operations
\* terminate once, into a queue from which they are taken in order: the
\* driver's ring and job implement the ledger.
THEOREM DriverImplementsLedger == Spec => ImplementsLedger
<1>1. EngineInv /\ EngineInv' /\ [Next]_vars => [Ledger!LedgerNext]_(Ledger!ledger)
  BY NextLedger DEF LedgerStep, Ledger!ledger
<1> QED
  BY <1>1, InitLedger, EngineInvariant, PTL DEF Spec, ImplementsLedger, Ledger!LedgerSpec

-----------------------------------------------------------------------------
(* Identities: what the ledger promises of them.                           *)

\* No two operations of a queue q and an admitted one a share an identity.
Unique(q, a) ==
  /\ \A j, k \in 1 .. Len(q) : j # k => q[j].operationId # q[k].operationId
  /\ a # <<>> => \A k \in 1 .. Len(q) : q[k].operationId # a[1].operationId

\* Every step of the ledger keeps it so.
LEMMA LedgerKeepsUnique ==
  ASSUME EngineInv, EngineInv', LedgerStep, Unique(ResultQueue, AdmittedOperation)
  PROVE  Unique(ResultQueue, AdmittedOperation)'
<1>1. /\ ResultQueue = QueueOf(results, resultHead, resultCount)
      /\ ResultQueue' = QueueOf(results', resultHead', resultCount')
  BY DEF ResultQueue, QueueOf, AsOperation
<1>2. RingType /\ RingType'
  BY DEF EngineInv, TypeOK
<1>3. ResultQueue \in Seq(Item) /\ ResultQueue' \in Seq(Item)
  BY <1>1, <1>2, QueueOfRing DEF RingType
<1>4. Len(ResultQueue) \in Nat
  BY <1>3, LenProperties
<1>5. ASSUME NEW id, NEW kind, Ledger!Admit(id, kind)
      PROVE  Unique(ResultQueue, AdmittedOperation)'
  <2>1. AdmittedOperation' # <<>> /\ AdmittedOperation'[1].operationId = id
    BY <1>5 DEF Ledger!Admit
  <2>2. ResultQueue' = ResultQueue /\ \A k \in 1 .. Len(ResultQueue) : ResultQueue[k].operationId # id
    BY <1>5 DEF Ledger!Admit
  <2>3. QED BY <2>1, <2>2 DEF Unique
<1>6. CASE Ledger!Terminate
  <2> DEFINE item == AdmittedOperation[1]
  <2>1. /\ AdmittedOperation # <<>> /\ AdmittedOperation' = <<>>
        /\ ResultQueue' = Append(ResultQueue, item)
    BY <1>6 DEF Ledger!Terminate
  <2>2. item \in Item
    <3>1. progress \in Job /\ progress.active
      BY <2>1 DEF EngineInv, TypeOK, JobType, AdmittedOperation
    <3>2. QED BY <3>1 DEF AdmittedOperation, AsOperation, Job, Item
  <2> HIDE DEF item
  <2>3. /\ Len(ResultQueue') = Len(ResultQueue) + 1
        /\ \A k \in 1 .. Len(ResultQueue) : ResultQueue'[k] = ResultQueue[k]
        /\ ResultQueue'[Len(ResultQueue) + 1] = item
    BY <1>3, <1>4, <2>1, <2>2, AppendProperties
  <2>4. \A k \in 1 .. Len(ResultQueue) : ResultQueue[k].operationId # item.operationId
    BY <2>1 DEF Unique, item
  <2>5. ASSUME NEW j \in 1 .. Len(ResultQueue'), NEW k \in 1 .. Len(ResultQueue'), j # k
        PROVE  ResultQueue'[j].operationId # ResultQueue'[k].operationId
    <3>1. CASE j \in 1 .. Len(ResultQueue) /\ k \in 1 .. Len(ResultQueue)
      BY <2>3, <2>5, <3>1 DEF Unique
    <3>2. CASE j = Len(ResultQueue) + 1
      BY <1>4, <2>3, <2>4, <2>5, <3>2
    <3>3. CASE k = Len(ResultQueue) + 1
      BY <1>4, <2>3, <2>4, <2>5, <3>3
    <3>4. QED BY <1>4, <2>3, <3>1, <3>2, <3>3
  <2>6. QED BY <2>1, <2>5 DEF Unique
<1>7. CASE Ledger!Take
  <2>1. ResultQueue # <<>> /\ ResultQueue' = Tail(ResultQueue) /\ AdmittedOperation' = AdmittedOperation
    BY <1>7 DEF Ledger!Take
  <2>2. /\ Len(ResultQueue) \in Nat \ {0} /\ Len(ResultQueue') = Len(ResultQueue) - 1
        /\ \A k \in 1 .. Len(ResultQueue) - 1 : ResultQueue'[k] = ResultQueue[k + 1]
    BY <1>3, <1>4, <2>1, EmptySeq, HeadTailProperties
  <2>3. ASSUME NEW k \in 1 .. Len(ResultQueue')
        PROVE  k + 1 \in 1 .. Len(ResultQueue) /\ ResultQueue'[k] = ResultQueue[k + 1]
    BY <2>2
  <2>4. ASSUME NEW j \in 1 .. Len(ResultQueue'), NEW k \in 1 .. Len(ResultQueue'), j # k
        PROVE  ResultQueue'[j].operationId # ResultQueue'[k].operationId
    <3>1. j + 1 # k + 1
      BY <2>2, <2>4
    <3>2. QED BY <2>3, <3>1 DEF Unique
  <2>5. ASSUME AdmittedOperation' # <<>>, NEW k \in 1 .. Len(ResultQueue')
        PROVE  ResultQueue'[k].operationId # AdmittedOperation'[1].operationId
    BY <2>1, <2>3, <2>5 DEF Unique
  <2>6. QED BY <2>4, <2>5 DEF Unique
<1>8. CASE Ledger!Abandon
  BY <1>8, EmptySeq DEF Ledger!Abandon, Unique
<1>9. CASE UNCHANGED <<AdmittedOperation, ResultQueue>>
  BY <1>9 DEF Unique
<1> QED BY <1>5, <1>6, <1>7, <1>8, <1>9 DEF LedgerStep, Ledger!LedgerNext

\* As many identities are pending as there are results to take.
LEMMA UniqueMeansIdentitiesUnique ==
  ASSUME EngineInv, Unique(ResultQueue, AdmittedOperation)
  PROVE  IdentitiesUnique
<1> DEFINE n == resultCount
           f == [k \in 1 .. n |-> ResultQueue[k].operationId]
<1>1. RingType /\ n \in Nat /\ resultHead \in Nat
  BY DriverAssumption DEF EngineInv, TypeOK, RingType
<1>2. Len(ResultQueue) = n
  <2>1. ResultQueue = QueueOf(results, resultHead, resultCount)
    BY DEF ResultQueue, QueueOf, AsOperation
  <2>2. QED BY <1>1, <2>1, QueueOfRing DEF RingType
<1>3. ASSUME NEW k \in 1 .. n
      PROVE  /\ f[k] = results[(resultHead + (k - 1)) % ResultCapacity].operationId
             /\ k - 1 \in 0 .. n - 1
  <2>1. resultHead + k - 1 = resultHead + (k - 1)
    BY <1>1
  <2>2. QED BY <1>1, <2>1 DEF ResultQueue, AsOperation
<1>4. \A k \in 0 .. n - 1 :
        /\ k + 1 \in 1 .. n
        /\ f[k + 1] = results[(resultHead + k) % ResultCapacity].operationId
  <2> SUFFICES ASSUME NEW k \in 0 .. n - 1
               PROVE  /\ k + 1 \in 1 .. n
                      /\ f[k + 1] = results[(resultHead + k) % ResultCapacity].operationId
    OBVIOUS
  <2>1. k + 1 \in 1 .. n /\ (k + 1) - 1 = k
    BY <1>1
  <2>2. QED BY <1>3, <2>1
<1>5. \A k \in 1 .. n : f[k] \in PendingIds
  BY <1>3 DEF PendingIds
<1>6. \A id \in PendingIds : \E k \in 1 .. n : f[k] = id
  BY <1>4 DEF PendingIds
<1>7. \A j, k \in 1 .. n : f[j] = f[k] => j = k
  BY <1>2 DEF Unique
<1>8. f \in [1 .. n -> PendingIds]
  BY <1>5
<1>9. \A id \in PendingIds : progress.active => progress.operationId # id
  <2>1. progress.active => \A k \in 1 .. n : f[k] # progress.operationId
    <3>1. progress.active => AdmittedOperation # <<>> /\ AdmittedOperation[1].operationId = progress.operationId
      BY DEF AdmittedOperation, AsOperation
    <3>2. QED BY <1>2, <3>1 DEF Unique
  <2>2. QED BY <1>6, <2>1
<1> HIDE DEF f
<1>10. f \in Bijection(1 .. n, PendingIds)
  BY <1>6, <1>7, <1>8 DEF Bijection, Injection, Surjection, IsInjective
<1>11. ExistsBijection(1 .. n, PendingIds)
  BY <1>10 DEF ExistsBijection
<1>12. IsFiniteSet(1 .. n) /\ Cardinality(1 .. n) = n
  BY <1>1, FS_Interval
<1>13. Cardinality(PendingIds) = n
  BY <1>11, <1>12, FS_Bijection
<1> QED BY <1>9, <1>13 DEF IdentitiesUnique

\* A new operation is only ever told from those whose results wait by its
\* identity: no two of them, and no waiting one and the active one, share it.
THEOREM IdentitiesStayUnique == Spec => []IdentitiesUnique
<1> DEFINE Inv == EngineInv /\ Unique(ResultQueue, AdmittedOperation)
<1>1. Init => Inv
  BY InitEngine, InitLedger, EmptySeq DEF Ledger!LedgerInit, Unique
<1>2. Inv /\ [Next]_vars => Inv'
  BY NextEngine, NextLedger, LedgerKeepsUnique
<1>3. Inv => IdentitiesUnique
  BY UniqueMeansIdentitiesUnique
<1> QED
  BY <1>1, <1>2, <1>3, PTL DEF Spec
=============================================================================
