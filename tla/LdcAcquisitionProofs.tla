------------------------- MODULE LdcAcquisitionProofs -------------------------
(***************************************************************************)
(* The evidence of an acquisition, for every value of the constants: any   *)
(* channels, conversions at any moment, reads that fail with or without    *)
(* their side effects, and jobs that are abandoned half way.               *)
(***************************************************************************)
EXTENDS LdcAcquisition, LdcDriverProofs

-----------------------------------------------------------------------------
(* Types.                                                                  *)

ConversionKind == [raw : Raw, data : SUBSET DataFlags, status : SUBSET StatusFlags]
Conversion == [number : Nat, kind : ConversionKind, flags : SUBSET DataFlags]
Sample == [msb : Conversion, lsb : Conversion, quality : SUBSET DataFlags]
DecodedStatus ==
  [unread : SUBSET ChannelIndex, errors : SUBSET StatusFlags, errorChannel : Channel]

EvidenceType ==
  /\ live \in [ChannelIndex -> Conversion] /\ shadow \in [ChannelIndex -> Conversion]
  /\ unread \subseteq ChannelIndex
  /\ sticky \in [errors : SUBSET StatusFlags, dataReady : BOOLEAN, channel : Channel]
ScratchType ==
  scratch \in [statusBefore : DecodedStatus, msb : Conversion, samples : [ChannelIndex -> Sample]]
BuildType ==
  /\ ScratchType /\ converted \in Nat /\ reported \subseteq Nat
  /\ DOMAIN batches = 0 .. ResultCapacity - 1

-----------------------------------------------------------------------------
(* The inductive invariant.                                                *)

\* Only acquisitions run, and only on a bound driver.
OnlyAcquisitions == bound /\ (progress.active => progress.kind = "ACQUIRE")

\* A conversion of the device that no batch has reported and no read touched.
Unreported(v) == v.number > 0 /\ v.number \notin reported /\ v.flags = v.kind.data

\* The channels whose pair the job has latched, and the conversion it holds,
\* or would find, of a channel.
Latched == progress.completedChannels
             \cup {ch \in {progress.channel} : progress.phase = "READ_DATA_LSB"}
Held(ch) == IF ch \in progress.completedChannels THEN scratch.samples[ch].msb
            ELSE IF ch \in Latched THEN scratch.msb ELSE live[ch]

\* Conversions are numbered in order.
NumbersInOrder ==
  /\ reported \subseteq 0 .. converted
  /\ \A ch \in ChannelIndex : live[ch].number <= converted
                              /\ scratch.samples[ch].msb.number <= converted
  /\ scratch.msb.number <= converted

\* A sample was read from one latched pair, and its quality at the first read.
SamplesAreWhole ==
  /\ \A ch \in ChannelIndex : LET s == scratch.samples[ch]
                              IN  s.msb = s.lsb /\ s.quality = s.msb.flags
  /\ progress.active /\ progress.phase = "READ_DATA_LSB" => scratch.msb = shadow[progress.channel]

\* What STATUS calls unread is news, and so is what the job holds of the
\* channels that the opening STATUS called unread, however long ago.
UnreadIsNews == \A ch \in unread : Unreported(live[ch])
FreshIsNews ==
  progress.active /\ progress.phase # "READ_STATUS_BEFORE" =>
    \A ch \in scratch.statusBefore.unread \cap progress.requestedChannels : Unreported(Held(ch))

\* A latched channel is unread again exactly when it has converted again.
LostIsUnread ==
  progress.active =>
    \A ch \in Latched : ch \in unread <=> live[ch].number # Held(ch).number

\* The job owns up to its reads as soon as one may have taken effect.
TouchesAreAdmitted ==
  progress.active /\ (touched \/ progress.phase # "READ_STATUS_BEFORE")
    => "READ_SIDE_EFFECTS" \in progress.effects

EvidenceConjuncts ==
  /\ EvidenceType /\ BuildType /\ OnlyAcquisitions
  /\ NumbersInOrder /\ SamplesAreWhole /\ UnreadIsNews /\ FreshIsNews /\ LostIsUnread
  /\ TouchesAreAdmitted /\ CoherentPairs
AcquisitionInv == EngineInv /\ config \in Profiles /\ EvidenceConjuncts

-----------------------------------------------------------------------------
(* The pieces of a step.                                                   *)

\* What the driver starts from, and returns to, is well typed.
LEMMA ClearedTypes ==
  /\ Cleared \in Conversion /\ NoSample \in Sample
  /\ NoScratch.msb = Cleared /\ \A ch \in ChannelIndex : NoScratch.samples[ch] = NoSample
  /\ NoScratch \in [statusBefore : DecodedStatus, msb : Conversion, samples : [ChannelIndex -> Sample]]
  /\ NoEvent \in [errors : SUBSET StatusFlags, dataReady : BOOLEAN, channel : Channel]
<1>1. Cleared \in Conversion
  BY DEF Cleared, Conversion, ConversionKind, Raw
<1>2. NoSample \in Sample
  BY <1>1 DEF NoSample, Sample
<1>3. NoChannel \in Channel
  BY DEF Channel
<1>4. NoStatus \in DecodedStatus
  BY <1>3 DEF NoStatus, DecodedStatus
<1> QED
  BY <1>1, <1>2, <1>3, <1>4 DEF NoScratch, NoEvent

\* Whatever comes of a read, it only consumes evidence: a channel that is still
\* unread keeps its conversion and its flags, and no channel gets a new one.
LEMMA ReadConsumes ==
  ASSUME EvidenceType, NEW reg \in {"STATUS", "DATA_MSB", "DATA_LSB"}, NEW ch,
         reg # "STATUS" => ch \in ChannelIndex, NEW status, NEW byJob,
         BusRead(reg, ch, status, byJob)
  PROVE  /\ EvidenceType' /\ UNCHANGED converted
         /\ unread' \subseteq unread /\ \A c \in unread' : live'[c] = live[c]
         /\ \A c \in ChannelIndex : live'[c].number = live[c].number
         /\ status = "OK" => ReadEffect(reg, ch)
         /\ touched' = touched \/ (touched' = (touched \/ byJob) /\ status # "I2C_NACK_ADDR")
<1>1. CASE UNCHANGED evidenceVars
  BY <1>1 DEF BusRead, EvidenceType, evidenceVars
<1>2. CASE ReadEffect(reg, ch)
  <2>1. CASE reg = "STATUS"
    BY <1>2, <2>1, ClearedTypes DEF BusRead, ReadEffect, EvidenceType, evidenceVars
  <2>2. CASE reg = "DATA_MSB"
    <3>1. /\ shadow' = [shadow EXCEPT ![ch] = live[ch]]
          /\ live' = [live EXCEPT ![ch] = [live[ch] EXCEPT !.flags = {}]]
          /\ unread' = unread \ {ch} /\ sticky' \in {NoEvent, sticky}
      BY <1>2, <2>2 DEF ReadEffect
    <3>2. /\ [live[ch] EXCEPT !.flags = {}] \in Conversion
          /\ [live[ch] EXCEPT !.flags = {}].number = live[ch].number
      BY <2>2 DEF EvidenceType, Conversion
    <3>3. EvidenceType'
      BY <2>2, <3>1, <3>2, ClearedTypes DEF EvidenceType
    <3>4. \A c \in ChannelIndex : /\ live'[c].number = live[c].number
                                  /\ c # ch => live'[c] = live[c]
      BY <2>2, <3>1, <3>2 DEF EvidenceType
    <3> QED
      BY <1>2, <3>1, <3>3, <3>4 DEF BusRead, EvidenceType, evidenceVars
  <2>3. CASE reg = "DATA_LSB"
    BY <1>1, <1>2, <2>3 DEF ReadEffect
  <2> QED
    BY <2>1, <2>2, <2>3
<1> QED
  BY <1>1, <1>2 DEF BusRead

\* Without a job the invariant speaks of the device and of past batches only.
LEMMA IdleKeeps ==
  ASSUME AcquisitionInv, bound', ~progress'.active, EvidenceType', UnreadIsNews',
         scratch' = NoScratch \/ UNCHANGED scratch, UNCHANGED <<converted, reported>>,
         \A ch \in ChannelIndex : live'[ch].number <= converted,
         DOMAIN batches' = DOMAIN batches, CoherentPairs'
  PROVE  EvidenceConjuncts'
<1>1. BuildType' /\ converted' \in Nat
  BY ClearedTypes DEF AcquisitionInv, EvidenceConjuncts, BuildType, ScratchType
<1>2. NumbersInOrder'
  BY <1>1, ClearedTypes
  DEF AcquisitionInv, EvidenceConjuncts, NumbersInOrder, NoSample, Cleared
<1>3. NoSample.msb = NoSample.lsb /\ NoSample.quality = NoSample.msb.flags
  BY DEF NoSample, Cleared
<1>4. \A ch \in ChannelIndex : \/ scratch'.samples[ch] = NoSample
                              \/ scratch'.samples[ch] = scratch.samples[ch]
  BY ClearedTypes
<1>5. SamplesAreWhole'
  BY <1>3, <1>4 DEF AcquisitionInv, EvidenceConjuncts, SamplesAreWhole
<1> QED
  BY <1>1, <1>2, <1>5
  DEF EvidenceConjuncts, OnlyAcquisitions, FreshIsNews, LostIsUnread, TouchesAreAdmitted

\* A step that leaves the job, its scratch and the device alone.
LEMMA BystanderKeeps ==
  ASSUME AcquisitionInv, UNCHANGED <<bound, progress, scratch, evidenceVars, converted, reported>>,
         touched' = touched, DOMAIN batches' = DOMAIN batches, CoherentPairs'
  PROVE  EvidenceConjuncts'
<1>1. /\ bound' = bound /\ progress' = progress /\ scratch' = scratch /\ live' = live
      /\ shadow' = shadow /\ unread' = unread /\ sticky' = sticky
      /\ converted' = converted /\ reported' = reported
  BY DEF evidenceVars
<1>2. EvidenceType' /\ BuildType' /\ OnlyAcquisitions' /\ NumbersInOrder' /\ SamplesAreWhole'
  BY <1>1
  DEF AcquisitionInv, EvidenceConjuncts, EvidenceType, BuildType, ScratchType,
      OnlyAcquisitions, NumbersInOrder, SamplesAreWhole
<1>3. UnreadIsNews' /\ FreshIsNews' /\ LostIsUnread' /\ TouchesAreAdmitted'
  BY <1>1
  DEF AcquisitionInv, EvidenceConjuncts, UnreadIsNews, FreshIsNews, LostIsUnread,
      TouchesAreAdmitted, Unreported, Latched, Held
<1> QED
  BY <1>2, <1>3 DEF EvidenceConjuncts

\* The job latches requested channels of the variant.
LEMMA LatchedAreChannels ==
  ASSUME EngineInv, progress.active
  PROVE  progress.requestedChannels \subseteq ChannelIndex /\ Latched \subseteq ChannelIndex
<1>1. progress \in Job /\ JobAccounting
  BY DEF EngineInv, TypeOK, JobType
<1>2. progress.phase = "READ_DATA_LSB" => progress.channel \in progress.requestedChannels
  BY <1>1 DEF JobAccounting, ReadPhase
<1> QED
  BY <1>1, <1>2 DEF Job, Latched

\* How a job may end: it owns up to its reads, and only the closing STATUS
\* publishes a batch.
EndsWell ==
  Terminates =>
    /\ touched' => "READ_SIDE_EFFECTS" \in Newest'.effects
    /\ Newest'.hasSampleBatch =>
         /\ progress.active /\ progress.phase = "READ_STATUS_AFTER"
         /\ Published = BuildAcquisition(DecodeDeviceStatus)

\* A step that adds no result ends no job.
LEMMA NothingEnds ==
  ASSUME EngineInv, resultCount' \in {resultCount, resultCount - 1}
  PROVE  EndsWell
<1>1. resultCount \in Nat
  BY DriverAssumption DEF EngineInv, TypeOK, RingType
<1> QED
  BY <1>1 DEF EndsWell, Terminates

\* A job that ends without success publishes nothing.
LEMMA FailureEndsWell ==
  ASSUME EngineInv, progress.active, NEW p, NEW outcome, outcome # "SUCCESS",
         FinishJob(p, outcome), touched' => "READ_SIDE_EFFECTS" \in p.effects
  PROVE  EndsWell
<1>1. Newest'.effects = p.effects /\ Newest'.hasSampleBatch = FALSE
  BY FinishedIsNewest
<1> QED
  BY <1>1 DEF EndsWell

-----------------------------------------------------------------------------
(* The device, and the owner's calls.                                      *)

\* A conversion is news to everyone: the channel's held pair, if it has one, is
\* lost, and what a job had still to read is newer.
LEMMA ConvertKeeps ==
  ASSUME AcquisitionInv, NEW ch \in ChannelIndex, NEW kind \in ConversionKinds, Convert(ch, kind)
  PROVE  EvidenceConjuncts' /\ EndsWell
<1> DEFINE new == [number |-> converted + 1, kind |-> kind, flags |-> kind.data]
<1>1. /\ live' = [live EXCEPT ![ch] = new] /\ unread' = unread \cup {ch}
      /\ converted' = converted + 1 /\ shadow' = shadow /\ bound' = bound
      /\ progress' = progress /\ resultCount' = resultCount
      /\ scratch' = scratch /\ batches' = batches /\ touched' = touched /\ reported' = reported
  BY DEF Convert, vars, bindingVars, jobVars, ringVars, buildVars, historyVars
<1>2. kind \in ConversionKind /\ converted \in Nat /\ new \in Conversion
  BY ConversionAssumption
  DEF AcquisitionInv, EvidenceConjuncts, BuildType, ConversionKind, Conversion
<1>3. sticky' \in [errors : SUBSET StatusFlags, dataReady : BOOLEAN, channel : Channel]
  <2> DEFINE ready == DataReadyRouted /\ ch = LastScanChannel
             event == [errors |-> kind.status, dataReady |-> ready, channel |-> ch]
  <2>1. sticky' \in {event, sticky}
    BY DEF Convert
  <2>2. event \in [errors : SUBSET StatusFlags, dataReady : BOOLEAN, channel : Channel]
    BY <1>2, ConversionAssumption DEF ConversionKind, Channel
  <2> QED
    BY <2>1, <2>2 DEF AcquisitionInv, EvidenceConjuncts, EvidenceType
<1>4. live'[ch] = new /\ \A c \in ChannelIndex \ {ch} : live'[c] = live[c]
  BY <1>1 DEF AcquisitionInv, EvidenceConjuncts, EvidenceType
<1>5. EvidenceType' /\ BuildType' /\ OnlyAcquisitions'
  BY <1>1, <1>2, <1>3
  DEF AcquisitionInv, EvidenceConjuncts, EvidenceType, BuildType, ScratchType, OnlyAcquisitions
<1>6. /\ new.number = converted + 1 /\ new.flags = new.kind.data
      /\ reported \subseteq 0 .. converted /\ Unreported(new)' /\ Unreported(new)
  BY <1>1, <1>2 DEF AcquisitionInv, EvidenceConjuncts, NumbersInOrder, Unreported
<1> HIDE DEF new
<1>7. /\ \A c \in ChannelIndex : /\ live[c].number \in Nat /\ live[c].number <= converted
                                 /\ scratch.samples[c].msb.number \in Nat
                                 /\ scratch.samples[c].msb.number <= converted
      /\ scratch.msb.number \in Nat /\ scratch.msb.number <= converted
  BY DEF AcquisitionInv, EvidenceConjuncts, NumbersInOrder, EvidenceType, BuildType,
     ScratchType, Conversion, Sample
<1>8. NumbersInOrder' /\ SamplesAreWhole'
  BY <1>1, <1>2, <1>4, <1>6, <1>7
  DEF AcquisitionInv, EvidenceConjuncts, NumbersInOrder, SamplesAreWhole
<1>9. UnreadIsNews' /\ TouchesAreAdmitted'
  BY <1>1, <1>4, <1>6
  DEF AcquisitionInv, EvidenceConjuncts, UnreadIsNews, Unreported, TouchesAreAdmitted,
      EvidenceType
<1>10. progress.active => /\ progress.requestedChannels \subseteq ChannelIndex
                          /\ Latched \subseteq ChannelIndex
  BY LatchedAreChannels DEF AcquisitionInv
<1>11. Latched' = Latched
  BY <1>1 DEF Latched
<1>12. \A c \in ChannelIndex : Held(c)' = IF c = ch /\ c \notin Latched THEN new ELSE Held(c)
  BY <1>1, <1>4, <1>11 DEF Held, Latched
<1>13. FreshIsNews'
  BY <1>1, <1>6, <1>10, <1>12
  DEF AcquisitionInv, EvidenceConjuncts, FreshIsNews, Unreported
<1>14. LostIsUnread'
  <2>1. ASSUME progress.active, NEW c \in Latched
        PROVE  c \in unread' <=> live'[c].number # Held(c)'.number
    <3>1. c \in ChannelIndex /\ Held(c)' = Held(c)
      BY <1>10, <1>12, <2>1
    <3>2. CASE c = ch
      <4>1. Held(c).number \in Nat /\ Held(c).number <= converted
        BY <1>7, <2>1, <3>1 DEF Held
      <4> QED
        BY <1>1, <1>2, <1>4, <1>6, <3>1, <3>2, <4>1
    <3>3. CASE c # ch
      BY <1>1, <1>4, <2>1, <3>1, <3>3
      DEF AcquisitionInv, EvidenceConjuncts, LostIsUnread
    <3> QED
      BY <3>2, <3>3
  <2> QED
    BY <1>1, <1>11, <2>1 DEF LostIsUnread
<1>15. CoherentPairs'
  BY <1>1 DEF AcquisitionInv, EvidenceConjuncts, CoherentPairs
<1>16. EndsWell
  BY <1>1, NothingEnds DEF AcquisitionInv
<1> QED
  BY <1>5, <1>8, <1>9, <1>13, <1>14, <1>15, <1>16 DEF EvidenceConjuncts

\* An admitted acquisition has read nothing yet.
LEMMA AdmitKeeps ==
  ASSUME AcquisitionInv, Admit
  PROVE  EvidenceConjuncts' /\ EndsWell
<1>1. PICK id \in OperationIds, d \in Deadlines, channels \in SUBSET ChannelIndex :
        StartJob("ACQUIRE", channels, id, d)
  BY DEF Admit, StartAcquire
<1>2. /\ bound' = bound /\ resultCount' = resultCount
      /\ progress'.active /\ progress'.kind = "ACQUIRE" /\ progress'.completedChannels = {}
      /\ progress'.phase = "READ_STATUS_BEFORE"
  BY <1>1 DEF StartJob, FirstPhase, NoJob, bindingVars, ringVars
<1>3. /\ live' = live /\ shadow' = shadow /\ unread' = unread /\ sticky' = sticky
      /\ converted' = converted /\ scratch' = scratch /\ batches' = batches
      /\ touched' = FALSE /\ reported' = reported
  BY DEF Admit, deviceVars, evidenceVars, buildVars
<1>4. EvidenceType' /\ BuildType' /\ OnlyAcquisitions' /\ NumbersInOrder' /\ CoherentPairs'
  BY <1>2, <1>3
  DEF AcquisitionInv, EvidenceConjuncts, EvidenceType, BuildType, ScratchType,
      OnlyAcquisitions, NumbersInOrder, CoherentPairs
<1>5. Latched' = {}
  BY <1>2 DEF Latched
<1>6. SamplesAreWhole' /\ UnreadIsNews' /\ FreshIsNews' /\ LostIsUnread' /\ TouchesAreAdmitted'
  BY <1>2, <1>3, <1>5
  DEF AcquisitionInv, EvidenceConjuncts, SamplesAreWhole, UnreadIsNews, FreshIsNews,
      LostIsUnread, TouchesAreAdmitted, Unreported
<1>7. EndsWell
  BY <1>2, NothingEnds DEF AcquisitionInv
<1> QED
  BY <1>4, <1>6, <1>7 DEF EvidenceConjuncts

\* An abandoned job publishes nothing and its scratch is gone; what it consumed
\* it has owned up to.
LEMMA AbandonKeeps ==
  ASSUME AcquisitionInv, Abandon
  PROVE  EvidenceConjuncts' /\ EndsWell
<1>1. PICK cause \in {"CANCELLED", "TIMEOUT"}, outcome \in {"CANCELLED", "TIMED_OUT"} :
        progress.active /\ AbandonJob(cause, outcome)
  BY DEF Abandon, CancelJob, PollTimeout
<1>2. /\ bound' = bound /\ FinishJob(progress, outcome) /\ ~progress'.active
  BY <1>1 DEF AbandonJob, bindingVars, FinishJob, ClearActiveJob, NoJob
<1>3. /\ live' = live /\ unread' = unread /\ shadow' = shadow /\ sticky' = sticky
      /\ converted' = converted /\ batches' = batches /\ touched' = touched
      /\ reported' = reported /\ scratch' = NoScratch
  BY <1>2 DEF Abandon, deviceVars, evidenceVars, KeepWhileActive
<1>4. EvidenceType' /\ UnreadIsNews' /\ CoherentPairs'
  BY <1>3
  DEF AcquisitionInv, EvidenceConjuncts, EvidenceType, UnreadIsNews, Unreported, CoherentPairs
<1>5. EvidenceConjuncts'
  BY <1>2, <1>3, <1>4, IdleKeeps
  DEF AcquisitionInv, EvidenceConjuncts, OnlyAcquisitions, NumbersInOrder
<1>6. touched' => "READ_SIDE_EFFECTS" \in progress.effects
  BY <1>1, <1>3 DEF AcquisitionInv, EvidenceConjuncts, TouchesAreAdmitted
<1>7. EndsWell
  BY <1>1, <1>2, <1>6, FailureEndsWell DEF AcquisitionInv
<1> QED
  BY <1>5, <1>7

\* Opening a poll and taking a result leave the job and the device alone.
LEMMA OpenOrDrainKeeps ==
  ASSUME AcquisitionInv, OpenPoll \/ Drain
  PROVE  EvidenceConjuncts' /\ EndsWell
<1>1. CASE OpenPoll
  <2>1. /\ UNCHANGED <<bound, progress, scratch, evidenceVars, converted, reported, touched>>
        /\ batches' = batches /\ resultCount' = resultCount
    BY <1>1
    DEF OpenPoll, PollBegin, bindingVars, jobVars, ringVars, deviceVars, buildVars, historyVars
  <2>2. CoherentPairs'
    BY <2>1 DEF AcquisitionInv, EvidenceConjuncts, CoherentPairs
  <2> QED
    BY <2>1, <2>2, BystanderKeeps, NothingEnds DEF AcquisitionInv
<1>2. CASE Drain
  <2>1. /\ UNCHANGED <<bound, progress, scratch, evidenceVars, converted, reported, touched>>
        /\ batches' = [batches EXCEPT ![resultHead] = NoBatch] /\ resultCount' = resultCount - 1
    BY <1>2
    DEF Drain, TakeResult, bindingVars, jobVars, deviceVars, historyVars
  <2>2. \A ch \in ChannelIndex : NoBatch.channel[ch].msb.number = NoBatch.channel[ch].lsb.number
    BY DEF NoBatch, NoSample
  <2>3. CoherentPairs' /\ DOMAIN batches' = DOMAIN batches
    BY <2>1, <2>2 DEF AcquisitionInv, EvidenceConjuncts, CoherentPairs
  <2> QED
    BY <2>1, <2>3, BystanderKeeps, NothingEnds DEF AcquisitionInv
<1> QED
  BY <1>1, <1>2

\* A direct read consumes evidence while no job holds any.
LEMMA DirectReadKeeps ==
  ASSUME AcquisitionInv, NEW reg \in {"STATUS", "DATA_MSB", "DATA_LSB"},
         NEW ch \in ChannelIndex, NEW status, DirectRead(reg, ch, status)
  PROVE  EvidenceConjuncts' /\ EndsWell
<1>1. /\ ~progress.active /\ BusRead(reg, ch, status, FALSE)
      /\ bound' = bound /\ progress' = progress /\ resultCount' = resultCount
      /\ scratch' = scratch /\ batches' = batches /\ reported' = reported
  BY DEF DirectRead, vars, bindingVars, jobVars, ringVars, buildVars
<1>2. /\ EvidenceType' /\ UNCHANGED converted
      /\ unread' \subseteq unread /\ \A c \in unread' : live'[c] = live[c]
      /\ \A c \in ChannelIndex : live'[c].number = live[c].number
  BY <1>1, ReadConsumes DEF AcquisitionInv, EvidenceConjuncts
<1>3. UnreadIsNews' /\ CoherentPairs'
  BY <1>1, <1>2
  DEF AcquisitionInv, EvidenceConjuncts, UnreadIsNews, Unreported, CoherentPairs
<1>4. EvidenceConjuncts'
  BY <1>1, <1>2, <1>3, IdleKeeps
  DEF AcquisitionInv, EvidenceConjuncts, OnlyAcquisitions, NumbersInOrder
<1>5. EndsWell
  BY <1>1, NothingEnds DEF AcquisitionInv
<1> QED
  BY <1>4, <1>5

\* Sleep clears the evidence, and no job is under way to hold any.
LEMMA SleepOrWakeKeeps ==
  ASSUME AcquisitionInv, NEW status, SleepOrWake(status)
  PROVE  EvidenceConjuncts' /\ EndsWell
<1>1. PICK from, to : DirectConfigWrite(status, from, to)
  BY DEF SleepOrWake, Sleep, Wake
<1>2. /\ ~progress.active /\ bound' = bound /\ progress' = progress /\ resultCount' = resultCount
      /\ scratch' = scratch /\ batches' = batches /\ reported' = reported
      /\ converted' = converted /\ touched' = touched
  BY <1>1 DEF SleepOrWake, DirectConfigWrite, bindingVars, jobVars, ringVars, buildVars, historyVars
<1>3. CoherentPairs'
  BY <1>2 DEF AcquisitionInv, EvidenceConjuncts, CoherentPairs
<1>4. CASE UNCHANGED evidenceVars
  BY <1>2, <1>3, <1>4, BystanderKeeps, NothingEnds DEF AcquisitionInv
<1>5. CASE AcceptConfig(TRUE)
  <2>1. /\ live' = [ch \in ChannelIndex |-> Cleared] /\ shadow' = live'
        /\ unread' = {} /\ sticky' = NoEvent
    BY <1>5 DEF AcceptConfig
  <2>2. EvidenceType' /\ UnreadIsNews'
    BY <2>1, ClearedTypes DEF EvidenceType, UnreadIsNews
  <2>3. \A ch \in ChannelIndex : live'[ch].number = 0
    BY <2>1 DEF Cleared
  <2>4. EvidenceConjuncts'
    BY <1>2, <1>3, <2>2, <2>3, IdleKeeps
    DEF AcquisitionInv, EvidenceConjuncts, OnlyAcquisitions, BuildType
  <2> QED
    BY <1>2, <2>4, NothingEnds DEF AcquisitionInv
<1> QED
  BY <1>4, <1>5 DEF SleepOrWake, AcceptConfig, evidenceVars

-----------------------------------------------------------------------------
(* The four reads of a job.                                                *)

\* What a read knows before it starts.
LEMMA ReadingJob ==
  ASSUME AcquisitionInv, pollCall.active, progress.phase \in ReadPhase
  PROVE  /\ progress.active /\ progress.kind = "ACQUIRE" /\ Counted \in Job
         /\ Counted.active /\ Counted.kind = "ACQUIRE" /\ Counted.phase = progress.phase
         /\ Counted.requestedChannels = progress.requestedChannels
         /\ Counted.completedChannels = progress.completedChannels
         /\ Counted.channel = progress.channel /\ Counted.effects = progress.effects
         /\ progress.requestedChannels \subseteq ChannelIndex
         /\ progress.completedChannels \subseteq ChannelIndex
         /\ ReadsCounted(progress)
  BY AcquisitionFacts, CallOfActiveJob DEF AcquisitionInv, Job

\* A failed read ends the job, whether or not the device acted on it.
LEMMA FailedReadKeeps ==
  ASSUME AcquisitionInv, pollCall.active, progress.phase \in ReadPhase,
         NEW p, FinishTransfer(p, "FAILED"), bound' = bound, KeepWhileActive(scratch),
         NEW reg \in {"STATUS", "DATA_MSB", "DATA_LSB"}, NEW ch,
         reg # "STATUS" => ch \in ChannelIndex, NEW status, BusRead(reg, ch, status, TRUE),
         UNCHANGED <<batches, reported>>, touched' => "READ_SIDE_EFFECTS" \in p.effects
  PROVE  EvidenceConjuncts' /\ EndsWell
<1>1. FinishJob(p, "FAILED") /\ ~progress'.active /\ scratch' = NoScratch /\ progress.active
  BY ReadingJob DEF FinishTransfer, FinishJob, ClearActiveJob, NoJob, KeepWhileActive
<1>2. /\ EvidenceType' /\ UNCHANGED converted
      /\ unread' \subseteq unread /\ \A c \in unread' : live'[c] = live[c]
      /\ \A c \in ChannelIndex : live'[c].number = live[c].number
  BY ReadConsumes DEF AcquisitionInv, EvidenceConjuncts
<1>3. UnreadIsNews' /\ CoherentPairs'
  BY <1>2 DEF AcquisitionInv, EvidenceConjuncts, UnreadIsNews, Unreported, CoherentPairs
<1>4. EvidenceConjuncts'
  BY <1>1, <1>2, <1>3, IdleKeeps
  DEF AcquisitionInv, EvidenceConjuncts, OnlyAcquisitions, NumbersInOrder
<1>5. EndsWell
  BY <1>1, FailureEndsWell DEF AcquisitionInv
<1> QED
  BY <1>4, <1>5

\* The opening STATUS takes the news it clears into the scratch.
LEMMA OpeningStatusKeeps ==
  ASSUME AcquisitionInv, NEW status, OpeningStatus(status)
  PROVE  EvidenceConjuncts' /\ EndsWell
<1> DEFINE q == WithReadEffect(Counted)
           decoded == DecodeDeviceStatus
<1>1. /\ pollCall.active /\ progress.phase = "READ_STATUS_BEFORE" /\ progress.phase \in ReadPhase
      /\ bound' = bound /\ batches' = batches /\ reported' = reported
      /\ BusRead("STATUS", NoChannel, status, TRUE)
  BY DEF OpeningStatus, ReadStatusBefore, AtRead, ReadPhase, bindingVars
<1>2. /\ q \in Job /\ q.active /\ q.kind = "ACQUIRE" /\ q.completedChannels = {}
      /\ "READ_SIDE_EFFECTS" \in q.effects /\ q.requestedChannels = progress.requestedChannels
  BY <1>1, ReadingJob DEF WithReadEffect, Job, EffectFlags, ReadsCounted
<1>3. /\ EvidenceType' /\ converted' = converted
      /\ unread' \subseteq unread /\ \A c \in unread' : live'[c] = live[c]
      /\ \A c \in ChannelIndex : live'[c].number = live[c].number
      /\ status = "OK" => ReadEffect("STATUS", NoChannel)
  BY <1>1, ReadConsumes DEF AcquisitionInv, EvidenceConjuncts
<1> HIDE DEF q
<1>4. CASE status = "OK"
  <2>1. /\ progress' = AdvanceAcquire(q, NoChannel) /\ resultCount' = resultCount
        /\ live' = live /\ shadow' = shadow
    BY <1>3, <1>4 DEF OpeningStatus, ReadStatusBefore, ContinueTransfer, ringVars, ReadEffect, q
  <2>2. /\ progress'.active /\ progress'.kind = "ACQUIRE" /\ progress'.completedChannels = {}
        /\ progress'.phase \in {"READ_DATA_MSB", "READ_STATUS_AFTER"}
        /\ "READ_SIDE_EFFECTS" \in progress'.effects
        /\ progress'.requestedChannels = progress.requestedChannels
    BY <1>2, <2>1 DEF AdvanceAcquire, Job
  <2>3. /\ scratch' = [scratch EXCEPT !.statusBefore = decoded]
    BY <2>2 DEF OpeningStatus, KeepWhileActive
  <2>4. decoded \in DecodedStatus /\ decoded.unread = unread
    BY DEF AcquisitionInv, EvidenceConjuncts, EvidenceType, DecodeDeviceStatus, DecodedStatus,
       Channel
  <2> HIDE DEF decoded
  <2>5. /\ ScratchType' /\ scratch'.msb = scratch.msb /\ scratch'.samples = scratch.samples
        /\ scratch'.statusBefore = decoded
    BY <2>3, <2>4 DEF AcquisitionInv, EvidenceConjuncts, BuildType, ScratchType
  <2>6. BuildType' /\ OnlyAcquisitions' /\ CoherentPairs' /\ TouchesAreAdmitted'
    BY <1>1, <1>3, <2>2, <2>5
    DEF AcquisitionInv, EvidenceConjuncts, BuildType, OnlyAcquisitions, CoherentPairs,
        TouchesAreAdmitted
  <2>7. NumbersInOrder' /\ SamplesAreWhole' /\ UnreadIsNews'
    BY <1>1, <1>3, <2>1, <2>2, <2>5
    DEF AcquisitionInv, EvidenceConjuncts, NumbersInOrder, SamplesAreWhole, UnreadIsNews, Unreported
  <2>8. Latched' = {} /\ \A ch \in ChannelIndex : Held(ch)' = live[ch]
    BY <2>1, <2>2 DEF Latched, Held
  <2>9. FreshIsNews' /\ LostIsUnread'
    BY <1>1, <2>2, <2>4, <2>5, <2>8, ReadingJob
    DEF AcquisitionInv, EvidenceConjuncts, UnreadIsNews, FreshIsNews, LostIsUnread, Unreported
  <2>10. EndsWell
    BY <2>1, NothingEnds DEF AcquisitionInv
  <2> QED
    BY <1>3, <2>6, <2>7, <2>9, <2>10 DEF EvidenceConjuncts
<1>5. CASE status # "OK"
  <2> DEFINE p == IF TransferFailureMayHaveReachedDevice(status) THEN q ELSE Counted
  <2>1. FinishTransfer(p, "FAILED")
    BY <1>5 DEF OpeningStatus, ReadStatusBefore, q
  <2>2. touched' => "READ_SIDE_EFFECTS" \in p.effects
    <3>1. touched' = touched \/ (touched' = (touched \/ TRUE) /\ status # "I2C_NACK_ADDR")
      BY <1>1, ReadConsumes DEF AcquisitionInv, EvidenceConjuncts
    <3>2. touched => "READ_SIDE_EFFECTS" \in Counted.effects
      BY <1>1, ReadingJob DEF AcquisitionInv, EvidenceConjuncts, TouchesAreAdmitted
    <3> QED
      BY <1>2, <3>1, <3>2 DEF TransferFailureMayHaveReachedDevice
  <2>3. KeepWhileActive(scratch)
    BY <2>1 DEF OpeningStatus, KeepWhileActive, FinishTransfer, FinishJob, ClearActiveJob, NoJob
  <2> QED
    BY <1>1, <2>1, <2>2, <2>3, FailedReadKeeps
<1> QED
  BY <1>4, <1>5

\* A read past the opening STATUS that fails has its effects owned up to.
LEMMA LaterFailureKeeps ==
  ASSUME AcquisitionInv, pollCall.active, progress.phase \in ReadPhase \ {"READ_STATUS_BEFORE"},
         FinishTransfer(Counted, "FAILED"), bound' = bound, NEW next, KeepWhileActive(next),
         NEW reg \in {"STATUS", "DATA_MSB", "DATA_LSB"}, NEW ch,
         reg # "STATUS" => ch \in ChannelIndex, NEW status, BusRead(reg, ch, status, TRUE),
         UNCHANGED <<batches, reported>>
  PROVE  EvidenceConjuncts' /\ EndsWell
<1>1. "READ_SIDE_EFFECTS" \in Counted.effects
  BY ReadingJob DEF AcquisitionInv, EvidenceConjuncts, TouchesAreAdmitted
<1>2. KeepWhileActive(scratch)
  BY DEF KeepWhileActive, FinishTransfer, FinishJob, ClearActiveJob, NoJob
<1> QED
  BY <1>1, <1>2, FailedReadKeeps

\* DATAx_MSB latches what the job goes on to hold.
LEMMA DataMsbKeeps ==
  ASSUME AcquisitionInv, NEW status, DataMsb(status)
  PROVE  EvidenceConjuncts' /\ EndsWell
<1> DEFINE c == progress.channel
           p == [WithReadEffect(Counted) EXCEPT !.phase = "READ_DATA_LSB"]
<1>1. /\ pollCall.active /\ progress.phase = "READ_DATA_MSB" /\ progress.phase \in ReadPhase
      /\ bound' = bound /\ batches' = batches /\ reported' = reported
      /\ BusRead("DATA_MSB", c, status, TRUE)
  BY DEF DataMsb, ReadDataMsb, AtRead, ReadPhase, bindingVars, DataRegister
<1>2. /\ c \in progress.requestedChannels /\ c \in ChannelIndex
      /\ c \notin progress.completedChannels /\ progress.active
      /\ progress.requestedChannels \subseteq ChannelIndex
      /\ progress.completedChannels \subseteq ChannelIndex
  BY <1>1, ReadingJob, DriverAssumption DEF ReadsCounted, ChannelIndex
<1>3. /\ EvidenceType' /\ converted' = converted
      /\ unread' \subseteq unread /\ \A x \in unread' : live'[x] = live[x]
      /\ \A x \in ChannelIndex : live'[x].number = live[x].number
      /\ status = "OK" => ReadEffect("DATA_MSB", c)
  BY <1>1, <1>2, ReadConsumes DEF AcquisitionInv, EvidenceConjuncts
<1>4. CASE status = "OK"
  <2>1. /\ progress' = p /\ resultCount' = resultCount
    BY <1>4 DEF DataMsb, ReadDataMsb, ContinueTransfer, ringVars
  <2>2. /\ progress'.active /\ progress'.kind = "ACQUIRE" /\ progress'.channel = c
        /\ progress'.completedChannels = progress.completedChannels
        /\ progress'.phase = "READ_DATA_LSB" /\ "READ_SIDE_EFFECTS" \in progress'.effects
        /\ progress'.requestedChannels = progress.requestedChannels
    BY <1>1, <2>1, ReadingJob DEF WithReadEffect, Job
  <2> HIDE DEF p
  <2>3. /\ scratch' = [scratch EXCEPT !.msb = live[c]]
    BY <2>2 DEF DataMsb, KeepWhileActive, DataRegister, ReadValue
  <2>4. /\ ScratchType' /\ scratch'.msb = live[c] /\ scratch'.samples = scratch.samples
        /\ scratch'.statusBefore = scratch.statusBefore
    BY <1>2, <2>3
    DEF AcquisitionInv, EvidenceConjuncts, BuildType, ScratchType, EvidenceType
  <2>5. /\ shadow'[c] = live[c] /\ unread' = unread \ {c}
        /\ \A x \in ChannelIndex \ {c} : live'[x] = live[x]
    BY <1>2, <1>3, <1>4 DEF ReadEffect, AcquisitionInv, EvidenceConjuncts, EvidenceType
  <2>6. BuildType' /\ OnlyAcquisitions' /\ CoherentPairs' /\ TouchesAreAdmitted'
    BY <1>1, <1>3, <2>2, <2>4
    DEF AcquisitionInv, EvidenceConjuncts, BuildType, OnlyAcquisitions, CoherentPairs,
        TouchesAreAdmitted
  <2>7. NumbersInOrder' /\ SamplesAreWhole' /\ UnreadIsNews'
    BY <1>1, <1>2, <1>3, <2>2, <2>4, <2>5
    DEF AcquisitionInv, EvidenceConjuncts, NumbersInOrder, SamplesAreWhole, UnreadIsNews, Unreported
  <2>8. /\ Latched = progress.completedChannels /\ Latched' = progress.completedChannels \cup {c}
        /\ \A ch \in ChannelIndex : Held(ch)' = Held(ch)
    BY <1>1, <1>2, <2>2, <2>4, <2>5 DEF Latched, Held
  <2>9. FreshIsNews'
    BY <1>1, <1>2, <2>2, <2>4, <2>8
    DEF AcquisitionInv, EvidenceConjuncts, FreshIsNews, Unreported
  <2>10. LostIsUnread'
    <3>1. Held(c) = live[c]
      BY <1>2, <2>8 DEF Held
    <3> QED
      BY <1>2, <1>3, <2>2, <2>5, <2>8, <3>1
      DEF AcquisitionInv, EvidenceConjuncts, LostIsUnread
  <2>11. EndsWell
    BY <2>1, NothingEnds DEF AcquisitionInv
  <2> QED
    BY <1>3, <2>6, <2>7, <2>9, <2>10, <2>11 DEF EvidenceConjuncts
<1>5. CASE status # "OK"
  <2>1. FinishTransfer(Counted, "FAILED")
    BY <1>5 DEF DataMsb, ReadDataMsb
  <2>2. PICK next : KeepWhileActive(next)
    BY DEF DataMsb
  <2> QED
    BY <1>1, <1>2, <2>1, <2>2, LaterFailureKeeps
<1> QED
  BY <1>4, <1>5

\* DATAx_LSB completes the sample from the pair that is still latched.
LEMMA DataLsbKeeps ==
  ASSUME AcquisitionInv, NEW status, DataLsb(status)
  PROVE  EvidenceConjuncts' /\ EndsWell
<1> DEFINE c == progress.channel
           q == [Counted EXCEPT !.completedChannels = @ \cup {c}]
           sample == DecodeChannelSample(scratch.msb, shadow[c])
<1>1. /\ pollCall.active /\ progress.phase = "READ_DATA_LSB" /\ progress.phase \in ReadPhase
      /\ bound' = bound /\ batches' = batches /\ reported' = reported
      /\ BusRead("DATA_LSB", c, status, TRUE)
  BY DEF DataLsb, ReadDataLsb, AtRead, ReadPhase, bindingVars, DataRegister
<1>2. /\ c \in progress.requestedChannels /\ c \in ChannelIndex
      /\ c \notin progress.completedChannels /\ progress.active
      /\ progress.requestedChannels \subseteq ChannelIndex
      /\ progress.completedChannels \subseteq ChannelIndex
  BY <1>1, ReadingJob, DriverAssumption DEF ReadsCounted, ChannelIndex
<1>3. /\ EvidenceType' /\ converted' = converted
      /\ status = "OK" => ReadEffect("DATA_LSB", c)
  BY <1>1, <1>2, ReadConsumes DEF AcquisitionInv, EvidenceConjuncts
<1>4. CASE status = "OK"
  <2>1. /\ q.active /\ q.kind = "ACQUIRE" /\ q.effects = progress.effects
        /\ q.completedChannels = progress.completedChannels \cup {c}
        /\ q.requestedChannels = progress.requestedChannels /\ DOMAIN q = DOMAIN Counted
    BY <1>1, ReadingJob DEF Job
  <2> HIDE DEF q
  <2>2. /\ progress' = AdvanceAcquire(q, c) /\ resultCount' = resultCount
        /\ live' = live /\ shadow' = shadow /\ unread' = unread
    BY <1>3, <1>4
    DEF DataLsb, ReadDataLsb, ContinueTransfer, ringVars, ReadEffect, evidenceVars, q
  <2>3. /\ progress'.active /\ progress'.kind = "ACQUIRE"
        /\ progress'.completedChannels = progress.completedChannels \cup {c}
        /\ progress'.phase \in {"READ_DATA_MSB", "READ_STATUS_AFTER"}
        /\ progress'.effects = progress.effects
        /\ progress'.requestedChannels = progress.requestedChannels
    BY <1>1, <2>1, <2>2, ReadingJob DEF AdvanceAcquire, Job
  <2>4. scratch' = [scratch EXCEPT !.samples = [scratch.samples EXCEPT ![c] = sample]]
    BY <2>3 DEF DataLsb, KeepWhileActive, DataRegister, ReadValue
  <2>5. /\ sample \in Sample /\ sample.msb = scratch.msb /\ sample.lsb = scratch.msb
        /\ sample.quality = sample.msb.flags
    BY <1>1, <1>2
    DEF DecodeChannelSample, AcquisitionInv, EvidenceConjuncts, SamplesAreWhole, BuildType,
        ScratchType, EvidenceType, Sample, Conversion
  <2> HIDE DEF sample
  <2>6. /\ ScratchType' /\ scratch'.msb = scratch.msb
        /\ scratch'.statusBefore = scratch.statusBefore /\ scratch'.samples[c] = sample
        /\ \A x \in ChannelIndex \ {c} : scratch'.samples[x] = scratch.samples[x]
    BY <1>2, <2>4, <2>5 DEF AcquisitionInv, EvidenceConjuncts, BuildType, ScratchType
  <2>7. BuildType' /\ OnlyAcquisitions' /\ CoherentPairs' /\ TouchesAreAdmitted'
    BY <1>1, <1>2, <1>3, <2>3, <2>6
    DEF AcquisitionInv, EvidenceConjuncts, BuildType, OnlyAcquisitions, CoherentPairs,
        TouchesAreAdmitted
  <2>8. NumbersInOrder' /\ SamplesAreWhole' /\ UnreadIsNews'
    BY <1>1, <1>2, <1>3, <2>2, <2>3, <2>5, <2>6
    DEF AcquisitionInv, EvidenceConjuncts, NumbersInOrder, SamplesAreWhole, UnreadIsNews, Unreported
  <2>9. /\ Latched = progress.completedChannels \cup {c} /\ Latched' = Latched
        /\ \A ch \in ChannelIndex : Held(ch)' = Held(ch)
    BY <1>1, <1>2, <2>2, <2>3, <2>5, <2>6 DEF Latched, Held
  <2>10. FreshIsNews' /\ LostIsUnread'
    BY <1>1, <1>2, <2>2, <2>3, <2>6, <2>9
    DEF AcquisitionInv, EvidenceConjuncts, FreshIsNews, LostIsUnread, Unreported
  <2>11. EndsWell
    BY <2>2, NothingEnds DEF AcquisitionInv
  <2> QED
    BY <1>3, <2>7, <2>8, <2>10, <2>11 DEF EvidenceConjuncts
<1>5. CASE status # "OK"
  <2>1. FinishTransfer(Counted, "FAILED")
    BY <1>5 DEF DataLsb, ReadDataLsb
  <2>2. PICK next : KeepWhileActive(next)
    BY DEF DataLsb
  <2> QED
    BY <1>1, <1>2, <2>1, <2>2, LaterFailureKeeps
<1> QED
  BY <1>4, <1>5

-----------------------------------------------------------------------------
(* The batch.                                                              *)

\* When the closing STATUS is due every requested channel has been sampled.
LEMMA AllSampled ==
  ASSUME AcquisitionInv, progress.active, progress.phase = "READ_STATUS_AFTER"
  PROVE  /\ progress.completedChannels = progress.requestedChannels
         /\ progress.requestedChannels \subseteq ChannelIndex
         /\ Latched = progress.requestedChannels
         /\ \A ch \in progress.requestedChannels : Held(ch) = scratch.samples[ch].msb
<1>1. progress.completedChannels = progress.requestedChannels
  BY DEF AcquisitionInv, EvidenceConjuncts, OnlyAcquisitions, EngineInv, JobAccounting
<1> QED
  BY <1>1, LatchedAreChannels DEF AcquisitionInv, Latched, Held

\* The fields of a batch, for a closing STATUS that found the channels unread.
LEMMA BatchFields ==
  ASSUME AcquisitionInv, progress.active, progress.phase = "READ_STATUS_AFTER",
         NEW after, after.unread = unread
  PROVE  LET batch == BuildAcquisition(after)
             opening == scratch.statusBefore.unread
             requested == progress.requestedChannels
         IN  /\ batch.selected = requested /\ batch.fresh = opening \cap requested
             /\ batch.overrun = unread \cap requested
             /\ batch.valid = {ch \in requested :
                                 Quality(ch, after) \cap (StatusFlags \cup {"STALE"}) = {}}
             /\ \A ch \in requested : batch.channel[ch].msb = scratch.samples[ch].msb
             /\ \A ch \in ChannelIndex : batch.channel[ch].msb = batch.channel[ch].lsb
<1> DEFINE requested == progress.requestedChannels
           batch == BuildAcquisition(after)
           quality == [ch \in requested |-> Quality(ch, after)]
           filled == [ch \in ChannelIndex |->
                        IF ch \in requested THEN [scratch.samples[ch] EXCEPT !.quality = quality[ch]]
                        ELSE NoSample]
<1>1. /\ batch.selected = requested /\ batch.fresh = scratch.statusBefore.unread \cap requested
      /\ batch.overrun = unread \cap requested /\ batch.channel = filled
      /\ batch.valid = {ch \in requested : quality[ch] \cap (StatusFlags \cup {"STALE"}) = {}}
  BY DEF BuildAcquisition, FreshChannels, OverrunChannels
<1>2. batch.valid = {ch \in requested : Quality(ch, after) \cap (StatusFlags \cup {"STALE"}) = {}}
  BY <1>1
<1>3. \A ch \in ChannelIndex : scratch.samples[ch] \in Sample
  BY DEF AcquisitionInv, EvidenceConjuncts, BuildType, ScratchType
<1>4. requested \subseteq ChannelIndex
  BY AllSampled
<1> HIDE DEF quality
<1>5. ASSUME NEW ch \in requested
      PROVE  /\ filled[ch].msb = scratch.samples[ch].msb /\ filled[ch].lsb = scratch.samples[ch].lsb
             /\ scratch.samples[ch].msb = scratch.samples[ch].lsb
  <2>1. ch \in ChannelIndex /\ scratch.samples[ch] \in Sample
    BY <1>3, <1>4
  <2>2. filled[ch] = [scratch.samples[ch] EXCEPT !.quality = quality[ch]]
    BY <2>1
  <2> QED
    BY <2>1, <2>2 DEF Sample, AcquisitionInv, EvidenceConjuncts, SamplesAreWhole
<1>6. ASSUME NEW ch \in ChannelIndex \ requested PROVE filled[ch].msb = filled[ch].lsb
  BY DEF NoSample
<1> HIDE DEF filled, batch
<1>7. /\ \A ch \in requested : batch.channel[ch].msb = scratch.samples[ch].msb
      /\ \A ch \in ChannelIndex : batch.channel[ch].msb = batch.channel[ch].lsb
  BY <1>1, <1>4, <1>5, <1>6
<1> QED
  BY <1>1, <1>2, <1>7 DEF batch

\* What a batch says of freshness, loss and validity.
Honest(batch) ==
  /\ FreshNumbers(batch) \cap (reported \cup {0}) = {} /\ FreshNumbers(batch) \subseteq 0 .. converted
  /\ batch.overrun = {ch \in batch.selected : live[ch].number # batch.channel[ch].msb.number}
  /\ \A ch \in batch.valid :
       LET sample == batch.channel[ch]
       IN  /\ ch \in batch.fresh /\ sample.msb.number > 0
           /\ sample.msb.kind.raw = "MID" /\ sample.msb.kind.data = {}
  /\ \A ch \in ChannelIndex : batch.channel[ch].msb.number = batch.channel[ch].lsb.number

\* It is true: the fresh samples are news that the job has held since before it
\* cleared their evidence, a held sample is lost exactly when its channel is
\* unread again, and a sample that was news when latched still has its flags.
LEMMA BatchIsHonest ==
  ASSUME AcquisitionInv, progress.active, progress.phase = "READ_STATUS_AFTER"
  PROVE  Honest(BuildAcquisition(DecodeDeviceStatus))
<1> DEFINE requested == progress.requestedChannels
           after == DecodeDeviceStatus
           batch == BuildAcquisition(after)
<1>1. after.unread = unread
  BY DEF DecodeDeviceStatus
<1>2. /\ batch.selected = requested /\ batch.fresh = scratch.statusBefore.unread \cap requested
      /\ batch.overrun = unread \cap requested
      /\ batch.valid = {ch \in requested :
                          Quality(ch, after) \cap (StatusFlags \cup {"STALE"}) = {}}
      /\ \A ch \in requested : batch.channel[ch].msb = scratch.samples[ch].msb
      /\ \A ch \in ChannelIndex : batch.channel[ch].msb = batch.channel[ch].lsb
  BY <1>1, BatchFields
<1> HIDE DEF batch, after
<1>3. \A ch \in requested : /\ ch \in ChannelIndex /\ Held(ch) = scratch.samples[ch].msb
                            /\ ch \in Latched
  BY AllSampled
<1>4. \A ch \in batch.fresh : /\ ch \in requested /\ Unreported(batch.channel[ch].msb)
                              /\ batch.channel[ch].msb.number \in Nat
                              /\ batch.channel[ch].msb.number <= converted
  <2>1. TAKE ch \in batch.fresh
  <2>2. ch \in requested /\ ch \in ChannelIndex /\ batch.channel[ch].msb = Held(ch)
    BY <1>2, <1>3
  <2>3. Unreported(Held(ch))
    BY <1>2, <2>2 DEF AcquisitionInv, EvidenceConjuncts, FreshIsNews
  <2>4. /\ scratch.samples[ch].msb.number \in Nat
        /\ scratch.samples[ch].msb.number <= converted
    BY <2>2
    DEF AcquisitionInv, EvidenceConjuncts, BuildType, ScratchType, Sample, Conversion,
        NumbersInOrder
  <2> QED
    BY <1>2, <2>2, <2>3, <2>4
<1>5. /\ FreshNumbers(batch) \cap (reported \cup {0}) = {}
      /\ FreshNumbers(batch) \subseteq 0 .. converted
  <2>1. converted \in Nat
    BY DEF AcquisitionInv, EvidenceConjuncts, BuildType
  <2> QED
    BY <1>4, <2>1 DEF FreshNumbers, Unreported
<1>6. batch.overrun = {ch \in batch.selected : live[ch].number # batch.channel[ch].msb.number}
  <2>1. \A ch \in requested : ch \in unread <=> live[ch].number # batch.channel[ch].msb.number
    BY <1>2, <1>3 DEF AcquisitionInv, EvidenceConjuncts, LostIsUnread
  <2> QED
    BY <1>2, <2>1
<1>7. ASSUME NEW ch \in batch.valid
      PROVE  /\ ch \in batch.fresh /\ batch.channel[ch].msb.number > 0
             /\ batch.channel[ch].msb.kind.raw = "MID" /\ batch.channel[ch].msb.kind.data = {}
  <2> DEFINE s == scratch.samples[ch]
  <2>1. ch \in requested /\ Quality(ch, after) \cap (StatusFlags \cup {"STALE"}) = {}
    BY <1>2
  <2>2. s \in Sample /\ s.msb = s.lsb /\ s.quality = s.msb.flags
    BY <1>3, <2>1
    DEF AcquisitionInv, EvidenceConjuncts, BuildType, ScratchType, SamplesAreWhole
  <2>3. ch \in FreshChannels(after)
    <3>1. SUFFICES ASSUME ch \notin FreshChannels(after) PROVE FALSE
      OBVIOUS
    <3>2. "STALE" \in Quality(ch, after)
      BY <3>1 DEF Quality
    <3> QED
      BY <2>1, <3>2
  <2>4. ch \in batch.fresh
    BY <1>2, <2>3 DEF FreshChannels
  <2>5. s.quality \subseteq Quality(ch, after) /\ EndpointFlags(s) \subseteq Quality(ch, after)
    BY <2>3 DEF Quality
  <2>6. s.msb.kind.raw = "MID"
    <3>1. EndpointFlags(s) \cap StatusFlags = {}
      BY <2>1, <2>5
    <3>2. s.msb.kind.raw # "MID" => EndpointFlags(s) # {} /\ EndpointFlags(s) \subseteq StatusFlags
      BY <2>2 DEF EndpointFlags, StatusFlags, DataFlags
    <3> QED
      BY <3>1, <3>2
  <2>7. s.msb.flags = {}
    BY <2>1, <2>2, <2>5 DEF Sample, Conversion, StatusFlags
  <2> QED
    BY <1>2, <1>4, <2>1, <2>4, <2>6, <2>7 DEF Unreported
<1> QED
  BY <1>2, <1>5, <1>6, <1>7 DEF Honest, batch, after

\* The closing STATUS publishes the batch, and clears what it reports.
LEMMA ClosingStatusKeeps ==
  ASSUME AcquisitionInv, NEW status, ClosingStatus(status)
  PROVE  EvidenceConjuncts' /\ EndsWell
<1> DEFINE batch == BuildAcquisition(DecodeDeviceStatus)
           tail == (resultHead + resultCount) % ResultCapacity
<1>1. /\ pollCall.active /\ progress.phase = "READ_STATUS_AFTER" /\ progress.phase \in ReadPhase
      /\ bound' = bound /\ BusRead("STATUS", NoChannel, status, TRUE)
  BY DEF ClosingStatus, ReadStatusAfter, AtRead, ReadPhase, bindingVars
<1>2. progress.active
  BY <1>1, ReadingJob
<1>3. CASE status = "OK"
  <2>1. /\ FinishJob(WithReadEffect(Counted), "SUCCESS") /\ batches' = [batches EXCEPT ![tail] = batch]
        /\ reported' = reported \cup FreshNumbers(batch)
        /\ scratch' = NoScratch /\ ~progress'.active
    BY <1>3
    DEF ClosingStatus, ReadStatusAfter, FinishTransfer, FinishJob, ClearActiveJob, NoJob,
        KeepWhileActive
  <2>2. Honest(batch)
    BY <1>1, <1>2, BatchIsHonest
  <2> HIDE DEF batch
  <2>3. tail \in DOMAIN batches
    <3>1. ResultCapacity \in Nat \ {0} /\ resultHead \in Nat /\ resultCount \in Nat
      BY DriverAssumption DEF AcquisitionInv, EngineInv, TypeOK, RingType
    <3> QED
      BY <3>1 DEF AcquisitionInv, EvidenceConjuncts, BuildType
  <2>4. /\ EvidenceType' /\ converted' = converted /\ unread' = {}
        /\ live' = live
    <3>1. EvidenceType' /\ converted' = converted /\ ReadEffect("STATUS", NoChannel)
      BY <1>1, <1>3, ReadConsumes DEF AcquisitionInv, EvidenceConjuncts
    <3> QED
      BY <3>1 DEF ReadEffect
  <2>5. BuildType' /\ NumbersInOrder'
    <3>1. converted \in Nat /\ FreshNumbers(batch) \subseteq 0 .. converted
      BY <2>2 DEF Honest, AcquisitionInv, EvidenceConjuncts, BuildType
    <3>2. ScratchType'
      BY <2>1, ClearedTypes DEF ScratchType
    <3>3. reported' \subseteq 0 .. converted' /\ converted' \in Nat
      BY <2>1, <2>4, <3>1 DEF AcquisitionInv, EvidenceConjuncts, NumbersInOrder
    <3>4. DOMAIN batches' = DOMAIN batches
      BY <2>1
    <3>5. BuildType'
      BY <3>2, <3>3, <3>4 DEF AcquisitionInv, EvidenceConjuncts, BuildType
    <3>6. \A ch \in ChannelIndex : /\ live'[ch].number <= converted
                                  /\ scratch'.samples[ch].msb.number = 0
      BY <2>1, <2>4, ClearedTypes
      DEF AcquisitionInv, EvidenceConjuncts, NumbersInOrder, NoSample, Cleared
    <3>7. scratch'.msb.number = 0
      BY <2>1, ClearedTypes DEF Cleared
    <3> QED
      BY <2>4, <3>1, <3>3, <3>5, <3>6, <3>7 DEF NumbersInOrder
  <2>6. SamplesAreWhole'
    <3>1. NoSample.msb = NoSample.lsb /\ NoSample.quality = NoSample.msb.flags
      BY DEF NoSample, Cleared
    <3> QED
      BY <2>1, <3>1, ClearedTypes DEF SamplesAreWhole
  <2>7. CoherentPairs'
    <3>1. /\ batches'[tail] = batch /\ DOMAIN batches' = DOMAIN batches
          /\ \A slot \in DOMAIN batches \ {tail} : batches'[slot] = batches[slot]
      BY <2>1, <2>3
    <3> QED
      BY <2>2, <3>1 DEF Honest, AcquisitionInv, EvidenceConjuncts, CoherentPairs
  <2>8. OnlyAcquisitions' /\ UnreadIsNews' /\ FreshIsNews' /\ LostIsUnread' /\ TouchesAreAdmitted'
    BY <1>1, <2>1, <2>4
    DEF AcquisitionInv, EvidenceConjuncts, OnlyAcquisitions, UnreadIsNews, FreshIsNews,
        LostIsUnread, TouchesAreAdmitted
  <2>9. EndsWell
    <3>1. Newest'.effects = WithReadEffect(Counted).effects
      BY <1>2, <2>1, FinishedIsNewest DEF AcquisitionInv
    <3>2. "READ_SIDE_EFFECTS" \in WithReadEffect(Counted).effects
      BY <1>1, ReadingJob DEF WithReadEffect, Job
    <3>3. Published = batch
      BY <2>1, <2>3 DEF Published
    <3> QED
      BY <1>1, <1>2, <3>1, <3>2, <3>3 DEF EndsWell, batch
  <2> QED
    BY <2>4, <2>5, <2>6, <2>7, <2>8, <2>9 DEF EvidenceConjuncts
<1>4. CASE status # "OK"
  <2>1. FinishTransfer(Counted, "FAILED") /\ UNCHANGED <<batches, reported>>
        /\ KeepWhileActive(scratch)
    BY <1>4 DEF ClosingStatus, ReadStatusAfter
  <2> QED
    BY <1>1, <2>1, LaterFailureKeeps
<1> QED
  BY <1>3, <1>4

-----------------------------------------------------------------------------
(* The theorems.                                                           *)

\* A step of the composition is a step of the driver or leaves it alone.
LEMMA AcquisitionStepIsDriverStep == AcquisitionNext => [Next]_vars
<1>1. ASSUME Admit \/ Abandon \/ OpenPoll \/ Drain PROVE Next
  BY <1>1 DEF Admit, Abandon, OpenPoll, Drain, Next, Owner, Poll
<1>2. ASSUME NEW ch, NEW kind, Convert(ch, kind) PROVE UNCHANGED vars
  BY <1>2 DEF Convert
<1>3. ASSUME NEW status \in TransferStatus,
             \/ OpeningStatus(status) \/ DataMsb(status) \/ DataLsb(status)
             \/ ClosingStatus(status) \/ SleepOrWake(status)
      PROVE  Next
  BY <1>3
  DEF OpeningStatus, DataMsb, DataLsb, ClosingStatus, SleepOrWake, JobTransfer,
      DirectTransfer, Transfer, Next
<1>4. ASSUME NEW reg, NEW ch, NEW status, DirectRead(reg, ch, status) PROVE UNCHANGED vars
  BY <1>4 DEF DirectRead
<1> QED
  BY <1>1, <1>2, <1>3, <1>4 DEF AcquisitionNext

\* The profile stays: what changes it would end the trust that all this needs.
LEMMA ProfileStays == AcquisitionNext => config' = config
<1>1. Admit \/ Abandon \/ OpenPoll \/ Drain => config' = config
  BY DEF Admit, StartAcquire, StartJob, Abandon, CancelJob, PollTimeout, AbandonJob, OpenPoll,
     PollBegin, Drain, TakeResult, bindingVars
<1>2. ASSUME NEW ch, NEW kind, Convert(ch, kind) PROVE config' = config
  BY <1>2 DEF Convert, vars, bindingVars
<1>3. ASSUME NEW status,
             \/ OpeningStatus(status) \/ DataMsb(status) \/ DataLsb(status)
             \/ ClosingStatus(status) \/ SleepOrWake(status)
      PROVE  config' = config
  BY <1>3
  DEF OpeningStatus, DataMsb, DataLsb, ClosingStatus, SleepOrWake, ReadStatusBefore,
      ReadDataMsb, ReadDataLsb, ReadStatusAfter, Sleep, Wake, DirectConfigWrite, bindingVars
<1>4. ASSUME NEW reg, NEW ch, NEW status, DirectRead(reg, ch, status) PROVE config' = config
  BY <1>4 DEF DirectRead, vars, bindingVars
<1> QED
  BY <1>1, <1>2, <1>3, <1>4 DEF AcquisitionNext

\* Every step keeps the invariant, and the jobs that end in it end well.
LEMMA NextAcquisition ==
  ASSUME AcquisitionInv, [AcquisitionNext]_acquisitionVars
  PROVE  AcquisitionInv' /\ EndsWell
<1>1. CASE AcquisitionNext
  <2>1. EngineInv' /\ config' \in Profiles
    BY <1>1, AcquisitionStepIsDriverStep, NextEngine, ProfileStays DEF AcquisitionInv
  <2>2. CASE Admit \/ Abandon \/ OpenPoll \/ Drain
    BY <2>1, <2>2, AdmitKeeps, AbandonKeeps, OpenOrDrainKeeps DEF AcquisitionInv
  <2>3. ASSUME NEW ch \in ProfileChannels[config], NEW kind \in ConversionKinds, Convert(ch, kind)
        PROVE  EvidenceConjuncts' /\ EndsWell
    <3>1. ch \in ChannelIndex
      BY DriverAssumption DEF AcquisitionInv
    <3> QED
      BY <2>3, <3>1, ConvertKeeps
  <2>4. ASSUME NEW status \in TransferStatus,
               \/ OpeningStatus(status) \/ DataMsb(status) \/ DataLsb(status)
               \/ ClosingStatus(status) \/ SleepOrWake(status)
        PROVE  EvidenceConjuncts' /\ EndsWell
    BY <2>4, OpeningStatusKeeps, DataMsbKeeps, DataLsbKeeps, ClosingStatusKeeps,
       SleepOrWakeKeeps
  <2>5. ASSUME NEW status \in TransferStatus, NEW reg \in {"STATUS", "DATA_MSB", "DATA_LSB"},
               NEW ch \in ChannelIndex, DirectRead(reg, ch, status)
        PROVE  EvidenceConjuncts' /\ EndsWell
    BY <2>5, DirectReadKeeps
  <2> QED
    BY <1>1, <2>1, <2>2, <2>3, <2>4, <2>5 DEF AcquisitionNext, AcquisitionInv
<1>2. CASE UNCHANGED acquisitionVars
  <2>1. /\ UNCHANGED vars /\ resultCount' = resultCount /\ config' = config
        /\ UNCHANGED <<bound, progress, scratch, evidenceVars, converted, reported, touched>>
        /\ batches' = batches
    BY <1>2
    DEF acquisitionVars, vars, bindingVars, jobVars, ringVars, deviceVars, buildVars, historyVars
  <2>2. EngineInv'
    BY <2>1, NextEngine DEF AcquisitionInv
  <2>3. CoherentPairs'
    BY <2>1 DEF AcquisitionInv, EvidenceConjuncts, CoherentPairs
  <2> QED
    BY <2>1, <2>2, <2>3, BystanderKeeps, NothingEnds DEF AcquisitionInv
<1> QED
  BY <1>1, <1>2

\* The state after an initialisation and wake() satisfies the invariant.
LEMMA InitAcquisition == AcquisitionInit => AcquisitionInv
<1> SUFFICES ASSUME AcquisitionInit PROVE AcquisitionInv
  OBVIOUS
<1>1. TypeOK
  <2>1. 1 \in 0 .. MaxConfigRevision /\ ResultCapacity \in Nat \ {0}
    BY DriverAssumption
  <2>2. 1 % ResultCapacity \in 0 .. ResultCapacity - 1
    BY <2>1
  <2>3. BindingType
    BY <2>1 DEF AcquisitionInit, BindingType
  <2>4. TrustType /\ JobType /\ CallType
    BY IdleTypes DEF AcquisitionInit, TrustType, AppliedConfigState, JobType, CallType
  <2>5. RingType
    BY <2>1, <2>2, IdleTypes DEF AcquisitionInit, RingType, EmptyRing
  <2> QED
    BY <2>3, <2>4, <2>5 DEF TypeOK
<1>2. EngineInv
  BY <1>1
  DEF AcquisitionInit, EngineInv, JobAccounting, SlotReserved, TimeoutsFitDeadline,
      JobMatchesConfiguration, NoJob, NoCall
<1>3. EvidenceType /\ UnreadIsNews
  BY ClearedTypes DEF AcquisitionInit, EvidenceType, UnreadIsNews
<1>4. BuildType
  BY ClearedTypes DEF AcquisitionInit, BuildType, ScratchType
<1>5. NumbersInOrder
  BY ClearedTypes DEF AcquisitionInit, NumbersInOrder, NoSample, Cleared
<1>6. SamplesAreWhole
  <2>1. NoSample.msb = NoSample.lsb /\ NoSample.quality = NoSample.msb.flags
    BY DEF NoSample, Cleared
  <2> QED
    BY <2>1, ClearedTypes DEF AcquisitionInit, SamplesAreWhole, NoJob
<1>7. OnlyAcquisitions /\ FreshIsNews /\ LostIsUnread /\ TouchesAreAdmitted
  BY DEF AcquisitionInit, OnlyAcquisitions, FreshIsNews, LostIsUnread, TouchesAreAdmitted, NoJob
<1>8. CoherentPairs
  BY DEF AcquisitionInit, CoherentPairs, NoBatch, NoSample
<1> QED
  BY <1>2, <1>3, <1>4, <1>5, <1>6, <1>7, <1>8
  DEF AcquisitionInit, AcquisitionInv, EvidenceConjuncts

\* The device's evidence, the scratch of the job and the batches agree in every
\* reachable state.
THEOREM AcquisitionInvariant == AcquisitionSpec => []AcquisitionInv
<1>1. AcquisitionInv /\ [AcquisitionNext]_acquisitionVars => AcquisitionInv'
  BY NextAcquisition
<1> QED
  BY <1>1, InitAcquisition, PTL DEF AcquisitionSpec

\* MSB and LSB of every published sample are halves of one conversion, wherever
\* between the two reads the device converted again.
THEOREM PairsAreCoherent == AcquisitionSpec => []CoherentPairs
  BY AcquisitionInvariant, PTL DEF AcquisitionInv, EvidenceConjuncts

\* A batch that is published is honest.
LEMMA PublishedIsHonest ==
  ASSUME AcquisitionInv, [AcquisitionNext]_acquisitionVars, Publishes
  PROVE  Honest(Published)
<1>1. /\ progress.active /\ progress.phase = "READ_STATUS_AFTER"
      /\ Published = BuildAcquisition(DecodeDeviceStatus)
  BY NextAcquisition DEF EndsWell, Publishes
<1> QED
  BY <1>1, BatchIsHonest

\* A conversion is reported as fresh by one batch at most, whatever direct
\* reads, failed or cancelled acquisitions and sleeps come between the batches.
THEOREM ConversionsAreFreshOnce == AcquisitionSpec => FreshOnlyOnce
<1>1. AcquisitionInv /\ [AcquisitionNext]_acquisitionVars =>
        [Publishes => FreshNumbers(Published) \cap (reported \cup {0}) = {}]_acquisitionVars
  BY PublishedIsHonest DEF Honest
<1> QED
  BY <1>1, AcquisitionInvariant, PTL DEF AcquisitionSpec, FreshOnlyOnce

\* The overrun mask names exactly the samples that were replaced when the
\* closing STATUS was read: none is missed and none is blamed wrongly.
THEOREM OverrunsAreExact == AcquisitionSpec => OverrunIsExact
<1>1. AcquisitionInv /\ [AcquisitionNext]_acquisitionVars =>
        [Publishes =>
           Published.overrun = {ch \in Published.selected :
                                  live[ch].number # Published.channel[ch].msb.number}]_acquisitionVars
  BY PublishedIsHonest DEF Honest
<1> QED
  BY <1>1, AcquisitionInvariant, PTL DEF AcquisitionSpec, OverrunIsExact

\* A valid sample is fresh, no endpoint, and of a conversion without a fault
\* routed to DATA, though the first read of its channel erases those flags.  Of
\* faults routed to STATUS alone this says nothing: a valid sample can have one.
THEOREM ValidSamplesCarryNoDataFault == AcquisitionSpec => ValidHasNoDataFault
<1>1. AcquisitionInv /\ [AcquisitionNext]_acquisitionVars =>
        [Publishes =>
           \A ch \in Published.valid :
             LET sample == Published.channel[ch]
             IN  /\ ch \in Published.fresh /\ sample.msb.number > 0
                 /\ sample.msb.kind.raw = "MID" /\ sample.msb.kind.data = {}]_acquisitionVars
  BY PublishedIsHonest DEF Honest
<1> QED
  BY <1>1, AcquisitionInvariant, PTL DEF AcquisitionSpec, ValidHasNoDataFault

\* A result that does not admit side effects stands for a job none of whose
\* reads took effect, however it ended.
THEOREM ReadsAreAdmitted == AcquisitionSpec => SideEffectsAreAdmitted
<1>1. AcquisitionInv /\ [AcquisitionNext]_acquisitionVars =>
        [Terminates /\ touched' => "READ_SIDE_EFFECTS" \in Newest'.effects]_acquisitionVars
  BY NextAcquisition DEF EndsWell
<1> QED
  BY <1>1, AcquisitionInvariant, PTL DEF AcquisitionSpec, SideEffectsAreAdmitted
=============================================================================
