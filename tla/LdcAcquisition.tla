--------------------------- MODULE LdcAcquisition ---------------------------
(***************************************************************************)
(* Acquisitions of a driver that trusts its device to convert: the         *)
(* destructive STATUS and DATA reads of a job, interleaved with the        *)
(* device's conversions, and the SampleBatch built from them.  The device  *)
(* is the one of test/support/FakeLdc1614Device.h, except that a failed    *)
(* read may have had its side effects (all but an address NACK).           *)
(*                                                                         *)
(* A conversion is numbered, so that two halves of a sample can be told to *)
(* belong together; of its 28 bits only the endpoints matter.  The owner   *)
(* starts and abandons acquisitions, reads registers directly and puts the *)
(* device to sleep; what else it may do ends trust and with it admission.  *)
(***************************************************************************)
EXTENDS LdcDriver

CONSTANTS
  ConversionKinds,   \* [raw, data, status]: the code and the faults routed
                     \* to the DATA and the STATUS register
  DataReadyRouted,   \* ERROR_CONFIG.DRDY_2INT
  MaxConversions     \* bound on the conversions of a behaviour

DataFlags == {"UNDER_RANGE", "OVER_RANGE", "WATCHDOG", "AMPLITUDE_SUSPECT"}
StatusFlags == DataFlags \cup {"ZERO_COUNT"}
Raw == {"ZERO", "MID", "MAX"}

ASSUME ConversionAssumption ==
  /\ ConversionKinds \subseteq [raw : Raw, data : SUBSET DataFlags, status : SUBSET StatusFlags]
  /\ DataReadyRouted \in BOOLEAN
  /\ MaxConversions \in Nat

VARIABLES
  live, shadow,   \* per channel: the DATA registers, and the halves latched by DATAx_MSB
  unread,         \* STATUS.UNREADCONV
  sticky,         \* the first event STATUS retains until it is cleared
  asleep,         \* SLEEP_MODE_EN
  converted,      \* conversions made so far
  scratch,        \* _scratchStatusBefore, _scratchMsb, _scratchSamples
  batches,        \* sampleBatch of each slot of the result ring
  opened,         \* history: conversions made before the job's opening STATUS read
  touched,        \* history: a read of the newest job took effect on the device
  reported        \* history: conversions that a batch reported as fresh

evidenceVars == <<live, shadow, unread, sticky>>
deviceVars == <<evidenceVars, asleep, converted>>
buildVars == <<scratch, batches>>
historyVars == <<opened, touched, reported>>
acquisitionVars == <<vars, deviceVars, buildVars, historyVars>>

Cleared == [number |-> 0, kind |-> [raw |-> "ZERO", data |-> {}, status |-> {}], flags |-> {}]
NoEvent == [errors |-> {}, dataReady |-> FALSE, channel |-> NoChannel]
NoStatus == [unread |-> {}, errors |-> {}, errorChannel |-> NoChannel]
NoSample == [msb |-> Cleared, lsb |-> Cleared, quality |-> {}]
NoBatch == [selected |-> {}, fresh |-> {}, overrun |-> {}, valid |-> {}, errors |-> {},
            channel |-> [ch \in ChannelIndex |-> NoSample]]
NoScratch == [statusBefore |-> NoStatus, msb |-> Cleared,
              samples |-> [ch \in ChannelIndex |-> NoSample]]

\* The state after one initialisation and wake(), its result taken.
AcquisitionInit ==
  /\ bound = TRUE /\ config \in Profiles
  /\ appliedState = "APPLIED_ACTIVE" /\ configRevision = 1 /\ configFault = NoFault
  /\ progress = NoJob /\ jobStep = 0 /\ lastWrite = NoWrite
  /\ results = EmptyRing /\ resultHead = 1 % ResultCapacity /\ resultCount = 0
  /\ pollCall = NoCall
  /\ live = [ch \in ChannelIndex |-> Cleared] /\ shadow = live
  /\ unread = {} /\ sticky = NoEvent /\ asleep = FALSE /\ converted = 0
  /\ scratch = NoScratch /\ batches = [slot \in 0 .. ResultCapacity - 1 |-> NoBatch]
  /\ opened = 0 /\ touched = FALSE /\ reported = {}

-----------------------------------------------------------------------------
(* The device.                                                             *)

LastScanChannel == Max(ProfileChannels[config])

\* STATUS keeps its first event: a later one is lost until it is cleared.
Convert(ch, kind) ==
  /\ ~asleep /\ converted < MaxConversions
  /\ converted' = converted + 1
  /\ live' = [live EXCEPT ![ch] =
                [number |-> converted + 1, kind |-> kind, flags |-> kind.data]]
  /\ unread' = unread \cup {ch}
  /\ LET ready == DataReadyRouted /\ ch = LastScanChannel
     IN  sticky' = IF sticky = NoEvent /\ (kind.status # {} \/ ready)
                   THEN [errors |-> kind.status, dataReady |-> ready, channel |-> ch]
                   ELSE sticky
  /\ UNCHANGED <<vars, shadow, asleep, buildVars, historyVars>>

\* Side effects of a read: STATUS clears all evidence, DATAx_MSB latches the
\* pair and clears the evidence of its channel.
ReadEffect(reg, ch) ==
  CASE reg = "STATUS" -> unread' = {} /\ sticky' = NoEvent /\ UNCHANGED <<live, shadow>>
    [] reg = "DATA_MSB" ->
         /\ shadow' = [shadow EXCEPT ![ch] = live[ch]]
         /\ live' = [live EXCEPT ![ch].flags = {}]
         /\ unread' = unread \ {ch}
         /\ sticky' = IF sticky.channel = ch THEN NoEvent ELSE sticky
    [] OTHER -> UNCHANGED evidenceVars

ReadValue(reg, ch) == IF reg = "DATA_MSB" THEN live[ch] ELSE shadow[ch]

BusRead(reg, ch, status, byJob) ==
  /\ \/ status # "I2C_NACK_ADDR" /\ ReadEffect(reg, ch) /\ touched' = (touched \/ byJob)
     \/ status # "OK" /\ UNCHANGED <<evidenceVars, touched>>
  /\ UNCHANGED <<asleep, converted>>

\* A CONFIG write; entering sleep clears the conversion evidence.
AcceptConfig(sleepBit) ==
  /\ asleep' = sleepBit
  /\ IF sleepBit
     THEN /\ live' = [ch \in ChannelIndex |-> Cleared] /\ shadow' = live'
          /\ unread' = {} /\ sticky' = NoEvent
     ELSE UNCHANGED evidenceVars

-----------------------------------------------------------------------------
(* Decoding, and the quality of a sample.                                  *)

\* decodeDeviceStatus: DRDY alone attributes no channel.
DecodeDeviceStatus ==
  [unread |-> unread, errors |-> sticky.errors,
   errorChannel |-> IF sticky.errors # {} THEN sticky.channel ELSE NoChannel]

DecodeChannelSample(msb, lsb) == [msb |-> msb, lsb |-> lsb, quality |-> msb.flags]

\* Mutant: no endpoint is classified.
EndpointFlagsNone(s) == {}

\* Raw endpoints classify the code; a mixed pair is neither 0 nor all ones
\* unless both halves are.
EndpointFlags(s) ==
  IF s.msb.kind.raw # s.lsb.kind.raw \/ s.msb.kind.raw = "MID" THEN {}
  ELSE IF s.msb.kind.raw = "ZERO" THEN {"UNDER_RANGE"} ELSE {"OVER_RANGE"}

\* Mutant: evidence of the closing STATUS counts as freshness too.
FreshChannelsLate(after) ==
  (scratch.statusBefore.unread \cup after.unread) \cap progress.requestedChannels
\* Mutant: the overrun is taken from the opening STATUS.
OverrunChannelsEarly(after) == scratch.statusBefore.unread \cap progress.requestedChannels

FreshChannels(after) == scratch.statusBefore.unread \cap progress.requestedChannels
OverrunChannels(after) == after.unread \cap progress.requestedChannels

Quality(ch, after) ==
  LET s == scratch.samples[ch]
      before == scratch.statusBefore
  IN  s.quality
        \cup (IF ch \in FreshChannels(after) THEN {"FRESH"} \cup EndpointFlags(s) ELSE {"STALE"})
        \cup (IF before.errorChannel = ch THEN before.errors ELSE {})
        \cup (IF ch \in OverrunChannels(after) THEN {"DATA_LOST"} ELSE {})

\* The batch of a job whose closing STATUS is after.
BuildAcquisition(after) ==
  LET selected == progress.requestedChannels
      quality == [ch \in selected |-> Quality(ch, after)]
  IN  [selected |-> selected, fresh |-> FreshChannels(after),
       overrun |-> OverrunChannels(after),
       valid |-> {ch \in selected : quality[ch] \cap (StatusFlags \cup {"STALE"}) = {}},
       errors |-> {ch \in selected : quality[ch] \cap StatusFlags # {}},
       channel |-> [ch \in ChannelIndex |->
          IF ch \in selected THEN [scratch.samples[ch] EXCEPT !.quality = quality[ch]]
          ELSE NoSample]]

-----------------------------------------------------------------------------
(* The four reads of an acquisition.                                       *)

\* Mutant: the halves are read in the order LSB, MSB.
DataRegisterSwapped(phase) == IF phase = "READ_DATA_MSB" THEN "DATA_LSB" ELSE "DATA_MSB"
DataRegister(phase) == IF phase = "READ_DATA_MSB" THEN "DATA_MSB" ELSE "DATA_LSB"

\* Scratch values do not survive the job, however it ends.
KeepWhileActive(next) == scratch' = IF progress'.active THEN next ELSE NoScratch

OpeningStatus(status) ==
  /\ ReadStatusBefore(status)
  /\ BusRead("STATUS", NoChannel, status, TRUE)
  /\ KeepWhileActive([scratch EXCEPT !.statusBefore = DecodeDeviceStatus])
  /\ opened' = IF progress'.active THEN converted ELSE 0
  /\ UNCHANGED <<batches, reported>>

DataMsb(status) ==
  LET reg == DataRegister("READ_DATA_MSB")
  IN  /\ ReadDataMsb(status)
      /\ BusRead(reg, progress.channel, status, TRUE)
      /\ KeepWhileActive([scratch EXCEPT !.msb = ReadValue(reg, progress.channel)])
      /\ opened' = IF progress'.active THEN opened ELSE 0
      /\ UNCHANGED <<batches, reported>>

DataLsb(status) ==
  LET reg == DataRegister("READ_DATA_LSB")
  IN  /\ ReadDataLsb(status)
      /\ BusRead(reg, progress.channel, status, TRUE)
      /\ KeepWhileActive([scratch EXCEPT !.samples[progress.channel] =
           DecodeChannelSample(scratch.msb, ReadValue(reg, progress.channel))])
      /\ opened' = IF progress'.active THEN opened ELSE 0
      /\ UNCHANGED <<batches, reported>>

FreshNumbers(batch) == {batch.channel[ch].msb.number : ch \in batch.fresh}

ClosingStatus(status) ==
  LET batch == BuildAcquisition(DecodeDeviceStatus)
      tail == (resultHead + resultCount) % ResultCapacity
  IN  /\ ReadStatusAfter(status)
      /\ BusRead("STATUS", NoChannel, status, TRUE)
      /\ KeepWhileActive(scratch)
      /\ \/ /\ status = "OK"
            /\ batches' = [batches EXCEPT ![tail] = batch]
            /\ reported' = reported \cup FreshNumbers(batch)
         \/ status # "OK" /\ UNCHANGED <<batches, reported>>
      /\ opened' = 0

-----------------------------------------------------------------------------
(* What the owner does around them.                                        *)

Admit ==
  /\ \E id \in OperationIds, d \in Deadlines, channels \in SUBSET ChannelIndex :
       StartAcquire(channels, id, d)
  /\ touched' = FALSE
  /\ UNCHANGED <<deviceVars, buildVars, opened, reported>>

Abandon ==
  /\ CancelJob \/ \E now \in Times : PollTimeout(now)
  /\ KeepWhileActive(scratch)
  /\ opened' = 0
  /\ UNCHANGED <<deviceVars, batches, touched, reported>>

OpenPoll ==
  /\ \E now \in Times, max \in 1 .. MaxTransferBudget : PollBegin(now, max)
  /\ UNCHANGED <<deviceVars, buildVars, historyVars>>

Drain ==
  /\ TakeResult
  /\ batches' = [batches EXCEPT ![resultHead] = NoBatch]
  /\ UNCHANGED <<deviceVars, scratch, historyVars>>

\* readDeviceStatus(), readDataReady() and readRegister16() read STATUS or
\* DATA outside any job, and consume what they read.
DirectRead(reg, ch, status) ==
  /\ bound /\ ~progress.active
  /\ BusRead(reg, ch, status, FALSE)
  /\ UNCHANGED <<vars, buildVars, opened, reported>>

SleepOrWake(status) ==
  /\ \/ /\ Sleep(status)
        /\ \/ status # "I2C_NACK_ADDR" /\ AcceptConfig(TRUE)
           \/ status # "OK" /\ UNCHANGED <<evidenceVars, asleep>>
     \/ /\ Wake(status)
        /\ \/ status # "I2C_NACK_ADDR" /\ AcceptConfig(FALSE)
           \/ status # "OK" /\ UNCHANGED <<evidenceVars, asleep>>
  /\ UNCHANGED <<converted, buildVars, historyVars>>

AcquisitionNext ==
  \/ Admit \/ Abandon \/ OpenPoll \/ Drain
  \/ \E ch \in ProfileChannels[config], kind \in ConversionKinds : Convert(ch, kind)
  \/ \E status \in TransferStatus :
       \/ OpeningStatus(status) \/ DataMsb(status) \/ DataLsb(status) \/ ClosingStatus(status)
       \/ SleepOrWake(status)
       \/ \E reg \in {"STATUS", "DATA_MSB", "DATA_LSB"}, ch \in ChannelIndex :
            DirectRead(reg, ch, status)

AcquisitionSpec == AcquisitionInit /\ [][AcquisitionNext]_acquisitionVars

-----------------------------------------------------------------------------
(* Correctness.                                                            *)

\* A successful acquisition ends in this step; its batch.
Publishes == Terminates /\ Newest'.hasSampleBatch
Published == batches'[(resultHead + resultCount) % ResultCapacity]

\* The two halves of every sample belong to one conversion, at whatever point
\* of the MSB and LSB reads the device converted again.
CoherentPairs ==
  \A slot \in DOMAIN batches, ch \in ChannelIndex :
    batches[slot].channel[ch].msb.number = batches[slot].channel[ch].lsb.number

\* No conversion is reported as fresh by two batches: not after a cancelled or
\* failed readout, a direct read of STATUS or DATA, or a sleep in between.
FreshOnlyOnce ==
  [][Publishes => FreshNumbers(Published) \cap (reported \cup {0}) = {}]_acquisitionVars

\* DATA_LOST, and the overrun mask, are set exactly for the samples that the
\* device had already replaced when the closing STATUS was read.
OverrunIsExact ==
  [][Publishes =>
       Published.overrun = {ch \in Published.selected :
                              live[ch].number # Published.channel[ch].msb.number}]_acquisitionVars

\* A channel in validChannels carries a whole conversion that was no endpoint
\* and had no fault routed to DATA, even though the device erases those flags
\* at the first read of the channel.  It may have had a fault: one that is
\* routed to STATUS alone can be hidden there by the first sticky event.
ValidHasNoDataFault ==
  [][Publishes =>
       \A ch \in Published.valid :
         LET sample == Published.channel[ch]
         IN  /\ ch \in Published.fresh /\ sample.msb.number > 0
             /\ sample.msb.kind.raw = "MID" /\ sample.msb.kind.data = {}]_acquisitionVars

\* A job whose result does not admit READ_SIDE_EFFECTS has consumed nothing:
\* none of its reads took effect on the device.
SideEffectsAreAdmitted ==
  [][Terminates /\ touched' => "READ_SIDE_EFFECTS" \in Newest'.effects]_acquisitionVars

\* What docs/CODE_AUDIT_RESOLUTION.md says of the batch protocol: a conversion
\* that arrives during the readout is retained as overrun evidence.
ArrivalsAreRetained ==
  [][Publishes =>
       \A ch \in Published.selected : live[ch].number > opened => ch \in Published.overrun]_acquisitionVars
=============================================================================
