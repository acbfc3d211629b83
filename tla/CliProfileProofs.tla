--------------------------- MODULE CliProfileProofs ---------------------------
(***************************************************************************)
(* The staged profile is honest, and a trusted profile is the one that was *)
(* written, for every set of settings, every default that validates and    *)
(* every revision limit.                                                   *)
(***************************************************************************)
EXTENDS CliProfile, TLAPS

\* A setting keeps the type of the profile; work is only under way on a
\* binding; and StagedIsHonest.
ProfileInv ==
  /\ staged \in Config /\ desired \in Config
  /\ stagedInitialized \in BOOLEAN /\ stagedDirty \in BOOLEAN /\ bound \in BOOLEAN
  /\ ~Idle => bound
  /\ StagedIsHonest

\* What a setting may do to a profile: anything but mix two modes or move it
\* to another device.
Editable(c, d) ==
  d \in Config /\ d.address = c.address /\ d.variant = c.variant /\ ValidMode(d)

\* A profile that validates has one mode.
LEMMA ValidatedMode == ASSUME NEW c, ValidateConfig(c) PROVE ValidMode(c)
BY DEF ValidateConfig

\* The profile in force, and the copy that is looked at, are profiles.
LEMMA InForceIsProfile ==
  ASSUME ProfileInv
  PROVE  /\ InForce \in Config /\ ValidMode(InForce)
         /\ Ensured \in Config /\ ValidMode(Ensured)
         /\ Ensured.address = InForce.address /\ Ensured.variant = InForce.variant
<1>1. InForce \in Config /\ ValidMode(InForce)
  <2>1. Default \in Config /\ ValidMode(Default)
    BY DefaultAssumption, ValidatedMode
  <2>2. desired \in Config /\ (bound => ValidMode(desired))
    BY ValidatedMode DEF ProfileInv, StagedIsHonest
  <2>3. QED BY <2>1, <2>2 DEF InForce
<1>2. QED BY <1>1 DEF ProfileInv, StagedIsHonest, Ensured

\* An edit keeps the mode and the device when the fields it is about do.
LEMMA SameModeIsEditable ==
  ASSUME NEW c, ValidMode(c), NEW d \in Config, d.address = c.address, d.variant = c.variant,
         d.mode = c.mode, d.sequence = c.sequence, d.active = c.active, d.channels = c.channels
  PROVE  Editable(c, d)
BY DEF Editable, ValidMode

\* Marking an edit keeps the invariant.
LEMMA MarkKeeps ==
  ASSUME ProfileInv, NEW d, Editable(Ensured, d), MarkStagedChanged(d)
  PROVE  ProfileInv'
<1>1. /\ staged' = d /\ stagedInitialized' = TRUE /\ stagedDirty' = TRUE
      /\ UNCHANGED deviceVars
  BY DEF MarkStagedChanged, Keep
<1>2. InForce' = InForce /\ Idle' = Idle /\ Trusted' = Trusted
  BY <1>1 DEF deviceVars, InForce, Idle, Trusted
<1>3. QED
  BY <1>1, <1>2, InForceIsProfile DEF ProfileInv, StagedIsHonest, deviceVars, Editable

\* Looking at the copy, or taking it afresh, keeps the invariant.
LEMMA KeepKeeps ==
  ASSUME ProfileInv, UNCHANGED deviceVars,
         \/ Keep(Ensured, stagedInitialized /\ stagedDirty)
         \/ Keep(InForce, FALSE)
  PROVE  ProfileInv'
<1>1. InForce' = InForce /\ Idle' = Idle /\ Trusted' = Trusted
  BY DEF deviceVars, InForce, Idle, Trusted
<1>2. CASE Keep(Ensured, stagedInitialized /\ stagedDirty)
  <2>1. (stagedInitialized => ~stagedDirty) => Ensured = InForce
    BY DEF ProfileInv, StagedIsHonest, Ensured
  <2>2. QED BY <1>1, <1>2, <2>1, InForceIsProfile DEF ProfileInv, StagedIsHonest, deviceVars, Keep
<1>3. CASE Keep(InForce, FALSE)
  BY <1>1, <1>3, InForceIsProfile DEF ProfileInv, StagedIsHonest, deviceVars, Keep
<1>4. QED BY <1>2, <1>3

-----------------------------------------------------------------------------
(* The settings.                                                           *)

LEMMA SetModeKeeps == ProfileInv /\ SetMode => ProfileInv'
<1> SUFFICES ASSUME ProfileInv, SetMode PROVE ProfileInv' OBVIOUS
<1> DEFINE e == Ensured
<1>1. e \in Config /\ ValidMode(e)
  BY InForceIsProfile
<1>2. PhysicalChannels(e) \subseteq Channels
  BY <1>1 DEF PhysicalChannels, Channels, Config
<1>3. CASE \E k \in PhysicalChannels(e) :
             MarkStagedChanged([e EXCEPT !.mode = "SINGLE", !.channels = {k},
                                         !.active = k, !.sequence = Unspecified])
  <2>1. PICK k \in PhysicalChannels(e) :
             MarkStagedChanged([e EXCEPT !.mode = "SINGLE", !.channels = {k},
                                         !.active = k, !.sequence = Unspecified])
    BY <1>3
  <2> DEFINE d == [e EXCEPT !.mode = "SINGLE", !.channels = {k},
                            !.active = k, !.sequence = Unspecified]
  <2>2. k \in Channels /\ Unspecified \in DOMAIN SequenceMask
    BY <1>2 DEF SequenceMask, Unspecified
  <2> HIDE DEF e
  <2>3. d \in Config
    BY <1>1, <2>2 DEF Config
  <2>4. /\ d.address = e.address /\ d.variant = e.variant /\ d.mode = "SINGLE"
        /\ d.channels = {k} /\ d.active = k /\ d.sequence = Unspecified
    BY <1>1 DEF Config
  <2>5. Editable(e, d)
    BY <2>2, <2>3, <2>4 DEF Editable, ValidMode
  <2> HIDE DEF d
  <2>6. QED BY <2>1, <2>5, MarkKeeps DEF d, e
<1>4. CASE \E s \in DOMAIN SequenceMask \ {Unspecified} :
             /\ SequenceMask[s] \subseteq PhysicalChannels(e)
             /\ MarkStagedChanged([e EXCEPT !.mode = "SEQUENTIAL", !.active = NoChannel,
                                            !.channels = SequenceMask[s], !.sequence = s])
  <2>1. PICK s \in DOMAIN SequenceMask \ {Unspecified} :
             /\ SequenceMask[s] \subseteq PhysicalChannels(e)
             /\ MarkStagedChanged([e EXCEPT !.mode = "SEQUENTIAL", !.active = NoChannel,
                                            !.channels = SequenceMask[s], !.sequence = s])
    BY <1>4
  <2> DEFINE mask == SequenceMask[s]
             d == [e EXCEPT !.mode = "SEQUENTIAL", !.active = NoChannel,
                            !.channels = mask, !.sequence = s]
  <2>2. mask \in SUBSET Channels
    BY <1>2, <2>1
  <2> HIDE DEF e, mask
  <2>3. d \in Config
    BY <1>1, <2>2 DEF Config
  <2>4. /\ d.address = e.address /\ d.variant = e.variant /\ d.mode = "SEQUENTIAL"
        /\ d.channels = mask /\ d.active = NoChannel /\ d.sequence = s
    BY <1>1 DEF Config
  <2>5. Editable(e, d)
    BY <2>3, <2>4 DEF Editable, ValidMode, mask
  <2> HIDE DEF d
  <2>6. QED BY <2>1, <2>5, MarkKeeps DEF d, e, mask
<1>5. QED BY <1>3, <1>4 DEF SetMode

\* The settings that are one field.
LEMMA FieldIsEditable ==
  ASSUME NEW c \in Config, ValidMode(c), NEW d \in Config,
         \E f \in {"deglitch", "timeout", "activation", "errorReporting", "channel",
                   "rpOverride", "autoAmplitude", "highCurrent", "intbDisabled"} : \E v :
           d = [c EXCEPT ![f] = v]
  PROVE  Editable(c, d)
<1>1. PICK f \in {"deglitch", "timeout", "activation", "errorReporting", "channel",
                  "rpOverride", "autoAmplitude", "highCurrent", "intbDisabled"} : \E v :
        d = [c EXCEPT ![f] = v]
  OBVIOUS
<1>2. /\ d.address = c.address /\ d.variant = c.variant /\ d.mode = c.mode
      /\ d.sequence = c.sequence /\ d.active = c.active /\ d.channels = c.channels
  BY <1>1 DEF Config
<1>3. QED BY <1>2, SameModeIsEditable

LEMMA SetReferenceKeeps == ProfileInv /\ SetReference => ProfileInv'
<1> SUFFICES ASSUME ProfileInv, SetReference PROVE ProfileInv' OBVIOUS
<1> DEFINE e == Ensured
<1>1. PICK r \in References :
        MarkStagedChanged([e EXCEPT !.source = r.source, !.clock = r.clock, !.ppm = r.ppm])
  BY DEF SetReference
<1>2. e \in Config /\ ValidMode(e)
  BY InForceIsProfile
<1>3. r \in [source : {"INTERNAL", "EXTERNAL"}, clock : Nat \ {0}, ppm : Nat]
  BY ReferenceAssumption
<1> DEFINE d == [e EXCEPT !.source = r.source, !.clock = r.clock, !.ppm = r.ppm]
<1> HIDE DEF e
<1>4. d \in Config
  BY <1>2, <1>3 DEF Config
<1>5. /\ d.address = e.address /\ d.variant = e.variant /\ d.mode = e.mode
      /\ d.sequence = e.sequence /\ d.active = e.active /\ d.channels = e.channels
  BY <1>2 DEF Config
<1> HIDE DEF d
<1>6. Editable(e, d)
  BY <1>2, <1>4, <1>5, SameModeIsEditable
<1>7. QED BY <1>1, <1>6, MarkKeeps DEF d, e

\* The settings of one field each keep the type of the profile.
LEMMA FieldKeeps ==
  ASSUME ProfileInv,
         SetDeglitch \/ SetTimeout \/ SetActivation \/ SetErrors \/ SetError
  PROVE  ProfileInv'
<1> DEFINE e == Ensured
           Fields == {"deglitch", "timeout", "activation", "errorReporting"}
<1>1. e \in Config /\ ValidMode(e)
  BY InForceIsProfile
<1>2. \E f \in Fields : \E v :
        MarkStagedChanged([e EXCEPT ![f] = v]) /\ [e EXCEPT ![f] = v] \in Config
  <2> HIDE DEF e
  <2>1. CASE SetDeglitch
    <3>1. PICK v \in Filters : MarkStagedChanged([e EXCEPT !.deglitch = v])
      BY <2>1 DEF SetDeglitch, e
    <3>2. [e EXCEPT !.deglitch = v] \in Config
      <4>1. v \in DOMAIN Bandwidth
        BY SettingAssumption
      <4>2. QED BY <1>1, <4>1 DEF Config
    <3>3. QED BY <3>1, <3>2
  <2>2. CASE SetTimeout
    <3>1. PICK v \in Timeouts : MarkStagedChanged([e EXCEPT !.timeout = v])
      BY <2>2 DEF SetTimeout, e
    <3>2. [e EXCEPT !.timeout = v] \in Config
      <4>1. v \in Nat
        BY SettingAssumption
      <4>2. QED BY <1>1, <4>1 DEF Config
    <3>3. QED BY <3>1, <3>2
  <2>3. CASE SetActivation
    <3>1. PICK v \in {"FULL_CURRENT", "LOW_POWER"} : MarkStagedChanged([e EXCEPT !.activation = v])
      BY <2>3 DEF SetActivation, e
    <3>2. [e EXCEPT !.activation = v] \in Config
      BY <1>1 DEF Config
    <3>3. QED BY <3>1, <3>2
  <2>4. CASE SetErrors
    <3>1. PICK v \in {Routes, {}} : MarkStagedChanged([e EXCEPT !.errorReporting = v])
      BY <2>4 DEF SetErrors, e
    <3>2. [e EXCEPT !.errorReporting = v] \in Config
      BY <1>1 DEF Config
    <3>3. QED BY <3>1, <3>2
  <2>5. CASE SetError
    <3>1. PICK r \in Reports, b \in BOOLEAN :
            MarkStagedChanged([e EXCEPT !.errorReporting = IF b THEN @ \cup {r} ELSE @ \ {r}])
      BY <2>5 DEF SetError, e
    <3> DEFINE v == IF b THEN e.errorReporting \cup {r} ELSE e.errorReporting \ {r}
    <3>2. v \in SUBSET Routes
      <4>1. r \in Routes /\ e.errorReporting \in SUBSET Routes
        BY <1>1, SettingAssumption DEF Config
      <4>2. QED BY <4>1
    <3>3. MarkStagedChanged([e EXCEPT !.errorReporting = v])
      BY <3>1
    <3> HIDE DEF v
    <3>4. [e EXCEPT !.errorReporting = v] \in Config
      BY <1>1, <3>2 DEF Config
    <3>5. QED BY <3>3, <3>4
  <2>6. QED BY <2>1, <2>2, <2>3, <2>4, <2>5
<1>3. PICK f \in Fields :
        \E v : MarkStagedChanged([e EXCEPT ![f] = v]) /\ [e EXCEPT ![f] = v] \in Config
  BY <1>2
<1>4. PICK v : MarkStagedChanged([e EXCEPT ![f] = v]) /\ [e EXCEPT ![f] = v] \in Config
  BY <1>3
<1>5. Editable(e, [e EXCEPT ![f] = v])
  <2> HIDE DEF e
  <2>1. QED BY <1>1, <1>4, FieldIsEditable
<1>6. QED BY <1>4, <1>5, MarkKeeps

LEMMA SetFlagKeeps == ProfileInv /\ SetFlag => ProfileInv'
<1> SUFFICES ASSUME ProfileInv, SetFlag PROVE ProfileInv' OBVIOUS
<1> DEFINE e == Ensured
<1>1. e \in Config /\ ValidMode(e)
  BY InForceIsProfile
<1>2. PICK f \in Flags, b \in BOOLEAN : MarkStagedChanged([e EXCEPT ![f] = b])
  BY DEF SetFlag
<1> DEFINE d == [e EXCEPT ![f] = b]
<1>3. f \in {"rpOverride", "autoAmplitude", "highCurrent", "intbDisabled"}
  BY SettingAssumption
<1> HIDE DEF e
<1>4. d \in Config
  BY <1>1, <1>3 DEF Config
<1>5. Editable(e, d)
  BY <1>1, <1>3, <1>4, FieldIsEditable
<1> HIDE DEF d
<1>6. QED BY <1>2, <1>5, MarkKeeps DEF d, e

LEMMA SetChannelKeeps == ProfileInv /\ SetChannel => ProfileInv'
<1> SUFFICES ASSUME ProfileInv, SetChannel PROVE ProfileInv' OBVIOUS
<1> DEFINE e == Ensured
<1>1. e \in Config /\ ValidMode(e)
  BY InForceIsProfile
<1> HIDE DEF e
<1>2. PhysicalChannels(e) \subseteq Channels /\ e.channel \in [Channels -> ChannelConfig]
  BY <1>1 DEF PhysicalChannels, Channels, Config
<1>3. \E k \in Channels, c \in ChannelConfig : MarkStagedChanged(WithChannel(k, c))
  <2>1. PICK k \in PhysicalChannels(e) :
          \/ \E s \in Values :
               MarkStagedChanged(WithChannel(k, [e.channel[k] EXCEPT ![s.field] = s.value]))
          \/ \E b \in Bounds :
               MarkStagedChanged(WithChannel(k,
                 [e.channel[k] EXCEPT !.sensorMin = b[1], !.sensorMax = b[2]]))
    BY DEF SetChannel, e
  <2> DEFINE old == e.channel[k]
  <2>2. k \in Channels /\ old \in ChannelConfig
    BY <1>2
  <2> HIDE DEF old
  <2>3. CASE \E s \in Values : MarkStagedChanged(WithChannel(k, [old EXCEPT ![s.field] = s.value]))
    <3>1. PICK s \in Values : MarkStagedChanged(WithChannel(k, [old EXCEPT ![s.field] = s.value]))
      BY <2>3
    <3> DEFINE f == s.field
               v == s.value
    <3>2. /\ f \in {"rcount", "settleCount", "finDivider", "frefDivider", "offset", "drive"}
          /\ v \in Nat
      BY ValueAssumption
    <3> HIDE DEF f, v
    <3>3. [old EXCEPT ![f] = v] \in ChannelConfig
      BY <2>2, <3>2 DEF ChannelConfig
    <3>4. QED BY <2>2, <3>1, <3>3 DEF f, v
  <2>4. CASE \E b \in Bounds :
               MarkStagedChanged(WithChannel(k, [old EXCEPT !.sensorMin = b[1], !.sensorMax = b[2]]))
    <3>1. PICK b \in Bounds :
               MarkStagedChanged(WithChannel(k, [old EXCEPT !.sensorMin = b[1], !.sensorMax = b[2]]))
      BY <2>4
    <3>2. b[1] \in Nat /\ b[2] \in Nat
      BY BoundsAssumption
    <3>3. [old EXCEPT !.sensorMin = b[1], !.sensorMax = b[2]] \in ChannelConfig
      BY <2>2, <3>2 DEF ChannelConfig
    <3>4. QED BY <2>2, <3>1, <3>3
  <2>5. QED BY <2>1, <2>3, <2>4 DEF old
<1>4. PICK k \in Channels, c \in ChannelConfig : MarkStagedChanged(WithChannel(k, c))
  BY <1>3
<1> DEFINE channel == [e.channel EXCEPT ![k] = c]
           d == [e EXCEPT !.channel = channel]
<1>5. d = WithChannel(k, c)
  BY DEF WithChannel, e
<1>6. channel \in [Channels -> ChannelConfig]
  BY <1>2
<1> HIDE DEF channel
<1>7. d \in Config
  BY <1>1, <1>6 DEF Config
<1>8. Editable(e, d)
  BY <1>1, <1>7, FieldIsEditable
<1> HIDE DEF d
<1>9. QED BY <1>4, <1>5, <1>8, MarkKeeps DEF e

LEMMA SettingKeeps == ProfileInv /\ HandleSetting => ProfileInv'
BY SetModeKeeps, SetReferenceKeeps, FieldKeeps, SetFlagKeeps, SetChannelKeeps
DEF HandleSetting

-----------------------------------------------------------------------------
(* The commands about the whole copy, and the driver's own steps.          *)

LEMMA ResetKeeps == ProfileInv /\ ResetStagedProfile => ProfileInv'
<1> SUFFICES ASSUME ProfileInv, ResetStagedProfile PROVE ProfileInv' OBVIOUS
<1> DEFINE f == InForce
           d == [Default EXCEPT !.callbacks = f.callbacks, !.address = f.address,
                                !.variant = f.variant]
<1>1. f \in Config /\ Default \in Config /\ ValidMode(Default)
      /\ Ensured.address = f.address /\ Ensured.variant = f.variant
  BY DefaultAssumption, ValidatedMode, InForceIsProfile
<1>2. MarkStagedChanged(d)
  BY DEF ResetStagedProfile, MarkStagedChanged
<1> HIDE DEF f
<1>3. /\ d \in Config /\ d.address = f.address /\ d.variant = f.variant
      /\ d.mode = Default.mode /\ d.sequence = Default.sequence
      /\ d.active = Default.active /\ d.channels = Default.channels
  BY <1>1 DEF Config
<1> HIDE DEF d
<1>4. Editable(Ensured, d)
  BY <1>1, <1>3 DEF Editable, ValidMode
<1>5. QED BY <1>2, <1>4, MarkKeeps

LEMMA CommitKeeps == ProfileInv /\ CommitProfile => ProfileInv'
<1> SUFFICES ASSUME ProfileInv, CommitProfile PROVE ProfileInv' OBVIOUS
<1> DEFINE e == Ensured
<1>1. CASE Keep(e, stagedInitialized /\ stagedDirty) /\ UNCHANGED deviceVars
  BY <1>1, KeepKeeps
<1>2. CASE Updatable(e) /\ Keep(e, FALSE) /\ UpdateDesiredConfig(e)
  <2>1. e \in Config /\ ValidMode(e) /\ ValidateConfig(e)
    BY <1>2, InForceIsProfile DEF Updatable
  <2> HIDE DEF e
  <2>2. /\ desired' = e /\ staged' = e /\ bound' = bound /\ bound /\ job' = job
        /\ appliedState' \in {"UNKNOWN", "DIRTY"}
        /\ stagedInitialized' \in BOOLEAN /\ stagedDirty' \in BOOLEAN
    BY <1>2 DEF Updatable, Keep, UpdateDesiredConfig
  <2>3. InForce' = e /\ ~Trusted'
    BY <2>2 DEF InForce, Trusted
  <2>4. QED BY <2>1, <2>2, <2>3 DEF ProfileInv, StagedIsHonest, Idle
<1>3. QED BY <1>1, <1>2 DEF CommitProfile

LEMMA BindKeeps == ProfileInv /\ BindCommand => ProfileInv'
<1> SUFFICES ASSUME ProfileInv, BindCommand PROVE ProfileInv' OBVIOUS
<1>1. Default \in Config /\ ValidMode(Default) /\ ValidateConfig(Default)
  BY DefaultAssumption, ValidatedMode
<1>2. /\ bound' = TRUE /\ desired' = Default /\ staged' = Default
      /\ stagedInitialized' = TRUE /\ stagedDirty' = FALSE /\ appliedState' = "UNKNOWN"
  BY DEF BindCommand, Keep
<1>3. InForce' = Default /\ ~Trusted'
  BY <1>2 DEF InForce, Trusted
<1>4. QED BY <1>1, <1>2, <1>3 DEF ProfileInv, StagedIsHonest

LEMMA EndKeeps == ProfileInv /\ EndCommand => ProfileInv'
<1> SUFFICES ASSUME ProfileInv, EndCommand PROVE ProfileInv' OBVIOUS
<1>1. /\ bound' = FALSE /\ desired' = Default /\ staged' = staged /\ job' = "NONE"
      /\ stagedInitialized' = FALSE /\ stagedDirty' = FALSE /\ appliedState' = "UNKNOWN"
  BY DEF EndCommand, Idle
<1>2. ~Trusted' /\ Default \in Config /\ Idle'
  BY <1>1, DefaultAssumption DEF Trusted, Idle
<1>3. QED BY <1>1, <1>2 DEF ProfileInv, StagedIsHonest

\* None of these touches the copy or the binding; a finished job is the only
\* one to raise trust, and then all of the profile has been written.
LEMMA DriverKeeps ==
  ASSUME ProfileInv, StartJob \/ FinishJob \/ SleepOrWake \/ LoseTrust
  PROVE  ProfileInv'
<1>1. UNCHANGED <<stagedVars, bound, desired>>
  BY DEF StartJob, FinishJob, SleepOrWake, LoseTrust
<1>2. ~Idle' => bound
  BY DEF StartJob, FinishJob, SleepOrWake, LoseTrust, ProfileInv, Idle
<1>3. Trusted' => bound /\ programmed' = desired
  <2>1. CASE StartJob
    BY <2>1 DEF StartJob, ProfileInv, StagedIsHonest, Trusted
  <2>2. CASE FinishJob
    BY <2>2 DEF FinishJob, ProfileInv, StagedIsHonest, Trusted
  <2>3. CASE SleepOrWake
    BY <2>3 DEF SleepOrWake, ProfileInv, StagedIsHonest, Trusted
  <2>4. CASE LoseTrust
    BY <2>4 DEF LoseTrust, Trusted
  <2>5. QED BY <2>1, <2>2, <2>3, <2>4
<1>4. InForce' = InForce
  BY <1>1 DEF InForce
<1>5. QED BY <1>1, <1>2, <1>3, <1>4 DEF ProfileInv, StagedIsHonest, stagedVars

LEMMA InitProfile == Init => ProfileInv
<1> SUFFICES ASSUME Init PROVE ProfileInv OBVIOUS
<1>1. Default \in Config
  BY DefaultAssumption
<1>2. QED BY <1>1 DEF Init, ProfileInv, StagedIsHonest, Idle, Trusted

LEMMA NextProfile == ProfileInv /\ [Next]_vars => ProfileInv'
<1> SUFFICES ASSUME ProfileInv, [Next]_vars PROVE ProfileInv' OBVIOUS
<1>1. CASE EnsureStagedProfile \/ DiscardStagedProfile
  BY <1>1, KeepKeeps DEF EnsureStagedProfile, DiscardStagedProfile
<1>2. CASE UNCHANGED vars
  <2>1. InForce' = InForce /\ Idle' = Idle /\ Trusted' = Trusted
    BY <1>2 DEF vars, deviceVars, InForce, Idle, Trusted
  <2>2. QED BY <1>2, <2>1 DEF vars, stagedVars, deviceVars, ProfileInv, StagedIsHonest
<1>3. QED
  BY <1>1, <1>2, SettingKeeps, ResetKeeps, CommitKeeps, BindKeeps, EndKeeps, DriverKeeps
  DEF Next

-----------------------------------------------------------------------------
\* A copy that is not marked dirty is the profile in force, an edited one
\* has one mode and the binding's identity, and a profile trusted to be
\* applied is the one written, for every default, setting and limit.
THEOREM StagedProfileIsHonest == Spec => []StagedIsHonest
<1>1. ProfileInv => StagedIsHonest
  BY DEF ProfileInv
<1>2. QED BY InitProfile, NextProfile, <1>1, PTL DEF Spec

\* Every setting, reset and commit leaves well-formed profiles.
THEOREM ProfilesTyped == Spec => [](staged \in Config /\ desired \in Config)
<1>1. ProfileInv => staged \in Config /\ desired \in Config
  BY DEF ProfileInv
<1>2. QED BY InitProfile, NextProfile, <1>1, PTL DEF Spec
=============================================================================
