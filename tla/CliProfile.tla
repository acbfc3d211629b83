------------------------------ MODULE CliProfile ------------------------------
(***************************************************************************)
(* The staged profile of the diagnostic CLI (src/examples/common/          *)
(* Ldc1614Cli.cpp): settings are edited in a copy, checked, and committed  *)
(* as the driver's desired profile; a job writes that to the device.       *)
(*                                                                         *)
(* All of it is refused while work is under way.  A token that does not    *)
(* parse leaves the copy as it is once it exists (Look).  Jobs, sleep,     *)
(* wake, raw writes and invalidation are the driver's and appear by what   *)
(* they do to the trust in the written profile.                            *)
(***************************************************************************)
EXTENDS Profile

CONSTANTS
  Default,      \* makeDefaultConfig()
  References,   \* what `refclk` is given: source, clock, ppm
  Filters,      \* what `deglitch` is given
  Timeouts,     \* what `timeout` is given
  Flags,        \* of the settings that are on or off, those looked at
  Reports,      \* the routes that `error` is given
  Values,       \* what the settings of one channel are given: field, value
  Bounds,       \* what `sensorbounds` is given
  NoProfile,    \* registers that hold no profile, or part of one
  MaxRevision   \* UINT32_MAX in the code

\* The parser lets only these through.
ASSUME DefaultAssumption == Default \in Config /\ ValidateConfig(Default)
ASSUME ReferenceAssumption ==
  \A r \in References :
    r \in [source : {"INTERNAL", "EXTERNAL"}, clock : Nat \ {0}, ppm : Nat] /\ r.ppm < PpmScale
ASSUME SettingAssumption ==
  /\ Filters \subseteq DOMAIN Bandwidth
  /\ Timeouts \subseteq Nat \ {0}
  /\ Reports \subseteq Routes
  /\ Flags \subseteq {"rpOverride", "autoAmplitude", "highCurrent", "intbDisabled"}
ASSUME ValueAssumption ==
  \A s \in Values :
    s \in [field : {"rcount", "settleCount", "finDivider", "frefDivider", "offset", "drive"},
           value : Nat]
ASSUME RangeAssumption ==
  \A s \in Values :
    /\ s.value <= 65535
    /\ s.field = "finDivider" => s.value \in 1 .. 15
    /\ s.field = "frefDivider" => s.value \in 1 .. 1023
    /\ s.field = "drive" => s.value <= 31
    /\ s.field = "rcount" => s.value >= 5
ASSUME BoundsAssumption == Bounds \subseteq Nat \X Nat
ASSUME RevisionAssumption == MaxRevision \in Nat \ {0}

VARIABLES
  staged, stagedInitialized, stagedDirty,   \* _stagedConfig and its flags
  bound, desired, configRevision,           \* the driver's binding
  appliedState, job,                        \* its trust, and the job under way
  programmed                                \* what the registers were written with

stagedVars == <<staged, stagedInitialized, stagedDirty>>
deviceVars == <<bound, desired, configRevision, appliedState, job, programmed>>
vars == <<stagedVars, deviceVars>>

Idle == job = "NONE"
Trusted == appliedState \in {"APPLIED_SLEEPING", "APPLIED_ACTIVE"}
InForce == IF bound THEN desired ELSE Default

Init ==
  /\ staged = Default /\ stagedInitialized = FALSE /\ stagedDirty = FALSE
  /\ bound = FALSE /\ desired = Default /\ configRevision = 0
  /\ appliedState = "UNKNOWN" /\ job = "NONE" /\ programmed = NoProfile

-----------------------------------------------------------------------------
(* The copy: made when first looked at, and edited from then on.           *)

Ensured == IF stagedInitialized THEN staged ELSE InForce

Keep(c, dirty) == staged' = c /\ stagedInitialized' = TRUE /\ stagedDirty' = dirty

\* profile show and validate, cfg, addr, variant, freq, timing; and every
\* setting whose tokens are refused.
EnsureStagedProfile ==
  Idle /\ Keep(Ensured, stagedInitialized /\ stagedDirty) /\ UNCHANGED deviceVars

DiscardStagedProfile == Idle /\ Keep(InForce, FALSE) /\ UNCHANGED deviceVars

\* The defaults, with the identity of the binding.
ResetStagedProfile ==
  /\ Idle
  /\ Keep([Default EXCEPT !.callbacks = InForce.callbacks, !.address = InForce.address,
                          !.variant = InForce.variant], TRUE)
  /\ UNCHANGED deviceVars

MarkStagedChanged(c) == Idle /\ Keep(c, TRUE) /\ UNCHANGED deviceVars

\* The mode is one tuple: a channel alone, or a sequence from channel 0.
SetMode ==
  \/ \E k \in PhysicalChannels(Ensured) :
       MarkStagedChanged([Ensured EXCEPT !.mode = "SINGLE", !.channels = {k},
                                         !.active = k, !.sequence = Unspecified])
  \/ \E s \in DOMAIN SequenceMask \ {Unspecified} :
       /\ SequenceMask[s] \subseteq PhysicalChannels(Ensured)
       /\ MarkStagedChanged([Ensured EXCEPT !.mode = "SEQUENTIAL", !.active = NoChannel,
                                            !.channels = SequenceMask[s], !.sequence = s])

SetReference ==
  \E r \in References :
    MarkStagedChanged([Ensured EXCEPT !.source = r.source, !.clock = r.clock, !.ppm = r.ppm])

SetDeglitch == \E f \in Filters : MarkStagedChanged([Ensured EXCEPT !.deglitch = f])
SetTimeout == \E t \in Timeouts : MarkStagedChanged([Ensured EXCEPT !.timeout = t])
SetActivation ==
  \E a \in {"FULL_CURRENT", "LOW_POWER"} : MarkStagedChanged([Ensured EXCEPT !.activation = a])
SetFlag ==
  \E f \in Flags, b \in BOOLEAN : MarkStagedChanged([Ensured EXCEPT ![f] = b])

SetErrors == \E all \in {Routes, {}} : MarkStagedChanged([Ensured EXCEPT !.errorReporting = all])
SetError ==
  \E r \in Reports, b \in BOOLEAN :
    MarkStagedChanged([Ensured EXCEPT !.errorReporting = IF b THEN @ \cup {r} ELSE @ \ {r}])

WithChannel(k, c) == [Ensured EXCEPT !.channel = [@ EXCEPT ![k] = c]]

SetChannel ==
  \E k \in PhysicalChannels(Ensured) :
    \/ \E s \in Values :
         MarkStagedChanged(WithChannel(k, [Ensured.channel[k] EXCEPT ![s.field] = s.value]))
    \/ \E b \in Bounds :
         MarkStagedChanged(WithChannel(k,
           [Ensured.channel[k] EXCEPT !.sensorMin = b[1], !.sensorMax = b[2]]))

HandleSetting ==
  \/ SetMode \/ SetReference \/ SetDeglitch \/ SetActivation \/ SetTimeout
  \/ SetFlag \/ SetErrors \/ SetError \/ SetChannel

-----------------------------------------------------------------------------
(* Commit, bind, end.                                                      *)

\* updateDesiredConfig() of a profile that validates.
Updatable(c) ==
  /\ bound /\ Idle /\ appliedState # "APPLIED_ACTIVE" /\ ValidateConfig(c)
  /\ c.callbacks = desired.callbacks /\ c.address = desired.address
  /\ c.variant = desired.variant
  /\ configRevision < MaxRevision

UpdateDesiredConfig(c) ==
  /\ desired' = c /\ configRevision' = configRevision + 1
  /\ appliedState' = IF appliedState = "UNKNOWN" THEN "UNKNOWN" ELSE "DIRTY"
  /\ UNCHANGED <<bound, job, programmed>>

\* Only verified, sleeping hardware gets a new profile; a clean copy commits
\* nothing, and a refused one stays dirty.
CommitProfile ==
  /\ Idle
  /\ IF /\ bound /\ appliedState = "APPLIED_SLEEPING"
        /\ stagedInitialized /\ stagedDirty /\ Updatable(Ensured)
     THEN Keep(Ensured, FALSE) /\ UpdateDesiredConfig(Ensured)
     ELSE Keep(Ensured, stagedInitialized /\ stagedDirty) /\ UNCHANGED deviceVars

BindCommand ==
  /\ Idle /\ ~bound
  /\ bound' = TRUE /\ desired' = Default /\ configRevision' = 1
  /\ appliedState' = "UNKNOWN" /\ Keep(Default, FALSE)
  /\ UNCHANGED <<job, programmed>>

\* Mutant: the copy of the previous binding is taken up again.
EndCommandKeepsStaged ==
  /\ Idle
  /\ bound' = FALSE /\ desired' = Default /\ configRevision' = 0
  /\ appliedState' = "UNKNOWN" /\ stagedDirty' = FALSE
  /\ UNCHANGED <<job, programmed, staged, stagedInitialized>>

EndCommand ==
  /\ Idle
  /\ bound' = FALSE /\ desired' = Default /\ configRevision' = 0
  /\ appliedState' = "UNKNOWN" /\ stagedInitialized' = FALSE /\ stagedDirty' = FALSE
  /\ UNCHANGED <<job, programmed, staged>>

-----------------------------------------------------------------------------
(* The driver, as the profile sees it.                                     *)

StartJob ==
  /\ Idle /\ bound
  /\ \/ job' \in {"INITIALIZE", "RESET_AND_REAPPLY"}
     \/ job' = "APPLY_CONFIG" /\ appliedState # "UNKNOWN"
  /\ UNCHANGED <<stagedVars, bound, desired, configRevision, appliedState, programmed>>

\* The end of a job: all of the profile is written and read back, or trust
\* is lost at some step of it, or it never wrote at all.
FinishJob ==
  /\ ~Idle /\ job' = "NONE"
  /\ \/ appliedState' = "APPLIED_SLEEPING" /\ programmed' = desired
     \/ appliedState' \in {"UNKNOWN", "DIRTY"} /\ programmed' = NoProfile
     \/ UNCHANGED <<appliedState, programmed>>
  /\ UNCHANGED <<stagedVars, bound, desired, configRevision>>

\* sleep and wake; a write that fails may have reached the device.
SleepOrWake ==
  /\ Idle /\ bound /\ Trusted
  /\ appliedState' \in {"APPLIED_SLEEPING", "APPLIED_ACTIVE", "DIRTY"}
  /\ UNCHANGED <<stagedVars, bound, desired, configRevision, job, programmed>>

\* wreg, and invalidate: the registers are no longer the profile's, or may
\* not be.
LoseTrust ==
  /\ Idle /\ bound
  /\ appliedState' \in IF appliedState = "UNKNOWN" THEN {"UNKNOWN"} ELSE {"UNKNOWN", "DIRTY"}
  /\ programmed' \in {programmed, NoProfile}
  /\ UNCHANGED <<stagedVars, bound, desired, configRevision, job>>

Next ==
  \/ EnsureStagedProfile \/ DiscardStagedProfile \/ ResetStagedProfile \/ HandleSetting
  \/ CommitProfile \/ BindCommand \/ EndCommand
  \/ StartJob \/ FinishJob \/ SleepOrWake \/ LoseTrust

Spec == Init /\ [][Next]_vars

-----------------------------------------------------------------------------
\* A copy that is not marked dirty is the profile in force, in every binding;
\* an edited one never mixes two modes or moves the binding; and a profile
\* that is trusted to be applied is the one that was written, although jobs,
\* commits and rebinding come between.
StagedIsHonest ==
  /\ stagedInitialized =>
       /\ ~stagedDirty => staged = InForce
       /\ ValidMode(staged)
       /\ staged.address = InForce.address /\ staged.variant = InForce.variant
  /\ bound => ValidateConfig(desired)
  /\ Trusted => bound /\ programmed = desired
=============================================================================
