--------------------------- MODULE ProfileReadback ---------------------------
(***************************************************************************)
(* expectedConfigurationRegister(): asked for any register address of a    *)
(* bound variant, it searches the replay plan for the write to it and      *)
(* answers with that write and the bits a readback can be compared in.     *)
(* The verification and dump commands rely on this answer being the last   *)
(* word on what a successful replay leaves in the register.                *)
(***************************************************************************)
EXTENDS RegisterPlan

VARIABLES
  channels,   \* channel count of the variant asked about
  reg,        \* the register asked for
  answer      \* [step, mask]: the position in the plan, -1 when not found

readback == <<channels, reg, answer>>

NotAsked == [step |-> -1, mask |-> "NO_BITS"]
PlanSteps == 0 .. ConfigurationTransferCount(channels) - 1
StepsFor(r) == {k \in PlanSteps : ConfigWriteAt(channels, k).reg = r}

Init == channels \in {2, 4} /\ reg = 0 /\ answer = NotAsked

\* The first write of the plan that addresses the register.
ExpectedConfigurationRegister(r) ==
  /\ reg' = r
  /\ answer' =
       IF StepsFor(r) = {} THEN NotAsked
       ELSE [step |-> CHOOSE k \in StepsFor(r) : \A other \in StepsFor(r) : k <= other,
             mask |-> ConfigurationComparisonMask(r)]
  /\ UNCHANGED channels

Next == \E r \in 0 .. 255 : ExpectedConfigurationRegister(r)

Spec == Init /\ [][Next]_readback

-----------------------------------------------------------------------------
(* Correctness.                                                            *)

Found == answer.step # -1

\* A replay leaves no persistent configuration register of the variant as it
\* was: those it does not write are exactly the unavailable ones and RESET_DEV,
\* and it writes none twice, so the first match is also the final content.
\* All of it can be read back and compared in some bit, and nothing else.
PlanCoversProfileOnce ==
  /\ Cardinality(StepsFor(reg)) <= 1
  /\ (StepsFor(reg) # {}) <=>
       /\ IsConfigurationRegister(reg) /\ AvailableOnVariant(channels, reg)
       /\ reg # RegResetDev
  /\ Found <=> answer.mask # "NO_BITS"
  /\ Found => IsValidRegisterAddress(reg)

\* A diagnostic write to a register is reported under the same phase and
\* channel as the replay's write to it; CONFIG is the one register with a
\* phase of its own in the replay.
ProvenanceAgrees ==
  Found =>
    LET write == ConfigWriteAt(channels, answer.step)
    IN  /\ write.channel = ConfigurationChannelForRegister(reg)
        /\ write.phase # ConfigurationPhaseForRegister(reg) => reg = RegConfig
=============================================================================
