---------------------------- MODULE MCLdcSystem ----------------------------
(* Instances of LdcSystem for TLC: an LDC1612 with two single-channel      *)
(* profiles that differ in register values only.                           *)
EXTENDS LdcSystem, TLC

CONSTANTS slow, fast, id1

MCProfileChannels == [p \in Profiles |-> {1}]
ProfileSymmetry == Permutations(Profiles)
=============================================================================
