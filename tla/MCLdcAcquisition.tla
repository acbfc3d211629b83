-------------------------- MODULE MCLdcAcquisition --------------------------
(* An LDC1612 that scans both channels, for TLC.                           *)
EXTENDS LdcAcquisition, TLC

CONSTANTS dual, id1

MCProfileChannels == [p \in Profiles |-> {0, 1}]

Kind(raw, data, status) == [raw |-> raw, data |-> data, status |-> status]
\* A clean conversion, an endpoint that no route reports, a fault in both
\* registers and one that only STATUS can show.
MCKinds ==
  {Kind("MID", {}, {}), Kind("ZERO", {}, {}),
   Kind("MID", {"WATCHDOG"}, {"WATCHDOG"}), Kind("MID", {}, {"ZERO_COUNT"})}
MCCleanOnly == {Kind("MID", {}, {})}
=============================================================================
