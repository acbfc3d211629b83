---------------------------- MODULE MCLdcDriver ----------------------------
(* Instances of LdcDriver for TLC: an LDC1612 and its profiles.            *)
EXTENDS LdcDriver, TLC

CONSTANTS single, dual, id1, id2, id3

MCProfileChannels == [p \in Profiles |-> IF p = dual THEN {0, 1} ELSE {1}]
MCTimes == 0 .. TimeModulus - 1
=============================================================================
