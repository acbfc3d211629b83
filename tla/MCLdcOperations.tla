--------------------------- MODULE MCLdcOperations ---------------------------
(* Instances of LdcOperations for TLC: an LDC1612 with one profile.        *)
EXTENDS LdcOperations, TLC

CONSTANTS dual, id1, id2, id3

MCProfileChannels == [p \in Profiles |-> {0, 1}]
OperationIdSymmetry == Permutations(OperationIds)
=============================================================================
