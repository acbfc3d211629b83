\* Every operation with every outcome, one identity at a time.
CONSTANTS
  single = single
  dual = dual
  id1 = id1
  id2 = id2
  id3 = id3
  ChannelCount = 2
  Profiles = {single, dual}
  NoProfile = NoProfile
  ProfileChannels <- MCProfileChannels
  OperationIds = {id1}
  ResultCapacity = 2
  MaxConfigRevision = 2
  I2cTimeoutMs = 2
  TimeModulus = 16
  Deadlines = {2}
  Times = {2, 1}
  MaxTransferBudget = 1
  DiagnosticRegisters = {8, 26, 28}
SPECIFICATION Spec
INVARIANTS
  TypeOK
  PhaseNamesNextTransfer
  LastWriteIsProvenance
  ApplyingHasJob
  TrustedIsFaultless
  JobMatchesConfiguration
PROPERTIES
  WriteEffectsAreExplained
  IdentityFence
