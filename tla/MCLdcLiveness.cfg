\* A polled driver under fairness.
CONSTANTS
  single = single
  dual = dual
  id1 = id1
  id2 = id2
  id3 = id3
  ChannelCount = 2
  Profiles = {dual}
  NoProfile = NoProfile
  ProfileChannels <- MCProfileChannels
  OperationIds = {id1}
  ResultCapacity = 1
  MaxConfigRevision = 1
  I2cTimeoutMs = 2
  TimeModulus = 16
  Deadlines = {2}
  Times = {1}
  MaxTransferBudget = 2
  DiagnosticRegisters = {}
SPECIFICATION FairSpec
PROPERTIES
  JobTerminates
