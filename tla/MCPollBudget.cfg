\* Every pair of a poll time and a deadline on a timeline of 16 ticks.
CONSTANTS
  single = single
  dual = dual
  id1 = id1
  id2 = id2
  id3 = id3
  ChannelCount = 2
  Profiles = {dual}
  NoProfile = NoProfile
  ProfileChannels <- MCProfileChannels
  OperationIds = {id1}
  ResultCapacity = 1
  MaxConfigRevision = 1
  I2cTimeoutMs = 3
  TimeModulus = 16
  Deadlines = {0, 11}
  Times <- MCTimes
  MaxTransferBudget = 5
  DiagnosticRegisters = {}
SPECIFICATION Spec
INVARIANTS
  TransferRemains
  JobAccounting
  TimeoutsFitDeadline
