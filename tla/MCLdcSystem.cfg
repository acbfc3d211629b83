CONSTANTS
  slow = slow
  fast = fast
  id1 = id1
  ChannelCount = 2
  Profiles = {slow, fast}
  NoProfile = NoProfile
  ProfileChannels <- MCProfileChannels
  MaxConfigRevision = 2
  I2cTimeoutMs = 2
  TimeModulus = 16
  OperationIds = {id1}
  ResultCapacity = 2
  Deadlines = {2}
  Times = {2, 1}
  MaxTransferBudget = 1
  WatchedRegisters = {8, 26, 27}
  DiagnosticRegisters = {8, 26, 28}
SYMMETRY ProfileSymmetry
SPECIFICATION SystemSpec
INVARIANTS
  TrustIsTrue
  ReplayPrefix
  AcquiresConvertingDevice
PROPERTIES
  ReplayWhileAsleep
