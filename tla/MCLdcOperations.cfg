CONSTANTS
  dual = dual
  id1 = id1
  id2 = id2
  id3 = id3
  ChannelCount = 2
  Profiles = {dual}
  NoProfile = NoProfile
  ProfileChannels <- MCProfileChannels
  OperationIds = {id1,id2,id3}
  ResultCapacity = 2
  MaxConfigRevision = 1
  I2cTimeoutMs = 2
  TimeModulus = 16
  Deadlines = {2}
  Times = {2, 1}
  MaxTransferBudget = 1
  DiagnosticRegisters = {}
SPECIFICATION Spec
SYMMETRY OperationIdSymmetry
INVARIANTS SlotReserved IdentitiesUnique
PROPERTIES ImplementsLedger
