CONSTANTS
  dual = dual
  id1 = id1
  ChannelCount = 2
  Profiles = {dual}
  NoProfile = NoProfile
  ProfileChannels <- MCProfileChannels
  OperationIds = {id1}
  ResultCapacity = 2
  MaxConfigRevision = 1
  I2cTimeoutMs = 2
  TimeModulus = 16
  Deadlines = {2}
  Times = {2, 1}
  MaxTransferBudget = 1
  DiagnosticRegisters = {}
  ConversionKinds <- MCKinds
  DataReadyRouted = TRUE
  MaxConversions = 2
SPECIFICATION AcquisitionSpec
INVARIANTS
  CoherentPairs
PROPERTIES
  FreshOnlyOnce
  OverrunIsExact
  ValidHasNoDataFault
  SideEffectsAreAdmitted
