SPECIFICATION Spec
CONSTANTS
  MaxId = 3
  Deadline = 2
  JobTransfers = 2
  MaxTally = 3
  Registers = 2
  Channels = 1
  LowHz = 1
  HighHz = 4
  MaxCount = 2
  MaxPeriod = 1
INVARIANTS OneTransferPerPass PendingIsCorrelated ReportIsHonest TrustMatchesBus
PROPERTIES AnswersOnce CancelIsSilent RequestsEnd
