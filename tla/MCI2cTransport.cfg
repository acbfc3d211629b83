SPECIFICATION Spec
CONSTANTS
  h1 = h1
  h2 = h2
  h3 = h3
  none = none
  NoHandle = none
  Handles <- MCHandles
  Address <- MCAddress
  DiscoveryAddresses <- MCDiscoveryAddresses
  Frequencies <- MCFrequencies
  BadFrequency = 5
  MaxCount = 1
SYMMETRY HandleSymmetry
INVARIANTS ContextIsExact RecoveryHeals
PROPERTIES ImplementsBusLifecycle
