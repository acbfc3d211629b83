SPECIFICATION Spec
CONSTANTS
  UnitHz = 1000
  PpmScale = 1000
  Profiles <- MCProfiles
  Clocks <- MCClocks
INVARIANTS ValidMeansMeasurable EstimateIsConservative
