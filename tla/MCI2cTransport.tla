---------------------------- MODULE MCI2cTransport ----------------------------
\* The transport with the sensor's address and two others to search, two
\* frequencies, and counters that saturate at once.
EXTENDS I2cTransport, TLC

CONSTANTS h1, h2, h3, none

MCHandles == {h1, h2, h3}
HandleSymmetry == Permutations(MCHandles)
MCDiscoveryAddresses == {1, 2}
MCAddress == 3
MCFrequencies == {100, 400}
=============================================================================
