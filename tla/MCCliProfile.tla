------------------------------ MODULE MCCliProfile ------------------------------
\* A two-channel device, in kilohertz; one or two values for each setting,
\* some of which make the profile invalid.
EXTENDS CliProfile

MCChannel == [rcount |-> 1238, settleCount |-> 10, finDivider |-> 2, frefDivider |-> 2,
              offset |-> 0, drive |-> 10, sensorMin |-> 100, sensorMax |-> 5000]
MCDefault ==
  [callbacks |-> TRUE, timeout |-> 50, address |-> "ADDR_GND", variant |-> 2,
   source |-> "INTERNAL", clock |-> 43000, ppm |-> 200, deglitch |-> "BW_10MHZ",
   activation |-> "FULL_CURRENT", highCurrent |-> FALSE, errorReporting |-> Routes,
   rpOverride |-> TRUE, autoAmplitude |-> FALSE, intbDisabled |-> TRUE,
   mode |-> "SINGLE", active |-> 0, sequence |-> Unspecified, channels |-> {0},
   channel |-> [k \in Channels |-> MCChannel]]
MCReferences == {[source |-> "INTERNAL", clock |-> 43000, ppm |-> 200]}
MCFilters == {"BW_10MHZ"}
MCValues == {[field |-> "rcount", value |-> 5]}
MCBounds == {<<100, 5000>>}
=============================================================================
