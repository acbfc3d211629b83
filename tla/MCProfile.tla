------------------------------- MODULE MCProfile -------------------------------
\* Profiles in kilohertz and thousandths, one or two channels of one make, with
\* a second make for the other channel.  They lie on both sides of the limits
\* that the reference and sensor clocks share: the external maximum, the fref
\* limit, the conversion length, the offset and a quarter of fref.
EXTENDS ProfileCheck, TLC

Base == [callbacks |-> TRUE, timeout |-> 50, address |-> "ADDR_GND", variant |-> 2,
         source |-> "INTERNAL", clock |-> 43000, ppm |-> 200, deglitch |-> "BW_10MHZ",
         activation |-> "FULL_CURRENT", rpOverride |-> TRUE, autoAmplitude |-> FALSE,
         highCurrent |-> FALSE, intbDisabled |-> TRUE, errorReporting |-> Routes]

Single(k) == [mode |-> "SINGLE", active |-> k, sequence |-> Unspecified, channels |-> {k}]
Sequential == [mode |-> "SEQUENTIAL", active |-> NoChannel, sequence |-> "CH0_CH1",
               channels |-> {0, 1}]
Confused == [mode |-> "SINGLE", active |-> 0, sequence |-> "CH0_CH1", channels |-> {0, 1}]

References == {[source |-> "INTERNAL", clock |-> 43000, ppm |-> 200],
               [source |-> "EXTERNAL", clock |-> 35000, ppm |-> 100],
               [source |-> "EXTERNAL", clock |-> 39960, ppm |-> 1],   \* 40000 at its fastest
               [source |-> "EXTERNAL", clock |-> 40000, ppm |-> 1],
               [source |-> "EXTERNAL", clock |-> 2007, ppm |-> 3]}

Makes == [rcount : {8, 9, 1238}, settleCount : {4}, finDivider : {1, 2}, frefDivider : {1, 2, 3},
          offset : {0, 119}, drive : {10}, sensorMin : {100, 480}, sensorMax : {1094, 3281}]
Plain == [rcount |-> 1238, settleCount |-> 10, finDivider |-> 2, frefDivider |-> 2, offset |-> 0,
          drive |-> 10, sensorMin |-> 100, sensorMax |-> 5000]

MCProfiles ==
  {r @@ m @@ [channel |-> [k \in Channels |-> IF k = 0 THEN make ELSE Plain]] @@ Base :
     r \in References, m \in {Single(0), Single(1), Sequential, Confused}, make \in Makes}
MCClocks == {2001, 2007, 2013, 31500, 35000, 38500, 39960, 40000, 43000, 55000}
=============================================================================
