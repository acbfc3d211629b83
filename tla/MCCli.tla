--------------------------------- MODULE MCCli ---------------------------------
\* The application with jobs of two transfers that may miss a deadline of two
\* ticks, sessions of one or two rounds, and identities that soon come round.
EXTENDS Cli
=============================================================================
