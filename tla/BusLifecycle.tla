----------------------------- MODULE BusLifecycle -----------------------------
(***************************************************************************)
(* What the owner of the I2C bus is promised, with no notion of handles.   *)
(* The bus is CLOSED, OPEN, or DEGRADED: half set up, because a call of    *)
(* the platform failed in the middle.  It runs at the frequency last       *)
(* asked for with success; a call that fails never changes it, and what    *)
(* is DEGRADED serves no transfer before it has been recovered.            *)
(***************************************************************************)
CONSTANT Frequencies

VARIABLES
  phase,       \* CLOSED, OPEN or DEGRADED
  frequency,   \* the frequency the bus has, or will have when recovered
  answer       \* what the last call returned

lifecycle == <<phase, frequency, answer>>

LifecycleInit == phase = "CLOSED" /\ frequency = 0 /\ answer = "OK"

\* A closed bus is set up at f; the frequency is known from then on.
Establish(f) ==
  /\ phase = "CLOSED" /\ frequency' = f
  /\ \/ answer' = "OK" /\ phase' = "OPEN"
     \/ answer' # "OK" /\ phase' \in {"CLOSED", "DEGRADED"}

\* Whatever is set up is released; a failure may stop half way.
Release ==
  /\ UNCHANGED frequency
  /\ \/ answer' = "OK" /\ phase' = "CLOSED"
     \/ answer' # "OK" /\ phase' \in {phase, "DEGRADED"}

\* The bus is set up afresh, from any state in which a frequency is known.
Recover ==
  /\ frequency \in Frequencies /\ UNCHANGED frequency
  /\ \/ answer' = "OK" /\ phase' = "OPEN"
     \/ answer' # "OK" /\ phase' \in {phase, "DEGRADED", "CLOSED"}

\* Only an open bus changes its frequency, and only when it succeeds.
Retune(f) ==
  /\ phase = "OPEN"
  /\ \/ answer' = "OK" /\ phase' = "OPEN" /\ frequency' = f
     \/ answer' # "OK" /\ phase' \in {"OPEN", "DEGRADED"} /\ UNCHANGED frequency

\* Only an open bus serves a transfer that succeeds.
Transfer ==
  /\ answer' = "OK" => phase = "OPEN"
  /\ UNCHANGED <<phase, frequency>>

Refuse == answer' # "OK" /\ UNCHANGED <<phase, frequency>>

LifecycleNext ==
  \/ \E f \in Frequencies : Establish(f) \/ Retune(f)
  \/ Release \/ Recover \/ Transfer \/ Refuse

LifecycleSpec == LifecycleInit /\ [][LifecycleNext]_lifecycle
=============================================================================
