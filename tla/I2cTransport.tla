----------------------------- MODULE I2cTransport -----------------------------
(***************************************************************************)
(* src/examples/esp32/I2cMasterTransport.cpp: the owner's I2C context, a   *)
(* bus handle and two device handles of the ESP-IDF master driver, one for *)
(* the sensor and one for whatever address was last searched.              *)
(*                                                                         *)
(* Each function is one step, for the owner's calls are serialised.  Any   *)
(* call of the platform may fail: `fault` names the calls of this step     *)
(* that do, and with which error.  `native` is what the platform really    *)
(* has; a handle of the context that is not live there would be used after *)
(* its removal, a live one that the context does not hold is leaked.       *)
(***************************************************************************)
EXTENDS Naturals

CONSTANTS
  Handles,            \* addresses at which the platform may allocate a device
  NoHandle,           \* nullptr
  Address,            \* Context::address, the sensor's
  DiscoveryAddresses, \* the addresses the owner searches
  Frequencies,        \* those of 10 kHz to 400 kHz that the owner asks for
  BadFrequency,       \* one outside that range
  MaxCount            \* UINT32_MAX in the code

ASSUME TransportAssumption ==
  /\ NoHandle \notin Handles
  /\ Address \notin DiscoveryAddresses
  /\ Frequencies \subseteq Nat \ {0}
  /\ BadFrequency \notin Frequencies
  /\ MaxCount \in Nat

VARIABLES
  context,   \* Context
  native,    \* the platform's bus and devices
  returned   \* the Status of the last call

vars == <<context, native, returned>>

-----------------------------------------------------------------------------
(* The platform, and how its errors are reported.                          *)

\* The calls of one function that can fail, by what they are made for.
Calls == {"rm_discovery", "rm_device", "del_bus", "new_bus", "add_device",
          "undo_bus", "undo_device", "transfer"}
EspErr == {"TIMEOUT", "INVALID_RESPONSE", "INVALID_ARG", "INVALID_STATE", "NO_MEM"}
Status == {"OK", "I2C_TIMEOUT", "I2C_ERROR", "INVALID_PARAM", "I2C_BUS", "INVALID_CONFIG"}
Fault == [calls : SUBSET Calls, error : EspErr]
Faults(calls) == [calls : SUBSET calls, error : EspErr]
NoFault == [calls |-> {}, error |-> "TIMEOUT"]

MapEspErr(error) ==
  CASE error = "TIMEOUT" -> "I2C_TIMEOUT"
    [] error = "INVALID_ARG" -> "INVALID_PARAM"
    [] error \in {"INVALID_STATE", "NO_MEM"} -> "I2C_BUS"
    [] OTHER -> "I2C_ERROR"

\* A NACK and a controller condition look alike: no claim about the bus.
MapTransactionErr(error) ==
  IF error = "INVALID_STATE" THEN "I2C_ERROR" ELSE MapEspErr(error)

NoDevice == [address |-> 0, hz |-> 0]
MakeDeviceConfig(address, hz) == [address |-> address, hz |-> hz]
DeviceConfig == {MakeDeviceConfig(a, f) : a \in {Address} \cup DiscoveryAddresses,
                                          f \in Frequencies}

ValidFrequency(hz) == hz \in Frequencies

\* The platform refuses to delete a bus that has devices, and a second bus.
BusIsEmpty(n) == \A h \in Handles : n.devices[h] = NoDevice

Attached(n, h, device) == [n EXCEPT !.devices = [@ EXCEPT ![h] = device]]

-----------------------------------------------------------------------------
(* A function of the transport takes the context and the platform to new   *)
(* ones and a status.  The pieces below pass a failure on untouched.       *)

Ready(c, n) == [context |-> c, native |-> n, status |-> "OK"]
Failed(w, status) == [w EXCEPT !.status = status]

RemoveDiscovery(w, fault) ==
  IF w.status # "OK" \/ w.context.discoveryDevice = NoHandle THEN w
  ELSE IF "rm_discovery" \in fault.calls THEN Failed(w, MapEspErr(fault.error))
  ELSE [w EXCEPT !.native = Attached(@, w.context.discoveryDevice, NoDevice),
                 !.context = [@ EXCEPT !.discoveryDevice = NoHandle, !.discoveryAddress = 0]]

RemoveDevice(w, fault) ==
  IF w.status # "OK" \/ w.context.device = NoHandle THEN w
  ELSE IF "rm_device" \in fault.calls THEN Failed(w, MapEspErr(fault.error))
  ELSE [w EXCEPT !.native = Attached(@, w.context.device, NoDevice),
                 !.context = [@ EXCEPT !.device = NoHandle]]

SetBus(w, real, held) ==
  [w EXCEPT !.native = [@ EXCEPT !.bus = real], !.context = [@ EXCEPT !.bus = held]]

DeleteBus(w, fault) ==
  IF w.status # "OK" \/ ~w.context.bus THEN w
  ELSE IF "del_bus" \in fault.calls \/ ~BusIsEmpty(w.native)
  THEN Failed(w, MapEspErr(fault.error))
  ELSE SetBus(w, FALSE, FALSE)

Close(c, n, fault) ==
  DeleteBus(RemoveDevice(RemoveDiscovery(Ready(c, n), fault), fault), fault)

AddDevice(w, new, hz) ==
  [w EXCEPT !.native = Attached(@, new, MakeDeviceConfig(Address, hz)),
            !.context = [@ EXCEPT !.device = new, !.frequencyHz = hz]]

HasHandle(c) == c.bus \/ c.device # NoHandle \/ c.discoveryDevice # NoHandle

\* Mutant: the bus that could not be deleted is not kept in the context.
UndoOpenForgetsBus(w, fault) ==
  Failed(SetBus(w, "undo_bus" \in fault.calls, FALSE), MapEspErr(fault.error))

\* The device could not be added: the new bus is deleted, or kept in the
\* context when that fails too.
UndoOpen(w, fault) ==
  Failed(SetBus(w, "undo_bus" \in fault.calls, "undo_bus" \in fault.calls),
         MapEspErr(fault.error))

\* The configuration is kept before anything is set up.
Open(c, n, hz, fault, new) ==
  LET w == Ready([c EXCEPT !.frequencyHz = hz, !.hasBusConfig = TRUE], n)
  IN  IF HasHandle(c) THEN Failed(Ready(c, n), "I2C_BUS")
      ELSE IF ~ValidFrequency(hz) THEN Failed(Ready(c, n), "INVALID_CONFIG")
      ELSE IF "new_bus" \in fault.calls \/ n.bus THEN Failed(w, MapEspErr(fault.error))
      ELSE IF "add_device" \in fault.calls THEN UndoOpen(w, fault)
      ELSE AddDevice(SetBus(w, TRUE, TRUE), new, hz)

Reopen(c, n, fault, new) ==
  IF HasHandle(c) THEN Failed(Ready(c, n), "I2C_BUS")
  ELSE IF ~c.hasBusConfig THEN Failed(Ready(c, n), "INVALID_CONFIG")
  ELSE Open(c, n, c.frequencyHz, fault, new)

Recover(c, n, fault, new) ==
  LET w == Close(c, n, fault)
  IN  IF ~c.hasBusConfig THEN Failed(Ready(c, n), "INVALID_CONFIG")
      ELSE IF (c.device # NoHandle \/ c.discoveryDevice # NoHandle) /\ ~c.bus
      THEN Failed(Ready(c, n), "I2C_BUS")
      ELSE IF w.status # "OK" THEN w
      ELSE Reopen(w.context, w.native, fault, new)

\* Mutants: the removed handle survives a failed rollback; the rollback
\* device is added at the frequency that has just been refused.
ReplaceDeviceDangling(w, hz, fault, new) ==
  IF "add_device" \notin fault.calls THEN AddDevice(w, new, hz)
  ELSE IF "undo_device" \in fault.calls
  THEN Failed([w EXCEPT !.context = [@ EXCEPT !.device = new]], MapEspErr(fault.error))
  ELSE Failed(AddDevice(w, new, w.context.frequencyHz), MapEspErr(fault.error))
ReplaceDeviceKeepsRequest(w, hz, fault, new) ==
  IF "add_device" \notin fault.calls THEN AddDevice(w, new, hz)
  ELSE IF "undo_device" \in fault.calls THEN Failed(w, MapEspErr(fault.error))
  ELSE Failed(AddDevice(w, new, hz), MapEspErr(fault.error))

\* The device is added at the new frequency, else again at the old one, else
\* not at all.
ReplaceDevice(w, hz, fault, new) ==
  IF "add_device" \notin fault.calls THEN AddDevice(w, new, hz)
  ELSE IF "undo_device" \in fault.calls THEN Failed(w, MapEspErr(fault.error))
  ELSE Failed(AddDevice(w, new, w.context.frequencyHz), MapEspErr(fault.error))

SetFrequency(c, n, hz, fault, new) ==
  LET w == RemoveDevice(RemoveDiscovery(Ready(c, n), fault), fault)
  IN  IF ~c.bus \/ c.device = NoHandle \/ ~c.hasBusConfig
      THEN Failed(Ready(c, n), "I2C_BUS")
      ELSE IF ~ValidFrequency(hz) THEN Failed(Ready(c, n), "INVALID_PARAM")
      ELSE IF hz = c.frequencyHz \/ w.status # "OK"
      THEN IF hz = c.frequencyHz THEN Ready(c, n) ELSE w
      ELSE ReplaceDevice(w, hz, fault, new)

-----------------------------------------------------------------------------
(* Transfers.                                                              *)

TransferKind == {"WRITE", "WRITE_READ", "DISCOVERY"}
Saturated(k) == IF k < MaxCount THEN k + 1 ELSE k

Recorded(stats, kind, status) ==
  [k \in DOMAIN stats |-> IF k = kind \/ (k = "failures" /\ status # "OK")
                          THEN Saturated(stats[k]) ELSE stats[k]]

RecordTransfer(w, kind) ==
  [w EXCEPT !.context = [@ EXCEPT !.transferStats =
                           Recorded(w.context.transferStats, kind, w.status)]]

Transacted(w, kind, fault) ==
  RecordTransfer(IF "transfer" \in fault.calls
                 THEN Failed(w, MapTransactionErr(fault.error)) ELSE w, kind)

ValidateContext(c, address) ==
  IF c.device = NoHandle THEN "I2C_BUS"
  ELSE IF address # Address THEN "INVALID_PARAM" ELSE "OK"

\* write() and writeRead(), the callbacks of the driver.
Transfer(c, n, kind, address, fault) ==
  IF ValidateContext(c, address) # "OK"
  THEN Failed(Ready(c, n), ValidateContext(c, address))
  ELSE Transacted(Ready(c, n), kind, fault)

\* The discovery device for `address`, made or kept as needed.
DiscoveryDevice(w, address, fault, new) ==
  LET stale == w.context.discoveryDevice # NoHandle /\ w.context.discoveryAddress # address
      v == IF stale THEN RemoveDiscovery(w, fault) ELSE w
  IN  IF v.status # "OK" \/ v.context.discoveryDevice # NoHandle THEN v
      ELSE IF "add_device" \in fault.calls THEN Failed(v, MapEspErr(fault.error))
      ELSE [v EXCEPT !.native =
                       Attached(@, new, MakeDeviceConfig(address, v.context.frequencyHz)),
                     !.context =
                       [@ EXCEPT !.discoveryDevice = new, !.discoveryAddress = address]]

ReadRegisterAt(c, n, address, fault, new) ==
  LET w == IF address = Address THEN Ready(c, n)
           ELSE DiscoveryDevice(Ready(c, n), address, fault, new)
  IN  IF ~c.bus \/ c.device = NoHandle \/ ~c.hasBusConfig
      THEN Failed(Ready(c, n), "I2C_BUS")
      ELSE IF w.status # "OK" THEN w
      ELSE Transacted(w, "DISCOVERY", fault)

-----------------------------------------------------------------------------
(* The state machine.                                                      *)

NoTransfers == [k \in TransferKind \cup {"failures"} |-> 0]

Init ==
  /\ context = [bus |-> FALSE, device |-> NoHandle, discoveryDevice |-> NoHandle,
                discoveryAddress |-> 0, frequencyHz |-> 0, hasBusConfig |-> FALSE,
                transferStats |-> NoTransfers]
  /\ native = [bus |-> FALSE, devices |-> [h \in Handles |-> NoDevice]]
  /\ returned = "OK"

Do(w) == context' = w.context /\ native' = w.native /\ returned' = w.status

Addresses == {Address} \cup DiscoveryAddresses

Free == {h \in Handles : native.devices[h] = NoDevice}

\* A step of the owner, with the faults the platform has in store for it and
\* the address at which it would allocate a device.
OpenStep ==
  \E fault \in Faults({"new_bus", "add_device", "undo_bus"}), new \in Free,
     hz \in Frequencies \cup {BadFrequency} : Do(Open(context, native, hz, fault, new))
CloseStep ==
  \E fault \in Faults({"rm_discovery", "rm_device", "del_bus"}) :
    Do(Close(context, native, fault))
ReopenStep ==
  \E fault \in Faults({"new_bus", "add_device", "undo_bus"}), new \in Free :
    Do(Reopen(context, native, fault, new))
RecoverStep ==
  \E fault \in Faults({"rm_discovery", "rm_device", "del_bus",
                       "new_bus", "add_device", "undo_bus"}), new \in Free :
    Do(Recover(context, native, fault, new))
SetFrequencyStep ==
  \E fault \in Faults({"rm_discovery", "rm_device", "add_device", "undo_device"}),
     new \in Free, hz \in Frequencies \cup {BadFrequency} :
    Do(SetFrequency(context, native, hz, fault, new))
TransferStep ==
  \E fault \in Faults({"transfer"}), kind \in {"WRITE", "WRITE_READ"}, address \in Addresses :
    Do(Transfer(context, native, kind, address, fault))
DiscoverStep ==
  \E fault \in Faults({"rm_discovery", "add_device", "transfer"}), new \in Free,
     address \in Addresses : Do(ReadRegisterAt(context, native, address, fault, new))

Next ==
  \/ OpenStep \/ CloseStep \/ ReopenStep \/ RecoverStep
  \/ SetFrequencyStep \/ TransferStep \/ DiscoverStep

Spec == Init /\ [][Next]_vars

-----------------------------------------------------------------------------
(* Properties.                                                             *)

Device == [address : Addresses, hz : Frequencies] \cup {NoDevice}

WellFormed(c, n) ==
  /\ c \in [bus : BOOLEAN, device : Handles \cup {NoHandle},
            discoveryDevice : Handles \cup {NoHandle},
            discoveryAddress : Addresses \cup {0},
            frequencyHz : Frequencies \cup {0}, hasBusConfig : BOOLEAN,
            transferStats : [TransferKind \cup {"failures"} -> 0 .. MaxCount]]
  /\ n \in [bus : BOOLEAN, devices : [Handles -> Device]]

TypeOK == WellFormed(context, native) /\ returned \in Status

\* A context c that holds exactly what the platform n has.
Exact(c, n) ==
  /\ c.bus = n.bus
  /\ \A h \in Handles : n.devices[h] # NoDevice <=> h \in {c.device, c.discoveryDevice}
  /\ c.device # NoHandle =>
       c.bus /\ n.devices[c.device] = MakeDeviceConfig(Address, c.frequencyHz)
  /\ c.discoveryDevice # NoHandle =>
       /\ c.device \notin {NoHandle, c.discoveryDevice}
       /\ c.discoveryAddress \in DiscoveryAddresses
       /\ n.devices[c.discoveryDevice] = MakeDeviceConfig(c.discoveryAddress, c.frequencyHz)
  /\ HasHandle(c) => c.hasBusConfig
  /\ c.hasBusConfig => c.frequencyHz \in Frequencies

\* No bus or device of the platform is leaked, no handle outlives what it
\* names, and both devices have the address they are used for and the current
\* frequency.  open(), close(), setFrequency() and readRegisterAt() may each
\* stop after any of their calls.
ContextIsExact == Exact(context, native)

IsOpen(c) == c.bus /\ c.device # NoHandle

\* However calls have failed before, one recover() in which none does leaves
\* the bus open, on both sides, at the frequency last in force.
RecoveryHeals ==
  \A new \in Free :
    context.hasBusConfig =>
      LET w == Recover(context, native, NoFault, new)
      IN  /\ w.status = "OK" /\ IsOpen(w.context) /\ w.native.bus
          /\ w.context.frequencyHz = context.frequencyHz
          /\ w.native.devices[w.context.device]
               = MakeDeviceConfig(Address, context.frequencyHz)

-----------------------------------------------------------------------------
(* The transport implements the life of a bus as its owner sees it.        *)

Phase ==
  IF IsOpen(context) THEN "OPEN" ELSE IF HasHandle(context) THEN "DEGRADED" ELSE "CLOSED"

Lifecycle == INSTANCE BusLifecycle WITH
  phase <- Phase, frequency <- context.frequencyHz, answer <- returned

\* A failed call never changes the frequency of an open bus, a degraded bus
\* is never taken for an open one, and only recovery repairs it.
ImplementsBusLifecycle == Lifecycle!LifecycleSpec
=============================================================================
