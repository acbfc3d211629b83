-------------------------- MODULE I2cTransportProofs --------------------------
(***************************************************************************)
(* The context of the transport is exact for every set of handles,         *)
(* addresses and frequencies; from that, recovery always can succeed and   *)
(* the transport implements the life of a bus.                             *)
(***************************************************************************)
EXTENDS I2cTransport, TLAPS

ContextType ==
  [bus : BOOLEAN, device : Handles \cup {NoHandle}, discoveryDevice : Handles \cup {NoHandle},
   discoveryAddress : Addresses \cup {0}, frequencyHz : Frequencies \cup {0},
   hasBusConfig : BOOLEAN, transferStats : [TransferKind \cup {"failures"} -> 0 .. MaxCount]]
NativeType == [bus : BOOLEAN, devices : [Handles -> Device]]
WorkType == [context : ContextType, native : NativeType, status : Status]

\* A state of the computation that is typed and exact.
Good(w) == w \in WorkType /\ Exact(w.context, w.native)

\* Every error of the platform is reported as an error.
LEMMA ErrorsAreErrors ==
  ASSUME NEW error \in EspErr
  PROVE  /\ MapEspErr(error) \in Status \ {"OK"}
         /\ MapTransactionErr(error) \in Status \ {"OK"}
BY DEF EspErr, MapEspErr, MapTransactionErr, Status

\* A failure is passed on with everything else unchanged.
LEMMA FailedIsGood ==
  ASSUME NEW w, Good(w), NEW status \in Status
  PROVE  /\ Good(Failed(w, status)) /\ Failed(w, status).status = status
         /\ Failed(w, status).context = w.context /\ Failed(w, status).native = w.native
BY DEF Good, WorkType, Failed, Exact, HasHandle

\* What the steps below leave alone, besides whatever they are about.
Keeps(v, w) ==
  /\ v.context.frequencyHz = w.context.frequencyHz
  /\ v.context.hasBusConfig = w.context.hasBusConfig

\* Removing the discovery device keeps the context exact.
LEMMA RemoveDiscoveryIsGood ==
  ASSUME NEW w, Good(w), NEW fault \in Fault
  PROVE  LET v == RemoveDiscovery(w, fault) IN
         /\ Good(v) /\ Keeps(v, w)
         /\ v.status = "OK" => w.status = "OK" /\ v.context.discoveryDevice = NoHandle
         /\ v.context.device = w.context.device /\ v.context.bus = w.context.bus
         /\ v.status # "OK" => (w.status # "OK" /\ v = w) \/ HasHandle(v.context)
         /\ \A x \in Handles : w.native.devices[x] = NoDevice => v.native.devices[x] = NoDevice
         /\ fault.calls = {} => v.status = w.status
<1> DEFINE h == w.context.discoveryDevice
           v == RemoveDiscovery(w, fault)
<1>0. /\ w \in WorkType /\ Exact(w.context, w.native)
      /\ MapEspErr(fault.error) \in Status \ {"OK"} /\ NoHandle \notin Handles
  BY ErrorsAreErrors, TransportAssumption DEF Good, Fault
<1>1. CASE w.status # "OK" \/ h = NoHandle
  BY <1>0, <1>1 DEF RemoveDiscovery, Good, WorkType, Keeps
<1>2. CASE ~(w.status # "OK" \/ h = NoHandle) /\ "rm_discovery" \in fault.calls
  BY <1>0, <1>2, FailedIsGood DEF RemoveDiscovery, Keeps, HasHandle
<1>3. CASE ~(w.status # "OK" \/ h = NoHandle) /\ "rm_discovery" \notin fault.calls
  <2> DEFINE c == [w.context EXCEPT !.discoveryDevice = NoHandle, !.discoveryAddress = 0]
             n == Attached(w.native, h, NoDevice)
  <2>1. h \in Handles
    BY <1>0, <1>3 DEF WorkType, ContextType
  <2>2. v = [w EXCEPT !.native = n, !.context = c]
    BY <1>0, <1>3 DEF RemoveDiscovery
  <2>3. c \in ContextType /\ n \in NativeType
    BY <1>0, <2>1 DEF WorkType, NativeType, ContextType, Device, Attached
  <2>4. v \in WorkType /\ v.context = c /\ v.native = n /\ v.status = w.status
    BY <1>0, <2>2, <2>3 DEF WorkType
  <2>5. Exact(c, n)
    BY <1>0, <2>1, <1>3 DEF WorkType, NativeType, ContextType, Exact, HasHandle, Attached
  <2>6. \A x \in Handles : w.native.devices[x] = NoDevice => n.devices[x] = NoDevice
    BY <1>0, <2>1 DEF WorkType, NativeType, Attached
  <2>7. QED BY <1>0, <2>3, <2>4, <2>5, <2>6, <1>3 DEF Good, Keeps, WorkType, ContextType
<1>4. QED BY <1>1, <1>2, <1>3

\* Removing the sensor's device keeps the context exact, once the discovery
\* device is gone.
LEMMA RemoveDeviceIsGood ==
  ASSUME NEW w, Good(w), NEW fault \in Fault,
         w.status = "OK" => w.context.discoveryDevice = NoHandle
  PROVE  LET v == RemoveDevice(w, fault) IN
         /\ Good(v) /\ Keeps(v, w)
         /\ v.status = "OK" => w.status = "OK" /\ v.context.device = NoHandle
                               /\ v.context.discoveryDevice = NoHandle
         /\ v.status # "OK" => (w.status # "OK" /\ v = w) \/ HasHandle(v.context)
         /\ v.context.bus = w.context.bus
         /\ v.context.device \in {NoHandle, w.context.device}
         /\ w.context.device = NoHandle => v = w
         /\ fault.calls = {} => v.status = w.status
<1> DEFINE h == w.context.device
           v == RemoveDevice(w, fault)
<1>0. /\ w \in WorkType /\ Exact(w.context, w.native)
      /\ MapEspErr(fault.error) \in Status \ {"OK"} /\ NoHandle \notin Handles
  BY ErrorsAreErrors, TransportAssumption DEF Good, Fault
<1>1. CASE w.status # "OK" \/ h = NoHandle
  BY <1>0, <1>1 DEF RemoveDevice, Good, WorkType, Keeps
<1>2. CASE ~(w.status # "OK" \/ h = NoHandle) /\ "rm_device" \in fault.calls
  BY <1>0, <1>2, FailedIsGood DEF RemoveDevice, Keeps, HasHandle
<1>3. CASE ~(w.status # "OK" \/ h = NoHandle) /\ "rm_device" \notin fault.calls
  <2> DEFINE c == [w.context EXCEPT !.device = NoHandle]
             n == Attached(w.native, h, NoDevice)
  <2>1. h \in Handles /\ w.context.discoveryDevice = NoHandle
    BY <1>0, <1>3 DEF WorkType, ContextType
  <2>2. v = [w EXCEPT !.native = n, !.context = c]
    BY <1>0, <1>3 DEF RemoveDevice
  <2>3. c \in ContextType /\ n \in NativeType
    BY <1>0, <2>1 DEF WorkType, NativeType, ContextType, Device, Attached
  <2>4. v \in WorkType /\ v.context = c /\ v.native = n /\ v.status = w.status
    BY <1>0, <2>2, <2>3 DEF WorkType
  <2>5. Exact(c, n)
    BY <1>0, <2>1, <1>3 DEF WorkType, NativeType, ContextType, Exact, HasHandle, Attached
  <2>6. QED BY <1>0, <2>1, <2>3, <2>4, <2>5, <1>3 DEF Good, Keeps, WorkType, ContextType
<1>4. QED BY <1>1, <1>2, <1>3

\* Setting the bus on both sides alike keeps the context exact while no
\* device is held.
LEMMA SetBusIsGood ==
  ASSUME NEW w, Good(w), NEW b \in BOOLEAN, w.context.hasBusConfig,
         w.context.device = NoHandle, w.context.discoveryDevice = NoHandle
  PROVE  LET v == SetBus(w, b, b) IN
         /\ Good(v) /\ Keeps(v, w) /\ v.status = w.status
         /\ v.context.bus = b /\ v.native.devices = w.native.devices
         /\ v.context.device = NoHandle /\ v.context.discoveryDevice = NoHandle
<1> DEFINE c == [w.context EXCEPT !.bus = b]
           n == [w.native EXCEPT !.bus = b]
           v == SetBus(w, b, b)
<1>1. w \in WorkType /\ Exact(w.context, w.native)
  BY DEF Good
<1>2. v = [w EXCEPT !.native = n, !.context = c]
  BY <1>1 DEF SetBus
<1>3. c \in ContextType /\ n \in NativeType
  BY <1>1 DEF WorkType, NativeType, ContextType
<1>4. v \in WorkType /\ v.context = c /\ v.native = n /\ v.status = w.status
  BY <1>1, <1>2, <1>3 DEF WorkType
<1>5. Exact(c, n)
  BY <1>1 DEF WorkType, NativeType, ContextType, Exact, HasHandle
<1>6. QED BY <1>1, <1>4, <1>5 DEF Good, Keeps, WorkType, NativeType, ContextType

\* A bus without devices is deleted, on both sides, or kept on both.
LEMMA DeleteBusIsGood ==
  ASSUME NEW w, Good(w), NEW fault \in Fault,
         w.status = "OK" => w.context.device = NoHandle /\ w.context.discoveryDevice = NoHandle
  PROVE  LET v == DeleteBus(w, fault) IN
         /\ Good(v) /\ Keeps(v, w)
         /\ v.status = "OK" => w.status = "OK" /\ ~HasHandle(v.context)
         /\ v.status # "OK" => (w.status # "OK" /\ v = w) \/ HasHandle(v.context)
         /\ v.context.device = w.context.device
         /\ ~w.context.bus => v = w
         /\ fault.calls = {} => v.status = w.status
<1> DEFINE v == DeleteBus(w, fault)
<1>0. /\ w \in WorkType /\ Exact(w.context, w.native)
      /\ MapEspErr(fault.error) \in Status \ {"OK"} /\ NoHandle \notin Handles
  BY ErrorsAreErrors, TransportAssumption DEF Good, Fault
<1>1. CASE w.status # "OK" \/ ~w.context.bus
  BY <1>0, <1>1 DEF DeleteBus, Good, WorkType, Keeps, HasHandle
<1>2. CASE ~(w.status # "OK" \/ ~w.context.bus) /\ "del_bus" \in fault.calls
  BY <1>0, <1>2, FailedIsGood DEF DeleteBus, Keeps, HasHandle
<1>3. CASE ~(w.status # "OK" \/ ~w.context.bus) /\ "del_bus" \notin fault.calls
  <2>1. BusIsEmpty(w.native) /\ w.context.hasBusConfig
    BY <1>0, <1>3 DEF Exact, BusIsEmpty, HasHandle
  <2>2. v = SetBus(w, FALSE, FALSE)
    BY <2>1, <1>3 DEF DeleteBus
  <2>3. QED BY <2>1, <2>2, <1>3, SetBusIsGood DEF HasHandle
<1>4. QED BY <1>1, <1>2, <1>3

\* close() keeps the context exact wherever it stops, and one that succeeds
\* leaves nothing behind.
LEMMA CloseIsGood ==
  ASSUME NEW c \in ContextType, NEW n \in NativeType, Exact(c, n), NEW fault \in Fault
  PROVE  LET w == Close(c, n, fault) IN
         /\ Good(w) /\ Keeps(w, [context |-> c])
         /\ w.status = "OK" => ~HasHandle(w.context)
         /\ w.status # "OK" => HasHandle(w.context)
         /\ ~HasHandle(c) => w = Ready(c, n)
         /\ IsOpen(w.context) => IsOpen(c)
         /\ fault.calls = {} => w.status = "OK"
<1> DEFINE r == Ready(c, n)
           d == RemoveDiscovery(r, fault)
           e == RemoveDevice(d, fault)
           w == Close(c, n, fault)
<1>1. Good(r) /\ r.context = c /\ r.native = n /\ r.status = "OK"
  BY DEF Good, Ready, WorkType, Status
<1>2. Good(d) /\ (d.status = "OK" => d.context.discoveryDevice = NoHandle) /\ Keeps(d, r)
      /\ (d.status # "OK" => HasHandle(d.context)) /\ d.context.device = c.device
      /\ (fault.calls = {} => d.status = "OK")
  BY <1>1, RemoveDiscoveryIsGood
<1>3. ~HasHandle(c) => d = r /\ d.context.device = NoHandle
  BY <1>1 DEF RemoveDiscovery, HasHandle
<1>4. Good(e) /\ Keeps(e, d) /\ (fault.calls = {} => e.status = "OK")
      /\ (e.status # "OK" => HasHandle(e.context)) /\ e.context.device \in {NoHandle, c.device}
      /\ (e.status = "OK" => e.context.device = NoHandle /\ e.context.discoveryDevice = NoHandle)
      /\ (~HasHandle(c) => e = r)
  BY <1>1, <1>2, <1>3, RemoveDeviceIsGood
<1>5. w = DeleteBus(e, fault)
  BY DEF Close
<1>6. Good(w) /\ Keeps(w, e) /\ (w.status = "OK" => ~HasHandle(w.context))
      /\ (~HasHandle(c) => w = r) /\ (fault.calls = {} => w.status = "OK")
      /\ (w.status # "OK" => HasHandle(w.context)) /\ w.context.device = e.context.device
  BY <1>1, <1>4, <1>5, DeleteBusIsGood DEF HasHandle
<1>7. IsOpen(w.context) => IsOpen(c)
  BY <1>4, <1>6 DEF IsOpen, Exact
<1>8. QED BY <1>1, <1>2, <1>4, <1>6, <1>7 DEF Keeps

\* A device is added to an open bus that has none.
LEMMA AddDeviceIsGood ==
  ASSUME NEW w, Good(w), NEW hz \in Frequencies, NEW new \in Handles, w.context.bus,
         w.context.device = NoHandle, w.context.discoveryDevice = NoHandle
  PROVE  LET v == AddDevice(w, new, hz) IN
         /\ Good(v) /\ v.status = w.status /\ IsOpen(v.context)
         /\ v.context.frequencyHz = hz /\ v.native.bus
         /\ v.native.devices[v.context.device] = MakeDeviceConfig(Address, hz)
<1> DEFINE c == [w.context EXCEPT !.device = new, !.frequencyHz = hz]
           device == MakeDeviceConfig(Address, hz)
           n == Attached(w.native, new, device)
           v == AddDevice(w, new, hz)
<1>1. w \in WorkType /\ Exact(w.context, w.native) /\ NoHandle \notin Handles /\ hz \in Nat \ {0}
  BY TransportAssumption DEF Good
<1>2. v = [w EXCEPT !.native = n, !.context = c]
  BY <1>1 DEF AddDevice
<1>3. device \in Device /\ device # NoDevice
  BY <1>1 DEF Device, MakeDeviceConfig, NoDevice, Addresses
<1>4. c \in ContextType /\ n \in NativeType
  BY <1>1, <1>3 DEF WorkType, NativeType, ContextType, Attached
<1>5. v \in WorkType /\ v.context = c /\ v.native = n /\ v.status = w.status
  BY <1>1, <1>2, <1>4 DEF WorkType
<1>6. Exact(c, n)
  BY <1>1, <1>3 DEF WorkType, NativeType, ContextType, Exact, HasHandle, Attached
<1>7. n.devices[new] = device /\ n.bus /\ c.bus /\ c.device = new /\ c.frequencyHz = hz
  BY <1>1 DEF WorkType, NativeType, ContextType, Attached, Exact
<1>8. QED BY <1>1, <1>5, <1>6, <1>7 DEF Good, IsOpen

-----------------------------------------------------------------------------
(* The functions of the transport.                                         *)

PhaseOf(c) == IF IsOpen(c) THEN "OPEN" ELSE IF HasHandle(c) THEN "DEGRADED" ELSE "CLOSED"

\* open() sets up all or nothing, or keeps the bus that it could not delete.
LEMMA OpenIsGood ==
  ASSUME NEW c \in ContextType, NEW n \in NativeType, Exact(c, n), NEW fault \in Fault,
         NEW new \in Handles, NEW hz \in Frequencies \cup {BadFrequency}
  PROVE  LET v == Open(c, n, hz, fault, new) IN
         /\ Good(v)
         /\ HasHandle(c) \/ hz = BadFrequency => v = Failed(Ready(c, n), v.status) /\ v.status # "OK"
         /\ ~HasHandle(c) /\ hz # BadFrequency =>
              /\ v.context.frequencyHz = hz
              /\ v.status = "OK" =>
                   /\ IsOpen(v.context) /\ v.native.bus
                   /\ v.native.devices[v.context.device] = MakeDeviceConfig(Address, hz)
              /\ v.status # "OK" => ~IsOpen(v.context)
              /\ fault.calls = {} => v.status = "OK"
<1> DEFINE v == Open(c, n, hz, fault, new)
           k == [c EXCEPT !.frequencyHz = hz, !.hasBusConfig = TRUE]
           w == Ready(k, n)
           b == "undo_bus" \in fault.calls
           e == MapEspErr(fault.error)
<1>1. e \in Status \ {"OK"} /\ b \in BOOLEAN
  BY ErrorsAreErrors DEF Fault
<1>2. Good(Ready(c, n)) /\ Ready(c, n).status = "OK"
  BY DEF Good, Ready, WorkType, Status
<1>3. CASE HasHandle(c) \/ hz = BadFrequency
  <2>1. v \in {Failed(Ready(c, n), "I2C_BUS"), Failed(Ready(c, n), "INVALID_CONFIG")}
    BY <1>3, TransportAssumption DEF Open, ValidFrequency
  <2>2. {"I2C_BUS", "INVALID_CONFIG"} \subseteq Status \ {"OK"}
    BY DEF Status
  <2>3. QED BY <1>2, <1>3, <2>1, <2>2, FailedIsGood
<1>4. CASE ~(HasHandle(c) \/ hz = BadFrequency)
  <2>1. /\ hz \in Frequencies /\ ValidFrequency(hz) /\ ~n.bus /\ ~c.bus
        /\ c.device = NoHandle /\ c.discoveryDevice = NoHandle
    BY <1>4 DEF HasHandle, ValidFrequency, Exact
  <2>2. /\ k \in ContextType /\ k.device = NoHandle /\ k.discoveryDevice = NoHandle /\ ~k.bus
        /\ k.frequencyHz = hz /\ k.hasBusConfig
    BY <2>1 DEF ContextType
  <2>3. Exact(k, n)
    BY <2>1, <2>2 DEF Exact, HasHandle
  <2> HIDE DEF k
  <2>4. Good(w) /\ w.context = k /\ w.native = n /\ w.status = "OK"
    BY <2>2, <2>3 DEF Good, Ready, WorkType, Status
  <2> HIDE DEF w, b, e
  <2>5. CASE "new_bus" \in fault.calls
    <3>1. v = Failed(w, e)
      BY <1>4, <2>1, <2>5 DEF Open, k, w, e
    <3>2. QED BY <1>1, <1>4, <2>2, <2>4, <2>5, <3>1, FailedIsGood DEF IsOpen
  <2>6. CASE "new_bus" \notin fault.calls /\ "add_device" \in fault.calls
    <3>1. v = Failed(SetBus(w, b, b), e)
      BY <1>4, <2>1, <2>6 DEF Open, UndoOpen, k, w, b, e
    <3>2. /\ Good(SetBus(w, b, b)) /\ SetBus(w, b, b).context.device = NoHandle
          /\ SetBus(w, b, b).context.frequencyHz = hz
      BY <1>1, <2>2, <2>4, SetBusIsGood DEF Keeps
    <3>3. QED BY <1>1, <1>4, <2>6, <3>1, <3>2, FailedIsGood DEF IsOpen
  <2>7. CASE "new_bus" \notin fault.calls /\ "add_device" \notin fault.calls
    <3> DEFINE u == SetBus(w, TRUE, TRUE)
    <3>1. v = AddDevice(u, new, hz)
      BY <1>4, <2>1, <2>7 DEF Open, k, w
    <3>2. /\ Good(u) /\ u.context.device = NoHandle /\ u.context.discoveryDevice = NoHandle
          /\ u.context.bus /\ u.status = "OK"
      BY <2>2, <2>4, SetBusIsGood
    <3> HIDE DEF u
    <3>3. /\ Good(v) /\ v.status = "OK" /\ IsOpen(v.context) /\ v.context.frequencyHz = hz
          /\ v.native.bus
          /\ v.native.devices[v.context.device] = MakeDeviceConfig(Address, hz)
      BY <2>1, <3>1, <3>2, AddDeviceIsGood
    <3>4. QED BY <1>4, <3>3
  <2>8. QED BY <2>5, <2>6, <2>7
<1>5. QED BY <1>3, <1>4

\* reopen() is open() at the frequency that is kept, when one is.
LEMMA ReopenIsGood ==
  ASSUME NEW c \in ContextType, NEW n \in NativeType, Exact(c, n), NEW fault \in Fault,
         NEW new \in Handles
  PROVE  LET v == Reopen(c, n, fault, new) IN
         /\ Good(v) /\ v.context.frequencyHz = c.frequencyHz
         /\ HasHandle(c) \/ ~c.hasBusConfig =>
              v.context = c /\ v.native = n /\ v.status # "OK"
         /\ ~HasHandle(c) /\ c.hasBusConfig =>
              /\ v.status = "OK" =>
                   /\ IsOpen(v.context) /\ v.native.bus
                   /\ v.native.devices[v.context.device]
                        = MakeDeviceConfig(Address, c.frequencyHz)
              /\ v.status # "OK" => ~IsOpen(v.context)
              /\ fault.calls = {} => v.status = "OK"
<1> DEFINE v == Reopen(c, n, fault, new)
<1>1. /\ Good(Ready(c, n)) /\ Ready(c, n).context = c /\ Ready(c, n).native = n
      /\ {"I2C_BUS", "INVALID_CONFIG"} \subseteq Status \ {"OK"}
  BY DEF Good, Ready, WorkType, Status
<1>2. CASE HasHandle(c) \/ ~c.hasBusConfig
  <2>1. v \in {Failed(Ready(c, n), "I2C_BUS"), Failed(Ready(c, n), "INVALID_CONFIG")}
    BY <1>2 DEF Reopen
  <2>2. QED BY <1>1, <1>2, <2>1, FailedIsGood
<1>3. CASE ~HasHandle(c) /\ c.hasBusConfig
  <2>1. /\ c.frequencyHz \in Frequencies /\ c.frequencyHz # BadFrequency
        /\ v = Open(c, n, c.frequencyHz, fault, new)
    BY <1>3, TransportAssumption DEF Reopen, Exact
  <2>2. QED BY <1>3, <2>1, OpenIsGood
<1>4. QED BY <1>2, <1>3

\* recover() closes and opens again; it may stop anywhere, and only a bus
\* that was open before can be open after it has failed.
LEMMA RecoverIsGood ==
  ASSUME NEW c \in ContextType, NEW n \in NativeType, Exact(c, n), NEW fault \in Fault,
         NEW new \in Handles
  PROVE  LET v == Recover(c, n, fault, new) IN
         /\ Good(v) /\ v.context.frequencyHz = c.frequencyHz
         /\ ~c.hasBusConfig => v.context = c /\ v.status # "OK"
         /\ v.status = "OK" =>
              /\ IsOpen(v.context) /\ v.native.bus
              /\ v.native.devices[v.context.device] = MakeDeviceConfig(Address, c.frequencyHz)
         /\ v.status # "OK" /\ IsOpen(v.context) => IsOpen(c)
         /\ fault.calls = {} /\ c.hasBusConfig => v.status = "OK"
<1> DEFINE v == Recover(c, n, fault, new)
           w == Close(c, n, fault)
<1>1. Good(Ready(c, n)) /\ Ready(c, n).context = c /\ "INVALID_CONFIG" \in Status \ {"OK"}
  BY DEF Good, Ready, WorkType, Status
<1>2. CASE ~c.hasBusConfig
  <2>1. v = Failed(Ready(c, n), "INVALID_CONFIG")
    BY <1>2 DEF Recover
  <2>2. QED BY <1>1, <1>2, <2>1, FailedIsGood
<1>3. CASE c.hasBusConfig
  <2>1. v = IF w.status # "OK" THEN w ELSE Reopen(w.context, w.native, fault, new)
    BY <1>3 DEF Recover, Exact
  <2>2. /\ Good(w) /\ w.context.frequencyHz = c.frequencyHz /\ w.context.hasBusConfig
        /\ w.status = "OK" => ~HasHandle(w.context)
        /\ IsOpen(w.context) => IsOpen(c)
        /\ fault.calls = {} => w.status = "OK"
    BY <1>3, CloseIsGood DEF Keeps
  <2> HIDE DEF w, v
  <2>3. CASE w.status # "OK"
    BY <1>3, <2>1, <2>2, <2>3 DEF v
  <2>4. CASE w.status = "OK"
    <3>1. w.context \in ContextType /\ w.native \in NativeType /\ Exact(w.context, w.native)
      BY <2>2 DEF Good, WorkType
    <3>2. QED BY <1>3, <2>1, <2>2, <2>4, <3>1, ReopenIsGood DEF v
  <2>5. QED BY <2>3, <2>4
<1>4. QED BY <1>2, <1>3

\* The replaced device has the new frequency, or the old one after a refusal;
\* or it is gone.
LEMMA ReplaceDeviceIsGood ==
  ASSUME NEW w, Good(w), w.status = "OK", NEW fault \in Fault, NEW hz \in Frequencies,
         NEW new \in Handles, w.context.bus, w.context.hasBusConfig,
         w.context.device = NoHandle, w.context.discoveryDevice = NoHandle
  PROVE  LET v == ReplaceDevice(w, hz, fault, new) IN
         /\ Good(v) /\ v.context.bus
         /\ v.status = "OK" => IsOpen(v.context) /\ v.context.frequencyHz = hz
         /\ v.status # "OK" => v.context.frequencyHz = w.context.frequencyHz
<1> DEFINE v == ReplaceDevice(w, hz, fault, new)
           e == MapEspErr(fault.error)
           old == w.context.frequencyHz
           u == AddDevice(w, new, old)
<1>1. e \in Status \ {"OK"} /\ old \in Frequencies
  BY ErrorsAreErrors DEF Fault, Good, Exact
<1>2. Good(u) /\ u.context.bus /\ u.context.frequencyHz = old
  BY <1>1, AddDeviceIsGood DEF IsOpen
<1> HIDE DEF u, e
<1>3. v \in {AddDevice(w, new, hz)} \/ v \in {Failed(w, e), Failed(u, e)}
  BY DEF ReplaceDevice, u, e
<1>4. CASE v = AddDevice(w, new, hz)
  BY <1>4, AddDeviceIsGood DEF IsOpen
<1>5. CASE v = Failed(w, e)
  BY <1>1, <1>5, FailedIsGood
<1>6. CASE v = Failed(u, e)
  BY <1>1, <1>2, <1>6, FailedIsGood
<1>7. QED BY <1>3, <1>4, <1>5, <1>6

\* setFrequency() is refused, or changes the frequency, or leaves it.
LEMMA SetFrequencyIsGood ==
  ASSUME NEW c \in ContextType, NEW n \in NativeType, Exact(c, n), NEW fault \in Fault,
         NEW new \in Handles, NEW hz \in Frequencies \cup {BadFrequency}
  PROVE  LET v == SetFrequency(c, n, hz, fault, new) IN
         /\ Good(v)
         /\ \/ v.context = c /\ v.status # "OK"
            \/ /\ IsOpen(c) /\ hz \in Frequencies /\ HasHandle(v.context)
               /\ v.status = "OK" => IsOpen(v.context) /\ v.context.frequencyHz = hz
               /\ v.status # "OK" => v.context.frequencyHz = c.frequencyHz
<1> DEFINE v == SetFrequency(c, n, hz, fault, new)
           r == Ready(c, n)
           d == RemoveDiscovery(r, fault)
           w == RemoveDevice(d, fault)
<1>1. Good(r) /\ r.context = c /\ r.native = n /\ r.status = "OK"
      /\ {"I2C_BUS", "INVALID_PARAM"} \subseteq Status \ {"OK"}
  BY DEF Good, Ready, WorkType, Status
<1>2. CASE ~c.bus \/ c.device = NoHandle \/ ~c.hasBusConfig \/ ~ValidFrequency(hz)
  <2>1. v \in {Failed(r, "I2C_BUS"), Failed(r, "INVALID_PARAM")}
    BY <1>2 DEF SetFrequency
  <2>2. QED BY <1>1, <2>1, FailedIsGood
<1>3. CASE ~(~c.bus \/ c.device = NoHandle \/ ~c.hasBusConfig \/ ~ValidFrequency(hz))
  <2>1. /\ Good(d) /\ Keeps(d, r) /\ d.context.bus = c.bus
        /\ d.status = "OK" => d.context.discoveryDevice = NoHandle
    BY <1>1, RemoveDiscoveryIsGood
  <2> HIDE DEF d
  <2>2. /\ Good(w) /\ Keeps(w, d) /\ w.context.bus = c.bus
        /\ w.status = "OK" => w.context.device = NoHandle /\ w.context.discoveryDevice = NoHandle
    BY <2>1, RemoveDeviceIsGood
  <2>3. /\ IsOpen(c) /\ HasHandle(c) /\ hz \in Frequencies
        /\ w.context.bus /\ w.context.hasBusConfig /\ HasHandle(w.context)
        /\ w.context.frequencyHz = c.frequencyHz
    BY <1>1, <1>3, <2>1, <2>2 DEF IsOpen, HasHandle, ValidFrequency, Keeps
  <2>4. v = IF hz = c.frequencyHz \/ w.status # "OK"
            THEN IF hz = c.frequencyHz THEN r ELSE w
            ELSE ReplaceDevice(w, hz, fault, new)
    BY <1>3 DEF SetFrequency, d
  <2> HIDE DEF w, r, v
  <2>5. CASE hz = c.frequencyHz \/ w.status # "OK"
    BY <1>1, <2>2, <2>3, <2>4, <2>5 DEF v
  <2>6. CASE ~(hz = c.frequencyHz \/ w.status # "OK")
    <3>1. v = ReplaceDevice(w, hz, fault, new)
      BY <2>4, <2>6
    <3>2. QED BY <2>2, <2>3, <2>6, <3>1, ReplaceDeviceIsGood DEF HasHandle, v
  <2>7. QED BY <2>5, <2>6
<1>4. QED BY <1>2, <1>3

-----------------------------------------------------------------------------
(* Transfers.                                                              *)

\* What a transfer must leave as it is.
SameBus(c, d) == d.bus = c.bus /\ d.device = c.device /\ d.frequencyHz = c.frequencyHz

\* A transfer changes nothing but the counters, which stay in range.
LEMMA TransactedIsGood ==
  ASSUME NEW w, Good(w), w.status = "OK", NEW kind \in TransferKind, NEW fault \in Fault
  PROVE  LET v == Transacted(w, kind, fault) IN
         /\ Good(v) /\ SameBus(w.context, v.context)
         /\ v.context.discoveryDevice = w.context.discoveryDevice
<1> DEFINE u == IF "transfer" \in fault.calls
                THEN Failed(w, MapTransactionErr(fault.error)) ELSE w
           stats == Recorded(u.context.transferStats, kind, u.status)
           c == [u.context EXCEPT !.transferStats = stats]
           v == Transacted(w, kind, fault)
<1>1. Good(u) /\ u.context = w.context
  BY ErrorsAreErrors, FailedIsGood DEF Fault
<1> HIDE DEF u
<1>2. /\ u \in WorkType /\ Exact(u.context, u.native) /\ u.context \in ContextType
      /\ u.context.transferStats \in [TransferKind \cup {"failures"} -> 0 .. MaxCount]
  BY <1>1 DEF Good, WorkType, ContextType
<1>3. \A k \in 0 .. MaxCount : Saturated(k) \in 0 .. MaxCount
  BY TransportAssumption DEF Saturated
<1>4. stats \in [TransferKind \cup {"failures"} -> 0 .. MaxCount]
  BY <1>2, <1>3 DEF Recorded
<1>5. v = [u EXCEPT !.context = c]
  BY DEF Transacted, RecordTransfer, u
<1> HIDE DEF stats
<1>6. c \in ContextType
  BY <1>2, <1>4 DEF ContextType
<1>7. Exact(c, u.native) /\ SameBus(u.context, c) /\ c.discoveryDevice = u.context.discoveryDevice
  BY <1>2 DEF Exact, HasHandle, ContextType, SameBus
<1> HIDE DEF c
<1>8. v \in WorkType /\ v.context = c /\ v.native = u.native
  BY <1>2, <1>5, <1>6 DEF WorkType
<1>9. QED BY <1>1, <1>7, <1>8 DEF Good

\* write() and writeRead() reach the device of an open bus, or none.
LEMMA TransferIsGood ==
  ASSUME NEW c \in ContextType, NEW n \in NativeType, Exact(c, n), NEW fault \in Fault,
         NEW kind \in TransferKind, NEW address \in Addresses
  PROVE  LET v == Transfer(c, n, kind, address, fault) IN
         Good(v) /\ SameBus(c, v.context) /\ v.context.discoveryDevice = c.discoveryDevice
         /\ (v.status = "OK" => IsOpen(c))
<1> DEFINE v == Transfer(c, n, kind, address, fault)
           r == Ready(c, n)
           status == ValidateContext(c, address)
<1>1. Good(r) /\ r.context = c /\ r.status = "OK" /\ status \in Status
      /\ (status = "OK" => IsOpen(c))
  BY DEF Good, Ready, WorkType, Status, ValidateContext, IsOpen, Exact
<1> HIDE DEF r, status
<1>2. v = IF status # "OK" THEN Failed(r, status) ELSE Transacted(r, kind, fault)
  BY DEF Transfer, r, status
<1> HIDE DEF v
<1>3. CASE status # "OK"
  BY <1>1, <1>2, <1>3, FailedIsGood DEF SameBus, v
<1>4. CASE status = "OK"
  BY <1>1, <1>2, <1>4, TransactedIsGood DEF v
<1>5. QED BY <1>3, <1>4

\* The device for a searched address is made at the frequency of the bus.
LEMMA DiscoveryDeviceIsGood ==
  ASSUME NEW w, Good(w), w.status = "OK", IsOpen(w.context), NEW fault \in Fault,
         NEW new \in Handles, w.native.devices[new] = NoDevice,
         NEW address \in DiscoveryAddresses
  PROVE  LET v == DiscoveryDevice(w, address, fault, new) IN
         Good(v) /\ SameBus(w.context, v.context)
<1> DEFINE stale == w.context.discoveryDevice # NoHandle /\ w.context.discoveryAddress # address
           u == IF stale THEN RemoveDiscovery(w, fault) ELSE w
           e == MapEspErr(fault.error)
           v == DiscoveryDevice(w, address, fault, new)
<1>1. Good(u) /\ SameBus(w.context, u.context) /\ u.native.devices[new] = NoDevice
  BY RemoveDiscoveryIsGood DEF SameBus, Keeps
<1>2. e \in Status \ {"OK"}
  BY ErrorsAreErrors DEF Fault
<1>3. v = IF u.status # "OK" \/ u.context.discoveryDevice # NoHandle THEN u
          ELSE IF "add_device" \in fault.calls THEN Failed(u, e)
          ELSE [u EXCEPT !.native =
                           Attached(@, new, MakeDeviceConfig(address, u.context.frequencyHz)),
                         !.context =
                           [@ EXCEPT !.discoveryDevice = new, !.discoveryAddress = address]]
  BY DEF DiscoveryDevice
<1> HIDE DEF u, e, v
<1>4. CASE u.status # "OK" \/ u.context.discoveryDevice # NoHandle
  BY <1>1, <1>3, <1>4 DEF v
<1>5. CASE ~(u.status # "OK" \/ u.context.discoveryDevice # NoHandle)
           /\ "add_device" \in fault.calls
  BY <1>1, <1>2, <1>3, <1>5, FailedIsGood DEF v, SameBus
<1>6. CASE ~(u.status # "OK" \/ u.context.discoveryDevice # NoHandle)
           /\ "add_device" \notin fault.calls
  <2> DEFINE device == MakeDeviceConfig(address, u.context.frequencyHz)
             n == Attached(u.native, new, device)
             c == [u.context EXCEPT !.discoveryDevice = new, !.discoveryAddress = address]
  <2>1. /\ u \in WorkType /\ Exact(u.context, u.native) /\ NoHandle \notin Handles
        /\ u.context.bus /\ u.context.device # NoHandle /\ u.context.discoveryDevice = NoHandle
        /\ u.context.frequencyHz \in Frequencies /\ u.context.frequencyHz \in Nat \ {0}
    BY <1>1, <1>6, TransportAssumption DEF Good, SameBus, IsOpen, Exact, HasHandle
  <2>2. device \in Device /\ device # NoDevice
    BY <2>1 DEF Device, MakeDeviceConfig, NoDevice, Addresses
  <2>3. v = [u EXCEPT !.native = n, !.context = c]
    BY <1>3, <1>6, <2>1
  <2>4. c \in ContextType /\ n \in NativeType /\ SameBus(u.context, c)
    BY <2>1, <2>2 DEF WorkType, NativeType, ContextType, Attached, Addresses, SameBus
  <2>5. Exact(c, n)
    BY <1>1, <2>1, <2>2
    DEF WorkType, NativeType, ContextType, Exact, HasHandle, Attached
  <2> HIDE DEF c, n
  <2>6. v \in WorkType /\ v.context = c /\ v.native = n
    BY <2>1, <2>3, <2>4 DEF WorkType
  <2>7. QED BY <1>1, <2>4, <2>5, <2>6 DEF Good, SameBus, v
<1>7. QED BY <1>4, <1>5, <1>6

\* readRegisterAt() leaves an open bus open and a closed one closed.
LEMMA ReadRegisterAtIsGood ==
  ASSUME NEW c \in ContextType, NEW n \in NativeType, Exact(c, n), NEW fault \in Fault,
         NEW new \in Handles, n.devices[new] = NoDevice, NEW address \in Addresses
  PROVE  LET v == ReadRegisterAt(c, n, address, fault, new) IN
         /\ Good(v) /\ SameBus(c, v.context)
         /\ ~IsOpen(c) => v.context = c /\ v.status # "OK"
<1> DEFINE v == ReadRegisterAt(c, n, address, fault, new)
           r == Ready(c, n)
           w == IF address = Address THEN r ELSE DiscoveryDevice(r, address, fault, new)
<1>1. Good(r) /\ r.context = c /\ r.native = n /\ r.status = "OK" /\ "I2C_BUS" \in Status \ {"OK"}
  BY DEF Good, Ready, WorkType, Status
<1>2. v = IF ~c.bus \/ c.device = NoHandle \/ ~c.hasBusConfig THEN Failed(r, "I2C_BUS")
          ELSE IF w.status # "OK" THEN w ELSE Transacted(w, "DISCOVERY", fault)
  BY DEF ReadRegisterAt
<1> HIDE DEF r, v
<1>3. CASE ~c.bus \/ c.device = NoHandle \/ ~c.hasBusConfig
  <2>1. ~IsOpen(c)
    BY <1>3 DEF IsOpen, Exact, HasHandle
  <2>2. QED BY <1>1, <1>2, <1>3, <2>1, FailedIsGood DEF SameBus, v
<1>4. CASE ~(~c.bus \/ c.device = NoHandle \/ ~c.hasBusConfig)
  <2>1. IsOpen(c)
    BY <1>4 DEF IsOpen
  <2>2. Good(w) /\ SameBus(c, w.context)
    BY <1>1, <2>1, DiscoveryDeviceIsGood DEF Addresses, SameBus
  <2> HIDE DEF w
  <2>3. CASE w.status # "OK"
    BY <1>2, <1>4, <2>1, <2>2, <2>3 DEF v
  <2>4. CASE w.status = "OK"
    <3>1. "DISCOVERY" \in TransferKind
      BY DEF TransferKind
    <3>2. QED BY <1>2, <1>4, <2>1, <2>2, <2>4, <3>1, TransactedIsGood DEF SameBus, v
  <2>5. QED BY <2>3, <2>4
<1>5. QED BY <1>3, <1>4

-----------------------------------------------------------------------------
(* The steps.                                                              *)

Inv == TypeOK /\ ContextIsExact

\* What a step makes of an exact context: one, again, and a step of the bus.
Stepped == Inv' /\ Lifecycle!LifecycleNext

\* The invariant is what the lemmas above assume and conclude.
LEMMA InvIsGood ==
  /\ Inv => context \in ContextType /\ native \in NativeType /\ Exact(context, native)
  /\ \A w : Good(w) /\ Do(w) => Inv'
BY DEF Inv, TypeOK, WellFormed, ContextIsExact, ContextType, NativeType, Good, WorkType, Do

\* What the phase of a context says of it.
LEMMA PhaseIs ==
  ASSUME NEW c
  PROVE  /\ IsOpen(c) <=> PhaseOf(c) = "OPEN"
         /\ ~HasHandle(c) <=> PhaseOf(c) = "CLOSED"
         /\ PhaseOf(c) \in {"OPEN", "CLOSED", "DEGRADED"}
BY DEF PhaseOf, IsOpen, HasHandle

\* The state machine's Phase is that of its context.
LEMMA PhaseIsPhaseOf == Phase = PhaseOf(context) /\ Phase' = PhaseOf(context')
BY DEF Phase, PhaseOf

LEMMA OpenSteps == Inv /\ OpenStep => Stepped
<1> SUFFICES ASSUME Inv, OpenStep PROVE Stepped OBVIOUS
<1>1. PICK fault \in Faults({"new_bus", "add_device", "undo_bus"}), new \in Free,
           hz \in Frequencies \cup {BadFrequency} : Do(Open(context, native, hz, fault, new))
  BY DEF OpenStep
<1> DEFINE v == Open(context, native, hz, fault, new)
<1>2. /\ fault \in Fault /\ new \in Handles
      /\ context \in ContextType /\ native \in NativeType /\ Exact(context, native)
  BY InvIsGood DEF Faults, Fault, Free, Calls
<1>3. /\ Good(v)
      /\ HasHandle(context) \/ hz = BadFrequency =>
           v = Failed(Ready(context, native), v.status) /\ v.status # "OK"
      /\ ~HasHandle(context) /\ hz # BadFrequency =>
           /\ v.context.frequencyHz = hz
           /\ v.status = "OK" => IsOpen(v.context)
           /\ v.status # "OK" => ~IsOpen(v.context)
  BY <1>2, OpenIsGood
<1>4. context' = v.context /\ returned' = v.status
  BY <1>1 DEF Do
<1>5. Inv'
  BY <1>1, <1>3, InvIsGood
<1> HIDE DEF v
<1>6. CASE HasHandle(context) \/ hz = BadFrequency
  <2>1. context' = context /\ returned' # "OK"
    BY <1>3, <1>4, <1>6 DEF Failed, Ready
  <2>2. Lifecycle!Refuse
    BY <2>1, PhaseIsPhaseOf DEF Lifecycle!Refuse
  <2>3. QED BY <1>5, <2>2 DEF Stepped, Lifecycle!LifecycleNext
<1>7. CASE ~HasHandle(context) /\ hz # BadFrequency
  <2>1. Lifecycle!Establish(hz)
    BY <1>3, <1>4, <1>7, PhaseIs, PhaseIsPhaseOf DEF Lifecycle!Establish
  <2>2. QED BY <1>5, <1>7, <2>1 DEF Stepped, Lifecycle!LifecycleNext
<1>8. QED BY <1>6, <1>7

LEMMA CloseSteps == Inv /\ CloseStep => Stepped
<1> SUFFICES ASSUME Inv, CloseStep PROVE Stepped OBVIOUS
<1>1. PICK fault \in Faults({"rm_discovery", "rm_device", "del_bus"}) :
        Do(Close(context, native, fault))
  BY DEF CloseStep
<1> DEFINE v == Close(context, native, fault)
<1>2. /\ fault \in Fault
      /\ context \in ContextType /\ native \in NativeType /\ Exact(context, native)
  BY InvIsGood DEF Faults, Fault, Calls
<1>3. /\ Good(v) /\ v.context.frequencyHz = context.frequencyHz
      /\ v.status = "OK" => ~HasHandle(v.context)
      /\ v.status # "OK" => HasHandle(v.context)
      /\ IsOpen(v.context) => IsOpen(context)
  BY <1>2, CloseIsGood DEF Keeps
<1>4. context' = v.context /\ returned' = v.status
  BY <1>1 DEF Do
<1>5. Inv'
  BY <1>1, <1>3, InvIsGood
<1> HIDE DEF v
<1>6. Lifecycle!Release
  BY <1>3, <1>4, PhaseIs, PhaseIsPhaseOf DEF Lifecycle!Release
<1>7. QED BY <1>5, <1>6 DEF Stepped, Lifecycle!LifecycleNext

LEMMA ReopenSteps == Inv /\ ReopenStep => Stepped
<1> SUFFICES ASSUME Inv, ReopenStep PROVE Stepped OBVIOUS
<1>1. PICK fault \in Faults({"new_bus", "add_device", "undo_bus"}), new \in Free :
        Do(Reopen(context, native, fault, new))
  BY DEF ReopenStep
<1> DEFINE v == Reopen(context, native, fault, new)
<1>2. /\ fault \in Fault /\ new \in Handles
      /\ context \in ContextType /\ native \in NativeType /\ Exact(context, native)
  BY InvIsGood DEF Faults, Fault, Free, Calls
<1>3. /\ Good(v) /\ v.context.frequencyHz = context.frequencyHz
      /\ HasHandle(context) \/ ~context.hasBusConfig => v.context = context /\ v.status # "OK"
      /\ ~HasHandle(context) /\ context.hasBusConfig =>
           /\ v.status = "OK" => IsOpen(v.context)
           /\ v.status # "OK" => ~IsOpen(v.context)
  BY <1>2, ReopenIsGood
<1>4. context' = v.context /\ returned' = v.status
  BY <1>1 DEF Do
<1>5. Inv'
  BY <1>1, <1>3, InvIsGood
<1> HIDE DEF v
<1>6. CASE HasHandle(context) \/ ~context.hasBusConfig
  <2>1. Lifecycle!Refuse
    BY <1>3, <1>4, <1>6, PhaseIsPhaseOf DEF Lifecycle!Refuse
  <2>2. QED BY <1>5, <2>1 DEF Stepped, Lifecycle!LifecycleNext
<1>7. CASE ~HasHandle(context) /\ context.hasBusConfig
  <2>1. Lifecycle!Recover
    BY <1>2, <1>3, <1>4, <1>7, PhaseIs, PhaseIsPhaseOf DEF Lifecycle!Recover, Exact
  <2>2. QED BY <1>5, <2>1 DEF Stepped, Lifecycle!LifecycleNext
<1>8. QED BY <1>6, <1>7

LEMMA RecoverSteps == Inv /\ RecoverStep => Stepped
<1> SUFFICES ASSUME Inv, RecoverStep PROVE Stepped OBVIOUS
<1>1. PICK fault \in Faults({"rm_discovery", "rm_device", "del_bus",
                             "new_bus", "add_device", "undo_bus"}), new \in Free :
        Do(Recover(context, native, fault, new))
  BY DEF RecoverStep
<1> DEFINE v == Recover(context, native, fault, new)
<1>2. /\ fault \in Fault /\ new \in Handles
      /\ context \in ContextType /\ native \in NativeType /\ Exact(context, native)
  BY InvIsGood DEF Faults, Fault, Free, Calls
<1>3. /\ Good(v) /\ v.context.frequencyHz = context.frequencyHz
      /\ ~context.hasBusConfig => v.context = context /\ v.status # "OK"
      /\ v.status = "OK" => IsOpen(v.context)
      /\ v.status # "OK" /\ IsOpen(v.context) => IsOpen(context)
  BY <1>2, RecoverIsGood
<1>4. context' = v.context /\ returned' = v.status
  BY <1>1 DEF Do
<1>5. Inv'
  BY <1>1, <1>3, InvIsGood
<1> HIDE DEF v
<1>6. CASE ~context.hasBusConfig
  <2>1. Lifecycle!Refuse
    BY <1>3, <1>4, <1>6, PhaseIsPhaseOf DEF Lifecycle!Refuse
  <2>2. QED BY <1>5, <2>1 DEF Stepped, Lifecycle!LifecycleNext
<1>7. CASE context.hasBusConfig
  <2>1. Lifecycle!Recover
    BY <1>2, <1>3, <1>4, <1>7, PhaseIs, PhaseIsPhaseOf DEF Lifecycle!Recover, Exact
  <2>2. QED BY <1>5, <2>1 DEF Stepped, Lifecycle!LifecycleNext
<1>8. QED BY <1>6, <1>7

LEMMA SetFrequencySteps == Inv /\ SetFrequencyStep => Stepped
<1> SUFFICES ASSUME Inv, SetFrequencyStep PROVE Stepped OBVIOUS
<1>1. PICK fault \in Faults({"rm_discovery", "rm_device", "add_device", "undo_device"}),
           new \in Free, hz \in Frequencies \cup {BadFrequency} :
        Do(SetFrequency(context, native, hz, fault, new))
  BY DEF SetFrequencyStep
<1> DEFINE v == SetFrequency(context, native, hz, fault, new)
<1>2. /\ fault \in Fault /\ new \in Handles
      /\ context \in ContextType /\ native \in NativeType /\ Exact(context, native)
  BY InvIsGood DEF Faults, Fault, Free, Calls
<1>3. /\ Good(v)
      /\ \/ v.context = context /\ v.status # "OK"
         \/ /\ IsOpen(context) /\ hz \in Frequencies /\ HasHandle(v.context)
            /\ v.status = "OK" => IsOpen(v.context) /\ v.context.frequencyHz = hz
            /\ v.status # "OK" => v.context.frequencyHz = context.frequencyHz
  BY <1>2, SetFrequencyIsGood
<1>4. context' = v.context /\ returned' = v.status
  BY <1>1 DEF Do
<1>5. Inv'
  BY <1>1, <1>3, InvIsGood
<1> HIDE DEF v
<1>6. CASE v.context = context /\ v.status # "OK"
  <2>1. Lifecycle!Refuse
    BY <1>4, <1>6, PhaseIsPhaseOf DEF Lifecycle!Refuse
  <2>2. QED BY <1>5, <2>1 DEF Stepped, Lifecycle!LifecycleNext
<1>7. CASE ~(v.context = context /\ v.status # "OK")
  <2>1. hz \in Frequencies /\ Lifecycle!Retune(hz)
    BY <1>3, <1>4, <1>7, PhaseIs, PhaseIsPhaseOf DEF Lifecycle!Retune
  <2>2. QED BY <1>5, <2>1 DEF Stepped, Lifecycle!LifecycleNext
<1>8. QED BY <1>6, <1>7

\* The bus is as open, and runs as fast, after a transfer as before.
LEMMA SameBusIsUnchanged ==
  ASSUME NEW v, SameBus(context, v.context), context' = v.context,
         v.context.discoveryDevice = context.discoveryDevice \/ IsOpen(context)
  PROVE  UNCHANGED <<Phase, context.frequencyHz>>
BY PhaseIsPhaseOf DEF SameBus, PhaseOf, IsOpen, HasHandle

LEMMA TransferSteps == Inv /\ TransferStep => Stepped
<1> SUFFICES ASSUME Inv, TransferStep PROVE Stepped OBVIOUS
<1>1. PICK fault \in Faults({"transfer"}), kind \in {"WRITE", "WRITE_READ"},
           address \in Addresses : Do(Transfer(context, native, kind, address, fault))
  BY DEF TransferStep
<1> DEFINE v == Transfer(context, native, kind, address, fault)
<1>2. /\ fault \in Fault /\ kind \in TransferKind
      /\ context \in ContextType /\ native \in NativeType /\ Exact(context, native)
  BY InvIsGood DEF Faults, Fault, TransferKind, Calls
<1>3. /\ Good(v) /\ SameBus(context, v.context)
      /\ v.context.discoveryDevice = context.discoveryDevice
      /\ v.status = "OK" => IsOpen(context)
  BY <1>2, TransferIsGood
<1>4. context' = v.context /\ returned' = v.status
  BY <1>1 DEF Do
<1>5. Inv'
  BY <1>1, <1>3, InvIsGood
<1> HIDE DEF v
<1>6. Lifecycle!Transfer
  BY <1>3, <1>4, SameBusIsUnchanged, PhaseIs, PhaseIsPhaseOf DEF Lifecycle!Transfer
<1>7. QED BY <1>5, <1>6 DEF Stepped, Lifecycle!LifecycleNext

LEMMA DiscoverSteps == Inv /\ DiscoverStep => Stepped
<1> SUFFICES ASSUME Inv, DiscoverStep PROVE Stepped OBVIOUS
<1>1. PICK fault \in Faults({"rm_discovery", "add_device", "transfer"}), new \in Free,
           address \in Addresses : Do(ReadRegisterAt(context, native, address, fault, new))
  BY DEF DiscoverStep
<1> DEFINE v == ReadRegisterAt(context, native, address, fault, new)
<1>2. /\ fault \in Fault /\ new \in Handles /\ native.devices[new] = NoDevice
      /\ context \in ContextType /\ native \in NativeType /\ Exact(context, native)
  BY InvIsGood DEF Faults, Fault, Free, Calls
<1>3. /\ Good(v) /\ SameBus(context, v.context)
      /\ ~IsOpen(context) => v.context = context /\ v.status # "OK"
  BY <1>2, ReadRegisterAtIsGood
<1>4. context' = v.context /\ returned' = v.status
  BY <1>1 DEF Do
<1>5. Inv'
  BY <1>1, <1>3, InvIsGood
<1> HIDE DEF v
<1>6. Lifecycle!Transfer
  BY <1>3, <1>4, SameBusIsUnchanged, PhaseIs, PhaseIsPhaseOf DEF Lifecycle!Transfer
<1>7. QED BY <1>5, <1>6 DEF Stepped, Lifecycle!LifecycleNext

LEMMA InitHolds == Init => Inv /\ Lifecycle!LifecycleInit
<1> SUFFICES ASSUME Init PROVE Inv /\ Lifecycle!LifecycleInit OBVIOUS
<1>1. NoTransfers \in [TransferKind \cup {"failures"} -> 0 .. MaxCount]
  BY TransportAssumption DEF NoTransfers
<1>2. TypeOK
  BY <1>1 DEF Init, TypeOK, WellFormed, Device, Status
<1>3. ContextIsExact
  BY TransportAssumption DEF Init, ContextIsExact, Exact, HasHandle
<1>4. Lifecycle!LifecycleInit
  BY DEF Init, Lifecycle!LifecycleInit, Phase, IsOpen, HasHandle
<1>5. QED BY <1>2, <1>3, <1>4 DEF Inv

LEMMA StepHolds ==
  Inv /\ [Next]_vars => Inv' /\ [Lifecycle!LifecycleNext]_(Lifecycle!lifecycle)
<1> SUFFICES ASSUME Inv, [Next]_vars
             PROVE  Inv' /\ [Lifecycle!LifecycleNext]_(Lifecycle!lifecycle) OBVIOUS
<1>1. CASE Next
  <2>1. Stepped
    BY <1>1, OpenSteps, CloseSteps, ReopenSteps, RecoverSteps, SetFrequencySteps,
       TransferSteps, DiscoverSteps DEF Next
  <2>2. QED BY <2>1 DEF Stepped
<1>2. CASE UNCHANGED vars
  <2>1. Inv'
    BY <1>2 DEF vars, Inv, TypeOK, ContextIsExact
  <2>2. UNCHANGED Lifecycle!lifecycle
    BY <1>2 DEF vars, Lifecycle!lifecycle, Phase, IsOpen, HasHandle
  <2>3. QED BY <2>1, <2>2
<1>3. QED BY <1>1, <1>2

-----------------------------------------------------------------------------
(* The theorems.                                                           *)

\* The context and the platform stay what their types say.
THEOREM TransportTypeCorrect == Spec => []TypeOK
<1>1. Inv => TypeOK
  BY DEF Inv
<1>2. QED BY InitHolds, StepHolds, <1>1, PTL DEF Spec

\* Wherever a call of the platform fails, in open(), close(), recover(),
\* setFrequency() or readRegisterAt(), no handle is leaked or left dangling.
THEOREM TransportContextIsExact == Spec => []ContextIsExact
<1>1. Inv => ContextIsExact
  BY DEF Inv
<1>2. QED BY InitHolds, StepHolds, <1>1, PTL DEF Spec

\* From every state that failed calls can leave behind, a recover() in which
\* none fails opens the bus again, at the frequency last in force.
THEOREM TransportRecoveryHeals == Spec => []RecoveryHeals
<1>1. Inv => RecoveryHeals
  <2> SUFFICES ASSUME Inv, NEW new \in Free, context.hasBusConfig
               PROVE  LET w == Recover(context, native, NoFault, new)
                      IN  /\ w.status = "OK" /\ IsOpen(w.context) /\ w.native.bus
                          /\ w.context.frequencyHz = context.frequencyHz
                          /\ w.native.devices[w.context.device]
                               = MakeDeviceConfig(Address, context.frequencyHz)
    BY DEF RecoveryHeals
  <2>1. /\ NoFault \in Fault /\ NoFault.calls = {} /\ new \in Handles
        /\ context \in ContextType /\ native \in NativeType /\ Exact(context, native)
    BY InvIsGood DEF NoFault, Fault, EspErr, Free
  <2>2. QED BY <2>1, RecoverIsGood
<1>2. QED BY InitHolds, StepHolds, <1>1, PTL DEF Spec

\* With its handles forgotten, the transport is a bus that is closed, open or
\* degraded, whose frequency only a successful call changes.
THEOREM TransportImplementsBusLifecycle == Spec => ImplementsBusLifecycle
  BY InitHolds, StepHolds, PTL DEF Spec, ImplementsBusLifecycle, Lifecycle!LifecycleSpec
=============================================================================
