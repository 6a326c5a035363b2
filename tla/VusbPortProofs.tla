--------------------------- MODULE VusbPortProofs ---------------------------
(***************************************************************************)
(* Proofs about VusbPort, for any number of ports, devices and ids, and    *)
(* for both versions of the driver: PortInv is inductive, so that ports    *)
(* never serve two devices and a free port is quiet.  One lemma per action *)
(* shows that it keeps PortInv; what an action leaves alone is one step.   *)
(***************************************************************************)
EXTENDS VusbPort, TLAPS

\* vusb_set_link_state makes flags of flags.
LEMMA LinkStateType ==
    ASSUME NEW flags \in SUBSET Flags, NEW there, NEW s
    PROVE  LinkState(flags, there, s) \in SUBSET Flags
BY DEF LinkState, SpeedFlags, Flags, Changes

\* A change of one port's status by vusb_set_link_state, and the poll after it.
LEMMA SetStatusType ==
    ASSUME StatusType, NEW p \in Ports, NEW flags \in SUBSET Flags,
           SetStatus(p, flags), Poll
    PROVE  StatusType'
BY LinkStateType DEF StatusType, SetStatus, Poll

\* vusb_get_vport takes a free port, or the device is refused.
LEMMA ProbeKeeps ==
    ASSUME PortInv, NEW d \in Devices, NEW id \in Ids, Probe(d, id)
    PROVE  PortInv'
<1> USE DEF PortInv, TypeOK, Probe
<1>1. BindType' /\ XenType'
  BY DEF BindType, XenType, bindVars, FirstFree
<1>2. StatusType' /\ ResetType' /\ HubType'
  BY DEF StatusType, ResetType, HubType, resetVars, ringVars, hubVars
<1>3. PortsApart' /\ PortStages'
  BY PortAssumption DEF BindType, PortsApart, PortStages, FreePort, FirstFree, Ports, NoPort
<1>4. DevicesBound' /\ XenwatchAt'
  BY PortAssumption DEF BindType, XenType, DevicesBound, XenwatchAt, FirstFree, Ports
<1>5. QuietPorts'
  BY DEF QuietPorts, Quiet, UnreadOf, resetVars, ringVars
<1> QED
  BY <1>1, <1>2, <1>3, <1>4, <1>5

\* The failure of vusb_talk_to_usbback gives the port back.
LEMMA TalkToUsbbackKeeps ==
    ASSUME PortInv, TalkToUsbback
    PROVE  PortInv'
<1> USE DEF PortInv, TypeOK, TalkToUsbback
<1>1. BindType' /\ ResetType' /\ XenType'
  BY DEF BindType, ResetType, XenType, bindVars, ringVars, PutVport, XenwatchAt
<1>2. StatusType' /\ HubType'
  BY DEF StatusType, HubType, hubVars
<1>3. PortsApart' /\ PortStages'
  BY DEF BindType, PortsApart, PortStages, FreePort, XenwatchAt, PutVport, bindVars
<1>4. DevicesBound' /\ XenwatchAt'
  BY PortAssumption DEF BindType, XenType, DevicesBound, XenwatchAt, PortsApart,
     PutVport, bindVars, Ports, NoPort
<1>5. QuietPorts'
  BY DEF BindType, QuietPorts, Quiet, UnreadOf, PutVport, PortStages, XenwatchAt, bindVars, ringVars
<1> QED
  BY <1>1, <1>2, <1>3, <1>4, <1>5

\* The port of a device that is started was connecting, so it is not closing.
LEMMA StartDeviceKeeps ==
    ASSUME PortInv, NEW d \in Devices, StartDevice(d)
    PROVE  PortInv'
<1> USE DEF PortInv, TypeOK, StartDevice
<1>1. BindType' /\ XenType'
  BY DEF BindType, XenType, DevicesBound
<1>2. StatusType' /\ ResetType' /\ HubType'
  BY DEF StatusType, ResetType, HubType, resetVars, ringVars, hubVars
<1>3. PortsApart' /\ PortStages'
  BY DEF BindType, PortsApart, PortStages, FreePort, DevicesBound
<1>4. DevicesBound' /\ XenwatchAt'
  BY PortAssumption DEF BindType, XenType, DevicesBound, XenwatchAt, PortsApart,
     PortStages, Ports, NoPort
<1>5. QuietPorts'
  BY DEF QuietPorts, Quiet, UnreadOf, resetVars, ringVars
<1> QED
  BY <1>1, <1>2, <1>3, <1>4, <1>5

LEMMA StartAskSpeedKeeps ==
    ASSUME PortInv, StartAskSpeed
    PROVE  PortInv'
<1> USE DEF PortInv, TypeOK, StartAskSpeed
<1>1. BindType' /\ ResetType' /\ XenType'
  BY DEF BindType, ResetType, XenType, XenwatchAt
<1>2. StatusType' /\ HubType'
  BY DEF StatusType, HubType, hubVars
<1>3. PortsApart' /\ PortStages' /\ DevicesBound' /\ XenwatchAt'
  BY DEF PortsApart, PortStages, FreePort, DevicesBound, XenwatchAt
<1>4. QuietPorts'
  BY DEF QuietPorts, Quiet, UnreadOf, XenwatchAt
<1> QED
  BY <1>1, <1>2, <1>3, <1>4

LEMMA StartConnectKeeps ==
    ASSUME PortInv, StartConnect
    PROVE  PortInv'
<1> USE DEF PortInv, TypeOK, StartConnect
<1>1. StatusType'
  <2> DEFINE p == portOf[xdev]
             flags == status[p] \cup {"CONNECTION", "C_CONNECTION"} \cup SpeedFlags(speed[p])
  <2>1. p \in Ports
    BY DEF XenwatchAt, BindType
  <2>2. flags \in SUBSET Flags
    BY <2>1 DEF StatusType, SpeedFlags, Flags, Changes
  <2> QED
    BY <2>1, <2>2, SetStatusType
<1>2. BindType' /\ ResetType' /\ XenType' /\ HubType'
  BY DEF BindType, ResetType, XenType, HubType, bindVars, resetVars, ringVars, hubVars
<1>3. PortsApart' /\ PortStages' /\ DevicesBound' /\ XenwatchAt' /\ QuietPorts'
  BY DEF PortsApart, PortStages, FreePort, DevicesBound, XenwatchAt, QuietPorts,
     Quiet, UnreadOf, bindVars, resetVars, ringVars
<1> QED
  BY <1>1, <1>2, <1>3

\* vusb_destroy_device, whoever calls it: all that it changes of the binding of
\* ports is closing, on a port that is present.
LEMMA DestroyDeviceKeeps ==
    ASSUME PortInv, NEW d \in Devices, DestroyDevice(d), xpc = "idle",
           NEW life \in {"vanished", "removed"},
           xenbus' = [xenbus EXCEPT ![d] = life],
           UNCHANGED <<portOf, deviceId, connecting, present, speed, resetVars,
                       alive, hubVars>>
    PROVE  PortInv'
<1> USE DEF PortInv, TypeOK, DestroyDevice
<1>1. BindType' /\ XenType'
  BY DEF BindType, XenType
<1>2. StatusType'
  <2>1. CASE status' = status /\ woken' = woken
    BY <2>1 DEF StatusType
  <2>2. CASE portOf[d] \in present /\ Unload
    <3>1. portOf[d] \in Ports
      BY <2>2 DEF BindType
    <3>2. status[portOf[d]] \in SUBSET Flags
      BY <3>1 DEF StatusType
    <3> QED
      BY <2>2, <3>1, <3>2, LinkStateType DEF StatusType, Poll
  <2> QED
    BY <2>1, <2>2
<1>3. ResetType' /\ HubType'
  BY DEF ResetType, HubType, resetVars, ringVars, hubVars
<1>4. PortsApart' /\ PortStages'
  BY DEF BindType, PortsApart, PortStages, FreePort
<1>5. DevicesBound' /\ XenwatchAt'
  BY DEF BindType, XenType, DevicesBound, XenwatchAt, PortStages
<1>6. QuietPorts'
  BY DEF QuietPorts, Quiet, UnreadOf, resetVars, ringVars
<1> QED
  BY <1>1, <1>2, <1>3, <1>4, <1>5, <1>6

LEMMA BackendVanishedKeeps ==
    ASSUME PortInv, NEW d \in Devices, BackendVanished(d)
    PROVE  PortInv'
BY DestroyDeviceKeeps DEF BackendVanished

\* Without driver data, xenwatch dies and nothing else changes.
LEMMA RemoveKeeps ==
    ASSUME PortInv, NEW d \in Devices, Remove(d)
    PROVE  PortInv'
<1>1. CASE portOf[d] # NoPort
  BY <1>1, DestroyDeviceKeeps DEF Remove
<1>2. CASE portOf[d] = NoPort
  <2> USE <1>2 DEF PortInv, TypeOK, Remove
  <2>1. BindType' /\ StatusType' /\ ResetType' /\ XenType' /\ HubType'
    BY DEF BindType, StatusType, ResetType, XenType, HubType, resetVars, ringVars, hubVars
  <2>2. PortsApart' /\ PortStages' /\ QuietPorts'
    BY DEF PortsApart, PortStages, FreePort, QuietPorts, Quiet, UnreadOf, resetVars, ringVars
  <2>3. DevicesBound' /\ XenwatchAt'
    BY DEF XenType, DevicesBound, XenwatchAt
  <2> QED
    BY <2>1, <2>2, <2>3
<1> QED
  BY <1>1, <1>2

\* After the second wait of vusb_usbif_halt the port is quiet.
LEMMA DestroyHaltKeeps ==
    ASSUME PortInv, DestroyHalt
    PROVE  PortInv'
<1> USE DEF PortInv, TypeOK, DestroyHalt
<1>0. portOf[xdev] \in Ports
  BY DEF XenwatchAt, BindType
<1>1. BindType' /\ StatusType' /\ ResetType' /\ XenType' /\ HubType'
  BY <1>0 DEF BindType, StatusType, ResetType, XenType, HubType, bindVars, ringVars, hubVars
<1>2. PortsApart' /\ PortStages' /\ DevicesBound' /\ XenwatchAt'
  BY DEF PortsApart, PortStages, FreePort, DevicesBound, XenwatchAt, bindVars
<1>3. QuietPorts'
  BY DEF QuietPorts, Quiet, UnreadOf, bindVars, resetVars, ringVars
<1> QED
  BY <1>1, <1>2, <1>3

\* vusb_put_vport clears a port that no other device points to, and that has
\* been made quiet.
LEMMA DestroyPutKeeps ==
    ASSUME PortInv, DestroyPut
    PROVE  PortInv'
<1> USE DEF PortInv, TypeOK, DestroyPut
<1>0. xdev \in Devices /\ portOf[xdev] \in Ports
  BY DEF XenwatchAt, BindType
<1>1. BindType' /\ ResetType' /\ XenType'
  BY <1>0 DEF BindType, ResetType, XenType, PutVport, ringVars
<1>2. StatusType'
  <2>1. status[portOf[xdev]] \in SUBSET Flags
    BY <1>0 DEF StatusType
  <2>2. CASE Unload
    BY <2>2 DEF StatusType
  <2>3. CASE ~Unload
    BY <1>0, <2>1, <2>3, SetStatusType
  <2> QED
    BY <2>2, <2>3
<1>3. HubType'
  BY DEF HubType, hubVars
<1>4. PortsApart' /\ PortStages'
  BY <1>0 DEF BindType, PortsApart, PortStages, FreePort, PutVport
<1>5. DevicesBound' /\ XenwatchAt'
  BY <1>0, PortAssumption DEF BindType, XenType, DevicesBound, XenwatchAt,
     PortsApart, PutVport, Ports, NoPort
<1>6. QuietPorts'
  BY <1>0 DEF QuietPorts, Quiet, UnreadOf, PutVport, ringVars
<1> QED
  BY <1>1, <1>2, <1>3, <1>4, <1>5, <1>6

\* A reset is begun only on a port that is present and not closing, so that
\* the port vusb_usbif_halt has waited for stays quiet.
LEMMA PortWorkRunKeeps ==
    ASSUME PortInv, NEW p \in Ports, PortWorkRun(p)
    PROVE  PortInv'
<1> USE DEF PortInv, TypeOK, PortWorkRun
<1>1. BindType' /\ StatusType' /\ XenType' /\ HubType'
  BY DEF BindType, StatusType, XenType, HubType, bindVars, xenVars, hubVars
<1>2. ResetType'
  BY DEF ResetType
<1>3. PortsApart' /\ PortStages' /\ DevicesBound' /\ XenwatchAt'
  BY DEF PortsApart, PortStages, FreePort, DevicesBound, XenwatchAt, bindVars, xenVars
<1>4. QuietPorts'
  BY DEF QuietPorts, Quiet, UnreadOf, CanStart, XenwatchAt, bindVars, xenVars
<1> QED
  BY <1>1, <1>2, <1>3, <1>4

LEMMA ResetCompleteKeeps ==
    ASSUME PortInv, NEW p \in Ports, ResetComplete(p)
    PROVE  PortInv'
<1> USE DEF PortInv, TypeOK, ResetComplete
<1>1. StatusType'
  <2>1. status[p] \cup {"C_RESET"} \in SUBSET Flags
    BY DEF StatusType, Flags, Changes
  <2> QED
    BY <2>1, SetStatusType
<1>2. BindType' /\ ResetType' /\ XenType' /\ HubType'
  BY DEF BindType, ResetType, XenType, HubType, bindVars, ringVars, xenVars, hubVars
<1>3. PortsApart' /\ PortStages' /\ DevicesBound' /\ XenwatchAt' /\ QuietPorts'
  BY DEF PortsApart, PortStages, FreePort, DevicesBound, XenwatchAt, QuietPorts,
     Quiet, UnreadOf, bindVars, ringVars, xenVars
<1> QED
  BY <1>1, <1>2, <1>3

\* A response takes the place of its request, on a port that has a device.
LEMMA RespondKeeps ==
    ASSUME PortInv, NEW p \in Ports, Respond(p)
    PROVE  PortInv'
<1> USE DEF PortInv, TypeOK, Respond
<1>1. BindType' /\ ResetType'
  BY DEF BindType, ResetType, bindVars
<1>2. StatusType' /\ XenType' /\ HubType'
  BY DEF StatusType, XenType, HubType, xenVars, hubVars
<1>3. PortsApart' /\ PortStages' /\ DevicesBound' /\ XenwatchAt'
  BY DEF PortsApart, PortStages, FreePort, DevicesBound, XenwatchAt, bindVars, xenVars
<1>4. QuietPorts'
  BY DEF QuietPorts, Quiet, UnreadOf, bindVars, xenVars
<1> QED
  BY <1>1, <1>2, <1>3, <1>4

\* The interrupt asks nothing, and leaves no response that will be noticed.
LEMMA InterruptKeeps ==
    ASSUME PortInv, NEW p \in Ports, Interrupt(p)
    PROVE  PortInv'
<1> USE DEF PortInv, TypeOK, Interrupt
<1>1. BindType' /\ ResetType'
  BY DEF BindType, ResetType
<1>2. StatusType' /\ XenType' /\ HubType'
  BY DEF StatusType, XenType, HubType, xenVars, hubVars
<1>3. PortsApart' /\ PortStages' /\ DevicesBound' /\ XenwatchAt'
  BY DEF PortsApart, PortStages, FreePort, DevicesBound, XenwatchAt, xenVars
<1>4. QuietPorts'
  BY DEF QuietPorts, Quiet, UnreadOf, xenVars
<1> QED
  BY <1>1, <1>2, <1>3, <1>4

LEMMA BackendDiesKeeps ==
    ASSUME PortInv, NEW d \in Devices, BackendDies(d)
    PROVE  PortInv'
<1> USE DEF PortInv, TypeOK, BackendDies
<1>1. BindType' /\ StatusType' /\ ResetType' /\ XenType' /\ HubType'
  BY DEF BindType, StatusType, ResetType, XenType, HubType, bindVars, resetVars, ringVars, hubVars
<1>2. PortsApart' /\ PortStages' /\ DevicesBound' /\ XenwatchAt' /\ QuietPorts'
  BY DEF PortsApart, PortStages, FreePort, DevicesBound, XenwatchAt, QuietPorts,
     Quiet, UnreadOf, bindVars, resetVars, ringVars
<1> QED
  BY <1>1, <1>2

\* vusb_port_reset, for the hub driver or for a USB driver: of what PortInv
\* speaks of, only the gate, the work and the status change.
LEMMA PortResetKeeps ==
    ASSUME PortInv, NEW p \in Ports, PortReset(p), HubType',
           UNCHANGED <<bindVars, xenVars>>
    PROVE  PortInv'
<1> USE DEF PortInv, TypeOK, PortReset
<1>1. StatusType'
  <2>1. status[p] \cup {"POWER"} \in SUBSET Flags
    BY DEF StatusType, Flags
  <2> QED
    BY <2>1, SetStatusType
<1>2. BindType' /\ ResetType' /\ XenType'
  BY DEF BindType, ResetType, XenType, bindVars, ringVars, xenVars
<1>3. PortsApart' /\ PortStages' /\ DevicesBound' /\ XenwatchAt' /\ QuietPorts'
  BY DEF PortsApart, PortStages, FreePort, DevicesBound, XenwatchAt, QuietPorts,
     Quiet, UnreadOf, bindVars, ringVars, xenVars
<1> QED
  BY <1>1, <1>2, <1>3

\* The requests of the hub driver bind no port and begin no reset by themselves.
LEMMA HubKeeps ==
    ASSUME PortInv, NEW p \in Ports, Hub(p) \/ DriverReset(p)
    PROVE  PortInv'
<1>1. CASE HubReset(p)
  <2>1. HubType'
    BY <1>1 DEF PortInv, TypeOK, HubType, HubReset
  <2> QED
    BY <1>1, <2>1, PortResetKeeps DEF HubReset
<1>2. CASE DriverReset(p)
  <2>1. HubType'
    BY <1>2 DEF PortInv, TypeOK, HubType, DriverReset, hubVars
  <2> QED
    BY <1>2, <2>1, PortResetKeeps DEF DriverReset
<1>3. CASE HubPower(p) \/ HubClear(p) \/ HubCheck(p)
  <2> USE DEF PortInv, TypeOK
  <2>1. UNCHANGED <<bindVars, resetVars, xenVars>>
    BY <1>3 DEF HubPower, HubClear, HubCheck
  <2>2. BindType' /\ ResetType' /\ XenType'
    BY <2>1 DEF BindType, ResetType, XenType, bindVars, resetVars, ringVars, xenVars
  <2>3. PortsApart' /\ PortStages' /\ DevicesBound' /\ XenwatchAt' /\ QuietPorts'
    BY <2>1 DEF PortsApart, PortStages, FreePort, DevicesBound, XenwatchAt,
       QuietPorts, Quiet, UnreadOf, bindVars, resetVars, ringVars, xenVars
  <2>4. HubType'
    BY <1>3 DEF HubType, HubPower, HubClear, HubCheck, hubVars
  <2>5. StatusType'
    <3>1. status[p] \cup {"POWER"} \in SUBSET Flags
      BY DEF StatusType, Flags
    <3>2. CASE HubPower(p)
      BY <3>1, <3>2, SetStatusType DEF HubPower
    <3>3. CASE HubClear(p) \/ HubCheck(p)
      BY <3>3 DEF StatusType, HubClear, HubCheck
    <3> QED
      BY <1>3, <3>2, <3>3
  <2> QED
    BY <2>2, <2>3, <2>4, <2>5
<1> QED
  BY <1>1, <1>2, <1>3 DEF Hub

-----------------------------------------------------------------------------
\* The inductive invariant of the root hub.
THEOREM PortInvariant == Spec => []PortInv
<1>1. Init => PortInv
  <2> SUFFICES ASSUME Init PROVE PortInv
    OBVIOUS
  <2> USE DEF Init
  <2>1. TypeOK
    BY DEF TypeOK, BindType, StatusType, ResetType, XenType, HubType
  <2>2. PortsApart /\ PortStages /\ DevicesBound /\ XenwatchAt /\ QuietPorts
    BY DEF PortsApart, PortStages, DevicesBound, XenwatchAt, QuietPorts, Quiet, UnreadOf
  <2> QED
    BY <2>1, <2>2 DEF PortInv
<1>2. PortInv /\ [Next]_vars => PortInv'
  <2> SUFFICES ASSUME PortInv, [Next]_vars PROVE PortInv'
    OBVIOUS
  <2>1. ASSUME NEW d \in Devices, XenbusEvent(d) \/ StartDevice(d) \/ BackendDies(d)
        PROVE  PortInv'
    BY <2>1, ProbeKeeps, BackendVanishedKeeps, RemoveKeeps, StartDeviceKeeps,
       BackendDiesKeeps DEF XenbusEvent
  <2>2. CASE XenwatchStep
    BY <2>2, TalkToUsbbackKeeps, StartAskSpeedKeeps, StartConnectKeeps,
       DestroyHaltKeeps, DestroyPutKeeps DEF XenwatchStep
  <2>3. ASSUME NEW p \in Ports, PortWorkRun(p) \/ ResetComplete(p) \/ Respond(p)
                                \/ Interrupt(p) \/ Hub(p) \/ DriverReset(p)
        PROVE  PortInv'
    BY <2>3, PortWorkRunKeeps, ResetCompleteKeeps, RespondKeeps,
       InterruptKeeps, HubKeeps
  <2>4. CASE UNCHANGED vars
    BY <2>4 DEF vars, bindVars, resetVars, ringVars, xenVars, hubVars, PortInv, TypeOK,
       BindType, StatusType, ResetType, XenType, HubType, PortsApart, PortStages,
       FreePort, DevicesBound, XenwatchAt, QuietPorts, Quiet, UnreadOf
  <2> QED
    BY <2>1, <2>2, <2>3, <2>4 DEF Next
<1> QED
  BY <1>1, <1>2, PTL DEF Spec

\* Type correctness.
THEOREM PortTypeCorrect == Spec => []TypeOK
<1>1. PortInv => TypeOK
  BY DEF PortInv
<1> QED
  BY <1>1, PortInvariant, PTL

\* No two devices ever share a port, and vusb_get_vport never hands out one
\* that a device points to.
THEOREM PortsStayApart == Spec => []PortsApart
<1>1. PortInv => PortsApart
  BY DEF PortInv
<1> QED
  BY <1>1, PortInvariant, PTL

\* What a device was asked is never answered into the next one on its port.
THEOREM FreePortsAreQuiet == Spec => []FreePortQuiet
<1>1. PortInv => FreePortQuiet
  BY DEF PortInv, QuietPorts, FreePortQuiet, UnreadOf, FreePort
<1> QED
  BY <1>1, PortInvariant, PTL

-----------------------------------------------------------------------------
(* The speed that the port status shows (vusb_unload) *)

\* vusb_set_link_state shows the speed of the device that is there, and
\* nothing of one that is not.
LEMMA LinkStateSpeed ==
    ASSUME NEW flags \in SUBSET Flags, NEW there, NEW s
    PROVE  LET new == LinkState(flags, there, s) IN
           /\ ~there => {"CONNECTION", "HIGH_SPEED"} \cap new = {}
           /\ there /\ "CONNECTION" \in new /\ s = "high" => "HIGH_SPEED" \in new
           /\ "HIGH_SPEED" \in new => "HIGH_SPEED" \in flags \/ s = "high"
BY DEF LinkState, SpeedFlags

\* A request of the hub driver, or the end of a reset or of a start, brings
\* the status of a port up to date.
LEMMA SetStatusSpeed ==
    ASSUME PortInv, SpeedInv, Unload, NEW p \in Ports, NEW flags \in SUBSET Flags,
           SetStatus(p, flags),
           "HIGH_SPEED" \in flags => "HIGH_SPEED" \in status[p] \/ speed[p] = "high",
           UNCHANGED bindVars,
           UNCHANGED <<asked, unread>>,
           \/ UNCHANGED <<xpc, xdev>>
           \/ xpc = "speed" /\ portOf[xdev] = p /\ xpc' = "idle" /\ speed[p] # "unknown"
    PROVE  SpeedInv'
<1> USE DEF PortInv, TypeOK, BindType, StatusType, SpeedInv, bindVars
<1> DEFINE new == LinkState(flags, DeviceThere(p, closing), speed[p])
<1>1. \A q \in Ports : status'[q] = IF q = p THEN new ELSE status[q]
  BY DEF SetStatus
<1>2. /\ p \notin present \ closing => {"CONNECTION", "HIGH_SPEED"} \cap new = {}
      /\ "CONNECTION" \in new /\ p \in present /\ speed[p] = "high" => "HIGH_SPEED" \in new
      /\ "HIGH_SPEED" \in new => speed[p] = "high"
  <2>1. DeviceThere(p, closing) <=> p \in present \ closing
    BY DEF DeviceThere
  <2> QED BY <2>1, LinkStateSpeed
<1> HIDE DEF new
<1>3. ASSUME NEW q \in Ports
      PROVE  /\ q \notin present \ closing => {"CONNECTION", "HIGH_SPEED"} \cap status'[q] = {}
             /\ "HIGH_SPEED" \in status'[q] => speed[q] = "high"
  BY <1>1, <1>2
<1>4. SpeedReported'
  BY <1>1, <1>2, <1>3 DEF SpeedReported
<1> QED BY <1>3, <1>4

\* The steps of xenbus: a device finds a port, or none.
LEMMA BindSpeed ==
    ASSUME PortInv, SpeedInv, NEW d \in Devices, NEW id \in Ids, Probe(d, id)
    PROVE  SpeedInv'
BY DEF PortInv, TypeOK, BindType, SpeedInv, SpeedReported, Probe, resetVars, ringVars

\* vusb_put_vport, after which the port has no speed.
LEMMA PutSpeed ==
    ASSUME PortInv, SpeedInv, Unload, TalkToUsbback \/ DestroyPut
    PROVE  SpeedInv'
<1> USE DEF PortInv, TypeOK, BindType, StatusType, SpeedInv
<1>1. CASE UNCHANGED <<bindVars, status, asked, unread>> /\ TalkToUsbback
  BY <1>1 DEF TalkToUsbback, SpeedReported, bindVars
<1>2. CASE PutVport(portOf[xdev]) /\ (TalkToUsbback \/ DestroyPut)
  <2>1. PICK p \in Ports : p = portOf[xdev]
    BY <1>2 DEF TalkToUsbback, DestroyPut, XenwatchAt
  <2>2. /\ p \notin present \ closing /\ Quiet(p)
        /\ xpc \notin {"ask", "speed"} /\ xpc' = "idle"
        /\ UNCHANGED <<status, asked, unread>>
    BY <1>2, <2>1 DEF TalkToUsbback, DestroyPut, XenwatchAt, PortStages, QuietPorts, ringVars
  <2>3. \A q \in Ports : speed'[q] = IF q = p THEN "none" ELSE speed[q]
    BY <1>2, <2>1 DEF PutVport
  <2>4. present' = present \ {p} /\ closing' = closing \ {p}
    BY <1>2, <2>1 DEF PutVport
  <2>5. "HIGH_SPEED" \notin status[p] /\ <<p, "speed">> \notin asked \cup unread
    BY <2>2 DEF Quiet
  <2>6. \A q \in Ports : q \notin present' \ closing' => q \notin present \ closing
    BY <2>2, <2>4
  <2>7. \A q \in Ports : <<q, "speed">> \notin asked \cup unread
    BY <2>2
  <2>8. SpeedReported'
    BY <2>2, <2>3, <2>4, <2>5, <2>6 DEF SpeedReported
  <2>9. \A q \in Ports : q \notin present' => speed'[q] = "none"
    BY <2>3, <2>4
  <2>10. \A q \in Ports : "HIGH_SPEED" \in status'[q] => speed'[q] = "high"
    BY <2>2, <2>3, <2>5
  <2>11. \A q \in Ports : q \notin present' \ closing'
                         => {"CONNECTION", "HIGH_SPEED"} \cap status'[q] = {}
    BY <2>2, <2>6
  <2>12. \A q \in Ports : <<q, "speed">> \notin asked' \cup unread'
    BY <2>2, <2>7
  <2> HIDE DEF PortInv, TypeOK, BindType, StatusType
  <2> QED BY <2>2, <2>8, <2>9, <2>10, <2>11, <2>12
<1> QED BY <1>1, <1>2 DEF TalkToUsbback, DestroyPut, ringVars

\* A device is started: its port had nothing to show, and is asked about.
LEMMA StartSpeed ==
    ASSUME PortInv, SpeedInv, StartAskSpeed \/ \E d \in Devices : StartDevice(d)
    PROVE  SpeedInv'
<1> USE DEF PortInv, TypeOK, BindType, StatusType, XenType, SpeedInv
<1>1. ASSUME NEW d \in Devices, StartDevice(d) PROVE SpeedInv'
  <2>1. PICK p \in Ports : p = portOf[d]
    BY <1>1 DEF StartDevice, DevicesBound
  <2>2. p \in connecting /\ p \notin present /\ speed[p] = "none"
    BY <1>1, <2>1 DEF StartDevice, DevicesBound, PortStages
  <2>3. /\ present' = present \cup {p} /\ xpc = "idle" /\ xpc' = "ask" /\ xdev' = d
        /\ UNCHANGED <<portOf, closing, speed, status, asked, unread>>
    BY <1>1, <2>1 DEF StartDevice, resetVars, ringVars
  <2> QED BY <2>1, <2>2, <2>3 DEF SpeedReported
<1>2. CASE StartAskSpeed
  <2>1. PICK p \in Ports : p = portOf[xdev]
    BY <1>2 DEF StartAskSpeed, XenwatchAt
  <2>2. /\ p \in present /\ speed[p] = "none" /\ xpc = "ask" /\ xpc' = "speed"
        /\ asked' = asked \cup {<<p, "speed">>}
        /\ UNCHANGED <<portOf, closing, present, status, xdev, unread>>
    BY <1>2, <2>1 DEF StartAskSpeed, XenwatchAt
  <2>3. \A q \in Ports : speed'[q] = IF q = p THEN "unknown" ELSE speed[q]
    BY <1>2, <2>1 DEF StartAskSpeed
  <2> QED BY <2>1, <2>2, <2>3 DEF SpeedReported
<1> QED BY <1>1, <1>2

\* The interrupt takes the speed that was asked for, which nobody has shown yet.
LEMMA InterruptSpeed ==
    ASSUME PortInv, SpeedInv, NEW p \in Ports, Interrupt(p)
    PROVE  SpeedInv'
<1> USE DEF PortInv, TypeOK, BindType, StatusType, SpeedInv
<1>0. /\ UNCHANGED <<portOf, present, closing, status, asked, xpc, xdev>>
      /\ unread' \subseteq unread
  BY DEF Interrupt, xenVars
<1>1. CASE speed' = speed
  BY <1>0, <1>1 DEF SpeedReported
<1>2. CASE /\ <<p, "speed">> \in unread /\ unread' = unread \ UnreadOf(p)
           /\ \E s \in {"full", "high"} : speed' = [speed EXCEPT ![p] = s]
  <2>1. /\ speed[p] = "unknown" /\ "HIGH_SPEED" \notin status[p]
        /\ p \in present /\ xpc = "speed" /\ portOf[xdev] = p
    BY <1>2 DEF QuietPorts, Quiet
  <2>2. \A q \in Ports : q # p => speed'[q] = speed[q]
    BY <1>2
  <2>3. \A q \in Ports : <<q, "speed">> \in asked' \cup unread'
                         => q # p /\ <<q, "speed">> \in asked \cup unread
    <3>1. xpc = "speed" => <<p, "speed">> \notin asked
      BY <1>2
    <3> QED BY <1>0, <1>2, <3>1, <2>1 DEF UnreadOf
  <2> QED BY <1>0, <1>2, <2>1, <2>2, <2>3 DEF SpeedReported
<1> QED BY <1>1, <1>2 DEF Interrupt

\* A device that is destroyed is not shown any more.
LEMMA DestroySpeed ==
    ASSUME PortInv, SpeedInv, Unload, NEW d \in Devices, DestroyDevice(d), xpc = "idle",
           UNCHANGED <<portOf, present, speed, asked, unread>>
    PROVE  SpeedInv'
<1> USE DEF PortInv, TypeOK, BindType, StatusType, XenType, SpeedInv
<1>1. CASE UNCHANGED <<closing, status, xpc, xdev>>
  BY <1>1 DEF SpeedReported
<1>2. CASE ~UNCHANGED <<closing, status, xpc, xdev>>
  <2>1. PICK p \in Ports : p = portOf[d]
    BY <1>2 DEF DestroyDevice
  <2> DEFINE new == LinkState(status[p], DeviceThere(p, closing'), speed[p])
  <2>2. /\ p \in present /\ closing' = closing \cup {p} /\ xpc' = "halt"
        /\ status' = [status EXCEPT ![p] = new]
    BY <1>2, <2>1 DEF DestroyDevice
  <2>3. {"CONNECTION", "HIGH_SPEED"} \cap new = {}
    <3>1. ~DeviceThere(p, closing')
      BY <2>2 DEF DeviceThere
    <3> QED BY <3>1, LinkStateSpeed
  <2> HIDE DEF new
  <2>4. \A q \in Ports : status'[q] = IF q = p THEN new ELSE status[q]
    BY <2>2
  <2> QED BY <2>2, <2>3, <2>4 DEF SpeedReported
<1> QED BY <1>1, <1>2

\* Once a device has been started, the port status has its speed: in
\* vusb_unload, where vusb_destroy_device reports the removal first.
THEOREM SpeedAlwaysReported ==
    ASSUME Unload
    PROVE  Spec => []SpeedReported
<1>1. Init => SpeedInv
  BY DEF Init, SpeedInv, SpeedReported
<1>2. ASSUME PortInv, SpeedInv, [Next]_vars PROVE SpeedInv'
  <2>1. ASSUME NEW d \in Devices, XenbusEvent(d)
        PROVE  SpeedInv'
    <3>1. CASE BackendVanished(d)
      BY <1>2, <3>1, DestroySpeed DEF BackendVanished, resetVars, ringVars
    <3>2. CASE Remove(d) /\ portOf[d] # NoPort
      BY <1>2, <3>2, DestroySpeed DEF Remove, resetVars, ringVars
    <3>3. CASE Remove(d) /\ portOf[d] = NoPort
      BY <1>2, <3>3 DEF Remove, resetVars, ringVars, SpeedInv, SpeedReported
    <3> QED BY <1>2, <2>1, <3>1, <3>2, <3>3, BindSpeed DEF XenbusEvent
  <2>2. ASSUME NEW p \in Ports, HubPower(p) \/ HubReset(p) \/ DriverReset(p)
        PROVE  SpeedInv'
    <3>1. /\ SetStatus(p, status[p] \cup {"POWER"})
          /\ UNCHANGED <<bindVars, asked, unread, xpc, xdev>>
      BY <2>2 DEF HubPower, HubReset, DriverReset, PortReset, resetVars, ringVars, xenVars
    <3>2. status[p] \cup {"POWER"} \in SUBSET Flags
      BY <1>2 DEF PortInv, TypeOK, StatusType, Flags
    <3> QED BY <1>2, <3>1, <3>2, SetStatusSpeed
  <2>3. ASSUME NEW p \in Ports, ResetComplete(p)
        PROVE  SpeedInv'
    <3>1. /\ SetStatus(p, status[p] \cup {"C_RESET"})
          /\ UNCHANGED <<bindVars, asked, unread, xpc, xdev>>
      BY <2>3 DEF ResetComplete, ringVars, xenVars
    <3>2. status[p] \cup {"C_RESET"} \in SUBSET Flags
      BY <1>2 DEF PortInv, TypeOK, StatusType, Flags, Changes
    <3> QED BY <1>2, <3>1, <3>2, SetStatusSpeed
  <2>4. CASE StartConnect
    <3>1. PICK p \in Ports : p = portOf[xdev]
      BY <1>2, <2>4 DEF StartConnect, PortInv, XenwatchAt, TypeOK, BindType
    <3> DEFINE flags == status[p] \cup {"CONNECTION", "C_CONNECTION"} \cup SpeedFlags(speed[p])
    <3>2. /\ SetStatus(p, flags) /\ xpc = "speed" /\ xpc' = "idle" /\ speed[p] # "unknown"
          /\ UNCHANGED <<bindVars, asked, unread>>
      BY <2>4, <3>1 DEF StartConnect, resetVars, ringVars
    <3>3. /\ flags \in SUBSET Flags
          /\ "HIGH_SPEED" \in flags => "HIGH_SPEED" \in status[p] \/ speed[p] = "high"
      BY <1>2, <3>1 DEF PortInv, TypeOK, StatusType, SpeedFlags, Flags, Changes
    <3> HIDE DEF flags
    <3> QED BY <1>2, <3>1, <3>2, <3>3, SetStatusSpeed
  <2>5. ASSUME NEW p \in Ports, HubClear(p)
        PROVE  SpeedInv'
    <3>1. /\ status' = [status EXCEPT ![p] = @ \ Changes]
          /\ UNCHANGED <<bindVars, asked, unread, xpc, xdev>>
      BY <2>5 DEF HubClear, resetVars, ringVars, xenVars
    <3>2. \A q \in Ports : /\ status'[q] \subseteq status[q]
                           /\ "HIGH_SPEED" \in status[q] => "HIGH_SPEED" \in status'[q]
      BY <1>2, <3>1 DEF PortInv, TypeOK, StatusType, Changes
    <3> QED BY <1>2, <3>1, <3>2 DEF SpeedInv, SpeedReported, bindVars
  <2>6. CASE \/ \E p \in Ports : PortWorkRun(p) \/ Respond(p) \/ HubCheck(p)
             \/ \E d \in Devices : BackendDies(d)
             \/ DestroyHalt
             \/ UNCHANGED vars
    <3>1. /\ UNCHANGED <<bindVars, status, xdev>>
          /\ \A q \in Ports : <<q, "speed">> \in asked' \cup unread'
                              <=> <<q, "speed">> \in asked \cup unread
          /\ xpc' = xpc \/ DestroyHalt
      BY <2>6 DEF PortWorkRun, Respond, HubCheck, BackendDies, DestroyHalt, vars,
         resetVars, ringVars, xenVars
    <3>2. DestroyHalt => xpc \notin {"ask", "speed"} /\ xpc' \notin {"ask", "speed"}
      BY DEF DestroyHalt
    <3>3. \A q \in Ports : <<q, "speed">> \notin asked' \cap unread'
      <4>1. ASSUME NEW p \in Ports, Respond(p)
            PROVE  \A q \in Ports : <<q, "speed">> \notin asked' \cap unread'
        BY <1>2, <4>1 DEF SpeedInv, Respond
      <4>2. ASSUME NEW p \in Ports, PortWorkRun(p)
            PROVE  \A q \in Ports : <<q, "speed">> \notin asked' \cap unread'
        <5>1. \A q \in Ports : <<q, "speed">> \in asked' => <<q, "speed">> \in asked
          BY <4>2 DEF PortWorkRun
        <5>2. unread' = unread
          BY <4>2 DEF PortWorkRun
        <5> QED BY <1>2, <5>1, <5>2 DEF SpeedInv
      <4>3. CASE asked' = asked /\ unread' = unread
        BY <1>2, <4>3 DEF SpeedInv
      <4>4. ASSUME NEW p \in Ports, HubCheck(p)
            PROVE  asked' = asked /\ unread' = unread
        BY <4>4 DEF HubCheck, resetVars, ringVars
      <4>5. ASSUME NEW d \in Devices, BackendDies(d)
            PROVE  asked' = asked /\ unread' = unread
        BY <4>5 DEF BackendDies, resetVars, ringVars
      <4>6. DestroyHalt \/ UNCHANGED vars => asked' = asked /\ unread' = unread
        BY DEF DestroyHalt, vars, resetVars, ringVars
      <4> QED
        BY <2>6, <4>1, <4>2, <4>3, <4>4, <4>5, <4>6
    <3> QED BY <1>2, <3>1, <3>2, <3>3 DEF SpeedInv, SpeedReported, bindVars
  <2>7. CASE TalkToUsbback \/ DestroyPut
    BY <1>2, <2>7, PutSpeed
  <2>8. CASE StartAskSpeed \/ \E d \in Devices : StartDevice(d)
    BY <1>2, <2>8, StartSpeed
  <2>9. ASSUME NEW p \in Ports, Interrupt(p)
        PROVE  SpeedInv'
    BY <1>2, <2>9, InterruptSpeed
  <2> QED BY <1>2, <2>1, <2>2, <2>3, <2>4, <2>5, <2>6, <2>7, <2>8, <2>9
          DEF Next, XenwatchStep, Hub
<1>3. PortInv /\ SpeedInv /\ [Next]_vars => SpeedInv'
  BY <1>2
<1>4. SpeedInv => SpeedReported
  BY DEF SpeedInv
<1> QED BY <1>1, <1>3, <1>4, PortInvariant, PTL DEF Spec
=============================================================================
