------------------------------ MODULE VusbPort ------------------------------
(***************************************************************************)
(* The root hub of the virtual USB host controller (xc-vusb.c): how xenbus *)
(* devices come to its ports and leave them, how the hub driver of the USB *)
(* core hears of it, and the port resets it asks for.                      *)
(*                                                                         *)
(* The callbacks of xenbus (probe, otherend_changed, remove) run one after *)
(* the other in the xenwatch thread; hub requests, port work items and the *)
(* answers of the backend run beside it.  A section under vhcd->lock is    *)
(* one step.  URBs and the ring are the subject of VusbFront; here there   *)
(* are only the internal requests "speed" and "reset", and the interrupt   *)
(* that takes their responses off the ring.                                *)
(*                                                                         *)
(* The repository holds two versions of the driver that differ in when a   *)
(* port stops being connected; Unload chooses vusb_unload/xc-vusb.c.       *)
(***************************************************************************)
EXTENDS Integers, FiniteSets

CONSTANTS
    NPorts,    \* VUSB_PORTS
    Devices,   \* xenbus devices, one for each time one is plugged in
    NoDevice,  \* "no device"
    Ids,       \* virtual-device numbers
    NoId,      \* device_id of a port without device
    MayDie,    \* backends may disappear
    MayReset,  \* USB drivers reset their devices
    Unload     \* the version of vusb_unload instead of vusb_cancel

ASSUME PortAssumption ==
    /\ NPorts \in Nat \ {0}
    /\ NoDevice \notin Devices /\ NoId \notin Ids
    /\ {MayDie, MayReset, Unload} \subseteq BOOLEAN

Ports == 1 .. NPorts
NoPort == 0

VARIABLES
    portOf,       \* the driver data of a xenbus device: the port of its vdev
    deviceId,     \* vport->device_id
    connecting, present, closing,  \* the ports with the flag set
    status,       \* vport->port_status, a set of flags
    speed,        \* vdev->speed
    resetPending, resetDone,       \* the ports with the flag set
    portWork,     \* ports whose work item is scheduled
    resetting,    \* ports whose work item waits in vusb_process_reset
    asked,        \* internal requests at the backend
    unread,       \* internal requests whose response is on the ring
    irq,          \* ports whose event channel is pending
    rflush,       \* ports with vdev->rflush set
    xenbus,       \* life of a xenbus device
    alive,        \* devices whose backend answers
    xpc, xdev,    \* the xenwatch thread, and the device it is busy with
    woken,        \* ports that a poll has reported to the hub driver
    hub,          \* what the hub driver is doing about a port
    attached      \* the device that the hub driver has enumerated at a port

bindVars == <<portOf, deviceId, connecting, present, closing, speed>>
ringVars == <<asked, unread, irq>>
resetVars == <<resetPending, resetDone, portWork, resetting, ringVars, rflush>>
xenVars == <<xenbus, alive, xpc, xdev>>
hubVars == <<hub, attached>>
vars == <<bindVars, status, resetVars, xenVars, woken, hubVars>>

Changes == {"C_CONNECTION", "C_RESET"}
Flags == {"POWER", "CONNECTION", "HIGH_SPEED"} \cup Changes

BindType ==
    /\ portOf \in [Devices -> Ports \cup {NoPort}]
    /\ deviceId \in [Ports -> Ids \cup {NoId}]
    /\ connecting \in SUBSET Ports /\ present \in SUBSET Ports
    /\ closing \in SUBSET Ports
    /\ speed \in [Ports -> {"none", "unknown", "full", "high"}]

StatusType ==
    /\ status \in [Ports -> SUBSET Flags]
    /\ woken \in SUBSET Ports

ResetType ==
    /\ resetPending \in SUBSET Ports /\ resetDone \in SUBSET Ports
    /\ portWork \in SUBSET Ports /\ resetting \in SUBSET Ports
    /\ asked \in SUBSET (Ports \X {"speed", "reset"})
    /\ unread \in SUBSET (Ports \X {"speed", "reset"})
    /\ irq \in SUBSET Ports /\ rflush \in SUBSET Ports

XenType ==
    /\ xenbus \in [Devices ->
          {"new", "probed", "connected", "vanished", "removed", "refused"}]
    /\ alive \in SUBSET Devices
    /\ xpc \in {"idle", "talk", "ask", "speed", "halt", "flush", "drain", "put", "oops"}
    /\ xdev \in Devices \cup {NoDevice}

HubType ==
    /\ hub \in [Ports -> {"idle", "check", "reset"}]
    /\ attached \in [Ports -> Devices \cup {NoDevice}]

TypeOK == BindType /\ StatusType /\ ResetType /\ XenType /\ HubType

\* vusb_hcd_start
Init ==
    /\ portOf = [d \in Devices |-> NoPort]
    /\ deviceId = [p \in Ports |-> NoId]
    /\ connecting = {} /\ present = {} /\ closing = {}
    /\ status = [p \in Ports |-> {}]
    /\ speed = [p \in Ports |-> "none"]
    /\ resetPending = {} /\ resetDone = {} /\ portWork = {} /\ resetting = {}
    /\ asked = {} /\ unread = {} /\ irq = {} /\ rflush = {}
    /\ xenbus = [d \in Devices |-> "new"] /\ alive = Devices
    /\ xpc = "idle" /\ xdev = NoDevice
    /\ woken = {}
    /\ hub = [p \in Ports |-> "idle"]
    /\ attached = [p \in Ports |-> NoDevice]

-----------------------------------------------------------------------------
(* Port status *)

SpeedFlags(s) == IF s = "high" THEN {"HIGH_SPEED"} ELSE {}

\* Mutant: the speed of a device that has gone is left.
LinkStateKeepsSpeed(flags, there, s) ==
    LET linked == IF there THEN flags \cup {"CONNECTION"} \cup SpeedFlags(s)
                  ELSE flags \ {"CONNECTION"}
        new == IF "POWER" \in flags THEN linked ELSE linked \ {"CONNECTION"}
    IN IF "POWER" \in new /\ ("CONNECTION" \in new) # ("CONNECTION" \in flags)
       THEN new \cup {"C_CONNECTION"} ELSE new

\* vusb_set_link_state for a port with the given flags set, on which there is
\* a device (of speed s) or not.
LinkState(flags, there, s) ==
    LET linked == IF there THEN flags \cup {"CONNECTION"} \cup SpeedFlags(s)
                  ELSE flags \ {"CONNECTION", "HIGH_SPEED"}
        new == IF "POWER" \in flags THEN linked
               ELSE linked \ {"CONNECTION", "HIGH_SPEED"}
    IN IF "POWER" \in new /\ ("CONNECTION" \in new) # ("CONNECTION" \in flags)
       THEN new \cup {"C_CONNECTION"} ELSE new

\* Mutant: closing is not looked at.
DeviceThereLate(p, c) == p \in present

\* The test of vusb_set_link_state, when the ports of c are closing: only
\* vusb_unload looks at closing.
DeviceThere(p, c) == p \in present /\ (Unload => p \notin c)

SetStatus(p, flags) ==
    status' = [status EXCEPT ![p] =
                 LinkState(flags, DeviceThere(p, closing), speed[p])]

\* usb_hcd_poll_rh_status asks vusb_hcd_hub_status, which reports the ports
\* with a change flag.
Poll == woken' = woken \cup {p \in Ports : status'[p] \cap Changes # {}}

-----------------------------------------------------------------------------
(* Binding devices to ports *)

\* Mutant: a port that is being connected may be taken.
FreePortConnecting(p) == p \notin closing \cup present

FreePort(p) == p \notin connecting \cup closing \cup present

FirstFree(p) == FreePort(p) /\ \A q \in Ports : FreePort(q) => p <= q

\* The ports that the scan of vusb_get_vport passes before it stops at the
\* first free one.
Scanned == {p \in present \ (connecting \cup closing) :
                \A q \in Ports : FreePort(q) => p < q}

\* vusb_put_vport
PutVport(p) ==
    /\ deviceId' = [deviceId EXCEPT ![p] = NoId]
    /\ connecting' = connecting \ {p}
    /\ present' = present \ {p}
    /\ closing' = closing \ {p}
    /\ speed' = [speed EXCEPT ![p] = "none"] /\ rflush' = rflush \ {p}
    /\ resetPending' = resetPending \ {p}
    /\ resetDone' = resetDone \ {p}

\* vusb_usbfront_probe: vusb_get_vport finds a port, or refuses the device.
Probe(d, id) ==
    /\ xpc = "idle" /\ xenbus[d] = "new"
    /\ \/ /\ \A p \in Scanned : deviceId[p] # id
          /\ \E p \in Ports :
                /\ FirstFree(p)
                /\ portOf' = [portOf EXCEPT ![d] = p]
                /\ deviceId' = [deviceId EXCEPT ![p] = id]
                /\ connecting' = connecting \cup {p}
          /\ xpc' = "talk" /\ xdev' = d
          /\ UNCHANGED xenbus
       \/ /\ (\E p \in Scanned : deviceId[p] = id) \/ \A p \in Ports : ~FreePort(p)
          /\ xenbus' = [xenbus EXCEPT ![d] = "refused"]
          /\ UNCHANGED <<portOf, deviceId, connecting, xpc, xdev>>
    /\ UNCHANGED <<present, closing, speed, status, resetVars, alive, woken, hubVars>>

\* vusb_talk_to_usbback succeeds, or fails and the port is put back.
TalkToUsbback ==
    /\ xpc = "talk"
    /\ \/ /\ xenbus' = [xenbus EXCEPT ![xdev] = "probed"]
          /\ UNCHANGED <<bindVars, resetPending, resetDone, rflush>>
       \/ /\ xenbus' = [xenbus EXCEPT ![xdev] = "refused"]
          /\ PutVport(portOf[xdev])
          /\ portOf' = [portOf EXCEPT ![xdev] = NoPort]
    /\ xpc' = "idle" /\ xdev' = NoDevice
    /\ UNCHANGED <<status, portWork, resetting, ringVars, alive, woken, hubVars>>

\* vusb_start_device, called when the backend is connected
StartDevice(d) ==
    /\ xpc = "idle" /\ xenbus[d] = "probed" /\ d \in alive
    /\ xenbus' = [xenbus EXCEPT ![d] = "connected"]
    /\ present' = present \cup {portOf[d]}
    /\ connecting' = connecting \ {portOf[d]}
    /\ xpc' = "ask" /\ xdev' = d
    /\ UNCHANGED <<portOf, deviceId, closing, speed, status, resetVars, alive,
                   woken, hubVars>>

\* There is room on the ring for this request: it is the first.
StartAskSpeed ==
    /\ xpc = "ask"
    /\ speed' = [speed EXCEPT ![portOf[xdev]] = "unknown"]
    /\ asked' = asked \cup {<<portOf[xdev], "speed">>}
    /\ xpc' = "speed"
    /\ UNCHANGED <<portOf, deviceId, connecting, present, closing, status,
                   resetPending, resetDone, portWork, resetting, unread, irq, rflush,
                   xenbus, alive, xdev, woken, hubVars>>

\* Mutant: only vusb_set_link_state announces the connection.
StartConnectSilent ==
    /\ xpc = "speed"
    /\ LET p == portOf[xdev]
       IN /\ speed[p] # "unknown"
          /\ SetStatus(p, status[p] \cup {"CONNECTION"} \cup SpeedFlags(speed[p]))
    /\ Poll
    /\ xpc' = "idle" /\ xdev' = NoDevice
    /\ UNCHANGED <<bindVars, resetVars, xenbus, alive, hubVars>>

\* The speed is known: the port is connected, and the hub driver told.
StartConnect ==
    /\ xpc = "speed"
    /\ LET p == portOf[xdev]
       IN /\ speed[p] # "unknown"
          /\ SetStatus(p, status[p] \cup {"CONNECTION", "C_CONNECTION"}
                                    \cup SpeedFlags(speed[p]))
    /\ Poll
    /\ xpc' = "idle" /\ xdev' = NoDevice
    /\ UNCHANGED <<bindVars, resetVars, xenbus, alive, hubVars>>

-----------------------------------------------------------------------------
(* vusb_destroy_device *)

\* Nothing is done for a port that is closing, or whose device has not been
\* started; else closing is set, and vusb_unload tells the hub at once.
DestroyDevice(d) ==
    LET p == portOf[d]
    IN IF p \in closing \/ p \notin present
       THEN UNCHANGED <<closing, status, woken, xpc, xdev>>
       ELSE /\ closing' = closing \cup {p}
            /\ IF Unload
               THEN /\ status' = [status EXCEPT ![p] =
                          LinkState(status[p], DeviceThere(p, closing'), speed[p])]
                    /\ Poll
               ELSE UNCHANGED <<status, woken>>
            /\ xpc' = "halt" /\ xdev' = d

\* vusb_usbback_changed: "if the backend vanishes from xenstore"
BackendVanished(d) ==
    /\ xpc = "idle" /\ xenbus[d] \in {"probed", "connected"} /\ d \notin alive
    /\ xenbus' = [xenbus EXCEPT ![d] = "vanished"]
    /\ DestroyDevice(d)
    /\ UNCHANGED <<portOf, deviceId, connecting, present, speed, resetVars,
                   alive, hubVars>>

\* vusb_xenusb_remove, which takes the driver data for granted.
Remove(d) ==
    /\ xpc = "idle" /\ xenbus[d] \in {"probed", "connected", "vanished"}
    /\ xenbus' = [xenbus EXCEPT ![d] = "removed"]
    /\ IF portOf[d] = NoPort
       THEN xpc' = "oops" /\ UNCHANGED <<closing, status, woken, xdev>>
       ELSE DestroyDevice(d)
    /\ UNCHANGED <<portOf, deviceId, connecting, present, speed, resetVars,
                   alive, hubVars>>

\* vusb_usbif_halt: from now on the interrupt may flush the ring; the port work
\* is flushed, then the ring drained and all processing waited for.
DestroyHalt ==
    /\ LET p == portOf[xdev]
       IN \/ xpc = "halt" /\ rflush' = rflush \cup {p} /\ xpc' = "flush"
          \/ /\ xpc = "flush" /\ p \notin portWork \cup resetting
             /\ xpc' = "drain" /\ UNCHANGED rflush
          \/ /\ xpc = "drain" /\ p \notin resetting
             /\ \A r \in asked \cup unread : r[1] # p
             /\ xpc' = "put" /\ UNCHANGED rflush
    /\ UNCHANGED <<bindVars, status, resetPending, resetDone, portWork, resetting,
                   ringVars, xenbus, alive, xdev, woken, hubVars>>

\* vusb_usbif_free and the last section: in vusb_cancel the link state is
\* brought up to date here, before vusb_put_vport clears present.
DestroyPut ==
    /\ xpc = "put"
    /\ LET p == portOf[xdev]
       IN /\ IF Unload
             THEN UNCHANGED <<status, woken>>
             ELSE SetStatus(p, status[p]) /\ Poll
          /\ PutVport(p)
    /\ portOf' = [portOf EXCEPT ![xdev] = NoPort]
    /\ xpc' = "idle" /\ xdev' = NoDevice
    /\ UNCHANGED <<portWork, resetting, ringVars, xenbus, alive, hubVars>>

-----------------------------------------------------------------------------
(* Port reset *)

\* SetPortFeature(PORT_RESET): vusb_port_reset through its gate, then the link
\* state, then the poll that ends vusb_hcd_hub_control.
PortReset(p) ==
    /\ resetPending' = resetPending \cup {p}
    /\ portWork' = IF p \in resetPending THEN portWork ELSE portWork \cup {p}
    /\ SetStatus(p, status[p] \cup {"POWER"})
    /\ Poll
    /\ UNCHANGED <<resetDone, resetting, ringVars, rflush>>

\* Mutant: a device that is closing is not refused.
CanStartPresent(p) == p \in present

\* vusb_start_processing
CanStart(p) == p \in present /\ p \notin closing

\* vusb_port_work_handler, up to the wait of vusb_process_reset: the request is
\* put on the ring, unless the port takes no work any more, or URBs have left
\* no room on the ring; then the gate stays as it is.
PortWorkRun(p) ==
    /\ p \in portWork \ resetting
    /\ portWork' = portWork \ {p}
    /\ \/ /\ CanStart(p)
          /\ resetting' = resetting \cup {p} /\ asked' = asked \cup {<<p, "reset">>}
       \/ UNCHANGED <<resetting, asked>>
    /\ UNCHANGED <<bindVars, status, resetPending, resetDone, unread, irq, rflush,
                   xenVars, woken, hubVars>>

\* Mutant: the gate is left closed.
ResetCompleteLeavesGate(p) ==
    /\ p \in resetting /\ p \in resetDone
    /\ resetDone' = resetDone \ {p}
    /\ resetting' = resetting \ {p}
    /\ SetStatus(p, status[p] \cup {"C_RESET"})
    /\ Poll
    /\ UNCHANGED <<bindVars, resetPending, portWork, ringVars, rflush, xenVars, hubVars>>

\* vusb_process_reset after the wait
ResetComplete(p) ==
    /\ p \in resetting /\ p \in resetDone
    /\ resetDone' = resetDone \ {p}
    /\ resetPending' = resetPending \ {p}
    /\ resetting' = resetting \ {p}
    /\ SetStatus(p, status[p] \cup {"C_RESET"})
    /\ Poll
    /\ UNCHANGED <<bindVars, portWork, ringVars, rflush, xenVars, hubVars>>

UnreadOf(p) == {r \in unread : r[1] = p}

\* The backend of the device on the port answers.  It raises the event channel
\* for the first response that the port has not read (rsp_event).
Respond(p) ==
    \E d \in alive, r \in asked :
        /\ portOf[d] = p /\ r[1] = p
        /\ asked' = asked \ {r} /\ unread' = unread \cup {r}
        /\ irq' = IF UnreadOf(p) = {} THEN irq \cup {p} ELSE irq
        /\ UNCHANGED <<bindVars, status, resetPending, resetDone, portWork, resetting,
                       rflush, xenVars, woken, hubVars>>

\* vusb_interrupt takes the responses, if the port may process or the ring is
\* being flushed, which it ends; else they stay, and nobody is told again.
Interrupt(p) ==
    /\ p \in irq /\ irq' = irq \ {p}
    /\ \/ /\ CanStart(p) \/ p \in rflush
          /\ unread' = unread \ UnreadOf(p) /\ rflush' = rflush \ {p}
          /\ IF <<p, "speed">> \in unread
             THEN \E s \in {"full", "high"} : speed' = [speed EXCEPT ![p] = s]
             ELSE UNCHANGED speed
          /\ resetDone' = IF <<p, "reset">> \in unread THEN resetDone \cup {p}
                          ELSE resetDone
       \/ /\ ~CanStart(p) /\ p \notin rflush
          /\ UNCHANGED <<unread, rflush, speed, resetDone>>
    /\ UNCHANGED <<portOf, deviceId, connecting, present, closing, status, resetPending,
                   portWork, resetting, asked, xenVars, woken, hubVars>>

BackendDies(d) ==
    /\ MayDie /\ d \in alive /\ xenbus[d] \in {"probed", "connected"}
    /\ alive' = alive \ {d}
    /\ UNCHANGED <<bindVars, status, resetVars, xenbus, xpc, xdev, woken, hubVars>>

-----------------------------------------------------------------------------
(* The hub driver of the USB core *)

\* SetPortFeature(PORT_POWER), once, when the hub is configured
HubPower(p) ==
    /\ "POWER" \notin status[p]
    /\ SetStatus(p, status[p] \cup {"POWER"})
    /\ Poll
    /\ UNCHANGED <<bindVars, resetVars, xenVars, hubVars>>

\* A change was reported: it is cleared (ClearPortFeature), and looked into.
HubClear(p) ==
    /\ p \in woken
    /\ woken' = woken \ {p}
    /\ status' = [status EXCEPT ![p] = @ \ Changes]
    /\ hub' = [hub EXCEPT ![p] = IF "C_CONNECTION" \in status[p] THEN "check" ELSE @]
    /\ UNCHANGED <<bindVars, resetVars, xenVars, attached>>

\* GetPortStatus, after the connection has been debounced: whatever was
\* attached is disconnected, and what is there now will be reset.
HubCheck(p) ==
    /\ hub[p] = "check"
    /\ attached' = [attached EXCEPT ![p] = NoDevice]
    /\ hub' = [hub EXCEPT ![p] = IF "CONNECTION" \in status[p] THEN "reset" ELSE "idle"]
    /\ UNCHANGED <<bindVars, status, resetVars, xenVars, woken>>

\* The device behind the port is reset and enumerated, for which it has to
\* take URBs.
HubReset(p) ==
    /\ hub[p] = "reset"
    /\ PortReset(p)
    /\ \/ /\ CanStart(p)
          /\ \E d \in Devices : portOf[d] = p /\ attached' = [attached EXCEPT ![p] = d]
       \/ ~CanStart(p) /\ UNCHANGED attached
    /\ hub' = [hub EXCEPT ![p] = "idle"]
    /\ UNCHANGED <<bindVars, xenVars>>

\* usb_reset_device, on behalf of a USB driver
DriverReset(p) ==
    /\ MayReset /\ attached[p] # NoDevice
    /\ PortReset(p)
    /\ UNCHANGED <<bindVars, xenVars, hubVars>>

-----------------------------------------------------------------------------
XenbusEvent(d) == BackendVanished(d) \/ Remove(d)
                  \/ \E id \in Ids : Probe(d, id)

XenwatchStep == TalkToUsbback \/ StartAskSpeed \/ StartConnect
                \/ DestroyHalt \/ DestroyPut

Hub(p) == HubPower(p) \/ HubClear(p) \/ HubCheck(p) \/ HubReset(p)

Next ==
    \/ \E d \in Devices : XenbusEvent(d) \/ StartDevice(d) \/ BackendDies(d)
    \/ XenwatchStep
    \/ \E p \in Ports : PortWorkRun(p) \/ ResetComplete(p) \/ Respond(p)
                        \/ Interrupt(p) \/ Hub(p) \/ DriverReset(p)

Spec == Init /\ [][Next]_vars

(* Fairness: the threads of the kernel run, and a backend that is there       *)
(* answers internal requests.  Devices come and go as they like.            *)
KernelFairness ==
    /\ WF_vars(XenwatchStep)
    /\ \A d \in Devices : WF_vars(BackendVanished(d))
    /\ \A p \in Ports : /\ WF_vars(PortWorkRun(p)) /\ WF_vars(ResetComplete(p))
                        /\ WF_vars(Respond(p)) /\ WF_vars(Interrupt(p))
                        /\ WF_vars(HubPower(p)) /\ WF_vars(HubClear(p))
                        /\ WF_vars(HubCheck(p)) /\ WF_vars(HubReset(p))

FairSpec == Spec /\ KernelFairness

-----------------------------------------------------------------------------
(* Safety *)

\* A port serves one device: two devices never share one, and the vdev a
\* device points to is in a port that vusb_get_vport will not hand out.
PortsApart ==
    \A d \in Devices : portOf[d] # NoPort =>
        /\ ~FreePort(portOf[d])
        /\ \A e \in Devices : portOf[e] = portOf[d] => e = d

\* No reset of the port waits, no request or response of it is on the ring,
\* and its interrupt will not run.
Quiet(p) ==
    /\ p \notin resetting \cup irq
    /\ \A r \in asked \cup unread : r[1] # p

\* vusb_destroy_device hands back a port only when the ring of its device is
\* drained and nobody waits for a response or will look for one: what a device
\* was asked is never answered into the next.  (The work item is not spoken of:
\* a reset asked for after it was flushed stays scheduled, see ResetGated.)
FreePortQuiet == \A p \in Ports : FreePort(p) => Quiet(p)

(* The inductive invariant *)

\* A port is reserved, then occupied, and closing only while it is occupied.
PortStages == \A p \in Ports :
    /\ p \in closing => p \in present
    /\ p \in connecting => p \notin present

\* What the life of a device says of its port, once its probe is over.
DevicesBound ==
    \A d \in Devices :
        /\ xenbus[d] = "probed" => portOf[d] \in connecting
        /\ xenbus[d] = "connected" => portOf[d] \in Ports

\* Where xenwatch is with its device, and what that says of the port.
XenwatchAt ==
    /\ xpc \notin {"idle", "oops"} => xdev \in Devices
    /\ xpc = "talk" => portOf[xdev] \in connecting /\ xenbus[xdev] = "new"
    /\ xpc \in {"ask", "speed"} => portOf[xdev] \in present \ closing
    /\ xpc \in {"halt", "flush", "drain", "put"} =>
           /\ portOf[xdev] \in closing
           /\ xenbus[xdev] \in {"vanished", "removed"}

\* Only ports with a device have something going on, and no longer than until
\* vusb_usbif_halt is over.
QuietPorts ==
    /\ \A p \in Ports : p \notin present => Quiet(p)
    /\ xpc = "put" => Quiet(portOf[xdev])
    /\ \A p \in irq : UnreadOf(p) # {}

\* What makes PortsApart and FreePortQuiet inductive.
PortInv ==
    TypeOK /\ PortsApart /\ PortStages /\ DevicesBound /\ XenwatchAt /\ QuietPorts

\* Once a device has been started, the hub driver reads its speed in the port
\* status, not that of a device that was there before.
SpeedReported ==
    \A p \in Ports :
        /\ "CONNECTION" \in status[p] /\ p \in present
        /\ ~(xpc \in {"ask", "speed"} /\ portOf[xdev] = p)
        => ("HIGH_SPEED" \in status[p] <=> speed[p] = "high")

\* What makes SpeedReported inductive, in vusb_unload: a port whose device is
\* gone or going shows nothing of it, and until a device has told its speed
\* its port shows none.
SpeedInv ==
    /\ \A p \in Ports :
        /\ p \notin present \ closing => {"CONNECTION", "HIGH_SPEED"} \cap status[p] = {}
        /\ p \notin present => speed[p] = "none"
        /\ "HIGH_SPEED" \in status[p] => speed[p] = "high"
        /\ <<p, "speed">> \in asked \cup unread =>
               speed[p] = "unknown" /\ xpc = "speed" /\ portOf[xdev] = p
        /\ <<p, "speed">> \notin asked \cap unread
    /\ xpc = "ask" => speed[portOf[xdev]] = "none"
    /\ SpeedReported

(* Liveness *)

\* The hub driver enumerates every device that starts and stays.
HubLearnsArrival ==
    \A d \in Devices :
        xenbus[d] = "connected"
        ~> d \notin alive \/ xenbus[d] # "connected" \/ \E p \in Ports : attached[p] = d

\* The hub driver lets go of every device that is removed: "Update root hub
\* status, device gone, port empty".
HubSeesRemoval ==
    \A d \in Devices, p \in Ports :
        attached[p] = d /\ xenbus[d] \in {"vanished", "removed"} ~> attached[p] # d

\* A reset that waits for a backend which is there comes to an end and opens
\* the gate for the next one, unless the device is being removed: then the
\* interrupt may be lost between closing and rflush (DestroyCompletes).
ResetCompletes ==
    \A p \in Ports :
        p \in resetting
        ~> \/ p \notin resetting /\ p \notin resetPending
           \/ p \in closing
           \/ \E d \in Devices \ alive : portOf[d] = p

(* What the comments in the code claim and neither version ensures; no      *)
(* passing run checks these.                                                *)

\* "Test reset gate, only want one reset in flight at a time": while the gate
\* is closed on a port there is a reset that will open it.
GateHasReset ==
    \A p \in resetPending : p \in portWork \cup resetting \cup closing

\* The same comment: no reset runs but behind the closed gate.  The work of one
\* that was asked for after vusb_usbif_halt flushed it is still scheduled when
\* the port is free, and runs for the next device (VusbPortStale.cfg).
ResetGated == resetting \subseteq resetPending

\* "Restore the port values when no device is attached": a port is reserved
\* for a device only while there is the device.
NoOrphanPort ==
    xpc = "idle" => \A p \in connecting \cup present :
        \E d \in Devices : portOf[d] = p /\ xenbus[d] \in {"probed", "connected"}

\* A device with an id that a started device already has is refused.
IdsUnique ==
    \A p, q \in present \ closing : deviceId[p] = deviceId[q] => p = q

\* The xenwatch thread survives every sequence of xenbus callbacks; the driver
\* knows that the driver data may be gone ("if (vdev)"), but not everywhere.
NoOops == xpc # "oops"

\* Destroying a device comes to an end even when its backend has vanished:
\* "Gone is gone, don't care about our state since we do not reconnect
\* devices. Just destroy the device."
DestroyCompletes == \A p \in Ports : p \in closing ~> p \notin closing
=============================================================================
