----------------------------- MODULE VusbFront -----------------------------
(***************************************************************************)
(* One device of the virtual USB host controller (xc-vusb.c): the life of  *)
(* its URBs from vusb_hcd_urb_enqueue to vusb_urbp_release, with the       *)
(* contexts that move them, which run concurrently: callers of enqueue and *)
(* dequeue, the device's work item, the event channel interrupt, the       *)
(* port's work item that resets the device, and the xenwatch thread that   *)
(* starts and destroys it.                                                 *)
(*                                                                         *)
(* A section under vdev->lock is a chain of steps that begins when lock is *)
(* taken and ends when it is released; a section under vhcd->lock is one   *)
(* step.  The ring is the pair of queues of VusbChannel, which VusbRing    *)
(* implements; the backend is what usbback.c does with them.  An URB       *)
(* stands for one submission of it.                                        *)
(***************************************************************************)
EXTENDS Integers, Sequences, FiniteSets, SequencesExt

CONSTANTS
    Urbs,           \* submissions of the USB core
    NoUrb,          \* "no URB"
    Shadows,        \* the shadow entries, one per slot of the ring
    NoShadow,       \* VUSB_INVALID_REQ_ID
    Immediate,      \* URBs that may be finished unsent: SET_ADDRESS, or an error
    Cancellable,    \* URBs that the core may unlink
    MayReset,       \* the hub driver resets the port
    MayDestroy,     \* the device may be removed
    GrantShortage   \* the grant table may run out

ASSUME FrontAssumption ==
    /\ NoUrb \notin Urbs /\ NoShadow \notin Shadows
    /\ IsFiniteSet(Urbs) /\ IsFiniteSet(Shadows) /\ Shadows # {}
    /\ Immediate \subseteq Urbs /\ Cancellable \subseteq Urbs
    /\ {MayReset, MayDestroy, GrantShortage} \subseteq BOOLEAN

VARIABLES
    \* the port, under vhcd->lock
    present, closing, processing, resetPending, resetDone,
    \* the lists of the device and its URBs, under vdev->lock
    pendingList, finishList, releaseList,
    state,          \* urbp->state, or "freed"
    reqId,          \* urbp->id
    \* the shadows, under vdev->lock
    freeList,       \* shadow_free_list[0 .. shadow_free - 1]
    shadow,         \* what each shadow is used for, and its urbp
    \* the ring, and the backend behind it
    toBack, atDevice, completing, toFront, evt, sring, irqBound,
    \* contexts
    lock,           \* the holder of vdev->lock
    rflush, speed, grantWait,
    work, portWork, \* work items scheduled
    pc, tmp, sendQueue,
    ipc, iproc,     \* the interrupt handler, and its variable processing
    ppc,            \* the port's work item
    xpc,            \* xenwatch
    \* the USB core
    linked,         \* URBs linked to their endpoint: the driver owns them
    unlinked,       \* those of them the core wants back
    given           \* URBs given back

portVars == <<present, closing, processing, resetPending, resetDone>>
listVars == <<pendingList, finishList, releaseList, state, reqId>>
shadowVars == <<freeList, shadow>>
ringVars == <<toBack, atDevice, completing, toFront, evt>>
teardownVars == <<sring, irqBound, xpc>>
flagVars == <<rflush, speed, grantWait>>
workVars == <<work, portWork>>
taskVars == <<pc, tmp, sendQueue>>
irqVars == <<ipc, iproc>>
coreVars == <<linked, unlinked, given>>
vars == <<portVars, listVars, shadowVars, ringVars, teardownVars, lock, flagVars,
          workVars, taskVars, irqVars, ppc, coreVars>>

Enqueuer(u) == <<"enqueue", u>>
Dequeuer(u) == <<"dequeue", u>>
Worker == <<"work", NoUrb>>
Tasks == {Enqueuer(u) : u \in Urbs} \cup {Dequeuer(u) : u \in Urbs} \cup {Worker}
Irq == <<"irq", NoUrb>>
NoTask == <<"none", NoUrb>>

Commands == {"speed", "reset", "cancel"}
Request == [id : Shadows, type : Commands \cup {"urb"},
            cancelId : Shadows \cup {NoShadow}, urb : Urbs \cup {NoUrb}]
Shadow == [use : Commands \cup {"free", "urb"}, urb : Urbs \cup {NoUrb}]
FreeShadow == [use |-> "free", urb |-> NoUrb]

FlagTypes ==
    /\ present \in BOOLEAN /\ closing \in BOOLEAN
    /\ resetPending \in BOOLEAN /\ resetDone \in BOOLEAN
    /\ evt \in BOOLEAN /\ sring \in {"mapped", "null"} /\ irqBound \in BOOLEAN
    /\ rflush \in BOOLEAN /\ speed \in BOOLEAN /\ grantWait \in BOOLEAN
    /\ work \in BOOLEAN /\ portWork \in BOOLEAN
    /\ ipc \in {"idle", "gate", "consume", "fault"} /\ iproc \in BOOLEAN
    /\ ppc \in {"idle", "put", "wait"}
    /\ xpc \in {"probed", "started", "speed", "connected", "rflush", "flushPort",
                "flushWork", "drain", "stop", "finishMore", "finishLast", "free",
                "unbind", "release", "gone"}

ListTypes ==
    /\ pendingList \in Seq(Urbs) /\ finishList \in Seq(Urbs) /\ releaseList \in Seq(Urbs)
    /\ state \in [Urbs -> {"NEW", "SENT", "DONE", "CANCEL", "freed"}]
    /\ reqId \in [Urbs -> Shadows \cup {NoShadow}]

RingTypes ==
    /\ freeList \in Seq(Shadows) /\ shadow \in [Shadows -> Shadow]
    /\ toBack \in Seq(Request) /\ toFront \in Seq(Shadows)
    /\ atDevice \cup completing \in SUBSET [id : Shadows, urb : Urbs]

TaskTypes ==
    /\ lock \in Tasks \cup {Irq, NoTask} /\ processing \in Nat
    /\ pc \in [Tasks -> {"idle", "find", "process", "send", "release"}]
    /\ tmp \in [Tasks -> Seq(Urbs)] /\ sendQueue \in Seq(Urbs)
    /\ linked \in SUBSET Urbs /\ unlinked \in SUBSET Urbs /\ given \in SUBSET Urbs

TypeOK == FlagTypes /\ ListTypes /\ RingTypes /\ TaskTypes

\* The device has been created: vusb_setup_usbfront has put every shadow on
\* the free list and bound the interrupt.
Init ==
    /\ present = FALSE /\ closing = FALSE /\ processing = 0
    /\ resetPending = FALSE /\ resetDone = FALSE
    /\ pendingList = << >> /\ finishList = << >> /\ releaseList = << >>
    /\ state = [u \in Urbs |-> "NEW"]
    /\ reqId = [u \in Urbs |-> NoShadow]
    /\ freeList = SetToSeq(Shadows)
    /\ shadow = [i \in Shadows |-> FreeShadow]
    /\ toBack = << >> /\ atDevice = {} /\ completing = {} /\ toFront = << >>
    /\ evt = FALSE /\ sring = "mapped" /\ irqBound = TRUE
    /\ lock = NoTask
    /\ rflush = FALSE /\ speed = FALSE /\ grantWait = FALSE
    /\ work = FALSE /\ portWork = FALSE
    /\ pc = [t \in Tasks |-> "idle"]
    /\ tmp = [t \in Tasks |-> << >>] /\ sendQueue = << >>
    /\ ipc = "idle" /\ iproc = FALSE /\ ppc = "idle" /\ xpc = "probed"
    /\ linked = {} /\ unlinked = {} /\ given = {}

-----------------------------------------------------------------------------
\* vusb_urbp_release for every URB of a set: it is unlinked from its endpoint
\* and given back, and the urbp that stood for it is freed.
ReleaseUrbs(S) ==
    /\ given' = given \cup S
    /\ linked' = linked \ S
    /\ unlinked' = unlinked \ S
    /\ state' = [u \in Urbs |-> IF u \in S THEN "freed" ELSE state[u]]
    /\ reqId' = [u \in Urbs |-> IF u \in S THEN NoShadow ELSE reqId[u]]

(* Shadows *)

\* shadow_free_list is used as a stack.
TopShadow == Last(freeList)

\* vusb_get_shadow, for a URB or an internal request
GetShadow(use, u) ==
    /\ freeList' = Front(freeList)
    /\ shadow' = [shadow EXCEPT ![TopShadow] = [use |-> use, urb |-> u]]

\* vusb_get_shadow and vusb_put_ring
PutInternalRequest(cmd, cancelId, u) ==
    /\ GetShadow(cmd, NoUrb)
    /\ toBack' = Append(toBack,
         [id |-> TopShadow, type |-> cmd, cancelId |-> cancelId, urb |-> u])

\* vusb_put_internal_request: "Internal request can use the last entry"
InternalHasRoom == freeList # << >>

\* vusb_put_urb: "Leave room for resets on ring"
UrbHasRoom == Len(freeList) > 1

-----------------------------------------------------------------------------
(* The port: who may process *)

\* Mutant: a device that is closing is not refused.
CanStartPresent == present

\* vusb_start_processing
CanStart == present /\ ~closing

\* The hub driver has seen the device connected and submits URBs to it.
Enumerated == xpc \notin {"probed", "started", "speed", "gone"}

\* Mutant: the shadow is not given back.
FinishAllLeaks ==
    /\ state' = [u \in Urbs |-> IF u \in ToSet(finishList) THEN "DONE" ELSE state[u]]
    /\ releaseList' = releaseList \o finishList
    /\ finishList' = << >>
    /\ UNCHANGED shadowVars

\* vusb_urb_finish for everything on the finish list, then
\* vusb_urbp_queue_release, which schedules the work.
FinishAll ==
    /\ freeList' = freeList \o [k \in DOMAIN finishList |-> reqId[finishList[k]]]
    /\ shadow' = [i \in Shadows |->
                    IF \E u \in ToSet(finishList) : reqId[u] = i
                    THEN FreeShadow ELSE shadow[i]]
    /\ state' = [u \in Urbs |-> IF u \in ToSet(finishList) THEN "DONE" ELSE state[u]]
    /\ releaseList' = releaseList \o finishList
    /\ finishList' = << >>

\* vusb_hcd_urb_enqueue, up to the release of vhcd->lock: the URB is linked
\* to its endpoint and the device kept from going away.
EnqueueLink(u) ==
    /\ Enumerated
    /\ u \notin linked \cup given
    /\ CanStart
    /\ linked' = linked \cup {u}
    /\ processing' = processing + 1
    /\ pc' = [pc EXCEPT ![Enqueuer(u)] = "process"]
    /\ UNCHANGED <<present, closing, resetPending, resetDone, listVars,
                   shadowVars, ringVars, teardownVars, lock, flagVars, workVars,
                   tmp, sendQueue, irqVars, ppc, unlinked, given>>

\* vusb_hcd_urb_dequeue, up to the release of vhcd->lock.  A second unlink of
\* the same URB is refused by usb_hcd_check_unlink_urb; a device that is going
\* away is left to give the URB back by itself.
DequeueStart(u) ==
    /\ u \in (linked \ unlinked) \cap Cancellable
    /\ unlinked' = unlinked \cup {u}
    /\ IF CanStart
       THEN /\ processing' = processing + 1
            /\ pc' = [pc EXCEPT ![Dequeuer(u)] = "find"]
       ELSE UNCHANGED <<processing, pc>>
    /\ UNCHANGED <<present, closing, resetPending, resetDone, listVars,
                   shadowVars, ringVars, teardownVars, lock, flagVars, workVars,
                   tmp, sendQueue, irqVars, ppc, linked, given>>

\* Mutants: every pending URB is released at once; the id decides, which an URB
\* has kept from an attempt that failed with -EBUSY.
OnRingNever(u) == FALSE
OnRingById(u) == reqId[u] # NoShadow

\* What vusb_hcd_urb_dequeue tells the two kinds of pending URB apart by.
OnRing(u) == state[u] = "SENT"

\* vusb_hcd_urb_dequeue under vdev->lock: a pending URB not sent is released,
\* one that was sent is marked and the backend asked to cancel it, if there is
\* a shadow for that ("Go on and do the best we can..."); any other is left
\* where it is.
DequeueFind(u) ==
    /\ pc[Dequeuer(u)] = "find"
    /\ lock = NoTask
    /\ pc' = [pc EXCEPT ![Dequeuer(u)] = "process"]
    /\ \/ /\ u \in ToSet(pendingList) /\ ~OnRing(u)
          /\ pendingList' = RemoveFirst(pendingList, u)
          /\ releaseList' = Append(releaseList, u)
          /\ work' = TRUE
          /\ UNCHANGED <<finishList, state, reqId, shadowVars, ringVars>>
       \/ /\ u \in ToSet(pendingList) /\ OnRing(u)
          /\ state' = [state EXCEPT ![u] = "CANCEL"]
          /\ IF InternalHasRoom
             THEN /\ PutInternalRequest("cancel", reqId[u], u)
                  /\ UNCHANGED <<atDevice, completing, toFront, evt>>
             ELSE UNCHANGED <<shadowVars, ringVars>>
          /\ UNCHANGED <<pendingList, releaseList, finishList, reqId, work>>
       \/ /\ u \notin ToSet(pendingList)
          /\ UNCHANGED <<listVars, shadowVars, ringVars, work>>
    /\ UNCHANGED <<portVars, teardownVars, lock, flagVars, portWork, tmp,
                   sendQueue, irqVars, ppc, coreVars>>

\* vusb_device_work_handler
WorkRun ==
    /\ work /\ pc[Worker] = "idle"
    /\ work' = FALSE
    /\ IF CanStart
       THEN /\ processing' = processing + 1
            /\ pc' = [pc EXCEPT ![Worker] = "process"]
       ELSE UNCHANGED <<processing, pc>>
    /\ UNCHANGED <<present, closing, resetPending, resetDone, listVars,
                   shadowVars, ringVars, teardownVars, lock, flagVars, portWork,
                   tmp, sendQueue, irqVars, ppc, coreVars>>

\* vusb_grant_available_callback
GrantAvailable ==
    /\ grantWait
    /\ grantWait' = FALSE
    /\ work' = TRUE
    /\ UNCHANGED <<portVars, listVars, shadowVars, ringVars, teardownVars, lock,
                   rflush, speed, portWork, taskVars, irqVars, ppc, coreVars>>

-----------------------------------------------------------------------------
(* vusb_process, called by every task *)

\* The lock is taken, responses are finished first "since this could make room
\* for requests", and the new URB is queued at the back.
ProcessBegin(t) ==
    /\ pc[t] = "process"
    /\ lock = NoTask
    /\ lock' = t
    /\ FinishAll
    /\ work' = (work \/ finishList # << >>)
    /\ pendingList' = IF t[1] = "enqueue" THEN Append(pendingList, t[2]) ELSE pendingList
    /\ sendQueue' = pendingList'
    /\ pc' = [pc EXCEPT ![t] = "send"]
    /\ UNCHANGED <<portVars, reqId, ringVars, teardownVars, flagVars, portWork,
                   tmp, irqVars, ppc, coreVars>>

NextToSend(t, u) ==
    /\ pc[t] = "send"
    /\ sendQueue # << >>
    /\ u = Head(sendQueue)
    /\ sendQueue' = Tail(sendQueue)

\* vusb_send_urb has nothing to do for an URB that is on the ring.
SendSkip(t, u) ==
    /\ NextToSend(t, u)
    /\ state[u] # "NEW"
    /\ UNCHANGED <<portVars, listVars, shadowVars, ringVars, teardownVars, lock,
                   flagVars, workVars, pc, tmp, irqVars, ppc, coreVars>>

\* vusb_put_urb succeeds.
SendUrb(t, u) ==
    /\ NextToSend(t, u)
    /\ state[u] = "NEW"
    /\ UrbHasRoom
    /\ GetShadow("urb", u)
    /\ reqId' = [reqId EXCEPT ![u] = TopShadow]
    /\ state' = [state EXCEPT ![u] = "SENT"]
    /\ toBack' = Append(toBack,
         [id |-> TopShadow, type |-> "urb", cancelId |-> NoShadow, urb |-> u])
    /\ UNCHANGED <<portVars, pendingList, finishList, releaseList, atDevice,
                   completing, toFront, evt, teardownVars, lock, flagVars,
                   workVars, pc, tmp, irqVars, ppc, coreVars>>

\* -EAGAIN: no shadow to spare, the work is scheduled to try again.
SendAgain(t, u) ==
    /\ NextToSend(t, u)
    /\ state[u] = "NEW"
    /\ ~UrbHasRoom
    /\ work' = TRUE
    /\ UNCHANGED <<portVars, listVars, shadowVars, ringVars, teardownVars, lock,
                   flagVars, portWork, pc, tmp, irqVars, ppc, coreVars>>

\* Mutant: the callback is not asked for.
SendBusyForgets(t, u) ==
    /\ GrantShortage
    /\ NextToSend(t, u)
    /\ state[u] = "NEW"
    /\ UrbHasRoom
    /\ reqId' = [reqId EXCEPT ![u] = TopShadow]
    /\ UNCHANGED <<portVars, pendingList, finishList, releaseList, state,
                   shadowVars, ringVars, teardownVars, lock, flagVars, workVars,
                   pc, tmp, irqVars, ppc, coreVars>>

\* -EBUSY: no grant references, the callback restarts the work.
SendBusy(t, u) ==
    /\ GrantShortage
    /\ NextToSend(t, u)
    /\ state[u] = "NEW"
    /\ UrbHasRoom
    /\ reqId' = [reqId EXCEPT ![u] = TopShadow]
    /\ grantWait' = TRUE
    /\ UNCHANGED <<portVars, pendingList, finishList, releaseList, state,
                   shadowVars, ringVars, teardownVars, lock, rflush, speed,
                   workVars, pc, tmp, irqVars, ppc, coreVars>>

\* SET_ADDRESS is done here (VUSB_URBP_DONE), an URB that cannot be sent is
\* dropped (VUSB_URBP_DROP): either goes to the release list at once.
SendImmediate(t, u) ==
    /\ NextToSend(t, u)
    /\ state[u] = "NEW" /\ u \in Immediate
    /\ state' = [state EXCEPT ![u] = "DONE"]
    /\ pendingList' = RemoveFirst(pendingList, u)
    /\ releaseList' = Append(releaseList, u)
    /\ work' = TRUE
    /\ UNCHANGED <<portVars, finishList, reqId, shadowVars, ringVars,
                   teardownVars, lock, flagVars, portWork, pc, tmp, irqVars,
                   ppc, coreVars>>

\* The release list is spliced off and the lock released; with nothing to
\* release, what is left is vusb_stop_processing.
ProcessEnd(t) ==
    /\ pc[t] = "send"
    /\ sendQueue = << >>
    /\ lock' = NoTask
    /\ IF releaseList # << >>
       THEN /\ pc' = [pc EXCEPT ![t] = "release"]
            /\ tmp' = [tmp EXCEPT ![t] = releaseList]
            /\ releaseList' = << >>
            /\ processing' = processing
       ELSE /\ pc' = [pc EXCEPT ![t] = "idle"]
            /\ processing' = processing - 1
            /\ UNCHANGED <<tmp, releaseList>>
    /\ UNCHANGED <<present, closing, resetPending, resetDone, pendingList,
                   finishList, state, reqId, shadowVars, ringVars, teardownVars,
                   flagVars, workVars, sendQueue, irqVars, ppc, coreVars>>

\* vusb_urbp_release for each URB spliced off, then vusb_stop_processing.
ProcessRelease(t) ==
    /\ pc[t] = "release"
    /\ ReleaseUrbs(ToSet(tmp[t]))
    /\ tmp' = [tmp EXCEPT ![t] = << >>]
    /\ processing' = processing - 1
    /\ pc' = [pc EXCEPT ![t] = "idle"]
    /\ UNCHANGED <<present, closing, resetPending, resetDone, pendingList,
                   finishList, releaseList, shadowVars, ringVars, teardownVars,
                   lock, flagVars, workVars, sendQueue, irqVars, ppc>>

-----------------------------------------------------------------------------
(* vusb_interrupt *)

IrqEnter ==
    /\ evt /\ irqBound /\ ipc = "idle"
    /\ evt' = FALSE
    /\ iproc' = CanStart
    /\ processing' = IF CanStart THEN processing + 1 ELSE processing
    /\ ipc' = "gate"
    /\ UNCHANGED <<present, closing, resetPending, resetDone, listVars,
                   shadowVars, toBack, atDevice, completing, toFront,
                   teardownVars, lock, flagVars, workVars, taskVars, ppc,
                   coreVars>>

\* Not processing and no final flush wanted: the interrupt is dropped.
IrqDropped == ~iproc /\ ~rflush

\* The lock is taken; past the gate, the handler reads sring->rsp_prod.
IrqGate ==
    /\ ipc = "gate"
    /\ lock = NoTask
    /\ IF IrqDropped
       THEN ipc' = "idle" /\ lock' = lock
       ELSE /\ lock' = Irq
            /\ ipc' = IF sring = "null" THEN "fault" ELSE "consume"
    /\ UNCHANGED <<portVars, listVars, shadowVars, ringVars, teardownVars,
                   flagVars, workVars, taskVars, iproc, ppc, coreVars>>

\* One response: an internal request is over, and its shadow put back; the URB
\* of another moves from the pending to the finish list with its shadow.
IrqConsume ==
    /\ ipc = "consume"
    /\ toFront # << >> /\ sring = "mapped"
    /\ LET i == Head(toFront)
           sh == shadow[i]
       IN IF sh.use \in Commands
          THEN /\ speed' = (speed \/ sh.use = "speed")
               /\ resetDone' = (resetDone \/ sh.use = "reset")
               /\ shadow' = [shadow EXCEPT ![i] = FreeShadow]
               /\ freeList' = Append(freeList, i)
               /\ UNCHANGED listVars
          ELSE /\ pendingList' = RemoveFirst(pendingList, sh.urb)
               /\ finishList' = Append(finishList, sh.urb)
               /\ UNCHANGED <<releaseList, state, reqId, shadowVars, speed,
                              resetDone>>
    /\ toFront' = Tail(toFront)
    /\ UNCHANGED <<present, closing, processing, resetPending, toBack, atDevice,
                   completing, evt, teardownVars, lock, rflush, grantWait,
                   workVars, taskVars, irqVars, ppc, coreVars>>

\* The final check, which touches the shared page once more, found no further
\* response: end a final flush, schedule the work, release the lock.  Without
\* the page, this check or the next response is where the handler faults.
IrqExit ==
    /\ ipc = "consume"
    /\ toFront = << >> \/ sring = "null"
    /\ IF sring = "null"
       THEN ipc' = "fault" /\ UNCHANGED <<rflush, work, lock, processing, iproc>>
       ELSE /\ ipc' = "idle"
            /\ rflush' = FALSE
            /\ work' = (work \/ iproc)
            /\ lock' = NoTask
            /\ processing' = IF iproc THEN processing - 1 ELSE processing
            /\ iproc' = FALSE
    /\ UNCHANGED <<present, closing, resetPending, resetDone, listVars,
                   shadowVars, ringVars, teardownVars, speed, grantWait,
                   portWork, taskVars, ppc, coreVars>>

-----------------------------------------------------------------------------
(* Port reset *)

\* SetPortFeature(PORT_RESET): vusb_port_reset, through the reset gate.
PortReset ==
    /\ MayReset
    /\ Enumerated
    /\ ~resetPending
    /\ resetPending' = TRUE
    /\ portWork' = TRUE
    /\ UNCHANGED <<present, closing, processing, resetDone, listVars,
                   shadowVars, ringVars, teardownVars, lock, flagVars, work,
                   taskVars, irqVars, ppc, coreVars>>

\* vusb_port_work_handler
PortWorkRun ==
    /\ portWork /\ ppc = "idle"
    /\ portWork' = FALSE
    /\ IF CanStart
       THEN processing' = processing + 1 /\ ppc' = "put"
       ELSE UNCHANGED <<processing, ppc>>
    /\ UNCHANGED <<present, closing, resetPending, resetDone, listVars,
                   shadowVars, ringVars, teardownVars, lock, flagVars, work,
                   taskVars, irqVars, coreVars>>

\* vusb_process_reset sends the request; without a shadow it gives up, and
\* the gate stays closed.
PortPutReset ==
    /\ ppc = "put"
    /\ lock = NoTask
    /\ IF InternalHasRoom
       THEN /\ PutInternalRequest("reset", NoShadow, NoUrb)
            /\ ppc' = "wait" /\ processing' = processing
            /\ UNCHANGED <<atDevice, completing, toFront, evt>>
       ELSE /\ ppc' = "idle" /\ processing' = processing - 1
            /\ UNCHANGED <<shadowVars, ringVars>>
    /\ UNCHANGED <<present, closing, resetPending, resetDone, listVars,
                   teardownVars, lock, flagVars, workVars, taskVars, irqVars,
                   coreVars>>

\* vusb_process_reset goes on when the response has come, and opens the gate.
PortResetComplete ==
    /\ ppc = "wait"
    /\ resetDone
    /\ resetDone' = FALSE
    /\ resetPending' = FALSE
    /\ ppc' = "idle"
    /\ processing' = processing - 1
    /\ UNCHANGED <<present, closing, listVars, shadowVars, ringVars,
                   teardownVars, lock, flagVars, workVars, taskVars, irqVars,
                   coreVars>>

-----------------------------------------------------------------------------
(* The xenwatch thread: vusb_start_device and vusb_destroy_device *)

Start ==
    \/ /\ xpc = "probed" /\ xpc' = "started"
       /\ present' = TRUE
       /\ UNCHANGED <<shadowVars, ringVars>>
    \/ /\ xpc = "started" /\ xpc' = "speed"
       /\ lock = NoTask
       /\ PutInternalRequest("speed", NoShadow, NoUrb)
       /\ UNCHANGED <<present, atDevice, completing, toFront, evt>>
    \/ /\ xpc = "speed" /\ xpc' = "connected"
       /\ speed
       /\ UNCHANGED <<present, shadowVars, ringVars>>

StartDevice ==
    /\ Start
    /\ UNCHANGED <<closing, processing, resetPending, resetDone, listVars,
                   sring, irqBound, lock, flagVars, workVars, taskVars, irqVars,
                   ppc, coreVars>>

\* vusb_destroy_device sets closing, once.
DestroyBegin ==
    /\ MayDestroy
    /\ xpc = "connected"
    /\ closing' = TRUE
    /\ xpc' = "rflush"
    /\ UNCHANGED <<present, processing, resetPending, resetDone, listVars,
                   shadowVars, ringVars, sring, irqBound, lock, flagVars,
                   workVars, taskVars, irqVars, ppc, coreVars>>

\* vusb_usbif_halt: ask for the final ring flush and cancel the grant callback.
HaltRflush ==
    /\ xpc = "rflush"
    /\ lock = NoTask
    /\ rflush' = TRUE
    /\ grantWait' = FALSE
    /\ xpc' = "flushPort"
    /\ UNCHANGED <<portVars, listVars, shadowVars, ringVars, sring, irqBound,
                   lock, speed, workVars, taskVars, irqVars, ppc, coreVars>>

RingDrained == toBack = << >> /\ atDevice = {} /\ completing = {} /\ toFront = << >>

\* The waits of vusb_usbif_halt, one after the other: both work items, the
\* ring ("Eat up anything left on the ring"), all processing.
HaltWait ==
    /\ \/ xpc = "flushPort" /\ ~portWork /\ ppc = "idle" /\ xpc' = "flushWork"
       \/ xpc = "flushWork" /\ ~work /\ pc[Worker] = "idle" /\ xpc' = "drain"
       \/ xpc = "drain" /\ RingDrained /\ xpc' = "stop"
    /\ UNCHANGED <<portVars, listVars, shadowVars, ringVars, sring, irqBound,
                   lock, flagVars, workVars, taskVars, irqVars, ppc, coreVars>>

\* list_for_each_entry_safe on the finish list, when list is what is left of it:
\* the entry after the next one is looked up before the next one is finished.
WalkOn(list) ==
    xpc' = IF list = << >> THEN "free"
           ELSE IF Len(list) = 1 THEN "finishLast" ELSE "finishMore"

\* vusb_wait_stop_processing
DestroyStop ==
    /\ xpc = "stop"
    /\ processing = 0
    /\ WalkOn(finishList)
    /\ UNCHANGED <<portVars, listVars, shadowVars, ringVars, sring, irqBound, lock,
                   flagVars, workVars, taskVars, irqVars, ppc, coreVars>>

\* vusb_urb_finish for one URB, without the lock ("should be OK since all
\* processing is halted now").  What has been put on the list behind the URB
\* found to be the last one is not walked.
DestroyFinish ==
    /\ xpc \in {"finishMore", "finishLast"}
    /\ LET u == Head(finishList)
       IN /\ freeList' = Append(freeList, reqId[u])
          /\ shadow' = [shadow EXCEPT ![reqId[u]] = FreeShadow]
          /\ state' = [state EXCEPT ![u] = "DONE"]
          /\ releaseList' = Append(releaseList, u)
    /\ finishList' = Tail(finishList)
    /\ work' = TRUE
    /\ WalkOn(IF xpc = "finishLast" THEN << >> ELSE finishList')
    /\ UNCHANGED <<portVars, pendingList, reqId, ringVars, sring, irqBound, lock,
                   flagVars, portWork, taskVars, irqVars, ppc, coreVars>>

\* vusb_usbif_free: the access of the backend to the ring is ended, and the page
\* freed.
DestroyFree ==
    /\ xpc = "free"
    /\ sring' = "null"
    /\ xpc' = "unbind"
    /\ UNCHANGED <<portVars, listVars, shadowVars, ringVars, irqBound, lock,
                   flagVars, workVars, taskVars, irqVars, ppc, coreVars>>

\* unbind_from_irqhandler waits for a handler that is running.
DestroyUnbind ==
    /\ xpc = "unbind"
    /\ ipc = "idle"
    /\ irqBound' = FALSE
    /\ evt' = FALSE
    /\ xpc' = "release"
    /\ UNCHANGED <<portVars, listVars, shadowVars, toBack, atDevice, completing,
                   toFront, sring, lock, flagVars, workVars, taskVars, irqVars,
                   ppc, coreVars>>

\* The URBs released and pending are given back, the latter with -ESHUTDOWN;
\* vusb_put_vport clears the device and the port, and with it loses whatever the
\* walk has left on the finish list (NoUrbLost).
DestroyRelease ==
    /\ xpc = "release"
    /\ ReleaseUrbs(ToSet(releaseList) \cup ToSet(pendingList))
    /\ releaseList' = << >> /\ pendingList' = << >>
    /\ present' = FALSE /\ closing' = FALSE /\ processing' = 0
    /\ resetPending' = FALSE /\ resetDone' = FALSE
    /\ rflush' = FALSE /\ speed' = FALSE /\ work' = FALSE
    /\ xpc' = "gone"
    /\ UNCHANGED <<finishList, shadowVars, ringVars, sring, irqBound, lock,
                   grantWait, portWork, taskVars, irqVars, ppc>>

-----------------------------------------------------------------------------
(* The backend: do_usb_io_op takes requests in order *)

Answer(i) == toFront' = Append(toFront, i) /\ evt' = TRUE

BackUnchanged == UNCHANGED <<portVars, listVars, shadowVars, teardownVars, lock,
                             flagVars, workVars, taskVars, irqVars, ppc, coreVars>>

\* A URB goes to the device.
BackSubmit ==
    /\ toBack # << >> /\ Head(toBack).type = "urb"
    /\ atDevice' = atDevice \cup {[id |-> Head(toBack).id, urb |-> Head(toBack).urb]}
    /\ toBack' = Tail(toBack)
    /\ UNCHANGED <<completing, toFront, evt>>
    /\ BackUnchanged

\* Mutant: the id of the cancel request itself is looked for.
VictimsOfOwnId(r) == {x \in atDevice : x.id = r.id}

\* cancel_urb looks for an URB with the id among those at the device.
Victims(r) == {x \in atDevice : x.id = r.cancelId}

CancelFinds == /\ toBack # << >> /\ Head(toBack).type = "cancel"
               /\ Victims(Head(toBack)) # {}

\* Mutant: the URB is answered for but left with the device.
BackKillNoWait ==
    /\ CancelFinds
    /\ \E x \in Victims(Head(toBack)) : Answer(x.id)
    /\ toBack' = Tail(toBack)
    /\ UNCHANGED <<atDevice, completing>>
    /\ BackUnchanged

\* usb_kill_urb returns when the victim has been completed.
BackKill ==
    /\ CancelFinds
    /\ \E x \in Victims(Head(toBack)) :
           atDevice' = atDevice \ {x} /\ Answer(x.id)
    /\ UNCHANGED <<toBack, completing>>
    /\ BackUnchanged

\* Internal requests are answered at once.
BackAnswer ==
    /\ toBack # << >> /\ Head(toBack).type \in Commands
    /\ ~CancelFinds
    /\ Answer(Head(toBack).id)
    /\ toBack' = Tail(toBack)
    /\ UNCHANGED <<atDevice, completing>>
    /\ BackUnchanged

\* The device completes an URB, in any order; usb_hcd_giveback_urb takes it
\* off the anchor, where cancel_urb looks, before it calls end_usb_io_op.
DeviceComplete(u) ==
    \E x \in atDevice :
        /\ x.urb = u
        /\ atDevice' = atDevice \ {x}
        /\ completing' = completing \cup {x}
        /\ UNCHANGED <<toBack, toFront, evt>>
        /\ BackUnchanged

EndUsbIoOp ==
    \E x \in completing :
        /\ completing' = completing \ {x}
        /\ Answer(x.id)
        /\ UNCHANGED <<toBack, atDevice>>
        /\ BackUnchanged

-----------------------------------------------------------------------------
Send(t) == \E u \in Urbs :
    SendSkip(t, u) \/ SendUrb(t, u) \/ SendAgain(t, u) \/ SendBusy(t, u)
    \/ SendImmediate(t, u)

Process(t) == ProcessBegin(t) \/ Send(t) \/ ProcessEnd(t) \/ ProcessRelease(t)

Interrupt == IrqEnter \/ IrqGate \/ IrqConsume \/ IrqExit

PortWork == PortWorkRun \/ PortPutReset \/ PortResetComplete

Destroy == HaltRflush \/ HaltWait \/ DestroyStop \/ DestroyFinish \/ DestroyFree
           \/ DestroyUnbind \/ DestroyRelease

Backend == BackSubmit \/ BackKill \/ BackAnswer

Next ==
    \/ \E u \in Urbs : EnqueueLink(u) \/ DequeueStart(u) \/ DequeueFind(u)
    \/ WorkRun \/ GrantAvailable
    \/ \E t \in Tasks : Process(t)
    \/ Interrupt
    \/ PortReset \/ PortWork
    \/ StartDevice \/ DestroyBegin \/ Destroy
    \/ Backend \/ EndUsbIoOp
    \/ \E u \in Urbs : DeviceComplete(u)

Spec == Init /\ [][Next]_vars

(* Fairness.  vdev->lock is a ticket spin lock, so whoever wants it gets it *)
(* (SF where an action waits for it); interrupts, work items and the backend*)
(* run.  The core need not submit, nor the hub reset, nor a device answer.  *)
(* A call of enqueue or dequeue has finitely many steps and is made once for*)
(* an URB, so that fairness of all calls together is fairness of each.      *)
Calls == \E u \in Urbs :
    DequeueFind(u) \/ Process(Enqueuer(u)) \/ Process(Dequeuer(u))

DriverFairness ==
    /\ SF_vars(Calls)
    /\ WF_vars(WorkRun) /\ WF_vars(GrantAvailable) /\ SF_vars(Process(Worker))
    /\ SF_vars(Interrupt)
    /\ SF_vars(PortWork)
    /\ WF_vars(StartDevice) /\ SF_vars(Destroy)
    /\ WF_vars(Backend) /\ WF_vars(EndUsbIoOp)

DeviceFairness == \A u \in Urbs : WF_vars(DeviceComplete(u))

\* The callback of the grant table comes when references are free; others may
\* take them first, but not for ever.
GrantFairness == SF_vars(\E t \in Tasks, u \in Urbs : SendUrb(t, u))

DriverSpec == Spec /\ DriverFairness
DeviceSpec == DriverSpec /\ DeviceFairness
SystemSpec == DeviceSpec /\ GrantFairness

-----------------------------------------------------------------------------
(* Safety *)

Occurrences(s, u) == Cardinality({k \in DOMAIN s : s[k] = u})

\* Where an URB the driver owns can be: with its enqueuer on the way to the
\* pending list, on a list of the device, or spliced off for release.
Places(u) ==
    (IF pc[Enqueuer(u)] = "process" THEN 1 ELSE 0)
    + Occurrences(pendingList, u) + Occurrences(finishList, u)
    + Occurrences(releaseList, u)
    + Cardinality({t \in Tasks : u \in ToSet(tmp[t])})

\* Every URB the driver owns is in exactly one place, whatever enqueue,
\* dequeue, interrupt, work and teardown do to the lists; and none is given
\* back that was not linked, or twice.
OnePlace == \A u \in Urbs :
    /\ Places(u) = IF u \in linked THEN 1 ELSE 0
    /\ ~(u \in linked /\ u \in given)

\* The requests that are on their way to the backend, there, or on their way
\* back, identified by their shadow.
InFlight(i) ==
    Cardinality({k \in DOMAIN toBack : toBack[k].id = i})
    + Cardinality({x \in atDevice \cup completing : x.id = i})
    + Occurrences(toFront, i)

\* As long as the ring is there, a shadow is on the free list, once, or it is
\* in use: by one request in flight, or by an URB that waits on the finish list.
ShadowsConserved == sring = "mapped" => \A i \in Shadows :
    /\ Occurrences(freeList, i) = IF shadow[i].use = "free" THEN 1 ELSE 0
    /\ InFlight(i) =
         IF shadow[i].use = "free" \/ shadow[i].urb \in ToSet(finishList) THEN 0 ELSE 1

\* The response of a request leads vusb_interrupt to the URB that was sent
\* with it: still pending, still with this id, not given back meanwhile.
ResponseFindsUrb == sring = "mapped" => \A k \in DOMAIN toFront :
    LET sh == shadow[toFront[k]]
    IN sh.use = "urb" =>
         /\ sh.urb \in ToSet(pendingList) /\ sh.urb \in linked
         /\ state[sh.urb] \in {"SENT", "CANCEL"}
         /\ reqId[sh.urb] = toFront[k]

\* Request ids are reused at once, and a cancel request only names an id: the
\* URB cancel_urb then finds under that id is the one that was unlinked.
CancelHitsItsUrb ==
    CancelFinds => \A x \in Victims(Head(toBack)) : x.urb = Head(toBack).urb

\* xenwatch walks the lists of the device without the lock.
Walking == {"finishMore", "finishLast", "free", "unbind", "release"}

\* Once vusb_usbif_halt is over, nothing that counts as processing is left, so
\* that no task and no port work touches the lists that vusb_destroy_device
\* walks without the lock; the interrupt may (WalkAlone), but not any more when
\* the URBs to release and those pending are given back.
HaltedIsQuiet ==
    /\ xpc \in Walking =>
         ppc = "idle" /\ ~iproc /\ \A t \in Tasks : pc[t] = "idle" /\ lock # t
    /\ xpc = "release" => ipc = "idle" /\ lock = NoTask

(* Why these hold: the invariant that carries them *)

\* vdev->lock is held by the task that sends or by the interrupt that
\* consumes; only the former walks the list.
LockInv ==
    /\ \A t \in Tasks : pc[t] = "send" <=> lock = t
    /\ ipc \in {"consume", "fault"} <=> lock = Irq
    /\ sendQueue # << >> => lock \in Tasks

\* processing counts those who may touch the lists.
Busy == {t \in Tasks : pc[t] # "idle"}
CountInv ==
    /\ processing = Cardinality(Busy) + (IF iproc THEN 1 ELSE 0)
                    + (IF ppc # "idle" THEN 1 ELSE 0)
    /\ ipc = "idle" => ~iproc

\* How far xenwatch has come, and what is over by then.
TeardownInv ==
    /\ closing <=> xpc \in {"rflush", "flushPort", "flushWork", "drain", "stop"}
                            \cup Walking
    /\ present <=> xpc \notin {"probed", "gone"}
    /\ sring = "null" <=> xpc \in {"unbind", "release", "gone"}
    /\ irqBound <=> xpc \notin {"release", "gone"}
    /\ xpc \in Walking \cup {"gone"} => Busy = {} /\ ppc = "idle" /\ ~iproc
    /\ xpc = "finishLast" => finishList # << >>
    /\ xpc = "finishMore" => Len(finishList) > 1
    /\ ~irqBound => ipc = "idle"

\* Until the device is started nothing goes on, and there is a shadow for the
\* speed request.
StartInv == xpc \in {"probed", "started"} =>
    /\ freeList # << >>
    /\ Busy = {} /\ ppc = "idle" /\ linked = {}
    /\ ~work /\ ~portWork /\ ~grantWait
    /\ toBack = << >> /\ atDevice = {} /\ completing = {} /\ ~evt /\ ipc = "idle"

\* A call is made for an URB of the driver, once each.
CallInv ==
    /\ \A u \in Urbs :
         /\ pc[Enqueuer(u)] # "idle" => u \in linked \cup given
         /\ pc[Dequeuer(u)] # "idle" => u \in unlinked \cup given
         /\ pc[Enqueuer(u)] # "find"
    /\ unlinked \subseteq linked /\ linked \cap given = {}

\* Where an URB is.
Entering(u) == pc[Enqueuer(u)] = "process"
Pending(u) == u \in ToSet(pendingList)
Finishing(u) == u \in ToSet(finishList)
Releasing(u) == u \in ToSet(releaseList)
LeavingBy(t, u) == u \in ToSet(tmp[t])
Leaving(u) == \E t \in Tasks : LeavingBy(t, u)

PlaceInv ==
    /\ IsInjective(pendingList) /\ IsInjective(finishList) /\ IsInjective(releaseList)
    /\ \A t \in Tasks : tmp[t] # << >> => pc[t] = "release"
    /\ \A u \in Urbs :
         /\ u \in linked <=>
                Entering(u) \/ Pending(u) \/ Finishing(u) \/ Releasing(u) \/ Leaving(u)
         /\ Entering(u) => ~Pending(u) /\ ~Finishing(u) /\ ~Releasing(u) /\ ~Leaving(u)
         /\ Pending(u) => ~Finishing(u) /\ ~Releasing(u) /\ ~Leaving(u)
         /\ Finishing(u) => ~Releasing(u) /\ ~Leaving(u)
         /\ Releasing(u) => ~Leaving(u)
         /\ \A s, t \in Tasks : LeavingBy(s, u) /\ LeavingBy(t, u) => s = t

\* The send loop walks what is still pending.
SendInv == IsInjective(sendQueue) /\ ToSet(sendQueue) \subseteq ToSet(pendingList)

\* How far an URB has come, by the place it is in.
StateInv == \A u \in Urbs :
    /\ u \notin linked \cup given \/ Entering(u) => state[u] = "NEW"
    /\ Pending(u) => state[u] \in {"NEW", "SENT", "CANCEL"}
    /\ pc[Dequeuer(u)] = "find" \/ u \in linked \ unlinked => state[u] # "CANCEL"

\* The URBs that have a shadow.
Sent(u) == (Pending(u) /\ state[u] \in {"SENT", "CANCEL"}) \/ Finishing(u)

\* A shadow is free and on the list, or an URB that was sent is its own.
ShadowInv == xpc # "gone" =>
    /\ IsInjective(freeList)
    /\ \A i \in Shadows :
         /\ i \in ToSet(freeList) <=> shadow[i].use = "free"
         /\ shadow[i].use # "urb" => shadow[i].urb = NoUrb
         /\ shadow[i].use = "urb" =>
                shadow[i].urb \in Urbs /\ Sent(shadow[i].urb) /\ reqId[shadow[i].urb] = i
    /\ \A u \in Urbs : Sent(u) =>
         reqId[u] \in Shadows /\ shadow[reqId[u]] = [use |-> "urb", urb |-> u]

\* A request in flight is in one place, under an id of its own.
Sending(i) == \E k \in DOMAIN toBack : toBack[k].id = i
Served(i) == \E x \in atDevice \cup completing : x.id = i
Answered(i) == i \in ToSet(toFront)
FlightInv ==
    /\ \A j, k \in DOMAIN toBack : toBack[j].id = toBack[k].id => j = k
    /\ \A x, y \in atDevice \cup completing : x.id = y.id => x = y
    /\ atDevice \cap completing = {} /\ IsInjective(toFront)
    /\ \A k \in DOMAIN toBack : toBack[k].type = "urb" => toBack[k].urb \in Urbs
    /\ \A i \in Shadows :
         ~(Sending(i) /\ Served(i)) /\ ~(Sending(i) /\ Answered(i))
         /\ ~(Served(i) /\ Answered(i))

\* The requests in flight are those of the shadows in use and not yet
\* answered, and say what the shadow says.
UseInv == xpc # "gone" =>
    /\ \A i \in Shadows :
         Sending(i) \/ Served(i) \/ Answered(i) <=>
         shadow[i].use # "free" /\ ~Finishing(shadow[i].urb)
    /\ \A k \in DOMAIN toBack :
         /\ shadow[toBack[k].id].use = toBack[k].type
         /\ toBack[k].type = "urb" => shadow[toBack[k].id].urb = toBack[k].urb
    /\ \A x \in atDevice \cup completing :
         shadow[x.id] = [use |-> "urb", urb |-> x.urb]

\* Whatever is at the device or goes there before a cancel request under the
\* id it names is the URB it is for.
CancelInv == \A k \in DOMAIN toBack : toBack[k].type = "cancel" =>
    /\ \A x \in atDevice : x.id = toBack[k].cancelId => x.urb = toBack[k].urb
    /\ \A j \in DOMAIN toBack :
         j < k /\ toBack[j].type = "urb" /\ toBack[j].id = toBack[k].cancelId =>
             toBack[j].urb = toBack[k].urb

FrontInv ==
    /\ TypeOK /\ LockInv /\ CountInv /\ TeardownInv /\ StartInv /\ CallInv
    /\ PlaceInv /\ SendInv /\ StateInv /\ ShadowInv /\ FlightInv /\ UseInv /\ CancelInv

(* Liveness *)

\* Every URB submitted is given back, if devices complete URBs and grant
\* references come back.
UrbGivenBack ==
    DeviceFairness /\ GrantFairness => \A u \in Urbs : u \in linked ~> u \in given

\* Once the cancel request for an URB is on the ring, the URB comes back
\* though the device never completes it.
CancelledGivenBack == \A u \in Urbs :
    (\E k \in DOMAIN toBack : toBack[k].type = "cancel" /\ toBack[k].urb = u)
    ~> u \in given

(* What the comments in the code claim and the code does not ensure.  Runs  *)
(* show it of WalkAlone, NoUrbLost, RingStaysMapped, UnlinkedGivenBack and  *)
(* DestroyCompletes.                                                        *)

\* Nobody else touches the finish list while it is walked: "NOTE removed lock
\* here - should be OK since all processing is halted now".  The final flush of
\* the interrupt is not processing; it comes for an URB that was sent after the
\* ring had been found empty.
WalkAlone ==
    xpc \in {"finishMore", "finishLast"} => ~(ipc = "consume" /\ toFront # << >>)

\* No URB is left on the list when the device is cleared: "Process any last
\* completed URBs left before tearing up the usbif bits".
NoUrbLost == xpc = "gone" => finishList = << >>

\* No request is left with the backend when the ring, the grants and the
\* shadows are taken away: "Eat up anything left on the ring".
DrainedAtTeardown == xpc = "unbind" => RingDrained

\* The interrupt handler never looks at the shared page after
\* vusb_usbif_free has taken it away.
RingStaysMapped == ipc # "fault"

\* No work of the device is scheduled any more when vusb_put_vport clears the
\* structure the work item is embedded in: "Shutdown all work".
WorkShutDown == xpc = "release" => ~work

\* A reset the hub asked for finds a shadow: "Leave room for resets on ring".
ResetHasRoom == ppc = "put" => InternalHasRoom

\* An URB the core has unlinked is given back, whether or not the device ever
\* completes it.
UnlinkedGivenBack == \A u \in Urbs : u \in unlinked ~> u \in given

\* Removing the device comes to an end.
DestroyCompletes == closing ~> xpc = "gone"

(* Refinement: the driver uses the ring as VusbChannel allows. *)
Channel == INSTANCE VusbChannel WITH
    toBack <- [k \in DOMAIN toBack |-> toBack[k].id],
    owned <- {x.id : x \in atDevice \cup completing},
    held <- {reqId[u] : u \in ToSet(finishList)}

ImplementsChannel == Channel!Spec
=============================================================================
