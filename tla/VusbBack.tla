------------------------------ MODULE VusbBack ------------------------------
(***************************************************************************)
(* The USB backend of dom0 (usbback.c): one kernel thread per device takes *)
(* requests off that device's ring, turns each into an URB and hands it to *)
(* the USB core; completions, which run in interrupt context, answer it;   *)
(* a tasklet gives its resources back.  The devices share one pool of      *)
(* pending_req structures and one pool of page segments, and each device   *)
(* structure (usbif_t) is kept alive by a count of its users.              *)
(*                                                                         *)
(* The ring is a queue here: VusbRing shows what it guarantees.  Routines  *)
(* of vusb.c and interface.c, which are not part of the repository, are    *)
(* modelled by how usbback.c uses them and marked external.                *)
(*                                                                         *)
(* Every request needs one segment for its own page and, if indirect,      *)
(* Extra more for the pages it points to; each array of grants is mapped   *)
(* as a whole or not at all.                                               *)
(***************************************************************************)
EXTENDS Naturals, Sequences, FiniteSets

CONSTANTS
    Devices,      \* the backend's devices, one usbif_t and one thread each
    Preqs,        \* pending_reqs[], shared by all devices
    NSegs,        \* number of pending_segments[]
    Requests,     \* requests the frontends may send, each once
    DevOf,        \* the device each is sent to
    Direct,       \* those answered without an URB (reset, speed, frame...)
    Cancels,      \* those that ask for another one to be cancelled
    Indirect,     \* those whose page only lists the data pages
    Timed,        \* those with a timeout: control and OUT transfers
    Leaving,      \* the devices that may be disconnected
    Extra,        \* segments an indirect request takes besides its own
    AtomicFails,  \* kmalloc(GFP_ATOMIC) may fail in a completion
    NoReq, NoPreq, NoDev

ASSUME BackAssumption ==
    /\ Direct \subseteq Requests /\ Cancels \subseteq Requests
    /\ Indirect \subseteq Requests /\ Timed \subseteq Requests
    /\ Direct \cap Cancels = {} /\ Leaving \subseteq Devices
    /\ (Direct \cup Cancels) \cap (Indirect \cup Timed) = {}
    /\ DevOf \in [Requests -> Devices]
    /\ NSegs \in Nat /\ Extra \in Nat /\ AtomicFails \in BOOLEAN
    /\ NSegs >= Cardinality(Preqs)   \* usbif_init: nothing for indirect pages
    /\ NoReq \notin Requests /\ NoPreq \notin Preqs /\ NoDev \notin Devices
    /\ IsFiniteSet(Preqs) /\ IsFiniteSet(Devices) /\ IsFiniteSet(Requests)

VARIABLES
    ring,        \* requests of each device that its thread has not consumed
    free,        \* pending_free
    toFree,      \* pending_to_free: completed, waiting for the tasklet
    tmp,         \* the tasklet's own list while it runs
    lateUse,     \* a usbif_t was used that had been freed
    scheduled,   \* tasklet_schedule was called and it has not started
    segFree,     \* pending_segments_free_cnt
    pc, cur,     \* each thread: where it is, the pending_req it works on
    victim,      \* the pending_req whose URB a cancel is killing
    req, usbif,  \* of a pending_req: its request and its device
    nr, filled,  \* nr_pages, and how many pending_segment[] are not NULL
    extra,       \* pending_indirect_segments
    mapped,      \* its grants are mapped
    urb,         \* where its URB is in its life
    unlinked,    \* the URB has been killed or unlinked and must complete
    timer,       \* "off", "armed", or "firing": the handler has been entered
    stale,       \* handlers still to run whose URB is gone
    refcnt,      \* of the usbif_t
    stop,        \* kthread_stop was called
    teardown,    \* disconnect: "no", "waiting" for the last user, "freed"
    answers,     \* how often each request was answered
    bug          \* a BUG_ON, or what lateUse does, stopped the kernel

poolVars == <<free, segFree, req, usbif, nr, filled, extra>>
urbVars == <<urb, unlinked, timer, stale, mapped>>
threadVars == <<pc, cur, victim>>
taskVars == <<toFree, tmp, scheduled, lateUse>>
devVars == <<refcnt, stop, teardown>>
vars == <<ring, poolVars, urbVars, threadVars, taskVars, devVars, answers, bug>>

UrbRequests == Requests \ (Direct \cup Cancels)
ExtraPages(r) == IF r \in Indirect THEN Extra ELSE 0

\* A URB is on usbif->vusb.anchor from usb_anchor_urb until the core gives
\* it back, just before its completion routine runs.
Anchored(d) == {p \in Preqs : usbif[p] = d /\ urb[p] = "flight"}

-----------------------------------------------------------------------------
(* Pools *)

\* The usbif_t that p names has been freed: its memory is still as it was, or
\* the kernel does not survive the use.
UsesFreed(p) == urb[p] # "none" /\ teardown[usbif[p]] = "freed"

\* Mutant: nr_pages stays when its segments have been given back.
FreeReqKeepsNr(p) ==
    /\ lateUse' = (lateUse \/ UsesFreed(p))
    /\ \/ /\ UsesFreed(p) \/ nr[p] > filled[p]
          /\ bug' = TRUE
          /\ UNCHANGED <<free, segFree, nr, filled, extra>>
       \/ /\ nr[p] <= filled[p]
          /\ segFree' = segFree + filled[p] + extra[p]
          /\ free' = free \cup {p}
          /\ filled' = [filled EXCEPT ![p] = 0]
          /\ extra' = [extra EXCEPT ![p] = 0]
          /\ UNCHANGED <<nr, bug>>
    /\ usbif' = [usbif EXCEPT ![p] = NoDev]
    /\ req' = [req EXCEPT ![p] = NoReq]
    /\ urb' = [urb EXCEPT ![p] = "none"]
    /\ unlinked' = [unlinked EXCEPT ![p] = FALSE]
    /\ timer' = [timer EXCEPT ![p] = "off"]
    /\ stale' = IF timer[p] = "firing" THEN stale \cup {p} ELSE stale

\* free_req with free_segments: an URB's buffer is given back through the
\* usbif_t; the structure and its segments go back; BUG_ON(!segment) when
\* nr_pages says more segments than were taken.
FreeReq(p) ==
    /\ lateUse' = (lateUse \/ UsesFreed(p))
    /\ \/ /\ UsesFreed(p) \/ nr[p] > filled[p]
          /\ bug' = TRUE
          /\ UNCHANGED <<free, segFree, nr, filled, extra>>
       \/ /\ nr[p] <= filled[p]
          /\ segFree' = segFree + filled[p] + extra[p]
          /\ free' = free \cup {p}
          /\ nr' = [nr EXCEPT ![p] = 0]
          /\ filled' = [filled EXCEPT ![p] = 0]
          /\ extra' = [extra EXCEPT ![p] = 0]
          /\ UNCHANGED bug
    /\ usbif' = [usbif EXCEPT ![p] = NoDev]
    /\ req' = [req EXCEPT ![p] = NoReq]
    /\ urb' = [urb EXCEPT ![p] = "none"]
    /\ unlinked' = [unlinked EXCEPT ![p] = FALSE]
    /\ timer' = [timer EXCEPT ![p] = "off"]
    /\ stale' = IF timer[p] = "firing" THEN stale \cup {p} ELSE stale

\* make_response
MakeResponse(r) == answers' = [answers EXCEPT ![r] = IF @ < 2 THEN @ + 1 ELSE @]

\* fast_flush_area and fast_flush_area_indirect: the latter leaves the pages
\* mapped when it finds no memory for its list.
FastFlush(p) ==
    \E fails \in IF AtomicFails /\ extra[p] > 0 THEN BOOLEAN ELSE {FALSE} :
        mapped' = [mapped EXCEPT ![p] = @ /\ fails]

\* del_timer: a handler that has been entered is not waited for.
CancelTimeout(p) == timer' = [timer EXCEPT ![p] = IF @ = "armed" THEN "off" ELSE @]

UsbifGet(d) == refcnt' = [refcnt EXCEPT ![d] = @ + 1]
UsbifPut(d) == refcnt' = [refcnt EXCEPT ![d] = @ - 1]

Goto(d, l) == pc' = [pc EXCEPT ![d] = l]
LetGo(d) == cur' = [cur EXCEPT ![d] = NoPreq]

-----------------------------------------------------------------------------
(* The thread of device d: usbif_schedule, do_usb_io_op, dispatch_usb_io *)

\* A thread stopped before it first ran never enters usbif_schedule.
ThreadStart(d) ==
    /\ pc[d] = "new"
    /\ IF stop[d]
       THEN Goto(d, "exited") /\ UNCHANGED refcnt
       ELSE Goto(d, "idle") /\ UsbifGet(d)
    /\ UNCHANGED <<ring, poolVars, urbVars, cur, victim, taskVars, stop,
                   teardown, answers, bug>>

\* alloc_req, then the request is copied and req_cons moves on.
TakeRequest(d) ==
    /\ pc[d] = "idle" /\ ~stop[d]
    /\ ring[d] # << >>
    /\ \E p \in free :
        /\ free' = free \ {p}
        /\ cur' = [cur EXCEPT ![d] = p]
        /\ req' = [req EXCEPT ![p] = Head(ring[d])]
    /\ ring' = [ring EXCEPT ![d] = Tail(@)]
    /\ Goto(d, IF Head(ring[d]) \in UrbRequests THEN "dispatch"
               ELSE IF Head(ring[d]) \in Cancels THEN "cancel" ELSE "respond")
    /\ UNCHANGED <<segFree, usbif, nr, filled, extra, urbVars, victim,
                   taskVars, devVars, answers, bug>>

\* cancel_urb: the victim is found on the anchor by its id and killed; a
\* request that has not been submitted or has completed is not found.
CancelUrb(d) ==
    /\ pc[d] = "cancel"
    /\ \/ \E v \in Anchored(d) :
            /\ unlinked' = [unlinked EXCEPT ![v] = TRUE]
            /\ victim' = [victim EXCEPT ![d] = v]
            /\ Goto(d, "kill")
       \/ UNCHANGED <<unlinked, victim>> /\ Goto(d, "respond")
    /\ UNCHANGED <<ring, poolVars, urb, timer, stale, mapped, cur, taskVars,
                   devVars, answers, bug>>

\* Mutant: a request to cancel that had to wait is not answered.
KillReturnsSilent(d) ==
    /\ pc[d] = "kill" /\ victim[d] = NoPreq
    /\ Goto(d, "release")
    /\ UNCHANGED <<ring, poolVars, urbVars, cur, victim, taskVars, devVars,
                   answers, bug>>

\* usb_kill_urb returns when the victim's completion routine has returned.
KillReturns(d) ==
    /\ pc[d] = "kill" /\ victim[d] = NoPreq
    /\ Goto(d, "respond")
    /\ UNCHANGED <<ring, poolVars, urbVars, cur, victim, taskVars, devVars,
                   answers, bug>>

\* dispatch_usb_io: the fields are filled in, nr_pages among them; then
\* populate_req takes the segments, if there are enough, setup_urb allocates
\* the URB, if there is memory, and map_request maps the request's own page,
\* if the grant is good.  Of all this only the pool is shared.
Populate(d) ==
    LET p == cur[d] IN
    /\ pc[d] = "dispatch"
    /\ usbif' = [usbif EXCEPT ![p] = d]
    /\ nr' = [nr EXCEPT ![p] = 1]
    /\ \/ /\ segFree < 1
          /\ Goto(d, "respond")
          /\ UNCHANGED <<filled, segFree, mapped>>
       \/ /\ segFree >= 1
          /\ segFree' = segFree - 1
          /\ filled' = [filled EXCEPT ![p] = 1]
          /\ \/ Goto(d, "respond") /\ UNCHANGED mapped    \* no URB
             \/ Goto(d, "flush") /\ UNCHANGED mapped      \* not mapped
             \/ /\ mapped' = [mapped EXCEPT ![p] = TRUE]
                /\ Goto(d, IF req[p] \in Indirect THEN "indirect" ELSE "setup")
    /\ UNCHANGED <<ring, free, req, extra, urb, unlinked, timer, stale, cur,
                   victim, taskVars, devVars, answers, bug>>

\* setup_indirect: populate_indirect takes the extra segments or fails; the
\* grants they stand for are mapped or are not.
SetupIndirect(d) ==
    LET p == cur[d] n == ExtraPages(req[p]) IN
    /\ pc[d] = "indirect"
    /\ IF segFree < n
       THEN Goto(d, "flush") /\ UNCHANGED <<segFree, extra>>
       ELSE /\ segFree' = segFree - n
            /\ extra' = [extra EXCEPT ![p] = n]
            /\ \/ Goto(d, "setup")
               \/ Goto(d, "flush")
    /\ UNCHANGED <<ring, free, req, usbif, nr, filled, urbVars, cur, victim,
                   taskVars, devVars, answers, bug>>

\* Mutant: the timer is set for the wrong direction.
SetupUrbNoTimer(d) ==
    /\ pc[d] = "setup"
    /\ UsbifGet(d)
    /\ Goto(d, "submit")
    /\ UNCHANGED <<ring, poolVars, urbVars, cur, victim, taskVars, stop,
                   teardown, answers, bug>>

\* vusb_setup_urb refuses the request, or has carried it out itself (a
\* control request), or fills in the URB: then the device is kept alive for
\* it, its timer is armed and it is anchored.
SetupUrb(d) ==
    LET p == cur[d] IN
    /\ pc[d] = "setup"
    /\ \/ Goto(d, "flush") /\ UNCHANGED <<refcnt, timer>>
       \/ /\ UsbifGet(d)
          /\ timer' = [timer EXCEPT ![p] = IF req[p] \in Timed THEN "armed" ELSE @]
          /\ Goto(d, "submit")
    /\ UNCHANGED <<ring, poolVars, urb, unlinked, stale, mapped, cur, victim,
                   taskVars, stop, teardown, answers, bug>>

\* Mutant: no return after a successful submission.
SubmitFallsThrough(d) ==
    /\ pc[d] = "submit"
    /\ urb' = [urb EXCEPT ![cur[d]] = "flight"]
    /\ Goto(d, "flush")
    /\ UNCHANGED <<ring, poolVars, unlinked, timer, stale, mapped, cur, victim,
                   taskVars, devVars, answers, bug>>

\* usb_submit_urb succeeds: from here on the completion may run.
Submit(d) ==
    /\ pc[d] = "submit"
    /\ urb' = [urb EXCEPT ![cur[d]] = "flight"]
    /\ LetGo(d)
    /\ Goto(d, "idle")
    /\ UNCHANGED <<ring, poolVars, unlinked, timer, stale, mapped, victim,
                   taskVars, devVars, answers, bug>>

\* Mutant: the reference is not given back.
SubmitFailsLeaks(d) ==
    /\ pc[d] = "submit"
    /\ CancelTimeout(cur[d])
    /\ Goto(d, "flush")
    /\ UNCHANGED <<ring, poolVars, urb, unlinked, stale, mapped, cur, victim,
                   taskVars, devVars, answers, bug>>

\* It fails: the URB is unanchored and the reference given back.
SubmitFails(d) ==
    /\ pc[d] = "submit"
    /\ CancelTimeout(cur[d])
    /\ UsbifPut(d)
    /\ Goto(d, "flush")
    /\ UNCHANGED <<ring, poolVars, urb, unlinked, stale, mapped, cur, victim,
                   taskVars, stop, teardown, answers, bug>>

\* fail_flush, early_success: the grants are unmapped first,
FlushAndRespond(d) ==
    /\ pc[d] = "flush"
    /\ FastFlush(cur[d])
    /\ MakeResponse(req[cur[d]])
    /\ Goto(d, "release")
    /\ UNCHANGED <<ring, poolVars, urb, unlinked, timer, stale, cur, victim,
                   taskVars, devVars, bug>>

\* fail_response, and the answer to a request that needed no URB.
Respond(d) ==
    /\ pc[d] = "respond"
    /\ MakeResponse(req[cur[d]])
    /\ Goto(d, "release")
    /\ UNCHANGED <<ring, poolVars, urbVars, cur, victim, taskVars, devVars, bug>>

Release(d) ==
    /\ pc[d] = "release"
    /\ FreeReq(cur[d])
    /\ LetGo(d)
    /\ Goto(d, "idle")
    /\ UNCHANGED <<ring, mapped, victim, toFree, tmp, scheduled, devVars, answers>>

\* Mutant: nothing is killed.
ThreadFlushNothing(d) ==
    /\ pc[d] = "idle" /\ stop[d]
    /\ Goto(d, "flushing")
    /\ UNCHANGED <<ring, poolVars, urbVars, cur, victim, taskVars, devVars,
                   answers, bug>>

\* Stopped: the loop ends and vusb_flush kills what is on the anchor.
ThreadFlush(d) ==
    /\ pc[d] = "idle" /\ stop[d]
    /\ unlinked' = [p \in Preqs |-> unlinked[p] \/ p \in Anchored(d)]
    /\ Goto(d, "flushing")
    /\ UNCHANGED <<ring, poolVars, urb, timer, stale, mapped, cur, victim,
                   taskVars, devVars, answers, bug>>

ThreadExit(d) ==
    /\ pc[d] = "flushing" /\ Anchored(d) = {}
    /\ UsbifPut(d)
    /\ Goto(d, "exited")
    /\ UNCHANGED <<ring, poolVars, urbVars, cur, victim, taskVars, stop,
                   teardown, answers, bug>>

-----------------------------------------------------------------------------
(* Completions, timers and the tasklet *)

\* Mutant: the grants stay mapped.
EndUsbIoOpMapped(p) ==
    /\ urb[p] = "flight"
    /\ urb' = [urb EXCEPT ![p] = "flushed"]
    /\ CancelTimeout(p)
    /\ UNCHANGED <<ring, poolVars, unlinked, stale, mapped, threadVars,
                   taskVars, devVars, answers, bug>>

\* end_usb_io_op: the core has unanchored the URB; its timer is removed and
\* its grants are unmapped,
EndUsbIoOp(p) ==
    /\ urb[p] = "flight"
    /\ urb' = [urb EXCEPT ![p] = "flushed"]
    /\ CancelTimeout(p)
    /\ FastFlush(p)
    /\ UNCHANGED <<ring, poolVars, unlinked, stale, threadVars, taskVars,
                   devVars, answers, bug>>

\* the answer is given,
EndResponds(p) ==
    /\ urb[p] = "flushed"
    /\ urb' = [urb EXCEPT ![p] = "answered"]
    /\ MakeResponse(req[p])
    /\ UNCHANGED <<ring, poolVars, unlinked, timer, stale, mapped, threadVars,
                   taskVars, devVars, bug>>

\* the device is let go: who takes the last reference, in usbif_put,
EndPuts(p) ==
    /\ urb[p] = "answered"
    /\ urb' = [urb EXCEPT ![p] = IF refcnt[usbif[p]] = 1 THEN "wake" ELSE "put"]
    /\ UsbifPut(usbif[p])
    /\ UNCHANGED <<ring, poolVars, unlinked, timer, stale, mapped, threadVars,
                   taskVars, stop, teardown, answers, bug>>

\* wakes who waits to free the device, on a queue inside it,
EndWakes(p) ==
    /\ urb[p] = "wake"
    /\ urb' = [urb EXCEPT ![p] = "put"]
    /\ lateUse' = (lateUse \/ UsesFreed(p))
    /\ bug' \in {bug, UsesFreed(p)}
    /\ UNCHANGED <<ring, poolVars, unlinked, timer, stale, mapped, threadVars,
                   toFree, tmp, scheduled, devVars, answers>>

\* and the rest is left to the tasklet; whoever waits for it in
\* usb_kill_urb goes on.
EndQueues(p) ==
    /\ urb[p] = "put"
    /\ urb' = [urb EXCEPT ![p] = "queued"]
    /\ toFree' = toFree \cup {p}
    /\ scheduled' = TRUE
    /\ victim' = [d \in Devices |-> IF victim[d] = p THEN NoPreq ELSE victim[d]]
    /\ UNCHANGED <<ring, poolVars, unlinked, timer, stale, mapped, pc, cur,
                   tmp, lateUse, devVars, answers, bug>>

\* Mutant: list_splice, which leaves the list's head as it was.
SpliceToFreeKeeps ==
    /\ scheduled /\ tmp = {}
    /\ scheduled' = FALSE
    /\ tmp' = toFree
    /\ UNCHANGED <<ring, poolVars, urbVars, threadVars, toFree, lateUse, devVars,
                   answers, bug>>

\* async_free_reqs: list_splice_init moves the list under its lock,
SpliceToFree ==
    /\ scheduled /\ tmp = {}
    /\ scheduled' = FALSE
    /\ tmp' = toFree
    /\ toFree' = {}
    /\ UNCHANGED <<ring, poolVars, urbVars, threadVars, lateUse, devVars,
                   answers, bug>>

\* then each is freed; a tasklet never runs on two processors at once.
AsyncFree(p) ==
    /\ p \in tmp
    /\ tmp' = tmp \ {p}
    /\ FreeReq(p)
    /\ UNCHANGED <<ring, mapped, threadVars, toFree, scheduled, devVars, answers>>

\* The timer expires: its handler is entered.  It is armed for 15 seconds
\* just before the submission, which is taken to be faster than that.
TimerExpires(p) ==
    /\ timer[p] = "armed" /\ urb[p] = "flight"
    /\ timer' = [timer EXCEPT ![p] = "firing"]
    /\ UNCHANGED <<ring, poolVars, urb, unlinked, stale, mapped, threadVars,
                   taskVars, devVars, answers, bug>>

\* timeout_usb_io_op: usb_unlink_urb does nothing to an URB that is not
\* with the core.
TimeoutUsbIoOp(p) ==
    /\ timer[p] = "firing"
    /\ timer' = [timer EXCEPT ![p] = "off"]
    /\ unlinked' = [unlinked EXCEPT ![p] = @ \/ urb[p] = "flight"]
    /\ UNCHANGED <<ring, poolVars, urb, stale, mapped, threadVars, taskVars,
                   devVars, answers, bug>>

\* The handler of an URB freed meanwhile: it reads freed memory, in which
\* there may be nothing of use or another URB, which is then unlinked.
TimeoutTooLate(p) ==
    /\ p \in stale
    /\ stale' = stale \ {p}
    /\ \/ UNCHANGED unlinked
       \/ \E q \in Preqs : /\ urb[q] = "flight"
                           /\ unlinked' = [unlinked EXCEPT ![q] = TRUE]
    /\ UNCHANGED <<ring, poolVars, urb, timer, mapped, threadVars, taskVars,
                   devVars, answers, bug>>

-----------------------------------------------------------------------------
(* External: the frontends, and the disconnection of a device *)

OnRing(r) == \E k \in DOMAIN ring[DevOf[r]] : ring[DevOf[r]][k] = r

Send(r) ==
    /\ answers[r] = 0 /\ ~OnRing(r) /\ \A p \in Preqs : req[p] # r
    /\ teardown[DevOf[r]] = "no"
    /\ ring' = [ring EXCEPT ![DevOf[r]] = Append(@, r)]
    /\ UNCHANGED <<poolVars, urbVars, threadVars, taskVars, devVars, answers, bug>>

\* kthread_stop wakes the thread from either wait.
KthreadStop(d) ==
    /\ ~stop[d]
    /\ stop' = [stop EXCEPT ![d] = TRUE]
    /\ UNCHANGED <<ring, poolVars, urbVars, threadVars, taskVars, refcnt,
                   teardown, answers, bug>>

\* When it has returned, the reference of usbif_alloc is dropped,
Disconnect(d) ==
    /\ pc[d] = "exited" /\ teardown[d] = "no"
    /\ teardown' = [teardown EXCEPT ![d] = "waiting"]
    /\ UsbifPut(d)
    /\ UNCHANGED <<ring, poolVars, urbVars, threadVars, taskVars, stop, answers, bug>>

\* and the structure is freed when waiting_to_free is woken.
UsbifFree(d) ==
    /\ teardown[d] = "waiting" /\ refcnt[d] = 0
    /\ teardown' = [teardown EXCEPT ![d] = "freed"]
    /\ UNCHANGED <<ring, poolVars, urbVars, threadVars, taskVars, refcnt, stop,
                   answers, bug>>

-----------------------------------------------------------------------------
Init ==
    /\ ring = [d \in Devices |-> << >>]
    /\ free = Preqs /\ toFree = {} /\ tmp = {} /\ scheduled = FALSE
    /\ lateUse = FALSE
    /\ segFree = NSegs
    /\ pc = [d \in Devices |-> "new"]
    /\ cur = [d \in Devices |-> NoPreq] /\ victim = [d \in Devices |-> NoPreq]
    /\ req = [p \in Preqs |-> NoReq] /\ usbif = [p \in Preqs |-> NoDev]
    /\ nr = [p \in Preqs |-> 0] /\ filled = [p \in Preqs |-> 0]
    /\ extra = [p \in Preqs |-> 0] /\ mapped = [p \in Preqs |-> FALSE]
    /\ urb = [p \in Preqs |-> "none"] /\ unlinked = [p \in Preqs |-> FALSE]
    /\ timer = [p \in Preqs |-> "off"] /\ stale = {}
    /\ refcnt = [d \in Devices |-> 1] /\ stop = [d \in Devices |-> FALSE]
    /\ teardown = [d \in Devices |-> "no"]
    /\ answers = [r \in Requests |-> 0] /\ bug = FALSE

\* What stops the kernel in the thread or the tasklet ends the system.
ThreadStep(d) ==
    /\ ~bug
    /\ \/ ThreadStart(d) \/ TakeRequest(d) \/ CancelUrb(d) \/ KillReturns(d)
       \/ Populate(d) \/ SetupIndirect(d) \/ SetupUrb(d)
       \/ Submit(d) \/ SubmitFails(d) \/ FlushAndRespond(d)
       \/ Respond(d) \/ Release(d) \/ ThreadFlush(d) \/ ThreadExit(d)

CompletionStep(p) ==
    ~bug /\ (EndResponds(p) \/ EndPuts(p) \/ EndWakes(p) \/ EndQueues(p))

TimerStep(p) == ~bug /\ (TimerExpires(p) \/ TimeoutUsbIoOp(p))
TaskletStep == ~bug /\ (SpliceToFree \/ \E p \in Preqs : AsyncFree(p))
DisconnectStep(d) == ~bug /\ (Disconnect(d) \/ UsbifFree(d))

Next ==
    \/ \E d \in Devices : ThreadStep(d) \/ DisconnectStep(d)
    \/ \E p \in Preqs : CompletionStep(p) \/ TimerStep(p)
    \/ TaskletStep
    \/ /\ ~bug
       /\ \/ \E p \in Preqs : EndUsbIoOp(p) \/ TimeoutTooLate(p)
          \/ \E d \in Leaving : KthreadStop(d)
          \/ \E r \in Requests : Send(r)

Spec == Init /\ [][Next]_vars

\* The threads are scheduled, interrupts and softirqs run to their end, the
\* core completes an URB that has been unlinked, a disconnection goes on.
\* That a device answers, or a frontend sends, is nowhere assumed.
Fairness ==
    /\ \A d \in Devices : WF_vars(ThreadStep(d)) /\ WF_vars(DisconnectStep(d))
    /\ \A p \in Preqs : /\ WF_vars(CompletionStep(p))
                        /\ WF_vars(TimerStep(p))
                        /\ WF_vars(~bug /\ unlinked[p] /\ EndUsbIoOp(p))
    /\ WF_vars(TaskletStep)

FairSpec == Spec /\ Fairness
-----------------------------------------------------------------------------
(* Properties *)

TypeOK ==
    /\ ring \in [Devices -> Seq(Requests)]
    /\ free \subseteq Preqs /\ toFree \subseteq Preqs /\ tmp \subseteq Preqs
    /\ scheduled \in BOOLEAN /\ bug \in BOOLEAN /\ lateUse \in BOOLEAN /\ stale \subseteq Preqs
    /\ segFree \in 0..NSegs
    /\ pc \in [Devices -> {"new", "idle", "dispatch", "indirect", "setup",
                           "submit", "flush", "cancel", "kill", "respond",
                           "release", "flushing", "exited"}]
    /\ cur \in [Devices -> Preqs \cup {NoPreq}]
    /\ victim \in [Devices -> Preqs \cup {NoPreq}]
    /\ req \in [Preqs -> Requests \cup {NoReq}]
    /\ usbif \in [Preqs -> Devices \cup {NoDev}]
    /\ nr \in [Preqs -> 0..1] /\ filled \in [Preqs -> 0..1]
    /\ extra \in [Preqs -> {0, Extra}]
    /\ mapped \in [Preqs -> BOOLEAN] /\ unlinked \in [Preqs -> BOOLEAN]
    /\ urb \in [Preqs -> {"none", "flight", "flushed", "answered", "wake", "put",
                             "queued"}]
    /\ timer \in [Preqs -> {"off", "armed", "firing"}]
    /\ refcnt \in [Devices -> 0..Cardinality(Preqs) + 2]
    /\ stop \in [Devices -> BOOLEAN]
    /\ teardown \in [Devices -> {"no", "waiting", "freed"}]
    /\ answers \in [Requests -> 0..2]

WithCore(p) == urb[p] \in {"flight", "flushed", "answered", "wake", "put"}
Held(p) == {d \in Devices : cur[d] = p}

\* The pools lose nothing and hand nothing out twice: every pending_req is
\* in exactly one place - free, held by one thread, with the USB core,
\* queued for the tasklet or on the tasklet's list - and every segment is
\* free or held (alloc_req, free_req, populate_req, async_free_reqs), until
\* a BUG_ON stops the one that gives it back.
Filled == {p \in Preqs : filled[p] = 1}
Extended == {p \in Preqs : extra[p] # 0}
PoolConserved ==
    /\ ~bug => \A p \in Preqs :
        1 = (IF p \in free THEN 1 ELSE 0) + (IF p \in toFree THEN 1 ELSE 0)
          + (IF p \in tmp THEN 1 ELSE 0) + (IF WithCore(p) THEN 1 ELSE 0)
          + Cardinality(Held(p))
    /\ NSegs = segFree + Cardinality(Filled) + Extra * Cardinality(Extended)

\* "When the associated URB completes, the specified domain has a response
\* queued for it, with the saved 'id' passed back" (common.h): no request is
\* answered twice, and none that a pending_req still stands for was
\* answered before the path that answers it got there.
Owing(p) == \/ urb[p] \in {"flight", "flushed"}
            \/ \E d \in Held(p) : pc[d] # "release"
AnsweredOnce ==
    /\ \A r \in Requests : answers[r] <= 1
    /\ \A p \in Preqs : Owing(p) => answers[req[p]] = 0
    /\ \A p, q \in Preqs : Owing(p) /\ Owing(q) /\ req[p] = req[q] => p = q

\* The count of a usbif_t is that of those who have not put it yet: the
\* thread from its start to its exit, an URB from before its submission to
\* the usbif_put of its completion, or of its failure, and the structure's
\* own until it is disconnected; it is freed when all of them have put it
\* (usbif_get and usbif_put on every path of dispatch_usb_io).  This is all
\* the code counts: UsbifUsedAlive says what it does not.
Counted(d) == {p \in Preqs : usbif[p] = d
                             /\ urb[p] \in {"flight", "flushed", "answered"}}
Users(d) == Cardinality(Counted(d))
            + (IF pc[d] \notin {"new", "exited"} THEN 1 ELSE 0)
            + (IF pc[d] = "submit" THEN 1 ELSE 0)
UsbifCounted ==
    \A d \in Devices : /\ refcnt[d] = Users(d) + (IF teardown[d] = "no" THEN 1 ELSE 0)
                       /\ teardown[d] = "freed" => Users(d) = 0

\* No usbif_t is used that was freed.  False (VusbBackFreed.cfg): usbif_put
\* wakes, on a queue of the usbif_t, a waiter that may have gone on when the
\* count became zero, and free_req, which the tasklet calls after the put,
\* gives the URB's buffer back through req->usbif.
UsbifUsedAlive == ~lateUse

\* When a request has been answered its grants are no longer mapped: the
\* frontend revokes them.  True as long as GFP_ATOMIC memory lasts.
GrantsReturned ==
    \A p \in Preqs : req[p] # NoReq /\ answers[req[p]] > 0 => ~mapped[p]

\* A pending_req comes to count in nr_pages a segment it does not have, for
\* which free_segments will stop the kernel (BUG_ON(!segment)), only when
\* populate_req finds none free, and then some indirect request has taken
\* more than its own: usbif_init provides one set for every pending_req.
SegmentsRunShort ==
    [][\A p \in Preqs : nr'[p] > filled'[p] =>
           \/ nr[p] > filled[p]
           \/ segFree = 0 /\ Extended # {}]_vars

\* BUG_ON(!segment) never fires.  False when indirect requests are sent
\* (VusbBackSegments.cfg), as populate_req may be refused then.
SegmentsPresent == bug => lateUse

(* The inductive invariant *)

\* Where a thread works on a pending_req.
Holding == {"dispatch", "indirect", "setup", "submit", "flush", "cancel",
            "kill", "respond", "release"}
Untouched(p) == nr[p] = 0 /\ filled[p] = 0 /\ extra[p] = 0

\* A thread has a pending_req, with a request and without an URB, from
\* alloc_req to free_req or to a submission, and no other thread has it.
ThreadInv ==
    \A d \in Devices :
        /\ cur[d] # NoPreq <=> pc[d] \in Holding
        /\ pc[d] \in Holding =>
            /\ urb[cur[d]] = "none" /\ req[cur[d]] # NoReq
            /\ cur[d] \notin free
            /\ \A e \in Devices : cur[e] = cur[d] => e = d
        /\ pc[d] \in {"cancel", "kill", "dispatch"} => Untouched(cur[d])
        /\ pc[d] \in {"indirect", "setup", "submit"} => usbif[cur[d]] = d
        /\ pc[d] = "indirect" => extra[cur[d]] = 0

\* The lists: what is on one of them, and that nothing is on none but what a
\* BUG_ON in free_segments dropped.
PlaceInv ==
    /\ \A p \in Preqs :
        /\ urb[p] = "queued" <=> p \in toFree \cup tmp
        /\ p \in toFree => p \notin tmp
        /\ p \in free => urb[p] = "none" /\ req[p] = NoReq /\ Untouched(p)
        /\ urb[p] # "none" => usbif[p] # NoDev /\ req[p] # NoReq
        /\ urb[p] = "none" /\ Held(p) = {} => p \in free \/ bug

SegmentInv == NSegs = segFree + Cardinality(Filled) + Extra * Cardinality(Extended)

\* Each request is on its ring once, or stands on one pending_req, or is gone.
RequestInv ==
    /\ \A p, q \in Preqs : req[p] = req[q] /\ req[p] # NoReq => p = q
    /\ \A d \in Devices : \A k \in DOMAIN ring[d] :
        /\ DevOf[ring[d][k]] = d /\ answers[ring[d][k]] = 0
        /\ \A p \in Preqs : req[p] # ring[d][k]
        /\ \A l \in DOMAIN ring[d] : ring[d][k] = ring[d][l] => k = l
    /\ \A r \in Requests : answers[r] <= 1
    /\ \A p \in Preqs : Owing(p) => answers[req[p]] = 0

\* Grants are mapped while the thread sets the URB up or the core has it.
MappedInv ==
    ~AtomicFails =>
        \A p \in Preqs : mapped[p] =>
            \/ urb[p] = "flight"
            \/ \E d \in Held(p) : pc[d] \in {"indirect", "setup", "submit", "flush"}

ReferenceInv ==
    /\ UsbifCounted
    /\ \A d \in Devices : teardown[d] # "no" => pc[d] = "exited"

BackInv ==
    /\ TypeOK /\ ThreadInv /\ PlaceInv /\ SegmentInv /\ RequestInv
    /\ MappedInv /\ ReferenceInv

\* Each segment counted was taken, and more than one only for what needs it.
SegmentUseInv ==
    /\ SegmentsPresent
    /\ \A p \in Preqs : nr[p] <= filled[p] /\ (extra[p] # 0 => req[p] \in Indirect)

(* Liveness *)

\* Stopping a device ends: its thread exits, the last user lets the usbif_t
\* go and no pending_req stands for it any more, whatever the devices do,
\* unless the kernel is stopped by what it meets.
StopCompletes ==
    \A d \in Devices :
        stop[d] ~> bug \/ (teardown[d] = "freed" /\ \A p \in Preqs : usbif[p] # d)

\* Every pending_req stands for an URB without a timeout that nobody kills.
Exhausted ==
    \A p \in Preqs : urb[p] = "flight" /\ req[p] \notin Timed /\ ~unlinked[p]

\* A request that needs no URB, or whose URB has a timeout, is answered
\* unless its device, or the kernel, is stopped, even if no device ever
\* answers - but for one case: IN transfers, of whatever device, that never
\* end have taken the whole pool; then no cancel is taken either.  The
\* thread is woken for what is on its ring: VusbRing says when it is.
RequestAnswered ==
    \A r \in Direct \cup Cancels \cup Timed :
        \/ <>[]Exhausted
        \/ OnRing(r) ~> answers[r] > 0 \/ stop[DevOf[r]] \/ bug
=============================================================================
