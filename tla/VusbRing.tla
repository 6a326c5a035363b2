------------------------------ MODULE VusbRing ------------------------------
(***************************************************************************)
(* The ring a virtual USB device shares with its backend: one page with N  *)
(* slots, written as requests by the frontend (xc-vusb.c) and, once the    *)
(* request has been read, overwritten as responses by the backend          *)
(* (usbback.c).  Four free-running indices delimit the parts of the ring;  *)
(* slot i % N belongs to index i.  The request identifier is the number of *)
(* the frontend's shadow entry, and the shadow stays allocated until the   *)
(* response has been processed, so that holding a shadow is what entitles  *)
(* the frontend to a slot.                                                 *)
(*                                                                         *)
(* The backend side is modelled at the grain of its reads and writes of    *)
(* shared memory: a kernel thread takes requests while completions, on any *)
(* CPU, push responses under usb_ring_lock.  The frontend works under the  *)
(* device lock vdev->lock; fpc # "unlocked" means the lock is held.        *)
(*                                                                         *)
(* A local variable whose value is not read again is set back to a fixed   *)
(* value, so that states that differ in nothing are one.                   *)
(*                                                                         *)
(* rsp_event is not modelled: its only reader is the notification the      *)
(* backend computes and ignores (usbback.c, "always notify").              *)
(***************************************************************************)
EXTENDS Integers, FiniteSets

CONSTANTS
    N,            \* entries of the ring
    Shadows,      \* the frontend's shadow entries, as many as the ring has
    NoShadow,     \* what is not the number of a shadow
    Preqs,        \* the backend's pool of pending_req structures
    NoPreq,       \* "no pending_req"
    AlwaysNotify, \* the frontend ignores req_event and always notifies
    MaxPush       \* bound on the number of requests pushed (model bound)

ASSUME RingAssumption ==
    /\ N \in Nat \ {0}
    /\ IsFiniteSet(Shadows) /\ Cardinality(Shadows) = N
    /\ NoShadow \notin Shadows
    /\ MaxPush \in Nat
    /\ AlwaysNotify \in BOOLEAN
    /\ NoPreq \notin Preqs

Indices == 0 .. N - 1

\* URBs, the speed query, and the requests pushed with force_notify
\* (reset, port cycle and cancel).
Kinds == {"urb", "speed", "forced"}
NoKind == "none"

VARIABLES
    slots,     \* the shared page: what each slot holds
    reqProd,   \* sring->req_prod, equal to the frontend's req_prod_pvt
    reqCons,   \* the backend's req_cons
    rspProd,   \* sring->rsp_prod, equal to the backend's rsp_prod_pvt
    rspCons,   \* the frontend's rsp_cons
    reqEvent,  \* sring->req_event
    stage,     \* where the request of each shadow is
    kind,      \* shadow->req.type, as far as the ring code looks at it
    fpc, frp,  \* frontend, under vdev->lock: position and snapshot of rsp_prod
    evtFront,  \* event channel pending towards the frontend
    evtBack,   \* event channel pending towards the backend
    waiting,   \* usbif->waiting_reqs
    kpc, krp,  \* backend kernel thread: position and snapshot of req_prod
    kcur,      \* the pending_req the kernel thread answers synchronously
    prState,   \* what each pending_req is doing
    prId,      \* pending_req->id
    ringLock,  \* holder of usbif->usb_ring_lock
    tailEvent  \* the value make_response is about to store in req_event

frontVars == <<fpc, frp>>
kthreadVars == <<kpc, krp, kcur>>
preqVars == <<prState, prId, ringLock, tailEvent>>
vars == <<slots, reqProd, reqCons, rspProd, rspCons, reqEvent, stage, kind,
          fpc, frp, evtFront, evtBack, waiting, kpc, krp, kcur,
          prState, prId, ringLock, tailEvent>>

Stages == {"free", "queued", "taken", "answered", "finish"}
PrStates == {"free", "dispatch", "device", "respond",
             "tail", "event", "recheck", "wake", "notify", "async"}
Slot == [what : {"request", "response"}, id : Shadows]
              \cup {[what |-> "blank", id |-> NoShadow]}

TypeOK ==
    /\ slots \in [Indices -> Slot]
    /\ reqProd \in Nat /\ reqCons \in Nat /\ rspProd \in Nat /\ rspCons \in Nat
    /\ reqEvent \in Nat
    /\ stage \in [Shadows -> Stages]
    /\ kind \in [Shadows -> Kinds \cup {NoKind}]
    /\ fpc \in {"unlocked", "flush", "flushForced", "irq"} /\ frp \in Nat
    /\ evtFront \in BOOLEAN /\ evtBack \in BOOLEAN /\ waiting \in BOOLEAN
    /\ kpc \in {"sleep", "load", "loop"} /\ krp \in Nat
    /\ kcur \in Preqs \cup {NoPreq}
    /\ prState \in [Preqs -> PrStates]
    /\ prId \in [Preqs -> Shadows \cup {NoShadow}]
    /\ ringLock \in Preqs \cup {NoPreq}
    /\ tailEvent \in Nat

\* SHARED_RING_INIT, FRONT_RING_INIT, and the shadow table of
\* vusb_setup_usbfront: every shadow is free.
Init ==
    /\ slots = [i \in Indices |-> [what |-> "blank", id |-> NoShadow]]
    /\ reqProd = 0 /\ reqCons = 0 /\ rspProd = 0 /\ rspCons = 0
    /\ reqEvent = 1
    /\ stage = [i \in Shadows |-> "free"]
    /\ kind = [i \in Shadows |-> NoKind]
    /\ fpc = "unlocked" /\ frp = 0
    /\ evtFront = FALSE /\ evtBack = FALSE /\ waiting = FALSE
    /\ kpc = "sleep" /\ krp = 0 /\ kcur = NoPreq
    /\ prState = [p \in Preqs |-> "free"]
    /\ prId = [p \in Preqs |-> NoShadow]
    /\ ringLock = NoPreq /\ tailEvent = 0

SlotOf(i) == i % N
FreeShadows == {i \in Shadows : stage[i] = "free"}

\* Mutant: a shadow is given back when its request has been answered, before
\* the frontend has read the response.
MayAllocateAnswered(i, k) == stage[i] \in {"free", "answered"}

\* vusb_put_urb refuses the last shadow (shadow_free <= 1 is -EAGAIN), which
\* vusb_put_internal_request may take; both need one that is not in use.
MayAllocate(i, k) ==
    /\ stage[i] = "free"
    /\ k = "urb" => \E j \in FreeShadows : j # i

-----------------------------------------------------------------------------
(* Frontend *)

\* A shadow is allocated and filled, and vusb_put_ring copies it to the slot
\* of req_prod_pvt without looking whether that slot is free.
PutRequest(i, k) ==
    /\ fpc = "unlocked"
    /\ reqProd < MaxPush
    /\ MayAllocate(i, k)
    /\ slots' = [slots EXCEPT ![SlotOf(reqProd)] = [what |-> "request", id |-> i]]
    /\ reqProd' = reqProd + 1
    /\ stage' = [stage EXCEPT ![i] = "queued"]
    /\ kind' = [kind EXCEPT ![i] = k]
    /\ fpc' = IF k = "forced" THEN "flushForced" ELSE "flush"
    /\ UNCHANGED <<reqCons, rspProd, rspCons, reqEvent, frp, evtFront, evtBack,
                   waiting, kthreadVars, preqVars>>

\* RING_PUSH_REQUESTS_AND_CHECK_NOTIFY for one request: the backend asked to
\* be notified of index req_event, and the request just pushed has it.
PushAsksNotify == reqEvent = reqProd

\* Mutant: the frontend believes req_event.
NotifiedIfAsked == PushAsksNotify

Notified == AlwaysNotify \/ fpc = "flushForced" \/ PushAsksNotify

\* vusb_flush_ring, after req_prod has been published.
FlushRing ==
    /\ fpc \in {"flush", "flushForced"}
    /\ fpc' = "unlocked"
    /\ evtBack' = (evtBack \/ Notified)
    /\ UNCHANGED <<slots, reqProd, reqCons, rspProd, rspCons, reqEvent, stage,
                   kind, frp, evtFront, waiting, kthreadVars, preqVars>>

\* vusb_interrupt takes the lock and reads rsp_prod.
Interrupt ==
    /\ evtFront
    /\ fpc = "unlocked"
    /\ evtFront' = FALSE
    /\ fpc' = "irq"
    /\ frp' = rspProd
    /\ UNCHANGED <<slots, reqProd, reqCons, rspProd, rspCons, reqEvent, stage,
                   kind, evtBack, waiting, kthreadVars, preqVars>>

\* One turn of the loop of vusb_interrupt: an internal request gives its
\* shadow back at once, the URB of any other goes to the finish list.
ConsumeResponse ==
    /\ fpc = "irq"
    /\ rspCons # frp
    /\ LET i == slots[SlotOf(rspCons)].id
       IN /\ stage' = [stage EXCEPT ![i] = IF kind[i] = "urb" THEN "finish" ELSE "free"]
          /\ kind' = [kind EXCEPT ![i] = NoKind]
    /\ rspCons' = rspCons + 1
    /\ UNCHANGED <<slots, reqProd, reqCons, rspProd, reqEvent, frontVars,
                   evtFront, evtBack, waiting, kthreadVars, preqVars>>

\* The end of vusb_interrupt: RING_FINAL_CHECK_FOR_RESPONSES unless every
\* request has been answered; more responses restart the loop.
FinalCheckResponses ==
    /\ fpc = "irq"
    /\ rspCons = frp
    /\ IF rspCons # reqProd /\ rspProd # rspCons
       THEN frp' = rspProd /\ fpc' = fpc
       ELSE frp' = 0 /\ fpc' = "unlocked"
    /\ UNCHANGED <<slots, reqProd, reqCons, rspProd, rspCons, reqEvent, stage,
                   kind, evtFront, evtBack, waiting, kthreadVars, preqVars>>

\* Mutant: an URB is finished while the backend still has its request.
FinishUrbEarly(i) ==
    /\ fpc = "unlocked"
    /\ stage[i] \in {"taken", "finish"}
    /\ stage' = [stage EXCEPT ![i] = "free"]
    /\ UNCHANGED <<slots, reqProd, reqCons, rspProd, rspCons, reqEvent, kind,
                   frontVars, evtFront, evtBack, waiting, kthreadVars, preqVars>>

\* vusb_urb_finish, from the work the interrupt scheduled, returns the shadow.
FinishUrb(i) ==
    /\ fpc = "unlocked"
    /\ stage[i] = "finish"
    /\ stage' = [stage EXCEPT ![i] = "free"]
    /\ UNCHANGED <<slots, reqProd, reqCons, rspProd, rspCons, reqEvent, kind,
                   frontVars, evtFront, evtBack, waiting, kthreadVars, preqVars>>

-----------------------------------------------------------------------------
(* Backend: the kernel thread usbif_schedule *)

\* usbif_be_int
BackInterrupt ==
    /\ evtBack
    /\ evtBack' = FALSE
    /\ waiting' = TRUE
    /\ UNCHANGED <<slots, reqProd, reqCons, rspProd, rspCons, reqEvent, stage,
                   kind, frontVars, evtFront, kthreadVars, preqVars>>

\* Both waits of the loop are over; the flag is cleared before the ring is read.
ScheduleWake ==
    /\ kpc = "sleep"
    /\ waiting
    /\ \E p \in Preqs : prState[p] = "free"
    /\ waiting' = FALSE
    /\ kpc' = "load"
    /\ UNCHANGED <<slots, reqProd, reqCons, rspProd, rspCons, reqEvent, stage,
                   kind, frontVars, evtFront, evtBack, krp, kcur, preqVars>>

\* do_usb_io_op reads req_prod once.
LoadProducer ==
    /\ kpc = "load"
    /\ krp' = reqProd
    /\ kpc' = "loop"
    /\ UNCHANGED <<slots, reqProd, reqCons, rspProd, rspCons, reqEvent, stage,
                   kind, frontVars, evtFront, evtBack, waiting, kcur, preqVars>>

\* RING_REQUEST_CONS_OVERFLOW
ConsOverflow == reqCons - rspProd >= N

MoreInSnapshot ==
    /\ kpc = "loop"
    /\ kcur = NoPreq
    /\ reqCons # krp
    /\ ~ConsOverflow

\* One turn of the loop of do_usb_io_op: allocate a pending_req, copy the
\* request out of the ring, advance req_cons.
TakeRequest(p) ==
    /\ MoreInSnapshot
    /\ prState[p] = "free"
    /\ LET i == slots[SlotOf(reqCons)].id
       IN /\ prId' = [prId EXCEPT ![p] = i]
          /\ stage' = [stage EXCEPT ![i] = "taken"]
    /\ prState' = [prState EXCEPT ![p] = "dispatch"]
    /\ kcur' = p
    /\ reqCons' = reqCons + 1
    /\ UNCHANGED <<slots, reqProd, rspProd, rspCons, reqEvent, kind, frontVars,
                   evtFront, evtBack, waiting, kpc, krp, ringLock, tailEvent>>

\* alloc_req failed: leave the loop with more_to_do set.
OutOfRequests ==
    /\ MoreInSnapshot
    /\ \A p \in Preqs : prState[p] # "free"
    /\ waiting' = TRUE
    /\ kpc' = "sleep" /\ krp' = 0
    /\ UNCHANGED <<slots, reqProd, reqCons, rspProd, rspCons, reqEvent, stage,
                   kind, frontVars, evtFront, evtBack, kcur, preqVars>>

\* Mutant: waiting_reqs is cleared after the ring has been read.
LeaveLoopClears ==
    /\ kpc = "loop"
    /\ kcur = NoPreq
    /\ reqCons = krp \/ ConsOverflow
    /\ kpc' = "sleep" /\ krp' = 0
    /\ waiting' = FALSE
    /\ UNCHANGED <<slots, reqProd, reqCons, rspProd, rspCons, reqEvent, stage,
                   kind, frontVars, evtFront, evtBack, kcur, preqVars>>

LeaveLoop ==
    /\ kpc = "loop"
    /\ kcur = NoPreq
    /\ reqCons = krp \/ ConsOverflow
    /\ kpc' = "sleep" /\ krp' = 0
    /\ UNCHANGED <<slots, reqProd, reqCons, rspProd, rspCons, reqEvent, stage,
                   kind, frontVars, evtFront, evtBack, waiting, kcur, preqVars>>

\* An internal request, or a URB that dispatch_usb_io rejects or satisfies
\* itself, is answered by the kernel thread before it goes on.
AnswerNow(p) ==
    /\ prState[p] = "dispatch"
    /\ prState' = [prState EXCEPT ![p] = "respond"]
    /\ UNCHANGED <<slots, reqProd, reqCons, rspProd, rspCons, reqEvent, stage,
                   kind, frontVars, evtFront, evtBack, waiting, kthreadVars,
                   prId, ringLock, tailEvent>>

\* dispatch_usb_io submits the URB to the device.
SubmitUrb(p) ==
    /\ prState[p] = "dispatch"
    /\ kind[prId[p]] = "urb"
    /\ prState' = [prState EXCEPT ![p] = "device"]
    /\ kcur' = NoPreq
    /\ UNCHANGED <<slots, reqProd, reqCons, rspProd, rspCons, reqEvent, stage,
                   kind, frontVars, evtFront, evtBack, waiting, kpc, krp,
                   prId, ringLock, tailEvent>>

-----------------------------------------------------------------------------
(* Backend: completion and make_response *)

\* The device completes the URB: end_usb_io_op.
CompleteUrb(p) ==
    /\ prState[p] = "device"
    /\ prState' = [prState EXCEPT ![p] = "respond"]
    /\ UNCHANGED <<slots, reqProd, reqCons, rspProd, rspCons, reqEvent, stage,
                   kind, frontVars, evtFront, evtBack, waiting, kthreadVars,
                   prId, ringLock, tailEvent>>

\* make_response takes usb_ring_lock, writes the response and publishes it.
PushResponse(p) ==
    /\ prState[p] = "respond"
    /\ ringLock = NoPreq
    /\ ringLock' = p
    /\ prState' = [prState EXCEPT ![p] = "tail"]
    /\ slots' = [slots EXCEPT ![SlotOf(rspProd)] =
                    [what |-> "response", id |-> prId[p]]]
    /\ rspProd' = rspProd + 1
    /\ stage' = [stage EXCEPT ![prId[p]] = "answered"]
    /\ prId' = [prId EXCEPT ![p] = NoShadow]
    /\ UNCHANGED <<reqProd, reqCons, rspCons, reqEvent, kind, frontVars,
                   evtFront, evtBack, waiting, kthreadVars, tailEvent>>

\* RING_HAS_UNCONSUMED_REQUESTS
HasUnconsumedRequests == reqProd # reqCons /\ ~ConsOverflow

\* The tail check.  Only when every request taken has been answered is
\* req_event moved; otherwise pending requests are merely looked for.
TailCheck(p) ==
    /\ prState[p] = "tail"
    /\ \/ /\ HasUnconsumedRequests
          /\ prState' = [prState EXCEPT ![p] = "wake"]
          /\ ringLock' = NoPreq
          /\ tailEvent' = tailEvent
       \/ /\ ~HasUnconsumedRequests /\ rspProd = reqCons
          /\ prState' = [prState EXCEPT ![p] = "event"]
          /\ ringLock' = ringLock
          /\ tailEvent' = reqCons + 1
       \/ /\ ~HasUnconsumedRequests /\ rspProd # reqCons
          /\ prState' = [prState EXCEPT ![p] = "notify"]
          /\ ringLock' = NoPreq
          /\ tailEvent' = tailEvent
    /\ UNCHANGED <<slots, reqProd, reqCons, rspProd, rspCons, reqEvent, stage,
                   kind, frontVars, evtFront, evtBack, waiting, kthreadVars, prId>>

StoreReqEvent(p) ==
    /\ prState[p] = "event"
    /\ reqEvent' = tailEvent /\ tailEvent' = 0
    /\ prState' = [prState EXCEPT ![p] = "recheck"]
    /\ UNCHANGED <<slots, reqProd, reqCons, rspProd, rspCons, stage, kind,
                   frontVars, evtFront, evtBack, waiting, kthreadVars, prId,
                   ringLock>>

\* Mutant: the ring is not looked at again after req_event has been moved.
RecheckNothing(p) ==
    /\ prState[p] = "recheck"
    /\ prState' = [prState EXCEPT ![p] = "notify"]
    /\ ringLock' = NoPreq
    /\ UNCHANGED <<slots, reqProd, reqCons, rspProd, rspCons, reqEvent, stage,
                   kind, frontVars, evtFront, evtBack, waiting, kthreadVars,
                   prId, tailEvent>>

\* The second look of RING_FINAL_CHECK_FOR_REQUESTS, after the barrier.
RecheckRequests(p) ==
    /\ prState[p] = "recheck"
    /\ prState' = [prState EXCEPT ![p] =
                     IF HasUnconsumedRequests THEN "wake" ELSE "notify"]
    /\ ringLock' = NoPreq
    /\ UNCHANGED <<slots, reqProd, reqCons, rspProd, rspCons, reqEvent, stage,
                   kind, frontVars, evtFront, evtBack, waiting, kthreadVars,
                   prId, tailEvent>>

\* more_to_do: usbif_notify_work
NotifyWork(p) ==
    /\ prState[p] = "wake"
    /\ waiting' = TRUE
    /\ prState' = [prState EXCEPT ![p] = "notify"]
    /\ UNCHANGED <<slots, reqProd, reqCons, rspProd, rspCons, reqEvent, stage,
                   kind, frontVars, evtFront, evtBack, kthreadVars,
                   prId, ringLock, tailEvent>>

\* Mutant: only the first unread response is announced.
NotifyFrontOnce(p) ==
    /\ prState[p] = "notify"
    /\ evtFront' = (evtFront \/ rspProd = rspCons + 1)
    /\ prState' = [prState EXCEPT ![p] = IF kcur = p THEN "free" ELSE "async"]
    /\ kcur' = IF kcur = p THEN NoPreq ELSE kcur
    /\ UNCHANGED <<slots, reqProd, reqCons, rspProd, rspCons, reqEvent, stage,
                   kind, frontVars, evtBack, waiting, kpc, krp,
                   prId, ringLock, tailEvent>>

\* The unconditional notification that ends make_response.  The kernel
\* thread then frees the pending_req itself; a completion leaves that to the
\* tasklet.
NotifyFront(p) ==
    /\ prState[p] = "notify"
    /\ evtFront' = TRUE
    /\ prState' = [prState EXCEPT ![p] = IF kcur = p THEN "free" ELSE "async"]
    /\ kcur' = IF kcur = p THEN NoPreq ELSE kcur
    /\ UNCHANGED <<slots, reqProd, reqCons, rspProd, rspCons, reqEvent, stage,
                   kind, frontVars, evtBack, waiting, kpc, krp,
                   prId, ringLock, tailEvent>>

\* async_free_reqs
AsyncFree(p) ==
    /\ prState[p] = "async"
    /\ prState' = [prState EXCEPT ![p] = "free"]
    /\ UNCHANGED <<slots, reqProd, reqCons, rspProd, rspCons, reqEvent, stage,
                   kind, frontVars, evtFront, evtBack, waiting, kthreadVars,
                   prId, ringLock, tailEvent>>

-----------------------------------------------------------------------------
Respond(p) ==
    \/ PushResponse(p) \/ TailCheck(p) \/ StoreReqEvent(p) \/ RecheckRequests(p)
    \/ NotifyWork(p) \/ NotifyFront(p) \/ AsyncFree(p)

Dispatch(p) == AnswerNow(p) \/ SubmitUrb(p)

Kthread == ScheduleWake \/ LoadProducer \/ OutOfRequests \/ LeaveLoop

FrontIrq == Interrupt \/ ConsumeResponse \/ FinalCheckResponses

Next ==
    \/ \E i \in Shadows, k \in Kinds : PutRequest(i, k)
    \/ FlushRing
    \/ FrontIrq
    \/ \E i \in Shadows : FinishUrb(i)
    \/ BackInterrupt
    \/ Kthread
    \/ \E p \in Preqs : TakeRequest(p)
    \/ \E p \in Preqs : Dispatch(p)
    \/ \E p \in Preqs : CompleteUrb(p)
    \/ \E p \in Preqs : Respond(p)

Spec == Init /\ [][Next]_vars

(* Interrupts are delivered, the kernel thread and the scheduled work run,  *)
(* and a started make_response finishes.  Nothing obliges the guest to push *)
(* a request, nor a device to complete a URB: an interrupt endpoint answers *)
(* when its user does something.                                            *)
DriverFairness ==
    /\ WF_vars(FlushRing) /\ WF_vars(FrontIrq) /\ WF_vars(BackInterrupt)
    /\ WF_vars(Kthread) /\ WF_vars(\E p \in Preqs : TakeRequest(p))
    /\ \A i \in Shadows : SF_vars(FinishUrb(i))
    /\ \A p \in Preqs : WF_vars(Dispatch(p)) /\ SF_vars(Respond(p))

DeviceFairness == \A p \in Preqs : WF_vars(CompleteUrb(p))

DriverSpec == Spec /\ DriverFairness
DeviceSpec == DriverSpec /\ DeviceFairness

-----------------------------------------------------------------------------
(* Safety *)

StageSet(s) == {i \in Shadows : stage[i] = s}

\* The four indices stay in order and never further apart than the ring is
\* long.  Nothing in vusb_put_ring compares them ("If we have a shadow
\* allocation, we know there is space on the ring"): the claim is that the
\* free shadows count the free slots.
RingSafe ==
    /\ rspCons <= rspProd
    /\ rspProd <= reqCons
    /\ reqCons <= reqProd
    /\ reqProd <= rspCons + N

\* What is between two indices is what its reader expects to find there, for
\* a request not read yet ...
RequestsIntact ==
    \A k \in reqCons .. reqProd - 1 :
        /\ slots[SlotOf(k)].what = "request"
        /\ stage[slots[SlotOf(k)].id] = "queued"
        /\ \A l \in reqCons .. reqProd - 1 :
               slots[SlotOf(k)].id = slots[SlotOf(l)].id => k = l

\* ... and for a response not read yet: its id names a shadow in use, whose
\* request has been answered once.  vusb_interrupt does
\* BUG_ON(!shadow->in_use) on it, and completes the URB it finds there.
ResponsesIntact ==
    \A k \in rspCons .. rspProd - 1 :
        /\ slots[SlotOf(k)].what = "response"
        /\ stage[slots[SlotOf(k)].id] = "answered"
        /\ \A l \in rspCons .. rspProd - 1 :
               slots[SlotOf(k)].id = slots[SlotOf(l)].id => k = l

\* A request lies on the ring unread only while something is on its way that
\* makes the kernel thread look: the push is not finished, a notification is
\* in flight, the thread is awake and has seen it, or (when the frontend does
\* not notify by itself) a request taken earlier is still to be answered, and
\* its make_response will look.
WakeupUnderway ==
    \/ fpc \in {"flush", "flushForced"} \/ evtBack \/ waiting
    \/ kpc = "load" \/ (kpc = "loop" /\ krp = reqProd)

AnswerOwed ==
    \/ kpc = "loop" /\ reqCons # krp
    \/ \E p \in Preqs : prState[p] \in
           {"dispatch", "device", "respond", "tail", "event", "recheck", "wake"}

NoStrandedRequest ==
    reqCons # reqProd => WakeupUnderway \/ (~AlwaysNotify /\ AnswerOwed)

\* The same for responses: one the frontend has not read always has the
\* interrupt handler running with it in sight, or a notification coming.
NoStrandedResponse ==
    rspCons # rspProd =>
        \/ evtFront \/ fpc = "irq"
        \/ \E p \in Preqs : prState[p] \in {"tail", "event", "recheck", "wake", "notify"}

(* The inductive invariant *)

\* Each index is the count of the requests that have got as far as it.
Counts ==
    /\ reqProd - reqCons = Cardinality(StageSet("queued"))
    /\ reqCons - rspProd = Cardinality(StageSet("taken"))
    /\ rspProd - rspCons = Cardinality(StageSet("answered"))

Unanswered == {p \in Preqs : prState[p] \in {"dispatch", "device", "respond"}}

\* A pending_req that is still to answer stands for a request of its own.
PreqsIntact ==
    \A p \in Unanswered :
        /\ prId[p] \in Shadows
        /\ stage[prId[p]] = "taken"
        /\ \A q \in Unanswered : prId[p] = prId[q] => p = q

\* A snapshot of a producer index is at most old, never wrong.
Snapshots ==
    /\ fpc = "irq" => rspCons <= frp /\ frp <= rspProd
    /\ kpc = "loop" => reqCons <= krp /\ krp <= reqProd

\* What makes the properties above inductive.
RingInv ==
    /\ TypeOK
    /\ Counts
    /\ RequestsIntact
    /\ ResponsesIntact
    /\ PreqsIntact
    /\ Snapshots

\* What makes the stranding invariants inductive.  Whoever holds usb_ring_lock
\* is between publishing its response and the end of the final check, ...
LockHeld ==
    \A p \in Preqs : prState[p] \in {"tail", "event", "recheck"} <=> ringLock = p

\* ... a request that has been taken has a pending_req that will answer it, ...
TakenOwed ==
    \A i \in Shadows : stage[i] = "taken" => \E p \in Unanswered : prId[p] = i

\* ... and req_event is only behind while requests are on the ring or somebody
\* is still to move it: whoever takes or answers a request later does.
EventMover ==
    \/ Unanswered # {} \/ (kpc = "loop" /\ reqCons # krp)
    \/ \E p \in Preqs : prState[p] \in {"tail", "event", "recheck"}

EventCurrent ==
    /\ \A p \in Preqs :
        /\ prState[p] = "event" => tailEvent = reqCons + 1 \/ Unanswered # {}
        /\ prState[p] = "recheck" => reqEvent = reqCons + 1 \/ Unanswered # {}
    /\ EventMover \/ reqEvent = reqCons + 1 \/ reqCons # reqProd

\* A push that is not finished will notify, if nothing else brings the thread
\* to look at it.
PushCovered ==
    reqCons # reqProd =>
        \/ evtBack \/ waiting \/ kpc = "load" \/ (kpc = "loop" /\ krp = reqProd)
        \/ fpc = "flushForced"
        \/ fpc = "flush" /\ (AlwaysNotify \/ reqEvent = reqProd)
        \/ ~AlwaysNotify /\ AnswerOwed

StrandInv ==
    LockHeld /\ TakenOwed /\ EventCurrent /\ PushCovered /\ NoStrandedResponse

(* Liveness *)

\* The backend takes every request the frontend pushed.
RequestTaken == \A i \in Shadows : stage[i] = "queued" ~> stage[i] # "queued"

\* Every response gets its shadow, and with it the slot, back.
ResponseReleases == \A i \in Shadows : stage[i] = "answered" ~> stage[i] = "free"

(* Refinement *)

\* The ids in the slots from index lo up to, not including, index hi.
IdsBetween(lo, hi) == [k \in 1 .. hi - lo |-> slots[SlotOf(lo + k - 1)].id]

Channel == INSTANCE VusbChannel WITH
    toBack <- IdsBetween(reqCons, reqProd),
    owned <- StageSet("taken"),
    toFront <- IdsBetween(rspCons, rspProd),
    held <- StageSet("finish")

\* The ring, its indices and its notifications implement the two queues:
\* nothing is lost, duplicated, overwritten or reordered on the way.
ImplementsChannel == Channel!Spec
=============================================================================
