--------------------------- MODULE VusbBackProofs ---------------------------
(***************************************************************************)
(* Proofs about VusbBack: for any number of devices, pending_reqs,         *)
(* segments and requests the invariant BackInv holds.  With it nothing of  *)
(* the two pools is lost or handed out twice, no request is answered       *)
(* twice, the count of each usbif_t is that of those who have not put it   *)
(* and, as long as GFP_ATOMIC memory lasts, no answered request has its    *)
(* grants mapped; segments run short only to indirect requests.  With      *)
(* ChannelInv on top of it the ring of each device is the pair of queues   *)
(* of VusbChannel.                                                         *)
(***************************************************************************)
EXTENDS VusbBackChannel, FiniteSetTheorems, SequenceTheorems, TLAPS

-----------------------------------------------------------------------------
(* Counting *)

\* A part of the pool is finite, and grows and shrinks by what is moved.
LEMMA PartOfPool ==
    ASSUME NEW S \in SUBSET Preqs
    PROVE  /\ IsFiniteSet(S) /\ Cardinality(S) \in Nat
           /\ Cardinality(S) <= Cardinality(Preqs) /\ Cardinality(Preqs) \in Nat
           /\ \A p \in S : Cardinality(S \ {p}) = Cardinality(S) - 1 /\ Cardinality(S) >= 1
           /\ \A p \in Preqs \ S : Cardinality(S \cup {p}) = Cardinality(S) + 1
<1>1. IsFiniteSet(S) /\ Cardinality(S) <= Cardinality(Preqs)
  BY BackAssumption, FS_Subset
<1>2. Cardinality(S) \in Nat /\ Cardinality(Preqs) \in Nat
  BY <1>1, BackAssumption, FS_CardinalityType
<1>3. ASSUME NEW p \in S
      PROVE  Cardinality(S \ {p}) = Cardinality(S) - 1 /\ Cardinality(S) >= 1
  <2>1. IsFiniteSet(S \ {p}) /\ Cardinality(S \ {p}) = Cardinality(S) - 1
    BY <1>1, FS_RemoveElement
  <2>2. Cardinality(S \ {p}) \in Nat
    BY <2>1, FS_CardinalityType
  <2> QED BY <1>2, <2>1, <2>2
<1>4. \A p \in Preqs \ S : Cardinality(S \cup {p}) = Cardinality(S) + 1
  BY <1>1, FS_AddElement
<1> QED BY <1>1, <1>2, <1>3, <1>4

\* One more indirect request.
LEMMA OneMoreExtra ==
    ASSUME NEW n \in Nat
    PROVE  Extra * (n + 1) = Extra * n + Extra /\ Extra * n \in Nat
  BY BackAssumption

\* What free_req gives back was taken.
LEMMA SegmentsFit ==
    ASSUME TypeOK, SegmentInv, NEW p \in Preqs
    PROVE  /\ segFree + filled[p] + extra[p] \in 0 .. NSegs
           /\ filled[p] = 0 => Cardinality(Filled \cup {p}) = Cardinality(Filled) + 1
           /\ extra[p] = 0 => Cardinality(Extended \cup {p}) = Cardinality(Extended) + 1
           /\ Cardinality(Filled \ {p}) = Cardinality(Filled) - filled[p]
           /\ Extra * Cardinality(Extended \ {p}) = Extra * Cardinality(Extended) - extra[p]
<1>1. /\ Filled \in SUBSET Preqs /\ Extended \in SUBSET Preqs
      /\ filled[p] \in 0 .. 1 /\ extra[p] \in {0, Extra}
      /\ segFree \in Nat /\ NSegs \in Nat /\ Extra \in Nat
  BY BackAssumption DEF Filled, Extended, TypeOK
<1>2. /\ Cardinality(Filled) \in Nat /\ Cardinality(Filled \ {p}) \in Nat
      /\ filled[p] = 0 => Cardinality(Filled \cup {p}) = Cardinality(Filled) + 1
      /\ Cardinality(Filled \ {p}) = Cardinality(Filled) - filled[p]
  <2>1. CASE filled[p] = 1
    <3>1. p \in Filled
      BY <2>1 DEF Filled
    <3>2. Cardinality(Filled) \in Nat /\ Cardinality(Filled \ {p}) = Cardinality(Filled) - 1
      BY <1>1, <3>1, PartOfPool
    <3>3. Cardinality(Filled \ {p}) \in Nat
      BY <1>1, PartOfPool
    <3>4. filled[p] # 0
      BY <2>1
    <3> QED BY <2>1, <3>2, <3>3, <3>4
  <2>2. CASE filled[p] = 0
    <3>1. p \in Preqs \ Filled /\ Filled \ {p} = Filled
      BY <2>2 DEF Filled
    <3>2. Cardinality(Filled) \in Nat /\ Cardinality(Filled \cup {p}) = Cardinality(Filled) + 1
      BY <1>1, <3>1, PartOfPool
    <3>3. Cardinality(Filled \ {p}) = Cardinality(Filled)
      BY <3>1
    <3> QED BY <2>2, <3>2, <3>3
  <2> QED BY <1>1, <2>1, <2>2
<1>3. /\ Cardinality(Extended) \in Nat /\ Cardinality(Extended \ {p}) \in Nat
      /\ extra[p] = 0 => Cardinality(Extended \cup {p}) = Cardinality(Extended) + 1
      /\ extra[p] # 0 => Cardinality(Extended) = Cardinality(Extended \ {p}) + 1
      /\ extra[p] = 0 => Extended \ {p} = Extended
  <2>1. CASE extra[p] # 0
    <3>1. p \in Extended
      BY <2>1 DEF Extended
    <3>2. Extended \ {p} \in SUBSET Preqs
      BY <1>1
    <3> QED BY <1>1, <2>1, <3>1, <3>2, PartOfPool
  <2>2. CASE extra[p] = 0
    <3>1. p \in Preqs \ Extended /\ Extended \ {p} = Extended
      BY <2>2 DEF Extended
    <3> QED BY <1>1, <2>2, <3>1, PartOfPool
  <2> QED BY <2>1, <2>2
<1>4. /\ Extra * Cardinality(Extended \ {p}) = Extra * Cardinality(Extended) - extra[p]
      /\ Extra * Cardinality(Extended) \in Nat
      /\ Extra * Cardinality(Extended \ {p}) \in Nat
  <2>1. CASE extra[p] # 0
    <3>1. /\ Cardinality(Extended \ {p}) \in Nat /\ extra[p] = Extra
          /\ Cardinality(Extended) = Cardinality(Extended \ {p}) + 1
      BY <1>1, <1>3, <2>1
    <3>2. /\ Extra * (Cardinality(Extended \ {p}) + 1)
               = Extra * Cardinality(Extended \ {p}) + Extra
          /\ Extra * Cardinality(Extended \ {p}) \in Nat
      BY <3>1, OneMoreExtra
    <3>3. Extra * Cardinality(Extended) = Extra * Cardinality(Extended \ {p}) + Extra
      BY <3>1, <3>2
    <3> DEFINE x == Extra * Cardinality(Extended)
               y == Extra * Cardinality(Extended \ {p})
    <3>4. x = y + Extra /\ y \in Nat
      BY <3>2, <3>3
    <3> HIDE DEF x, y
    <3>5. y = x - extra[p] /\ x \in Nat /\ y \in Nat
      BY <1>1, <3>1, <3>4
    <3> QED BY <3>5 DEF x, y
  <2>2. CASE extra[p] = 0
    <3>1. Extended \ {p} = Extended /\ Cardinality(Extended) \in Nat
      BY <1>3, <2>2
    <3> DEFINE x == Extra * Cardinality(Extended)
    <3>2. x \in Nat
      BY <3>1, OneMoreExtra
    <3>3. Extra * Cardinality(Extended \ {p}) = x
      BY <3>1
    <3> HIDE DEF x
    <3>4. Extra * Cardinality(Extended \ {p}) = x - extra[p]
      BY <2>2, <3>2, <3>3
    <3> QED BY <3>2, <3>3, <3>4 DEF x
  <2> QED BY <2>1, <2>2
<1>5. segFree + filled[p] + extra[p] \in 0 .. NSegs
  <2> DEFINE x == Extra * Cardinality(Extended)
             y == Extra * Cardinality(Extended \ {p})
             c == Cardinality(Filled)
             b == Cardinality(Filled \ {p})
  <2>1. /\ x \in Nat /\ y \in Nat /\ c \in Nat /\ b \in Nat
        /\ y = x - extra[p] /\ b = c - filled[p]
        /\ NSegs = segFree + c + x
    BY <1>2, <1>4 DEF SegmentInv
  <2> HIDE DEF x, y, c, b
  <2>2. extra[p] \in Nat
    BY <1>1
  <2> QED BY <1>1, <2>1, <2>2
<1> QED BY <1>2, <1>3, <1>4, <1>5

\* The URBs a usbif_t is kept for are some of the pool's.
LEMMA CountedSome ==
    ASSUME NEW d
    PROVE  /\ Cardinality(Counted(d)) \in Nat /\ Cardinality(Preqs) \in Nat
           /\ Cardinality(Counted(d)) <= Cardinality(Preqs)
           /\ Counted(d) \in SUBSET Preqs
  BY PartOfPool DEF Counted

-----------------------------------------------------------------------------
(* What a step leaves alone *)

\* A step that answers nothing and owes nothing new keeps the requests apart.
LEMMA RequestSame ==
    ASSUME RequestInv, UNCHANGED <<req, ring, answers>>,
           \A p \in Preqs : Owing(p)' => Owing(p)
    PROVE  RequestInv'
  BY DEF RequestInv

\* A step that takes and gives back no segment keeps their number.
LEMMA SegmentSame ==
    ASSUME SegmentInv, UNCHANGED <<segFree, filled, extra>>
    PROVE  SegmentInv'
  BY DEF SegmentInv, Filled, Extended

\* A step that moves no pending_req and no field of one keeps their places.
LEMMA PlaceSame ==
    ASSUME PlaceInv,
           UNCHANGED <<free, toFree, tmp, urb, req, usbif, nr, filled, extra, cur, bug>>
    PROVE  PlaceInv'
  BY DEF PlaceInv, Untouched, Held

\* A step that maps nothing, and after which the thread is still before the
\* submission where it was, keeps what is mapped.
LEMMA MappedSame ==
    ASSUME MappedInv, UNCHANGED <<urb, cur>>,
           \A p \in Preqs : mapped'[p] => mapped[p],
           \A d \in Devices : pc[d] \in {"indirect", "setup", "submit", "flush"}
                                => pc'[d] \in {"indirect", "setup", "submit", "flush"}
    PROVE  MappedInv'
  BY DEF MappedInv, Held

\* Who counts for a device stays when only pending_reqs without an URB in
\* the works change hands.
LEMMA CountedSame ==
    ASSUME \A p \in Preqs : \/ usbif'[p] = usbif[p] /\ urb'[p] = urb[p]
                            \/ /\ urb[p] \notin {"flight", "flushed", "answered"}
                               /\ urb'[p] \notin {"flight", "flushed", "answered"}
    PROVE  \A e : Counted(e)' = Counted(e)
  BY DEF Counted

\* The references of a device, when its thread neither begins nor ends, and
\* does not enter or leave the submission.
LEMMA ReferenceSame ==
    ASSUME ReferenceInv, UNCHANGED <<refcnt, teardown>>,
           \A e : Counted(e)' = Counted(e),
           \A d \in Devices : /\ pc'[d] \in {"new", "exited"} <=> pc[d] \in {"new", "exited"}
                              /\ pc'[d] = "exited" <=> pc[d] = "exited"
                              /\ pc'[d] = "submit" <=> pc[d] = "submit"
    PROVE  ReferenceInv'
<1>1. \A d \in Devices : Users(d)' = Users(d)
  BY DEF Users
<1> QED BY <1>1 DEF ReferenceInv, UsbifCounted

\* Steps that only touch timers, the list's flag, and what no invariant is
\* about.
LEMMA TimersAlone ==
    ASSUME BackInv, NEW p \in Preqs,
           TimerExpires(p) \/ TimeoutUsbIoOp(p) \/ TimeoutTooLate(p)
    PROVE  BackInv'
<1> USE DEF BackInv, poolVars, urbVars, threadVars, taskVars, devVars
<1>1. UNCHANGED <<ring, poolVars, urb, mapped, threadVars, taskVars, devVars,
                  answers, bug>>
  BY DEF TimerExpires, TimeoutUsbIoOp, TimeoutTooLate
<1>2. TypeOK'
  BY <1>1 DEF TypeOK, TimerExpires, TimeoutUsbIoOp, TimeoutTooLate
<1>3. RequestInv' /\ SegmentInv' /\ PlaceInv'
  BY <1>1, RequestSame, SegmentSame, PlaceSame DEF Owing, Held
<1>4. ThreadInv'
  BY <1>1 DEF ThreadInv, Untouched
<1>5. MappedInv' /\ ReferenceInv'
  BY <1>1 DEF MappedInv, ReferenceInv, Held, UsbifCounted, Users, Counted
<1> QED BY <1>2, <1>3, <1>4, <1>5

\* cancel_urb finds its victim, or does not, and usb_kill_urb returns.
LEMMA CancelSteps ==
    ASSUME BackInv, NEW d \in Devices, CancelUrb(d) \/ KillReturns(d)
    PROVE  BackInv'
<1> USE DEF BackInv, poolVars, urbVars, threadVars, taskVars, devVars, Goto
<1>1. /\ UNCHANGED <<ring, poolVars, urb, timer, stale, mapped, cur, taskVars,
                     devVars, answers, bug>>
      /\ pc[d] \in {"cancel", "kill"}
      /\ \E l \in {"kill", "respond"} : pc' = [pc EXCEPT ![d] = l]
  BY DEF CancelUrb, KillReturns
<1>2. TypeOK'
  <2>1. /\ unlinked' \in [Preqs -> BOOLEAN]
        /\ victim' \in [Devices -> Preqs \cup {NoPreq}]
    BY DEF TypeOK, CancelUrb, KillReturns, Anchored
  <2>2. PICK l \in {"kill", "respond"} : pc' = [pc EXCEPT ![d] = l]
    BY <1>1
  <2> QED BY <1>1, <2>1, <2>2 DEF TypeOK
<1>3. RequestInv' /\ SegmentInv' /\ PlaceInv'
  BY <1>1, RequestSame, SegmentSame, PlaceSame DEF Owing, Held, TypeOK
<1>4. ThreadInv'
  BY <1>1 DEF ThreadInv, Untouched, Holding, TypeOK
<1>5. MappedInv'
  BY <1>1, MappedSame DEF TypeOK
<1>6. ReferenceInv'
  <2>1. \A e : Counted(e)' = Counted(e)
    BY <1>1, CountedSame
  <2> QED BY <1>1, <2>1, ReferenceSame DEF TypeOK
<1> QED BY <1>2, <1>3, <1>4, <1>5, <1>6

\* ---- the life of a device

\* The thread of a device begins, is stopped and ends; the device goes. Each
\* takes or gives back one reference, or waits for the last one.
LEMMA LifeSteps ==
    ASSUME BackInv, NEW d \in Devices,
           \/ ThreadStart(d) \/ ThreadFlush(d) \/ ThreadExit(d)
           \/ KthreadStop(d) \/ Disconnect(d) \/ UsbifFree(d)
    PROVE  BackInv'
<1> USE DEF BackInv, poolVars, urbVars, threadVars, taskVars, devVars, Goto,
            UsbifGet, UsbifPut
<1>1. /\ UNCHANGED <<ring, poolVars, urb, timer, stale, mapped, cur, victim,
                     taskVars, answers, bug>>
      /\ \/ pc' = pc
         \/ /\ pc[d] \in {"new", "idle", "flushing"}
            /\ \E l \in {"idle", "flushing", "exited"} : pc' = [pc EXCEPT ![d] = l]
  BY DEF ThreadStart, ThreadFlush, ThreadExit, KthreadStop, Disconnect, UsbifFree
<1>2. ASSUME NEW e \in Devices
      PROVE  /\ Cardinality(Counted(e)) \in Nat /\ Cardinality(Preqs) \in Nat
             /\ Cardinality(Counted(e)) <= Cardinality(Preqs)
             /\ Counted(e)' = Counted(e)
             /\ refcnt[e] \in Nat
             /\ refcnt[e] = Users(e) + (IF teardown[e] = "no" THEN 1 ELSE 0)
  <2>1. Counted(e)' = Counted(e)
    BY <1>1 DEF Counted
  <2>2. refcnt[e] \in Nat
    BY DEF TypeOK
  <2>3. refcnt[e] = Users(e) + (IF teardown[e] = "no" THEN 1 ELSE 0)
    BY DEF ReferenceInv, UsbifCounted
  <2> QED BY <2>1, <2>2, <2>3, CountedSome
<1>3. ReferenceInv'
  <2>1. ASSUME NEW e \in Devices
        PROVE  /\ refcnt'[e] = Users(e)' + (IF teardown'[e] = "no" THEN 1 ELSE 0)
               /\ teardown'[e] = "freed" => Users(e)' = 0
               /\ teardown'[e] # "no" => pc'[e] = "exited"
    <3>1. CASE e # d
      <4>1. pc'[e] = pc[e] /\ refcnt'[e] = refcnt[e] /\ teardown'[e] = teardown[e]
        BY <1>1, <3>1 DEF TypeOK, ThreadStart, ThreadFlush, ThreadExit, KthreadStop,
           Disconnect, UsbifFree
      <4> QED BY <1>2, <4>1 DEF Users, ReferenceInv, UsbifCounted
    <3>2. CASE e = d
      <4>1. CASE ThreadStart(d)
        BY <1>2, <3>2, <4>1 DEF TypeOK, ThreadStart, Users, ReferenceInv, UsbifCounted
      <4>2. CASE ThreadFlush(d) \/ ThreadExit(d)
        BY <1>2, <3>2, <4>2 DEF TypeOK, ThreadFlush, ThreadExit, Users, ReferenceInv,
           UsbifCounted
      <4>3. CASE KthreadStop(d) \/ Disconnect(d) \/ UsbifFree(d)
        BY <1>2, <3>2, <4>3 DEF TypeOK, KthreadStop, Disconnect, UsbifFree, Users,
           ReferenceInv, UsbifCounted
      <4> QED BY <4>1, <4>2, <4>3
    <3> QED BY <3>1, <3>2
  <2> QED BY <2>1 DEF ReferenceInv, UsbifCounted
<1>4. TypeOK'
  <2>1. /\ unlinked' \in [Preqs -> BOOLEAN] /\ stop' \in [Devices -> BOOLEAN]
        /\ teardown' \in [Devices -> {"no", "waiting", "freed"}]
    BY DEF TypeOK, ThreadStart, ThreadFlush, ThreadExit, KthreadStop, Disconnect, UsbifFree
  <2>2. refcnt' \in [Devices -> 0 .. Cardinality(Preqs) + 2]
    <3>1. CASE ThreadStart(d)
      <4>1. refcnt[d] + 1 \in 0 .. Cardinality(Preqs) + 2
        BY <1>2, <3>1 DEF ThreadStart, Users
      <4> QED BY <3>1, <4>1 DEF TypeOK, ThreadStart
    <3>2. CASE ThreadExit(d) \/ Disconnect(d)
      <4>1. refcnt[d] - 1 \in 0 .. Cardinality(Preqs) + 2
        <5>1. refcnt[d] >= 1
          BY <1>2, <3>2 DEF ThreadExit, Disconnect, Users
        <5>2. refcnt[d] \in 0 .. Cardinality(Preqs) + 2
          BY DEF TypeOK
        <5> QED BY <1>2, <5>1, <5>2
      <4> QED BY <3>2, <4>1 DEF TypeOK, ThreadExit, Disconnect
    <3>3. CASE ThreadFlush(d) \/ KthreadStop(d) \/ UsbifFree(d)
      BY <3>3 DEF TypeOK, ThreadFlush, KthreadStop, UsbifFree
    <3> QED BY <3>1, <3>2, <3>3
  <2>3. pc' \in [Devices -> {"new", "idle", "dispatch", "indirect", "setup",
                             "submit", "flush", "cancel", "kill", "respond",
                             "release", "flushing", "exited"}]
    BY <1>1 DEF TypeOK
  <2> QED BY <1>1, <2>1, <2>2, <2>3 DEF TypeOK
<1>5. RequestInv' /\ SegmentInv' /\ PlaceInv'
  BY <1>1, RequestSame, SegmentSame, PlaceSame DEF Owing, Held, TypeOK, ThreadInv, Holding
<1>6. ThreadInv'
  BY <1>1 DEF ThreadInv, Untouched, Holding, TypeOK
<1>7. MappedInv'
  BY <1>1, MappedSame DEF TypeOK
<1> QED BY <1>3, <1>4, <1>5, <1>6, <1>7

\* ---- the thread and its pending_req

\* What the thread works on.
LEMMA Holder ==
    ASSUME TypeOK, ThreadInv, PlaceInv, NEW d \in Devices, pc[d] \in Holding
    PROVE  /\ cur[d] \in Preqs /\ cur[d] \notin free \cup toFree \cup tmp
           /\ urb[cur[d]] = "none" /\ req[cur[d]] \in Requests
           /\ Held(cur[d]) = {d} /\ cur[d] # NoPreq
           /\ \A e \in Devices : cur[e] = cur[d] => e = d
  BY DEF TypeOK, ThreadInv, PlaceInv, Held

\* alloc_req: the request moves from the ring to a pending_req that stood
\* for none.
LEMMA TakeRequestStep ==
    ASSUME BackInv, NEW d \in Devices, TakeRequest(d)
    PROVE  BackInv'
<1> USE DEF BackInv, poolVars, urbVars, threadVars, taskVars, devVars, Goto
<1>1. PICK p \in free : /\ free' = free \ {p}
                        /\ cur' = [cur EXCEPT ![d] = p]
                        /\ req' = [req EXCEPT ![p] = Head(ring[d])]
  BY DEF TakeRequest
<1>2. /\ pc[d] = "idle" /\ ring[d] # << >>
      /\ ring' = [ring EXCEPT ![d] = Tail(@)]
      /\ UNCHANGED <<segFree, usbif, nr, filled, extra, urbVars, victim,
                     taskVars, devVars, answers, bug>>
  BY DEF TakeRequest
<1>3. PICK next \in {"dispatch", "cancel", "respond"} : pc' = [pc EXCEPT ![d] = next]
  BY DEF TakeRequest
<1>4. /\ p \in Preqs /\ p # NoPreq /\ urb[p] = "none" /\ req[p] = NoReq /\ Untouched(p)
      /\ p \notin toFree \cup tmp /\ cur[d] = NoPreq
      /\ \A e \in Devices : cur[e] # p
  <2>1. p \in Preqs /\ p # NoPreq
    BY BackAssumption DEF TypeOK
  <2>2. urb[p] = "none" /\ req[p] = NoReq /\ Untouched(p)
    BY <2>1 DEF PlaceInv
  <2>3. p \notin toFree \cup tmp
    BY <2>1, <2>2 DEF PlaceInv
  <2>4. cur[d] = NoPreq
    BY <1>2 DEF ThreadInv, Holding
  <2>5. \A e \in Devices : cur[e] # p
    BY <2>1 DEF ThreadInv
  <2> QED BY <2>1, <2>2, <2>3, <2>4, <2>5
<1> DEFINE h == Head(ring[d])
<1>5. /\ h \in Requests /\ h # NoReq /\ Tail(ring[d]) \in Seq(Requests)
      /\ Len(Tail(ring[d])) = Len(ring[d]) - 1 /\ Len(ring[d]) \in Nat
      /\ \A k \in 1 .. Len(Tail(ring[d])) : Tail(ring[d])[k] = ring[d][k + 1]
      /\ h = ring[d][1] /\ DOMAIN ring[d] = 1 .. Len(ring[d])
      /\ DOMAIN Tail(ring[d]) = 1 .. Len(Tail(ring[d]))
      /\ Len(ring[d]) >= 1
  <2>1. ring[d] \in Seq(Requests)
    BY DEF TypeOK
  <2>2. /\ h \in Requests /\ Tail(ring[d]) \in Seq(Requests)
        /\ Len(Tail(ring[d])) = Len(ring[d]) - 1
        /\ \A k \in 1 .. Len(Tail(ring[d])) : Tail(ring[d])[k] = ring[d][k + 1]
    BY <1>2, <2>1, HeadTailProperties
  <2>3. Len(ring[d]) \in Nat \ {0}
    BY <1>2, <2>1, EmptySeq
  <2>4. DOMAIN ring[d] = 1 .. Len(ring[d]) /\ DOMAIN Tail(ring[d]) = 1 .. Len(Tail(ring[d]))
    BY <2>1, <2>2, LenProperties
  <2>5. h = ring[d][1]
    BY <1>2, <2>1
  <2>6. h # NoReq
    BY <2>2, BackAssumption
  <2> QED BY <2>2, <2>3, <2>4, <2>5, <2>6
<1> HIDE DEF h
<1>6. TypeOK'
  BY <1>1, <1>2, <1>3, <1>4, <1>5 DEF TypeOK, h
<1>7. ThreadInv'
  BY <1>1, <1>2, <1>3, <1>4, <1>5 DEF ThreadInv, Untouched, Holding, TypeOK, h
<1>8. PlaceInv'
  <2>1. \A q \in Preqs : Held(q)' = IF q = p THEN {d} ELSE Held(q)
    <3>1. \A e \in Devices : cur'[e] = IF e = d THEN p ELSE cur[e]
      BY <1>1 DEF TypeOK
    <3>2. Held(p)' = {d}
      BY <1>4, <3>1 DEF Held
    <3>3. \A q \in Preqs : q # p => Held(q)' = Held(q)
      BY <1>4, <3>1, BackAssumption DEF Held
    <3> QED BY <3>2, <3>3
  <2>2. \A q \in Preqs : q # p => req'[q] = req[q]
    BY <1>1 DEF TypeOK
  <2> QED BY <1>1, <1>2, <1>4, <2>1, <2>2 DEF PlaceInv, Untouched
<1>9. SegmentInv'
  BY <1>2, SegmentSame
<1>10. RequestInv'
  <2>1. /\ DevOf[h] = d /\ answers[h] = 0 /\ \A q \in Preqs : req[q] # h
        /\ \A k \in DOMAIN ring[d] : ring[d][k] = h => k = 1
    BY <1>5 DEF RequestInv
  <2>2. \A q \in Preqs : req'[q] = IF q = p THEN h ELSE req[q]
    BY <1>1, <1>4 DEF TypeOK, h
  <2>3. \A q, r \in Preqs : req'[q] = req'[r] /\ req'[q] # NoReq => q = r
    BY <2>1, <2>2 DEF RequestInv
  <2>4. ASSUME NEW e \in Devices, NEW k \in DOMAIN ring'[e]
        PROVE  /\ DevOf[ring'[e][k]] = e /\ answers'[ring'[e][k]] = 0
               /\ \A q \in Preqs : req'[q] # ring'[e][k]
               /\ \A l \in DOMAIN ring'[e] : ring'[e][k] = ring'[e][l] => k = l
    <3>1. CASE e # d
      <4>1. ring'[e] = ring[e]
        BY <1>2, <3>1 DEF TypeOK
      <4>2. /\ DevOf[ring[e][k]] = e /\ answers[ring[e][k]] = 0
            /\ \A q \in Preqs : req[q] # ring[e][k]
            /\ \A l \in DOMAIN ring[e] : ring[e][k] = ring[e][l] => k = l
        BY <2>4, <4>1 DEF RequestInv
      <4>3. \A q \in Preqs : req'[q] # ring[e][k]
        BY <2>1, <2>2, <3>1, <4>2
      <4> QED BY <1>2, <4>1, <4>2, <4>3
    <3>2. CASE e = d
      <4>1. ring'[e] = Tail(ring[d]) /\ DOMAIN ring'[e] = 1 .. Len(Tail(ring[d]))
        BY <1>2, <1>5, <3>2 DEF TypeOK
      <4>2. \A l \in DOMAIN ring'[e] : /\ ring'[e][l] = ring[d][l + 1]
                                       /\ l \in Nat /\ l + 1 \in DOMAIN ring[d] /\ l + 1 # 1
        BY <1>5, <4>1
      <4>3. ring[d][k + 1] # h
        BY <2>1, <2>4, <4>2
      <4>4. \A l \in DOMAIN ring'[e] : ring[d][k + 1] = ring[d][l + 1] => k + 1 = l + 1
        BY <2>4, <4>2 DEF RequestInv
      <4>5. \A l \in DOMAIN ring'[e] : ring'[e][k] = ring'[e][l] => k = l
        BY <2>4, <4>2, <4>4
      <4>6. /\ ring'[e][k] = ring[d][k + 1] /\ k + 1 \in DOMAIN ring[d]
        BY <2>4, <4>2
      <4>7. /\ DevOf[ring[d][k + 1]] = d /\ answers[ring[d][k + 1]] = 0
            /\ \A q \in Preqs : req[q] # ring[d][k + 1]
        BY <4>6 DEF RequestInv
      <4>8. \A q \in Preqs : req'[q] # ring[d][k + 1]
        BY <2>2, <4>3, <4>7
      <4>9. DevOf[ring'[e][k]] = e /\ answers'[ring'[e][k]] = 0
        BY <1>2, <3>2, <4>6, <4>7
      <4>10. \A q \in Preqs : req'[q] # ring'[e][k]
        BY <4>6, <4>8
      <4> QED BY <4>5, <4>9, <4>10
    <3> QED BY <3>1, <3>2
  <2>5. \A q \in Preqs : Owing(q)' => answers'[req'[q]] = 0
    <3>1. \A q \in Preqs : q # p /\ Owing(q)' => Owing(q)
      BY <1>1, <1>2, <1>3, <1>4 DEF Owing, Held, TypeOK
    <3> QED BY <1>2, <2>1, <2>2, <3>1 DEF RequestInv
  <2> QED BY <1>2, <2>3, <2>4, <2>5 DEF RequestInv
<1>11. MappedInv'
  <2>1. \A e \in Devices : e # d => cur'[e] = cur[e] /\ pc'[e] = pc[e]
    BY <1>1, <1>3 DEF TypeOK
  <2> QED BY <1>2, <2>1 DEF MappedInv, Held
<1>12. ReferenceInv'
  <2>1. \A e : Counted(e)' = Counted(e)
    BY <1>2, CountedSame
  <2> QED BY <1>2, <1>3, <2>1, ReferenceSame DEF TypeOK
<1> QED BY <1>6, <1>7, <1>8, <1>9, <1>10, <1>11, <1>12

\* The first half of dispatch_usb_io takes a segment or fails.
LEMMA PopulateStep ==
    ASSUME BackInv, NEW d \in Devices, Populate(d)
    PROVE  BackInv'
<1> USE DEF BackInv, poolVars, urbVars, threadVars, taskVars, devVars, Goto
<1> DEFINE p == cur[d]
<1>1. /\ pc[d] = "dispatch"
      /\ usbif' = [usbif EXCEPT ![p] = d]
      /\ nr' = [nr EXCEPT ![p] = 1]
      /\ UNCHANGED <<ring, free, req, extra, urb, unlinked, timer, stale, cur,
                     victim, taskVars, devVars, answers, bug>>
  BY DEF Populate
<1>2. /\ p \in Preqs /\ p \notin free /\ urb[p] = "none" /\ p # NoPreq
      /\ req[p] \in Requests /\ Held(p) = {d} /\ \A e \in Devices : cur[e] = p => e = d
      /\ Untouched(p)
  BY <1>1, Holder DEF Holding, ThreadInv
<1>3. PICK l \in {"respond", "flush", "indirect", "setup"} :
        /\ pc' = [pc EXCEPT ![d] = l]
        /\ \/ mapped' = mapped
           \/ mapped' = [mapped EXCEPT ![p] = TRUE] /\ l \in {"indirect", "setup"}
  BY DEF Populate
<1>4. \/ filled' = filled /\ segFree' = segFree
      \/ /\ segFree >= 1 /\ segFree' = segFree - 1
         /\ filled' = [filled EXCEPT ![p] = 1]
  BY DEF Populate
<1> HIDE DEF p
<1>5. TypeOK'
  <2>1. segFree' \in 0 .. NSegs
    <3>1. NSegs \in Nat /\ segFree \in 0 .. NSegs
      BY BackAssumption DEF TypeOK
    <3> QED BY <1>4, <3>1
  <2>3. filled' \in [Preqs -> 0 .. 1]
    <3>1. filled \in [Preqs -> 0 .. 1] /\ 1 \in 0 .. 1
      BY DEF TypeOK
    <3> QED BY <1>4, <3>1
  <2>4. nr' \in [Preqs -> 0 .. 1]
    <3>1. nr \in [Preqs -> 0 .. 1] /\ 1 \in 0 .. 1
      BY DEF TypeOK
    <3> QED BY <1>1, <3>1
  <2>2. mapped' \in [Preqs -> BOOLEAN] /\ usbif' \in [Preqs -> Devices \cup {NoDev}]
    BY <1>1, <1>2, <1>3 DEF TypeOK
  <2> QED BY <1>1, <1>3, <2>1, <2>2, <2>3, <2>4 DEF TypeOK
<1>6. ThreadInv'
  BY <1>1, <1>2, <1>3, <1>4 DEF ThreadInv, Untouched, Holding, TypeOK, p
<1>7. PlaceInv'
  <2>1. \A q \in Preqs : q # p => /\ nr'[q] = nr[q] /\ filled'[q] = filled[q]
                                  /\ usbif'[q] = usbif[q]
    BY <1>1, <1>4 DEF TypeOK
  <2> QED BY <1>1, <1>2, <2>1 DEF PlaceInv, Untouched, Held
<1>8. SegmentInv'
  <2>1. CASE filled' = filled /\ segFree' = segFree
    BY <1>1, <2>1, SegmentSame
  <2>2. CASE segFree >= 1 /\ segFree' = segFree - 1 /\ filled' = [filled EXCEPT ![p] = 1]
    <3>1. Filled' = Filled \cup {p} /\ Extended' = Extended
      BY <1>1, <1>2, <2>2 DEF Filled, Extended, TypeOK
    <3>2. Cardinality(Filled \cup {p}) = Cardinality(Filled) + 1
      BY <1>2, SegmentsFit DEF Untouched
    <3>3. Cardinality(Filled) \in Nat
      BY PartOfPool DEF Filled
    <3>4. Extra * Cardinality(Extended) \in Nat
      BY PartOfPool, OneMoreExtra DEF Extended
    <3> QED BY <2>2, <3>1, <3>2, <3>3, <3>4 DEF SegmentInv, TypeOK
  <2> QED BY <1>4, <2>1, <2>2
<1>9. RequestInv'
  BY <1>1, <1>2, <1>3, RequestSame DEF Owing, Held, TypeOK
<1>10. MappedInv'
  <2>1. \A e \in Devices : e # d => pc'[e] = pc[e]
    BY <1>3 DEF TypeOK
  <2>2. \A q \in Preqs : mapped'[q] => mapped[q] \/ (q = p /\ l \in {"indirect", "setup"})
    BY <1>3 DEF TypeOK
  <2>3. pc'[d] = l
    BY <1>3 DEF TypeOK
  <2>4. d \in Held(p)'
    BY <1>1 DEF Held, p
  <2> QED BY <1>1, <1>2, <2>1, <2>2, <2>3, <2>4 DEF MappedInv, Held
<1>11. ReferenceInv'
  <2>1. \A e : Counted(e)' = Counted(e)
    BY <1>1, <1>2, CountedSame DEF TypeOK
  <2> QED BY <1>1, <1>3, <2>1, ReferenceSame DEF TypeOK
<1> QED BY <1>5, <1>6, <1>7, <1>8, <1>9, <1>10, <1>11

\* populate_indirect takes the extra segments or none.
LEMMA SetupIndirectStep ==
    ASSUME BackInv, NEW d \in Devices, SetupIndirect(d)
    PROVE  BackInv'
<1> USE DEF BackInv, poolVars, urbVars, threadVars, taskVars, devVars, Goto
<1> DEFINE p == cur[d]
           n == ExtraPages(req[p])
<1>1. /\ pc[d] = "indirect"
      /\ UNCHANGED <<ring, free, req, usbif, nr, filled, urbVars, cur, victim,
                     taskVars, devVars, answers, bug>>
  BY DEF SetupIndirect
<1>2. /\ p \in Preqs /\ p \notin free /\ urb[p] = "none" /\ p # NoPreq
      /\ extra[p] = 0 /\ n \in {0, Extra} /\ n \in Nat
  BY <1>1, Holder, BackAssumption DEF Holding, ThreadInv, ExtraPages
<1>3. PICK l \in {"flush", "setup"} : pc' = [pc EXCEPT ![d] = l]
  BY DEF SetupIndirect
<1>4. \/ segFree' = segFree /\ extra' = extra
      \/ /\ segFree >= n /\ segFree' = segFree - n
         /\ extra' = [extra EXCEPT ![p] = n]
  BY <1>2 DEF SetupIndirect, TypeOK
<1> HIDE DEF p, n
<1>5. TypeOK'
  <2>1. segFree' \in 0 .. NSegs
    <3>1. NSegs \in Nat /\ segFree \in 0 .. NSegs
      BY BackAssumption DEF TypeOK
    <3> QED BY <1>2, <1>4, <3>1
  <2>2. extra' \in [Preqs -> {0, Extra}]
    BY <1>2, <1>4 DEF TypeOK
  <2> QED BY <1>1, <1>3, <2>1, <2>2 DEF TypeOK
<1>6. ThreadInv'
  BY <1>1, <1>2, <1>3, <1>4 DEF ThreadInv, Untouched, Holding, TypeOK, p
<1>7. PlaceInv'
  <2>1. \A q \in Preqs : q # p => extra'[q] = extra[q]
    BY <1>4 DEF TypeOK
  <2> QED BY <1>1, <1>2, <2>1 DEF PlaceInv, Untouched, Held
<1>8. SegmentInv'
  <2>1. CASE extra' = extra /\ segFree' = segFree
    BY <1>1, <2>1, SegmentSame
  <2>2. CASE n = 0 /\ segFree' = segFree - n /\ extra' = [extra EXCEPT ![p] = n]
    BY <1>1, <1>2, <2>2, SegmentSame DEF TypeOK
  <2>3. CASE n # 0 /\ segFree' = segFree - n /\ extra' = [extra EXCEPT ![p] = n]
    <3>1. Extended' = Extended \cup {p} /\ Filled' = Filled /\ n = Extra
      BY <1>1, <1>2, <2>3 DEF Filled, Extended, TypeOK
    <3>2. Cardinality(Extended \cup {p}) = Cardinality(Extended) + 1
      BY <1>2, SegmentsFit
    <3>3. Cardinality(Extended) \in Nat /\ Cardinality(Filled) \in Nat
      BY PartOfPool DEF Extended, Filled
    <3> DEFINE x == Extra * Cardinality(Extended)
               y == Extra * (Cardinality(Extended) + 1)
    <3>4. y = x + Extra /\ x \in Nat
      BY <3>3, OneMoreExtra
    <3>5. Extra * Cardinality(Extended)' = y
      BY <3>1, <3>2
    <3>6. NSegs = segFree + Cardinality(Filled) + x
      BY DEF SegmentInv
    <3> HIDE DEF x, y
    <3>7. NSegs = segFree' + Cardinality(Filled) + y
      BY <1>2, <2>3, <3>1, <3>3, <3>4, <3>6 DEF TypeOK
    <3> QED BY <3>1, <3>5, <3>7 DEF SegmentInv
  <2> QED BY <1>4, <2>1, <2>2, <2>3
<1>9. RequestInv'
  BY <1>1, <1>2, <1>3, RequestSame DEF Owing, Held, TypeOK
<1>10. MappedInv'
  BY <1>1, <1>3, MappedSame DEF TypeOK
<1>11. ReferenceInv'
  <2>1. \A e : Counted(e)' = Counted(e)
    BY <1>1, CountedSame
  <2> QED BY <1>1, <1>3, <2>1, ReferenceSame DEF TypeOK
<1> QED BY <1>5, <1>6, <1>7, <1>8, <1>9, <1>10, <1>11

\* setup_urb takes a reference: there is room for it in the count, since
\* this pending_req is not yet one of those counted.
LEMMA SetupUrbStep ==
    ASSUME BackInv, NEW d \in Devices, SetupUrb(d)
    PROVE  BackInv'
<1> USE DEF BackInv, poolVars, urbVars, threadVars, taskVars, devVars, Goto, UsbifGet
<1> DEFINE p == cur[d]
<1>1. /\ pc[d] = "setup"
      /\ UNCHANGED <<ring, poolVars, urb, unlinked, stale, mapped, cur, victim,
                     taskVars, stop, teardown, answers, bug>>
  BY DEF SetupUrb
<1>2. p \in Preqs /\ urb[p] = "none" /\ p # NoPreq
  BY <1>1, Holder DEF Holding
<1>3. \/ pc' = [pc EXCEPT ![d] = "flush"] /\ UNCHANGED <<refcnt, timer>>
      \/ /\ pc' = [pc EXCEPT ![d] = "submit"]
         /\ refcnt' = [refcnt EXCEPT ![d] = @ + 1]
  BY DEF SetupUrb
<1>4. timer' \in [Preqs -> {"off", "armed", "firing"}]
  BY DEF SetupUrb, TypeOK
<1>5. PICK l \in {"flush", "submit"} : pc' = [pc EXCEPT ![d] = l]
  BY <1>3
<1> HIDE DEF p
<1>6. \A e : Counted(e)' = Counted(e)
  BY <1>1, CountedSame
<1>7. /\ refcnt[d] \in Nat /\ refcnt[d] + 1 <= Cardinality(Preqs) + 2
      /\ Cardinality(Preqs) \in Nat
  <2>1. p \in Preqs \ Counted(d)
    BY <1>2 DEF Counted
  <2>2. Counted(d) \cup {p} \in SUBSET Preqs
    BY <1>2, CountedSome
  <2>3. /\ Cardinality(Counted(d) \cup {p}) <= Cardinality(Preqs)
        /\ Cardinality(Preqs) \in Nat
    BY <2>2, PartOfPool
  <2>4. Cardinality(Counted(d) \cup {p}) = Cardinality(Counted(d)) + 1
    <3>1. Counted(d) \in SUBSET Preqs
      BY CountedSome
    <3> QED BY <2>1, <3>1, PartOfPool
  <2>5. Cardinality(Counted(d)) \in Nat
    BY CountedSome
  <2>6. /\ Users(d) = Cardinality(Counted(d)) + 1
        /\ refcnt[d] = Users(d) + (IF teardown[d] = "no" THEN 1 ELSE 0)
    BY <1>1, <2>5 DEF Users, ReferenceInv, UsbifCounted
  <2> QED BY <2>3, <2>4, <2>5, <2>6
<1>8. TypeOK'
  <2>1. refcnt' \in [Devices -> 0 .. Cardinality(Preqs) + 2]
    <3>1. refcnt[d] + 1 \in 0 .. Cardinality(Preqs) + 2
      BY <1>7
    <3> QED BY <1>3, <3>1 DEF TypeOK
  <2> QED BY <1>1, <1>4, <1>5, <2>1 DEF TypeOK
<1>9. ThreadInv'
  BY <1>1, <1>2, <1>5 DEF ThreadInv, Untouched, Holding, TypeOK, p
<1>10. PlaceInv' /\ SegmentInv'
  BY <1>1, PlaceSame, SegmentSame
<1>11. RequestInv'
  BY <1>1, <1>5, RequestSame DEF Owing, Held, TypeOK
<1>12. MappedInv'
  BY <1>1, <1>5, MappedSame DEF TypeOK
<1>13. ReferenceInv'
  <2>1. CASE pc' = [pc EXCEPT ![d] = "flush"] /\ UNCHANGED <<refcnt, timer>>
    BY <1>1, <1>6, <2>1, ReferenceSame DEF TypeOK
  <2>2. CASE pc' = [pc EXCEPT ![d] = "submit"] /\ refcnt' = [refcnt EXCEPT ![d] = @ + 1]
    <3>1. ASSUME NEW e \in Devices
          PROVE  /\ refcnt'[e] = Users(e)' + (IF teardown'[e] = "no" THEN 1 ELSE 0)
                 /\ teardown'[e] = "freed" => Users(e)' = 0
                 /\ teardown'[e] # "no" => pc'[e] = "exited"
      <4>1. Cardinality(Counted(e)) \in Nat /\ Counted(e)' = Counted(e)
        BY <1>6, CountedSome
      <4>2. CASE e # d
        <5>1. pc'[e] = pc[e] /\ refcnt'[e] = refcnt[e] /\ teardown'[e] = teardown[e]
          BY <1>1, <2>2, <4>2 DEF TypeOK
        <5> QED BY <4>1, <5>1 DEF Users, ReferenceInv, UsbifCounted
      <4>3. CASE e = d
        <5>1. pc'[d] = "submit" /\ refcnt'[d] = refcnt[d] + 1 /\ teardown'[d] = teardown[d]
          BY <1>1, <2>2 DEF TypeOK
        <5> QED BY <1>1, <1>7, <4>1, <4>3, <5>1 DEF Users, ReferenceInv, UsbifCounted
      <4> QED BY <4>2, <4>3
    <3> QED BY <3>1 DEF ReferenceInv, UsbifCounted
  <2> QED BY <1>3, <2>1, <2>2
<1> QED BY <1>8, <1>9, <1>10, <1>11, <1>12, <1>13

\* A submission hands the pending_req and its reference to the completion.
LEMMA SubmitStep ==
    ASSUME BackInv, NEW d \in Devices, Submit(d)
    PROVE  BackInv'
<1> USE DEF BackInv, poolVars, urbVars, threadVars, taskVars, devVars, Goto, LetGo
<1>0. PICK p \in Preqs : p = cur[d]
  <2>1. pc[d] \in Holding
    BY DEF Submit, Holding
  <2> QED BY <2>1, Holder
<1>1. /\ pc[d] = "submit" /\ pc' = [pc EXCEPT ![d] = "idle"]
      /\ urb' = [urb EXCEPT ![p] = "flight"]
      /\ cur' = [cur EXCEPT ![d] = NoPreq]
      /\ UNCHANGED <<ring, poolVars, unlinked, timer, stale, mapped, victim,
                     taskVars, devVars, answers, bug>>
  BY <1>0 DEF Submit
<1>2. /\ p \in Preqs /\ p \notin free \cup toFree \cup tmp /\ urb[p] = "none"
      /\ p # NoPreq /\ req[p] \in Requests /\ req[p] # NoReq /\ Held(p) = {d}
      /\ \A e \in Devices : cur[e] = p => e = d
      /\ usbif[p] = d
  BY <1>0, <1>1, Holder, BackAssumption DEF Holding, ThreadInv
<1>3. /\ \A q \in Preqs : urb'[q] = IF q = p THEN "flight" ELSE urb[q]
      /\ \A e \in Devices : cur'[e] = IF e = d THEN NoPreq ELSE cur[e]
      /\ \A e \in Devices : pc'[e] = IF e = d THEN "idle" ELSE pc[e]
  BY <1>1, <1>2 DEF TypeOK
<1>4. \A q \in Preqs : Held(q)' = IF q = p THEN {} ELSE Held(q)
  <2>1. Held(p)' = {}
    BY <1>2, <1>3 DEF Held
  <2>2. \A q \in Preqs : q # p => Held(q)' = Held(q)
    BY <1>0, <1>3, BackAssumption DEF Held
  <2> QED BY <2>1, <2>2
<1>5. TypeOK'
  BY <1>1, <1>2 DEF TypeOK
<1>6. ThreadInv'
  BY <1>1, <1>2, <1>3 DEF ThreadInv, Untouched, Holding, TypeOK
<1>7. PlaceInv'
  <2>1. usbif[p] # NoDev
    BY <1>2, BackAssumption
  <2> QED BY <1>1, <1>2, <1>3, <1>4, <2>1 DEF PlaceInv, Untouched
<1>8. SegmentInv'
  BY <1>1, SegmentSame
<1>9. RequestInv'
  <2>1. Owing(p)
    BY <1>1, <1>2 DEF Owing
  <2>2. \A q \in Preqs : q # p /\ Owing(q)' => Owing(q)
    BY <1>2, <1>3, <1>4 DEF Owing, Held
  <2> QED BY <1>1, <2>1, <2>2, RequestSame
<1>10. MappedInv'
  <2>1. \A q \in Preqs : q # p => \A e \in Held(q) : e # d /\ pc'[e] = pc[e]
    BY <1>0, <1>3 DEF Held
  <2> QED BY <1>1, <1>3, <1>4, <2>1 DEF MappedInv
<1>11. ReferenceInv'
  <2>1. ASSUME NEW e \in Devices
        PROVE  Users(e)' = Users(e)
    <3>1. CASE e # d
      <4>1. Counted(e)' = Counted(e)
        BY <1>1, <1>2, <1>3, <3>1 DEF Counted
      <4> QED BY <1>3, <3>1, <4>1 DEF Users
    <3>2. CASE e = d
      <4>1. Counted(d)' = Counted(d) \cup {p} /\ p \in Preqs \ Counted(d)
        BY <1>1, <1>2, <1>3 DEF Counted
      <4>2. Cardinality(Counted(d) \cup {p}) = Cardinality(Counted(d)) + 1
        <5>1. Counted(d) \in SUBSET Preqs
          BY CountedSome
        <5> QED BY <4>1, <5>1, PartOfPool
      <4>3. Cardinality(Counted(d)) \in Nat
        BY CountedSome
      <4>4. pc'[d] = "idle"
        BY <1>3
      <4>5. Users(d)' = Cardinality(Counted(d)) + 1 + 1
        BY <4>1, <4>2, <4>3, <4>4 DEF Users
      <4>6. Users(d) = Cardinality(Counted(d)) + 1 + 1
        BY <1>1, <4>3 DEF Users
      <4> QED BY <3>2, <4>5, <4>6
    <3> QED BY <3>1, <3>2
  <2>2. \A e \in Devices : teardown[e] # "no" => pc'[e] = "exited"
    BY <1>1, <1>3 DEF ReferenceInv
  <2> QED BY <1>1, <2>1, <2>2 DEF ReferenceInv, UsbifCounted
<1> QED BY <1>5, <1>6, <1>7, <1>8, <1>9, <1>10, <1>11

\* One user of a usbif_t less: as many references less.
LEMMA OneUserLess ==
    ASSUME TypeOK, ReferenceInv, NEW d \in Devices,
           refcnt' = [refcnt EXCEPT ![d] = @ - 1],
           Users(d) >= 1, Users(d)' = Users(d) - 1, Users(d) \in Nat,
           \A e \in Devices : e # d => Users(e)' = Users(e),
           \A e \in Devices : pc[e] = "exited" => pc'[e] = "exited",
           UNCHANGED teardown
    PROVE  ReferenceInv' /\ refcnt' \in [Devices -> 0 .. Cardinality(Preqs) + 2]
<1>1. \A e \in Devices : refcnt'[e] = IF e = d THEN refcnt[e] - 1 ELSE refcnt[e]
  BY DEF TypeOK
<1>2. refcnt[d] = Users(d) + (IF teardown[d] = "no" THEN 1 ELSE 0)
  BY DEF ReferenceInv, UsbifCounted
<1>3. teardown[d] # "freed"
  BY DEF ReferenceInv, UsbifCounted
<1>4. refcnt'[d] = Users(d)' + (IF teardown'[d] = "no" THEN 1 ELSE 0)
  BY <1>1, <1>2
<1>5. ReferenceInv'
  BY <1>1, <1>3, <1>4 DEF ReferenceInv, UsbifCounted
<1>6. refcnt[d] - 1 \in 0 .. Cardinality(Preqs) + 2
  <2>1. refcnt[d] \in 0 .. Cardinality(Preqs) + 2 /\ Cardinality(Preqs) \in Nat
    BY CountedSome DEF TypeOK
  <2> QED BY <1>2, <2>1
<1>7. refcnt' \in [Devices -> 0 .. Cardinality(Preqs) + 2]
  BY <1>6 DEF TypeOK
<1> QED BY <1>5, <1>7

\* A submission that fails gives the reference back.
LEMMA SubmitFailsStep ==
    ASSUME BackInv, NEW d \in Devices, SubmitFails(d)
    PROVE  BackInv'
<1> USE DEF BackInv, poolVars, urbVars, threadVars, taskVars, devVars, Goto, UsbifPut
<1>1. /\ pc[d] = "submit" /\ pc' = [pc EXCEPT ![d] = "flush"]
      /\ refcnt' = [refcnt EXCEPT ![d] = @ - 1]
      /\ UNCHANGED <<ring, poolVars, urb, unlinked, stale, mapped, cur, victim,
                     taskVars, stop, teardown, answers, bug>>
  BY DEF SubmitFails
<1>2. timer' \in [Preqs -> {"off", "armed", "firing"}]
  BY DEF SubmitFails, CancelTimeout, TypeOK
<1>3. \A e \in Devices : pc'[e] = IF e = d THEN "flush" ELSE pc[e]
  BY <1>1 DEF TypeOK
<1>4. \A e : Counted(e)' = Counted(e)
  BY <1>1, CountedSame
<1>5. /\ Users(d) \in Nat /\ Users(d) >= 1 /\ Users(d)' = Users(d) - 1
      /\ \A e \in Devices : e # d => Users(e)' = Users(e)
  <2>1. Cardinality(Counted(d)) \in Nat
    BY CountedSome
  <2>2. Users(d) = Cardinality(Counted(d)) + 1 + 1
    BY <1>1, <2>1 DEF Users
  <2>3. pc'[d] = "flush"
    BY <1>3
  <2>4. Users(d)' = Cardinality(Counted(d)) + 1
    BY <1>4, <2>1, <2>3 DEF Users
  <2>5. \A e \in Devices : e # d => Users(e)' = Users(e)
    BY <1>3, <1>4 DEF Users
  <2> QED BY <2>1, <2>2, <2>4, <2>5
<1>6. ReferenceInv' /\ refcnt' \in [Devices -> 0 .. Cardinality(Preqs) + 2]
  BY <1>1, <1>3, <1>5, OneUserLess
<1>7. TypeOK'
  BY <1>1, <1>2, <1>6 DEF TypeOK
<1>8. ThreadInv'
  BY <1>1, <1>3 DEF ThreadInv, Untouched, Holding, TypeOK
<1>9. PlaceInv' /\ SegmentInv'
  BY <1>1, PlaceSame, SegmentSame
<1>10. RequestInv'
  BY <1>1, <1>3, RequestSame DEF Owing, Held, TypeOK
<1>11. MappedInv'
  BY <1>1, <1>3, MappedSame
<1> QED BY <1>6, <1>7, <1>8, <1>9, <1>10, <1>11

\* An answer to what is owed is its only one.
LEMMA AnswerOwed ==
    ASSUME TypeOK, RequestInv, NEW p \in Preqs, Owing(p), ~Owing(p)',
           req[p] \in Requests, UNCHANGED <<req, ring>>, MakeResponse(req[p]),
           \A q \in Preqs : Owing(q)' => Owing(q)
    PROVE  RequestInv' /\ answers' \in [Requests -> 0 .. 2]
<1>1. answers[req[p]] = 0
  BY DEF RequestInv
<1>2. \A r \in Requests : answers'[r] = IF r = req[p] THEN 1 ELSE answers[r]
  BY <1>1 DEF TypeOK, MakeResponse
<1>3. answers' \in [Requests -> 0 .. 2]
  <2>1. answers' = [answers EXCEPT ![req[p]] = 1]
    BY <1>1 DEF MakeResponse
  <2>2. 1 \in 0 .. 2
    OBVIOUS
  <2> QED BY <2>1, <2>2 DEF TypeOK
<1>4. \A r \in Requests : answers'[r] <= 1
  BY <1>2 DEF RequestInv
<1>5. ASSUME NEW d \in Devices, NEW k \in DOMAIN ring[d]
      PROVE  answers'[ring[d][k]] = 0
  <2>1. ring[d][k] \in Requests
    <3>1. ring[d] \in Seq(Requests)
      BY DEF TypeOK
    <3> QED BY <3>1, ElementOfSeq, LenProperties
  <2>2. ring[d][k] # req[p] /\ answers[ring[d][k]] = 0
    BY DEF RequestInv
  <2> QED BY <1>2, <2>1, <2>2
<1>6. ASSUME NEW q \in Preqs, Owing(q)'
      PROVE  answers'[req[q]] = 0
  <2>1. q # p /\ Owing(q) /\ answers[req[q]] = 0
    BY <1>6 DEF RequestInv
  <2>2. req[p] # NoReq
    BY BackAssumption
  <2>3. req[q] # req[p]
    BY <2>1, <2>2 DEF RequestInv
  <2>4. CASE req[q] \in Requests
    BY <1>2, <2>1, <2>3, <2>4
  <2>5. CASE req[q] \notin Requests
    BY <2>1, <2>3, <2>5 DEF MakeResponse, TypeOK
  <2> QED BY <2>4, <2>5
<1> QED BY <1>3, <1>4, <1>5, <1>6 DEF RequestInv

\* fail_flush and fail_response.
LEMMA RespondSteps ==
    ASSUME BackInv, NEW d \in Devices, FlushAndRespond(d) \/ Respond(d)
    PROVE  BackInv'
<1> USE DEF BackInv, poolVars, urbVars, threadVars, taskVars, devVars, Goto
<1>0. PICK p \in Preqs : p = cur[d]
  <2>1. pc[d] \in Holding
    BY DEF FlushAndRespond, Respond, Holding
  <2> QED BY <2>1, Holder
<1>1. /\ pc[d] \in {"flush", "respond"} /\ pc' = [pc EXCEPT ![d] = "release"]
      /\ MakeResponse(req[p])
      /\ UNCHANGED <<ring, poolVars, urb, unlinked, timer, stale, cur, victim,
                     taskVars, devVars, bug>>
      /\ pc[d] = "respond" => mapped' = mapped
      /\ pc[d] = "flush" => FastFlush(p)
  BY <1>0 DEF FlushAndRespond, Respond
<1>2. /\ p \in Preqs /\ urb[p] = "none" /\ req[p] \in Requests /\ Held(p) = {d}
  BY <1>0, <1>1, Holder DEF Holding
<1>3. \A e \in Devices : pc'[e] = IF e = d THEN "release" ELSE pc[e]
  BY <1>1 DEF TypeOK
<1>4. /\ mapped' \in [Preqs -> BOOLEAN]
      /\ \A q \in Preqs : mapped'[q] => mapped[q]
      /\ ~AtomicFails /\ pc[d] = "flush" => ~mapped'[p]
  BY <1>1, <1>2 DEF FastFlush, TypeOK
<1>5. RequestInv' /\ answers' \in [Requests -> 0 .. 2]
  <2>1. Owing(p) /\ ~Owing(p)'
    BY <1>1, <1>2, <1>3 DEF Owing, Held
  <2>2. \A q \in Preqs : Owing(q)' => Owing(q)
    BY <1>1, <1>3 DEF Owing, Held
  <2> QED BY <1>1, <1>2, <2>1, <2>2, AnswerOwed
<1>6. TypeOK'
  BY <1>1, <1>4, <1>5 DEF TypeOK
<1>7. ThreadInv'
  BY <1>1, <1>3 DEF ThreadInv, Untouched, Holding, TypeOK
<1>8. PlaceInv' /\ SegmentInv'
  BY <1>1, PlaceSame, SegmentSame
<1>9. MappedInv'
  <2>1. CASE pc[d] = "respond"
    BY <1>1, <1>3, <2>1, MappedSame
  <2>2. CASE pc[d] = "flush"
    BY <1>1, <1>2, <1>3, <1>4, <2>2 DEF MappedInv, Held
  <2> QED BY <1>1, <2>1, <2>2
<1>10. ReferenceInv'
  <2>1. \A e : Counted(e)' = Counted(e)
    BY <1>1, CountedSame
  <2> QED BY <1>1, <1>3, <2>1, ReferenceSame
<1> QED BY <1>5, <1>6, <1>7, <1>8, <1>9, <1>10

\* ---- giving a pending_req back

\* What free_req does with the pools, whether its BUG_ON fires or not.
LEMMA FreeReqPools ==
    ASSUME TypeOK, SegmentInv, NEW p \in Preqs, FreeReq(p)
    PROVE  /\ SegmentInv'
           /\ segFree' \in 0 .. NSegs /\ free' \subseteq Preqs
           /\ nr' \in [Preqs -> 0 .. 1] /\ filled' \in [Preqs -> 0 .. 1]
           /\ extra' \in [Preqs -> {0, Extra}] /\ bug' \in BOOLEAN
           /\ \A q \in Preqs : q # p => /\ nr'[q] = nr[q] /\ filled'[q] = filled[q]
                                        /\ extra'[q] = extra[q]
           /\ \/ bug' = TRUE /\ free' = free
              \/ /\ bug' = bug /\ free' = free \cup {p}
                 /\ nr'[p] = 0 /\ filled'[p] = 0 /\ extra'[p] = 0
<1>1. CASE bug' = TRUE /\ UNCHANGED <<free, segFree, nr, filled, extra>>
  BY <1>1, SegmentSame DEF TypeOK
<1>2. CASE /\ segFree' = segFree + filled[p] + extra[p]
           /\ free' = free \cup {p}
           /\ nr' = [nr EXCEPT ![p] = 0]
           /\ filled' = [filled EXCEPT ![p] = 0]
           /\ extra' = [extra EXCEPT ![p] = 0]
           /\ bug' = bug
  <2>1. segFree' \in 0 .. NSegs
    BY <1>2, SegmentsFit
  <2>2. Filled' = Filled \ {p} /\ Extended' = Extended \ {p}
    BY <1>2 DEF Filled, Extended, TypeOK
  <2>3. SegmentInv'
    <3> DEFINE x == Extra * Cardinality(Extended)
               y == Extra * Cardinality(Extended \ {p})
               c == Cardinality(Filled)
               b == Cardinality(Filled \ {p})
    <3>1. y = x - extra[p] /\ b = c - filled[p]
      BY SegmentsFit
    <3>2. NSegs = segFree + c + x
      BY DEF SegmentInv
    <3>3. c \in Nat
      BY PartOfPool DEF Filled
    <3>4. x \in Nat
      <4>1. Cardinality(Extended) \in Nat
        BY PartOfPool DEF Extended
      <4> QED BY <4>1, OneMoreExtra
    <3>5. segFree \in Nat /\ filled[p] \in Nat /\ extra[p] \in Nat
      <4>1. segFree \in Nat /\ filled[p] \in 0 .. 1
        BY BackAssumption DEF TypeOK
      <4>2. extra[p] \in {0, Extra} /\ Extra \in Nat
        BY BackAssumption DEF TypeOK
      <4> QED BY <4>1, <4>2
    <3> HIDE DEF x, y, c, b
    <3>6. NSegs = segFree' + b + y
      BY <1>2, <3>1, <3>2, <3>3, <3>4, <3>5
    <3> QED BY <2>2, <3>6 DEF SegmentInv, y, b
  <2>4. /\ nr' \in [Preqs -> 0 .. 1] /\ nr'[p] = 0
        /\ \A q \in Preqs : q # p => nr'[q] = nr[q]
    <3>1. nr \in [Preqs -> 0 .. 1] /\ 0 \in 0 .. 1
      BY DEF TypeOK
    <3> QED BY <1>2, <3>1
  <2>5. /\ filled' \in [Preqs -> 0 .. 1] /\ filled'[p] = 0
        /\ \A q \in Preqs : q # p => filled'[q] = filled[q]
    <3>1. filled \in [Preqs -> 0 .. 1] /\ 0 \in 0 .. 1
      BY DEF TypeOK
    <3> QED BY <1>2, <3>1
  <2>6. /\ extra' \in [Preqs -> {0, Extra}] /\ extra'[p] = 0
        /\ \A q \in Preqs : q # p => extra'[q] = extra[q]
    BY <1>2 DEF TypeOK
  <2>7. free' \subseteq Preqs /\ bug' \in BOOLEAN
    BY <1>2 DEF TypeOK
  <2> QED BY <1>2, <2>1, <2>3, <2>4, <2>5, <2>6, <2>7
<1> QED BY <1>1, <1>2 DEF FreeReq

\* What free_req does with the fields of the pending_req.
LEMMA FreeReqFields ==
    ASSUME TypeOK, NEW p \in Preqs, FreeReq(p)
    PROVE  /\ usbif' \in [Preqs -> Devices \cup {NoDev}]
           /\ req' \in [Preqs -> Requests \cup {NoReq}]
           /\ urb' \in [Preqs -> {"none", "flight", "flushed", "answered", "wake", "put", "queued"}]
           /\ unlinked' \in [Preqs -> BOOLEAN]
           /\ timer' \in [Preqs -> {"off", "armed", "firing"}]
           /\ stale' \subseteq Preqs
           /\ usbif'[p] = NoDev /\ req'[p] = NoReq /\ urb'[p] = "none"
           /\ lateUse' \in BOOLEAN
           /\ \A q \in Preqs : q # p => /\ usbif'[q] = usbif[q] /\ req'[q] = req[q]
                                        /\ urb'[q] = urb[q]
  BY DEF TypeOK, FreeReq, UsesFreed

\* A pending_req given back stands for no request.
LEMMA FreedRequest ==
    ASSUME RequestInv, NEW p \in Preqs, req'[p] = NoReq, ~Owing(p)',
           UNCHANGED <<ring, answers>>, TypeOK,
           \A q \in Preqs : q # p => req'[q] = req[q] /\ (Owing(q)' => Owing(q))
    PROVE  RequestInv'
<1>1. \A d \in Devices : \A k \in DOMAIN ring[d] : ring[d][k] # NoReq
  <2>1. ASSUME NEW d \in Devices, NEW k \in DOMAIN ring[d]
        PROVE  ring[d][k] \in Requests
    <3>1. ring[d] \in Seq(Requests)
      BY DEF TypeOK
    <3> QED BY <3>1, ElementOfSeq, LenProperties
  <2> QED BY <2>1, BackAssumption
<1>2. \A q, r \in Preqs : req'[q] = req'[r] /\ req'[q] # NoReq => q = r
  BY DEF RequestInv
<1>3. \A d \in Devices : \A k \in DOMAIN ring[d] : \A q \in Preqs : req'[q] # ring[d][k]
  BY <1>1 DEF RequestInv
<1>4. \A q \in Preqs : Owing(q)' => answers[req'[q]] = 0
  BY DEF RequestInv
<1> QED BY <1>2, <1>3, <1>4 DEF RequestInv

\* The thread gives its pending_req back.
LEMMA ReleaseStep ==
    ASSUME BackInv, NEW d \in Devices, Release(d)
    PROVE  BackInv'
<1> USE DEF BackInv, poolVars, urbVars, threadVars, taskVars, devVars, Goto, LetGo
<1>0. PICK p \in Preqs : p = cur[d]
  <2>1. pc[d] \in Holding
    BY DEF Release, Holding
  <2> QED BY <2>1, Holder
<1>1. /\ pc[d] = "release" /\ pc' = [pc EXCEPT ![d] = "idle"]
      /\ cur' = [cur EXCEPT ![d] = NoPreq]
      /\ FreeReq(p)
      /\ UNCHANGED <<ring, mapped, victim, toFree, tmp, scheduled, devVars, answers>>
  BY <1>0 DEF Release
<1>2. /\ p \in Preqs /\ p \notin free \cup toFree \cup tmp /\ urb[p] = "none"
      /\ p # NoPreq /\ Held(p) = {d} /\ \A e \in Devices : cur[e] = p => e = d
  BY <1>0, <1>1, Holder DEF Holding
<1>3. /\ \A e \in Devices : cur'[e] = IF e = d THEN NoPreq ELSE cur[e]
      /\ \A e \in Devices : pc'[e] = IF e = d THEN "idle" ELSE pc[e]
  BY <1>1 DEF TypeOK
<1>4. \A q \in Preqs : Held(q)' = IF q = p THEN {} ELSE Held(q)
  <2>1. Held(p)' = {}
    BY <1>2, <1>3 DEF Held
  <2>2. \A q \in Preqs : q # p => Held(q)' = Held(q)
    BY <1>0, <1>3, BackAssumption DEF Held
  <2> QED BY <2>1, <2>2
<1>5. /\ usbif'[p] = NoDev /\ req'[p] = NoReq /\ urb'[p] = "none"
      /\ \A q \in Preqs : q # p => /\ usbif'[q] = usbif[q] /\ req'[q] = req[q]
                                   /\ urb'[q] = urb[q]
  BY <1>1, FreeReqFields
<1>6. /\ SegmentInv'
      /\ \A q \in Preqs : q # p => /\ nr'[q] = nr[q] /\ filled'[q] = filled[q]
                                   /\ extra'[q] = extra[q]
      /\ \/ bug' = TRUE /\ free' = free
         \/ /\ bug' = bug /\ free' = free \cup {p}
            /\ nr'[p] = 0 /\ filled'[p] = 0 /\ extra'[p] = 0
  BY <1>1, FreeReqPools
<1>7. TypeOK'
  <2>1. /\ segFree' \in 0 .. NSegs /\ free' \subseteq Preqs
        /\ nr' \in [Preqs -> 0 .. 1] /\ filled' \in [Preqs -> 0 .. 1]
        /\ extra' \in [Preqs -> {0, Extra}] /\ bug' \in BOOLEAN
    BY <1>1, FreeReqPools
  <2>2. /\ usbif' \in [Preqs -> Devices \cup {NoDev}]
        /\ req' \in [Preqs -> Requests \cup {NoReq}]
        /\ urb' \in [Preqs -> {"none", "flight", "flushed", "answered", "wake", "put", "queued"}]
        /\ unlinked' \in [Preqs -> BOOLEAN]
        /\ timer' \in [Preqs -> {"off", "armed", "firing"}]
        /\ stale' \subseteq Preqs /\ lateUse' \in BOOLEAN
    BY <1>1, FreeReqFields
  <2> QED BY <1>1, <2>1, <2>2 DEF TypeOK
<1>8. ThreadInv'
  BY <1>1, <1>2, <1>3, <1>5, <1>6 DEF ThreadInv, Untouched, Holding, TypeOK
<1>9. PlaceInv'
  BY <1>1, <1>2, <1>4, <1>5, <1>6 DEF PlaceInv, Untouched
<1>10. RequestInv'
  <2>1. ~Owing(p)'
    BY <1>4, <1>5 DEF Owing
  <2>2. \A q \in Preqs : q # p => (Owing(q)' => Owing(q))
    BY <1>0, <1>3, <1>4, <1>5 DEF Owing, Held
  <2> QED BY <1>1, <1>5, <2>1, <2>2, FreedRequest
<1>11. MappedInv'
  <2>1. \A q \in Preqs : q # p => \A e \in Held(q) : e # d /\ pc'[e] = pc[e]
    BY <1>0, <1>3 DEF Held
  <2>2. ~AtomicFails => ~mapped[p]
    BY <1>1, <1>2 DEF MappedInv
  <2> QED BY <1>1, <1>4, <1>5, <2>1, <2>2 DEF MappedInv
<1>12. ReferenceInv'
  <2>1. \A e : Counted(e)' = Counted(e)
    BY <1>2, <1>5, CountedSame
  <2> QED BY <1>1, <1>3, <2>1, ReferenceSame
<1> QED BY <1>6, <1>7, <1>8, <1>9, <1>10, <1>11, <1>12

\* The tasklet gives one back.
LEMMA AsyncFreeStep ==
    ASSUME BackInv, NEW p \in Preqs, AsyncFree(p)
    PROVE  BackInv'
<1> USE DEF BackInv, poolVars, urbVars, threadVars, taskVars, devVars
<1>1. /\ p \in tmp /\ tmp' = tmp \ {p} /\ FreeReq(p)
      /\ UNCHANGED <<ring, mapped, threadVars, toFree, scheduled, devVars, answers>>
  BY DEF AsyncFree
<1>2. /\ urb[p] = "queued" /\ p \notin toFree /\ p \notin free
      /\ \A e \in Devices : cur[e] # p
  <2>1. urb[p] = "queued" /\ p \notin toFree /\ p \notin free
    BY <1>1 DEF PlaceInv
  <2>2. \A e \in Devices : cur[e] # p
    BY <2>1, BackAssumption DEF ThreadInv
  <2> QED BY <2>1, <2>2
<1>3. /\ usbif'[p] = NoDev /\ req'[p] = NoReq /\ urb'[p] = "none"
      /\ \A q \in Preqs : q # p => /\ usbif'[q] = usbif[q] /\ req'[q] = req[q]
                                   /\ urb'[q] = urb[q]
  BY <1>1, FreeReqFields
<1>4. /\ SegmentInv'
      /\ \A q \in Preqs : q # p => /\ nr'[q] = nr[q] /\ filled'[q] = filled[q]
                                   /\ extra'[q] = extra[q]
      /\ \/ bug' = TRUE /\ free' = free
         \/ /\ bug' = bug /\ free' = free \cup {p}
            /\ nr'[p] = 0 /\ filled'[p] = 0 /\ extra'[p] = 0
  BY <1>1, FreeReqPools
<1>5. \A q \in Preqs : Held(q)' = Held(q)
  BY <1>1 DEF Held
<1>6. TypeOK'
  <2>1. /\ segFree' \in 0 .. NSegs /\ free' \subseteq Preqs
        /\ nr' \in [Preqs -> 0 .. 1] /\ filled' \in [Preqs -> 0 .. 1]
        /\ extra' \in [Preqs -> {0, Extra}] /\ bug' \in BOOLEAN
    BY <1>1, FreeReqPools
  <2>2. /\ usbif' \in [Preqs -> Devices \cup {NoDev}]
        /\ req' \in [Preqs -> Requests \cup {NoReq}]
        /\ urb' \in [Preqs -> {"none", "flight", "flushed", "answered", "wake", "put", "queued"}]
        /\ unlinked' \in [Preqs -> BOOLEAN]
        /\ timer' \in [Preqs -> {"off", "armed", "firing"}]
        /\ stale' \subseteq Preqs /\ lateUse' \in BOOLEAN
    BY <1>1, FreeReqFields
  <2> QED BY <1>1, <2>1, <2>2 DEF TypeOK
<1>7. ThreadInv'
  <2>1. ASSUME NEW e \in Devices, pc[e] \in Holding
        PROVE  LET q == cur[e] IN
               /\ usbif'[q] = usbif[q] /\ req'[q] = req[q] /\ urb'[q] = urb[q]
               /\ nr'[q] = nr[q] /\ filled'[q] = filled[q] /\ extra'[q] = extra[q]
               /\ q \notin free'
    <3>1. cur[e] \in Preqs /\ cur[e] # p /\ cur[e] \notin free
      BY <1>2, <2>1, Holder
    <3> QED BY <1>3, <1>4, <3>1
  <2>2. {"cancel", "kill", "dispatch", "indirect", "setup", "submit"} \subseteq Holding
    BY DEF Holding
  <2> QED BY <1>1, <2>1, <2>2 DEF ThreadInv, Untouched
<1>8. PlaceInv'
  BY <1>1, <1>2, <1>3, <1>4, <1>5 DEF PlaceInv, Untouched
<1>9. RequestInv'
  <2>1. ~Owing(p)'
    BY <1>1, <1>2, <1>3 DEF Owing, Held
  <2>2. \A q \in Preqs : q # p => (Owing(q)' => Owing(q))
    BY <1>1, <1>3, <1>5 DEF Owing
  <2> QED BY <1>1, <1>3, <2>1, <2>2, FreedRequest
<1>10. MappedInv'
  <2>1. ~AtomicFails => ~mapped[p]
    BY <1>2 DEF MappedInv, Held
  <2> QED BY <1>1, <1>3, <1>5, <2>1 DEF MappedInv
<1>11. ReferenceInv'
  <2>1. \A e : Counted(e)' = Counted(e)
    BY <1>2, <1>3, CountedSame
  <2> QED BY <1>1, <2>1, ReferenceSame
<1> QED BY <1>4, <1>6, <1>7, <1>8, <1>9, <1>10, <1>11

\* The tasklet takes the list over.
LEMMA SpliceStep ==
    ASSUME BackInv, SpliceToFree
    PROVE  BackInv'
<1> USE DEF BackInv, poolVars, urbVars, threadVars, taskVars, devVars
<1>1. /\ tmp = {} /\ tmp' = toFree /\ toFree' = {} /\ scheduled' = FALSE
      /\ UNCHANGED <<ring, poolVars, urbVars, threadVars, lateUse, devVars,
                     answers, bug>>
  BY DEF SpliceToFree
<1>2. TypeOK'
  BY <1>1 DEF TypeOK
<1>3. ThreadInv' /\ SegmentInv'
  BY <1>1, SegmentSame DEF ThreadInv, Untouched
<1>4. PlaceInv'
  BY <1>1 DEF PlaceInv, Untouched, Held
<1>5. RequestInv'
  BY <1>1, RequestSame DEF Owing, Held
<1>6. MappedInv' /\ ReferenceInv'
  BY <1>1 DEF MappedInv, ReferenceInv, Held, UsbifCounted, Users, Counted
<1> QED BY <1>2, <1>3, <1>4, <1>5, <1>6

\* ---- completions

\* No thread has a pending_req whose URB is in the works.
LEMMA NotHeld ==
    ASSUME ThreadInv, NEW p \in Preqs, urb[p] # "none"
    PROVE  Held(p) = {} /\ \A e \in Devices : cur[e] # p
  BY BackAssumption DEF ThreadInv, Held

\* end_usb_io_op begins: as long as there is memory, the grants are unmapped.
LEMMA EndUsbIoOpStep ==
    ASSUME BackInv, NEW p \in Preqs, EndUsbIoOp(p)
    PROVE  BackInv'
<1> USE DEF BackInv, poolVars, urbVars, threadVars, taskVars, devVars
<1>1. /\ urb[p] = "flight" /\ urb' = [urb EXCEPT ![p] = "flushed"]
      /\ FastFlush(p)
      /\ UNCHANGED <<ring, poolVars, unlinked, stale, threadVars, taskVars,
                     devVars, answers, bug>>
  BY DEF EndUsbIoOp
<1>2. timer' \in [Preqs -> {"off", "armed", "firing"}]
  BY DEF EndUsbIoOp, CancelTimeout, TypeOK
<1>3. /\ mapped' \in [Preqs -> BOOLEAN]
      /\ \A q \in Preqs : mapped'[q] => mapped[q]
      /\ ~AtomicFails => ~mapped'[p]
  BY <1>1 DEF FastFlush, TypeOK
<1>4. \A q \in Preqs : urb'[q] = IF q = p THEN "flushed" ELSE urb[q]
  BY <1>1 DEF TypeOK
<1>5. \A e \in Devices : cur[e] # p
  BY <1>1, NotHeld
<1>6. TypeOK'
  BY <1>1, <1>2, <1>3 DEF TypeOK
<1>7. ThreadInv'
  BY <1>1, <1>5 DEF ThreadInv, Untouched, TypeOK
<1>8. PlaceInv'
  BY <1>1, <1>4 DEF PlaceInv, Untouched, Held
<1>9. SegmentInv'
  BY <1>1, SegmentSame
<1>10. RequestInv'
  <2>1. \A q \in Preqs : Owing(q)' => Owing(q)
    BY <1>1, <1>4 DEF Owing, Held
  <2> QED BY <1>1, <2>1, RequestSame
<1>11. MappedInv'
  BY <1>1, <1>3, <1>4 DEF MappedInv, Held
<1>12. ReferenceInv'
  <2>1. \A e : Counted(e)' = Counted(e)
    BY <1>1, <1>4 DEF Counted
  <2> QED BY <1>1, <2>1, ReferenceSame
<1> QED BY <1>6, <1>7, <1>8, <1>9, <1>10, <1>11, <1>12

\* It answers: the request was owed an answer until here.
LEMMA EndRespondsStep ==
    ASSUME BackInv, NEW p \in Preqs, EndResponds(p)
    PROVE  BackInv'
<1> USE DEF BackInv, poolVars, urbVars, threadVars, taskVars, devVars
<1>1. /\ urb[p] = "flushed" /\ urb' = [urb EXCEPT ![p] = "answered"]
      /\ MakeResponse(req[p])
      /\ UNCHANGED <<ring, poolVars, unlinked, timer, stale, mapped, threadVars,
                     taskVars, devVars, bug>>
  BY DEF EndResponds
<1>2. \A q \in Preqs : urb'[q] = IF q = p THEN "answered" ELSE urb[q]
  BY <1>1 DEF TypeOK
<1>3. Held(p) = {} /\ \A e \in Devices : cur[e] # p
  BY <1>1, NotHeld
<1>4. RequestInv' /\ answers' \in [Requests -> 0 .. 2]
  <2>1. Owing(p) /\ ~Owing(p)'
    BY <1>1, <1>2, <1>3 DEF Owing, Held
  <2>2. \A q \in Preqs : Owing(q)' => Owing(q)
    BY <1>1, <1>2 DEF Owing, Held
  <2>3. req[p] \in Requests
    BY <1>1 DEF PlaceInv, TypeOK
  <2> QED BY <1>1, <2>1, <2>2, <2>3, AnswerOwed
<1>5. TypeOK'
  BY <1>1, <1>4 DEF TypeOK
<1>6. ThreadInv'
  BY <1>1, <1>3 DEF ThreadInv, Untouched, TypeOK
<1>7. PlaceInv'
  BY <1>1, <1>2 DEF PlaceInv, Untouched, Held
<1>8. SegmentInv'
  BY <1>1, SegmentSame
<1>9. MappedInv'
  BY <1>1, <1>2 DEF MappedInv, Held
<1>10. ReferenceInv'
  <2>1. \A e : Counted(e)' = Counted(e)
    BY <1>1, <1>2 DEF Counted
  <2> QED BY <1>1, <2>1, ReferenceSame
<1> QED BY <1>4, <1>5, <1>6, <1>7, <1>8, <1>9, <1>10

\* It lets the device go, which counts one URB less from here on.
LEMMA EndPutsStep ==
    ASSUME BackInv, NEW p \in Preqs, EndPuts(p)
    PROVE  BackInv'
<1> USE DEF BackInv, poolVars, urbVars, threadVars, taskVars, devVars, UsbifPut
<1>1. PICK d \in Devices : d = usbif[p]
  BY DEF EndPuts, PlaceInv, TypeOK
<1> PICK s \in {"wake", "put"} : urb' = [urb EXCEPT ![p] = s]
  BY DEF EndPuts
<1>2. /\ urb[p] = "answered" /\ urb' = [urb EXCEPT ![p] = s]
      /\ refcnt' = [refcnt EXCEPT ![d] = @ - 1]
      /\ UNCHANGED <<ring, poolVars, unlinked, timer, stale, mapped, threadVars,
                     taskVars, stop, teardown, answers, bug>>
  BY <1>1 DEF EndPuts
<1>3. \A q \in Preqs : urb'[q] = IF q = p THEN s ELSE urb[q]
  BY <1>2 DEF TypeOK
<1>4. Held(p) = {} /\ \A e \in Devices : cur[e] # p
  BY <1>2, NotHeld
<1>5. ReferenceInv' /\ refcnt' \in [Devices -> 0 .. Cardinality(Preqs) + 2]
  <2>1. Counted(d)' = Counted(d) \ {p} /\ p \in Counted(d)
    BY <1>1, <1>2, <1>3 DEF Counted
  <2>2. /\ Cardinality(Counted(d) \ {p}) = Cardinality(Counted(d)) - 1
        /\ Cardinality(Counted(d)) >= 1 /\ Cardinality(Counted(d)) \in Nat
    <3>1. Counted(d) \in SUBSET Preqs
      BY CountedSome
    <3> QED BY <2>1, <3>1, PartOfPool
  <2>3. Users(d) \in Nat /\ Users(d) >= 1
    BY <2>2 DEF Users
  <2>4. Users(d)' = Users(d) - 1
    BY <1>2, <2>1, <2>2 DEF Users
  <2>5. \A e \in Devices : e # d => Users(e)' = Users(e)
    <3>1. \A e \in Devices : e # d => Counted(e)' = Counted(e)
      BY <1>1, <1>2, <1>3 DEF Counted
    <3> QED BY <1>2, <3>1 DEF Users
  <2> QED BY <1>2, <2>3, <2>4, <2>5, OneUserLess
<1>6. TypeOK'
  BY <1>2, <1>5 DEF TypeOK
<1>7. ThreadInv'
  BY <1>2, <1>4 DEF ThreadInv, Untouched, TypeOK
<1>8. PlaceInv'
  BY <1>2, <1>3 DEF PlaceInv, Untouched, Held
<1>9. SegmentInv'
  BY <1>2, SegmentSame
<1>10. RequestInv'
  <2>1. \A q \in Preqs : Owing(q)' => Owing(q)
    BY <1>2, <1>3 DEF Owing, Held
  <2> QED BY <1>2, <2>1, RequestSame
<1>11. MappedInv'
  BY <1>2, <1>3 DEF MappedInv, Held
<1> QED BY <1>5, <1>6, <1>7, <1>8, <1>9, <1>10, <1>11

\* It wakes who waits for the device, which may be gone.
LEMMA EndWakesStep ==
    ASSUME BackInv, NEW p \in Preqs, EndWakes(p), ~bug
    PROVE  BackInv'
<1> USE DEF BackInv, poolVars, urbVars, threadVars, taskVars, devVars
<1>1. /\ urb[p] = "wake" /\ urb' = [urb EXCEPT ![p] = "put"]
      /\ UNCHANGED <<ring, poolVars, unlinked, timer, stale, mapped, threadVars,
                     toFree, tmp, scheduled, devVars, answers>>
      /\ lateUse' \in BOOLEAN /\ bug' \in BOOLEAN
  BY DEF EndWakes, UsesFreed, TypeOK
<1>2. \A q \in Preqs : urb'[q] = IF q = p THEN "put" ELSE urb[q]
  BY <1>1 DEF TypeOK
<1>3. Held(p) = {} /\ \A e \in Devices : cur[e] # p
  BY <1>1, NotHeld
<1>4. TypeOK'
  BY <1>1 DEF TypeOK
<1>5. ThreadInv'
  BY <1>1, <1>3 DEF ThreadInv, Untouched, TypeOK
<1>6. PlaceInv'
  BY <1>1, <1>2 DEF PlaceInv, Untouched, Held
<1>7. SegmentInv'
  BY <1>1, SegmentSame
<1>8. RequestInv'
  <2>1. \A q \in Preqs : Owing(q)' => Owing(q)
    BY <1>1, <1>2 DEF Owing, Held
  <2> QED BY <1>1, <2>1, RequestSame
<1>9. MappedInv'
  BY <1>1, <1>2 DEF MappedInv, Held
<1>10. ReferenceInv'
  <2>1. \A e : Counted(e)' = Counted(e)
    BY <1>1, <1>2, CountedSame
  <2> QED BY <1>1, <2>1, ReferenceSame
<1> QED BY <1>4, <1>5, <1>6, <1>7, <1>8, <1>9, <1>10

\* It queues the pending_req for the tasklet.
LEMMA EndQueuesStep ==
    ASSUME BackInv, NEW p \in Preqs, EndQueues(p)
    PROVE  BackInv'
<1> USE DEF BackInv, poolVars, urbVars, threadVars, taskVars, devVars
<1>1. /\ urb[p] = "put" /\ urb' = [urb EXCEPT ![p] = "queued"]
      /\ toFree' = toFree \cup {p} /\ scheduled' = TRUE
      /\ UNCHANGED <<ring, poolVars, unlinked, timer, stale, mapped, pc, cur,
                     tmp, lateUse, devVars, answers, bug>>
  BY DEF EndQueues
<1>2. victim' \in [Devices -> Preqs \cup {NoPreq}]
  BY DEF EndQueues, TypeOK
<1>3. \A q \in Preqs : urb'[q] = IF q = p THEN "queued" ELSE urb[q]
  BY <1>1 DEF TypeOK
<1>4. Held(p) = {} /\ \A e \in Devices : cur[e] # p
  BY <1>1, NotHeld
<1>5. TypeOK'
  BY <1>1, <1>2 DEF TypeOK
<1>6. ThreadInv'
  BY <1>1, <1>4 DEF ThreadInv, Untouched, TypeOK
<1>7. PlaceInv'
  BY <1>1, <1>3 DEF PlaceInv, Untouched, Held
<1>8. SegmentInv'
  BY <1>1, SegmentSame
<1>9. RequestInv'
  <2>1. \A q \in Preqs : Owing(q)' => Owing(q)
    BY <1>1, <1>3 DEF Owing, Held
  <2> QED BY <1>1, <2>1, RequestSame
<1>10. MappedInv'
  BY <1>1, <1>3 DEF MappedInv, Held
<1>11. ReferenceInv'
  <2>1. \A e : Counted(e)' = Counted(e)
    BY <1>1, <1>3, CountedSame
  <2> QED BY <1>1, <2>1, ReferenceSame
<1> QED BY <1>5, <1>6, <1>7, <1>8, <1>9, <1>10, <1>11

-----------------------------------------------------------------------------
(* The frontends, and the whole *)

\* A frontend sends a request that is nowhere.
LEMMA SendStep ==
    ASSUME BackInv, NEW r \in Requests, Send(r)
    PROVE  BackInv'
<1> USE DEF BackInv, poolVars, urbVars, threadVars, taskVars, devVars
<1> DEFINE d == DevOf[r]
<1>1. /\ answers[r] = 0 /\ \A p \in Preqs : req[p] # r
      /\ \A k \in DOMAIN ring[d] : ring[d][k] # r
      /\ ring' = [ring EXCEPT ![d] = Append(@, r)]
      /\ UNCHANGED <<poolVars, urbVars, threadVars, taskVars, devVars, answers, bug>>
  BY DEF Send, OnRing
<1>2. /\ d \in Devices /\ ring[d] \in Seq(Requests) /\ Len(ring[d]) \in Nat
      /\ DOMAIN ring[d] = 1 .. Len(ring[d])
  <2>1. d \in Devices /\ ring[d] \in Seq(Requests)
    BY BackAssumption DEF TypeOK
  <2> QED BY <2>1, LenProperties
<1>3. /\ ring'[d] = Append(ring[d], r) /\ ring'[d] \in Seq(Requests)
      /\ DOMAIN ring'[d] = 1 .. Len(ring[d]) + 1
      /\ ring'[d][Len(ring[d]) + 1] = r
      /\ \A k \in DOMAIN ring[d] : ring'[d][k] = ring[d][k]
  <2>1. ring'[d] = Append(ring[d], r)
    BY <1>1, <1>2 DEF TypeOK
  <2>2. /\ Append(ring[d], r) \in Seq(Requests)
        /\ Len(Append(ring[d], r)) = Len(ring[d]) + 1
        /\ \A k \in 1 .. Len(ring[d]) : Append(ring[d], r)[k] = ring[d][k]
        /\ Append(ring[d], r)[Len(ring[d]) + 1] = r
    BY <1>2, AppendProperties
  <2>3. DOMAIN Append(ring[d], r) = 1 .. Len(ring[d]) + 1
    BY <2>2, LenProperties
  <2> QED BY <1>2, <2>1, <2>2, <2>3
<1>4. TypeOK'
  <2>1. ring' \in [Devices -> Seq(Requests)]
    BY <1>1, <1>2, <1>3 DEF TypeOK
  <2> QED BY <1>1, <2>1 DEF TypeOK
<1>5. ThreadInv' /\ SegmentInv' /\ PlaceInv'
  BY <1>1, SegmentSame, PlaceSame DEF ThreadInv, Untouched
<1>6. MappedInv' /\ ReferenceInv'
  BY <1>1 DEF MappedInv, ReferenceInv, Held, UsbifCounted, Users, Counted
<1>7. RequestInv'
  <2>1. ASSUME NEW e \in Devices, NEW k \in DOMAIN ring'[e]
        PROVE  /\ DevOf[ring'[e][k]] = e /\ answers[ring'[e][k]] = 0
               /\ \A q \in Preqs : req[q] # ring'[e][k]
               /\ \A l \in DOMAIN ring'[e] : ring'[e][k] = ring'[e][l] => k = l
    <3>1. CASE e # d
      <4>1. ring'[e] = ring[e]
        BY <1>1, <3>1 DEF TypeOK
      <4> QED BY <2>1, <4>1 DEF RequestInv
    <3>2. CASE e = d
      <4>1. \A l \in DOMAIN ring'[d] :
               \/ l \in DOMAIN ring[d] /\ ring'[d][l] = ring[d][l]
               \/ l = Len(ring[d]) + 1 /\ ring'[d][l] = r
        BY <1>2, <1>3
      <4>2. \A l \in DOMAIN ring'[d] : ring'[d][k] = ring'[d][l] => k = l
        BY <1>1, <2>1, <3>2, <4>1 DEF RequestInv
      <4>3. CASE k \in DOMAIN ring[d] /\ ring'[d][k] = ring[d][k]
        BY <1>2, <3>2, <4>2, <4>3 DEF RequestInv
      <4>4. CASE ring'[d][k] = r
        BY <1>1, <3>2, <4>2, <4>4
      <4> QED BY <2>1, <3>2, <4>1, <4>3, <4>4
    <3> QED BY <3>1, <3>2
  <2>2. \A q \in Preqs : Owing(q)' <=> Owing(q)
    BY <1>1 DEF Owing, Held
  <2> QED BY <1>1, <2>1, <2>2 DEF RequestInv
<1> QED BY <1>4, <1>5, <1>6, <1>7

\* The invariant holds when the backend has been loaded.
LEMMA InitBackInv == Init => BackInv
<1> SUFFICES ASSUME Init PROVE BackInv
  OBVIOUS
<1>1. Cardinality(Preqs) \in Nat
  BY CountedSome
<1>2. TypeOK
  <2>1. /\ NSegs \in 0 .. NSegs /\ 0 \in 0 .. 1 /\ 0 \in 0 .. 2
        /\ 1 \in 0 .. Cardinality(Preqs) + 2
    BY <1>1, BackAssumption
  <2>2. << >> \in Seq(Requests)
    OBVIOUS
  <2> QED BY <2>1, <2>2 DEF Init, TypeOK
<1>3. ThreadInv
  BY BackAssumption DEF Init, ThreadInv, Holding
<1>4. PlaceInv
  BY DEF Init, PlaceInv, Untouched
<1>5. SegmentInv
  <2>1. Filled = {} /\ Extended = {}
    BY DEF Init, Filled, Extended
  <2>2. Cardinality({}) = 0
    BY FS_EmptySet
  <2> QED BY <2>1, <2>2, BackAssumption DEF Init, SegmentInv
<1>6. RequestInv
  <2>1. \A p \in Preqs : ~Owing(p)
    BY BackAssumption DEF Init, Owing, Held
  <2>2. \A d \in Devices : DOMAIN ring[d] = {}
    BY DEF Init
  <2> QED BY <2>1, <2>2 DEF Init, RequestInv
<1>7. MappedInv
  BY DEF Init, MappedInv
<1>8. ReferenceInv
  <2>1. ASSUME NEW d \in Devices
        PROVE  Users(d) = 0
    <3>1. Counted(d) = {}
      BY DEF Init, Counted
    <3>2. Cardinality({}) = 0
      BY FS_EmptySet
    <3> QED BY <3>1, <3>2 DEF Init, Users
  <2> QED BY <2>1 DEF Init, ReferenceInv, UsbifCounted
<1> QED BY <1>2, <1>3, <1>4, <1>5, <1>6, <1>7, <1>8 DEF BackInv

\* Every step of a thread, a completion, a timer, the tasklet, a frontend or
\* a disconnection keeps the invariant.
LEMMA StepBackInv == BackInv /\ [Next]_vars => BackInv'
<1> SUFFICES ASSUME BackInv, [Next]_vars PROVE BackInv'
  OBVIOUS
<1>1. ASSUME NEW d \in Devices, ThreadStep(d)
      PROVE  BackInv'
  BY <1>1, LifeSteps, TakeRequestStep, CancelSteps, PopulateStep, SetupIndirectStep,
     SetupUrbStep, SubmitStep, SubmitFailsStep, RespondSteps, ReleaseStep DEF ThreadStep
<1>2. ASSUME NEW d \in Devices, DisconnectStep(d) \/ KthreadStop(d)
      PROVE  BackInv'
  BY <1>2, LifeSteps DEF DisconnectStep
<1>3. ASSUME NEW p \in Preqs, CompletionStep(p) \/ TimerStep(p)
      PROVE  BackInv'
  BY <1>3, EndRespondsStep, EndPutsStep, EndWakesStep, EndQueuesStep, TimersAlone
     DEF CompletionStep, TimerStep
<1>4. ASSUME NEW p \in Preqs, EndUsbIoOp(p) \/ TimeoutTooLate(p)
      PROVE  BackInv'
  BY <1>4, EndUsbIoOpStep, TimersAlone
<1>5. CASE TaskletStep
  BY <1>5, SpliceStep, AsyncFreeStep DEF TaskletStep
<1>6. ASSUME NEW r \in Requests, Send(r)
      PROVE  BackInv'
  BY <1>6, SendStep
<1>7. CASE UNCHANGED vars
  <2> USE DEF vars, poolVars, urbVars, threadVars, taskVars, devVars
  <2>1. TypeOK' /\ ThreadInv'
    BY <1>7 DEF BackInv, TypeOK, ThreadInv, Untouched
  <2>2. SegmentInv' /\ PlaceInv' /\ RequestInv'
    BY <1>7, SegmentSame, PlaceSame, RequestSame DEF BackInv, Owing, Held
  <2>3. MappedInv' /\ ReferenceInv'
    BY <1>7 DEF BackInv, MappedInv, ReferenceInv, Held, UsbifCounted, Users, Counted
  <2> QED BY <2>1, <2>2, <2>3 DEF BackInv
<1>8. Leaving \subseteq Devices
  BY BackAssumption
<1> QED BY <1>1, <1>2, <1>3, <1>4, <1>5, <1>6, <1>7, <1>8 DEF Next

\* BackInv is an invariant of the backend.
THEOREM BackInvariant == Spec => []BackInv
<1>1. Init => BackInv
  BY InitBackInv
<1>2. BackInv /\ [Next]_vars => BackInv'
  BY StepBackInv
<1> QED BY <1>1, <1>2, PTL DEF Spec

\* The type invariant.
THEOREM BackTypeCorrect == Spec => []TypeOK
<1>1. BackInv => TypeOK
  BY DEF BackInv
<1> QED BY <1>1, BackInvariant, PTL

\* No pending_req is lost or in two places as long as nothing has stopped
\* the kernel, and no segment ever: alloc_req, free_req, populate_req,
\* async_free_reqs.
THEOREM PoolNeverLeaks == Spec => []PoolConserved
<1>1. ASSUME BackInv PROVE PoolConserved
  <2>1. ASSUME NEW p \in Preqs, ~bug
        PROVE  1 = (IF p \in free THEN 1 ELSE 0) + (IF p \in toFree THEN 1 ELSE 0)
                 + (IF p \in tmp THEN 1 ELSE 0) + (IF WithCore(p) THEN 1 ELSE 0)
                 + Cardinality(Held(p))
    <3>1. /\ urb[p] = "queued" <=> p \in toFree \cup tmp
          /\ p \in toFree => p \notin tmp
          /\ p \in free => urb[p] = "none"
          /\ urb[p] = "none" /\ Held(p) = {} => p \in free
          /\ urb[p] \in {"none", "flight", "flushed", "answered", "wake", "put",
                         "queued"}
      BY <1>1, <2>1 DEF BackInv, PlaceInv, TypeOK
    <3>2. CASE Held(p) = {}
      <4>1. Cardinality(Held(p)) = 0
        BY <3>2, FS_EmptySet
      <4> QED BY <3>1, <3>2, <4>1 DEF WithCore
    <3>3. CASE Held(p) # {}
      <4>1. PICK d \in Devices : cur[d] = p
        BY <3>3 DEF Held
      <4>2. p # NoPreq
        BY BackAssumption
      <4>3. pc[d] \in Holding
        BY <1>1, <4>1, <4>2 DEF BackInv, ThreadInv
      <4>4. Held(p) = {d} /\ p \notin free \cup toFree \cup tmp /\ urb[p] = "none"
        BY <1>1, <4>1, <4>3, Holder DEF BackInv
      <4>5. Cardinality(Held(p)) = 1
        BY <4>4, FS_Singleton
      <4> QED BY <4>4, <4>5 DEF WithCore
    <3> QED BY <3>2, <3>3
  <2> QED BY <1>1, <2>1 DEF BackInv, SegmentInv, PoolConserved
<1>2. BackInv => PoolConserved
  BY <1>1
<1> QED BY <1>2, BackInvariant, PTL

\* No request is answered twice, and what a pending_req still owes has not
\* been answered: make_response is called once on every path.
THEOREM NothingAnsweredTwice == Spec => []AnsweredOnce
<1>1. ASSUME BackInv PROVE AnsweredOnce
  <2>1. ASSUME NEW p \in Preqs, Owing(p)
        PROVE  req[p] # NoReq
    <3>1. CASE urb[p] \in {"flight", "flushed"}
      BY <1>1, <3>1 DEF BackInv, PlaceInv
    <3>2. CASE \E d \in Held(p) : pc[d] # "release"
      BY <1>1, <3>2, BackAssumption DEF BackInv, ThreadInv, Held
    <3> QED BY <2>1, <3>1, <3>2 DEF Owing
  <2> QED BY <1>1, <2>1 DEF BackInv, RequestInv, AnsweredOnce
<1>2. BackInv => AnsweredOnce
  BY <1>1
<1> QED BY <1>2, BackInvariant, PTL

\* The count of a usbif_t is that of those who have not put it yet, and it is
\* freed when there are none: usbif_get and usbif_put on every path.  Of what
\* uses it after its put the theorem says nothing (UsbifUsedAlive).
THEOREM UsbifAlwaysCounted == Spec => []UsbifCounted
<1>1. BackInv => UsbifCounted
  BY DEF BackInv, ReferenceInv
<1> QED BY <1>1, BackInvariant, PTL

\* As long as atomic memory lasts, what has been answered is not mapped.
THEOREM GrantsAlwaysReturned ==
    ASSUME ~AtomicFails
    PROVE  Spec => []GrantsReturned
<1>1. ASSUME BackInv, NEW p \in Preqs, req[p] # NoReq, answers[req[p]] > 0
      PROVE  ~mapped[p]
  <2>1. ~Owing(p)
    BY <1>1 DEF BackInv, RequestInv
  <2> QED BY <1>1, <2>1 DEF BackInv, MappedInv, Owing
<1>2. BackInv => GrantsReturned
  BY <1>1 DEF GrantsReturned
<1> QED BY <1>2, BackInvariant, PTL

-----------------------------------------------------------------------------
(* The BUG_ON of free_segments *)

\* A pending_req without a segment finds one, unless indirect requests have
\* more than one each.
LEMMA SegmentLeft ==
    ASSUME BackInv, NEW p \in Preqs, Untouched(p), Extended = {}
    PROVE  segFree >= 1 /\ segFree \in Nat
<1>1. Cardinality(Filled) \in Nat /\ Cardinality(Filled) + 1 <= Cardinality(Preqs)
  <2>1. Filled \in SUBSET Preqs /\ p \in Preqs \ Filled /\ Filled \cup {p} \in SUBSET Preqs
    BY DEF Filled, Untouched
  <2>2. /\ Cardinality(Filled \cup {p}) <= Cardinality(Preqs)
        /\ Cardinality(Filled \cup {p}) = Cardinality(Filled) + 1
        /\ Cardinality(Filled) \in Nat
    BY <2>1, PartOfPool
  <2> QED BY <2>2
<1>2. NSegs = segFree + Cardinality(Filled)
  <2>1. Extra * Cardinality(Extended) = 0
    BY FS_EmptySet, BackAssumption
  <2>2. segFree \in Nat /\ NSegs \in Nat
    BY BackAssumption DEF BackInv, TypeOK
  <2> DEFINE x == Extra * Cardinality(Extended)
             c == Cardinality(Filled)
  <2>3. NSegs = segFree + c + x /\ x = 0 /\ c \in Nat
    BY <1>1, <2>1 DEF BackInv, SegmentInv
  <2> HIDE DEF x, c
  <2>4. NSegs = segFree + c
    BY <2>2, <2>3
  <2> QED BY <2>4 DEF c
<1>3. segFree \in Nat /\ NSegs \in Nat /\ NSegs >= Cardinality(Preqs)
  BY BackAssumption DEF BackInv, TypeOK
<1>4. Cardinality(Preqs) \in Nat
  BY CountedSome
<1> QED BY <1>1, <1>2, <1>3, <1>4

\* free_req leaves no segment counted that is not there.
LEMMA FreeReqCounts ==
    ASSUME BackInv, NEW p \in Preqs, FreeReq(p), NEW q \in Preqs, nr'[q] > filled'[q]
    PROVE  nr[q] > filled[q]
<1>1. CASE UNCHANGED <<nr, filled>>
  BY <1>1
<1>2. CASE nr' = [nr EXCEPT ![p] = 0] /\ filled' = [filled EXCEPT ![p] = 0]
  <2>1. q # p
    BY <1>2 DEF BackInv, TypeOK
  <2> QED BY <1>2, <2>1 DEF BackInv, TypeOK
<1> QED BY <1>1, <1>2 DEF FreeReq

\* populate_req counts a segment that is not there only when none is left,
\* and then indirect requests have taken more than one each.
LEMMA PopulateCounts ==
    ASSUME BackInv, NEW d \in Devices, Populate(d), NEW q \in Preqs, nr'[q] > filled'[q]
    PROVE  nr[q] > filled[q] \/ (segFree = 0 /\ Extended # {})
<1>1. cur[d] \in Preqs /\ Untouched(cur[d]) /\ segFree \in Nat
  BY Holder, BackAssumption DEF BackInv, ThreadInv, Populate, Holding, TypeOK
<1>2. nr \in [Preqs -> 0 .. 1] /\ filled \in [Preqs -> 0 .. 1]
  BY DEF BackInv, TypeOK
<1>3. nr' = [nr EXCEPT ![cur[d]] = 1]
  BY DEF Populate
<1>4. CASE segFree < 1 /\ UNCHANGED filled
  <2>1. segFree = 0
    BY <1>1, <1>4
  <2>2. Extended # {}
    BY <1>1, <2>1, SegmentLeft
  <2> QED BY <2>1, <2>2
<1>5. CASE filled' = [filled EXCEPT ![cur[d]] = 1]
  <2>1. q # cur[d]
    BY <1>1, <1>2, <1>3, <1>5
  <2> QED BY <1>2, <1>3, <1>5, <2>1
<1> QED BY <1>4, <1>5 DEF Populate

\* A pending_req counts a segment it does not have only when segments have
\* run out to indirect requests: populate_req, populate_indirect and the
\* free_segments of free_req.
THEOREM SegmentsRunShortOnly == Spec => SegmentsRunShort
<1> DEFINE Short == \A p \in Preqs : nr'[p] > filled'[p] =>
                        nr[p] > filled[p] \/ (segFree = 0 /\ Extended # {})
<1>1. ASSUME BackInv, [Next]_vars
      PROVE  Short
  <2> USE DEF poolVars, urbVars, threadVars, taskVars, devVars
  <2>1. ASSUME NEW d \in Devices, ThreadStep(d)
        PROVE  Short
    <3>1. CASE Release(d)
      <4>1. cur[d] \in Preqs
        BY <1>1, <3>1, Holder DEF BackInv, Release, Holding
      <4> QED BY <1>1, <3>1, <4>1, FreeReqCounts DEF Release
    <3>2. CASE Populate(d)
      BY <1>1, <3>2, PopulateCounts
    <3>3. CASE \/ ThreadStart(d) \/ CancelUrb(d) \/ KillReturns(d) \/ SetupUrb(d)
               \/ Submit(d) \/ SubmitFails(d) \/ FlushAndRespond(d)
               \/ Respond(d) \/ ThreadFlush(d) \/ ThreadExit(d)
               \/ TakeRequest(d) \/ SetupIndirect(d)
      <4>1. UNCHANGED <<nr, filled>>
        BY <3>3 DEF ThreadStart, CancelUrb, KillReturns, SetupUrb, Submit, SubmitFails,
           FlushAndRespond, Respond, ThreadFlush, ThreadExit, TakeRequest, SetupIndirect
      <4> QED BY <4>1
    <3> QED BY <2>1, <3>1, <3>2, <3>3 DEF ThreadStep
  <2>2. ASSUME NEW p \in Preqs, AsyncFree(p)
        PROVE  Short
    BY <1>1, <2>2, FreeReqCounts DEF AsyncFree
  <2>3. CASE \/ \E d \in Devices : DisconnectStep(d)
             \/ \E d \in Leaving : KthreadStop(d)
             \/ \E p \in Preqs : CompletionStep(p) \/ TimerStep(p)
                                 \/ EndUsbIoOp(p) \/ TimeoutTooLate(p)
             \/ SpliceToFree
             \/ \E r \in Requests : Send(r)
             \/ UNCHANGED vars
    <3>1. UNCHANGED <<nr, filled>>
      BY <2>3 DEF DisconnectStep, Disconnect, UsbifFree, KthreadStop, CompletionStep,
         EndResponds, EndPuts, EndWakes, EndQueues, TimerStep, TimerExpires,
         TimeoutUsbIoOp, EndUsbIoOp, TimeoutTooLate, SpliceToFree, Send, vars
    <3> QED BY <3>1
  <2> HIDE DEF Short
  <2> QED BY <1>1, <2>1, <2>2, <2>3 DEF Next, TaskletStep
<1>2. BackInv /\ [Next]_vars =>
        [\A p \in Preqs : nr'[p] > filled'[p] =>
            \/ nr[p] > filled[p]
            \/ segFree = 0 /\ Extended # {}]_vars
  BY <1>1
<1> QED BY <1>2, BackInvariant, PTL DEF Spec, SegmentsRunShort

\* Without indirect requests the segments of usbif_init are enough: the
\* BUG_ON of free_segments never fires.
THEOREM SegmentsNeverMissing ==
    ASSUME Indirect = {}
    PROVE  Spec => []SegmentsPresent
<1>0. Indirect = {}
  OBVIOUS
<1>1. Init => SegmentUseInv
  BY DEF Init, SegmentUseInv, SegmentsPresent
<1>2. ASSUME BackInv, SegmentUseInv, [Next]_vars
      PROVE  SegmentUseInv'
  <2> USE DEF poolVars, urbVars, threadVars, taskVars, devVars
  <2>1. ASSUME UNCHANGED <<nr, filled, extra>>, SegmentsPresent',
               \A p \in Preqs : extra[p] # 0 => req'[p] = req[p]
        PROVE  SegmentUseInv'
    BY <1>2, <2>1 DEF SegmentUseInv
  <2>2. ASSUME NEW p \in Preqs, FreeReq(p)
        PROVE  SegmentUseInv'
    <3>1. nr[p] <= filled[p] /\ nr[p] \in 0 .. 1 /\ filled[p] \in 0 .. 1
      BY <1>2 DEF SegmentUseInv, BackInv, TypeOK
    <3>2. req' = [req EXCEPT ![p] = NoReq]
      BY <2>2 DEF FreeReq
    <3>3. CASE UsesFreed(p) /\ UNCHANGED <<nr, filled, extra>> /\ bug'
      <4>1. SegmentsPresent'
        BY <2>2, <3>3 DEF FreeReq, SegmentsPresent
      <4>2. extra[p] = 0
        BY <1>2, <1>0 DEF SegmentUseInv
      <4> QED BY <1>2, <3>2, <3>3, <4>1, <4>2 DEF SegmentUseInv, BackInv, TypeOK
    <3>4. CASE /\ nr' = [nr EXCEPT ![p] = 0] /\ filled' = [filled EXCEPT ![p] = 0]
               /\ extra' = [extra EXCEPT ![p] = 0] /\ bug' = bug
      <4>1. SegmentsPresent'
        BY <1>2, <2>2, <3>4 DEF FreeReq, SegmentUseInv, SegmentsPresent
      <4> QED BY <1>2, <3>2, <3>4, <4>1 DEF SegmentUseInv, BackInv, TypeOK
    <3>5. ~(nr[p] > filled[p])
      BY <3>1
    <3> QED BY <2>2, <3>3, <3>4, <3>5 DEF FreeReq
  <2>3. ASSUME NEW d \in Devices, TakeRequest(d)
        PROVE  SegmentUseInv'
    <3>1. PICK p \in free : req' = [req EXCEPT ![p] = Head(ring[d])]
      BY <2>3 DEF TakeRequest
    <3>2. p \in Preqs /\ extra[p] = 0
      BY <1>2 DEF BackInv, TypeOK, PlaceInv, Untouched
    <3>3. \A q \in Preqs : extra[q] # 0 => req'[q] = req[q]
      BY <1>2, <3>1, <3>2 DEF BackInv, TypeOK
    <3>4. SegmentsPresent'
      BY <1>2, <2>3 DEF TakeRequest, SegmentUseInv, SegmentsPresent
    <3> QED BY <2>1, <2>3, <3>3, <3>4 DEF TakeRequest
  <2>4. ASSUME NEW d \in Devices, Populate(d)
        PROVE  SegmentUseInv'
    <3>1. cur[d] \in Preqs /\ Untouched(cur[d])
      BY <1>2, <2>4, Holder DEF BackInv, ThreadInv, Populate, Holding
    <3>2. segFree >= 1 /\ segFree \in Nat
      <4>1. Extended = {}
        BY <1>0, <1>2 DEF Extended, SegmentUseInv
      <4> QED BY <1>2, <3>1, <4>1, SegmentLeft
    <3>3. /\ nr' = [nr EXCEPT ![cur[d]] = 1] /\ filled' = [filled EXCEPT ![cur[d]] = 1]
          /\ UNCHANGED <<extra, req, bug, lateUse>>
      <4>1. ~(segFree < 1)
        BY <3>2
      <4> QED BY <2>4, <4>1 DEF Populate
    <3> QED BY <1>2, <3>3 DEF SegmentUseInv, SegmentsPresent, BackInv, TypeOK
  <2>5. ASSUME NEW d \in Devices, SetupIndirect(d)
        PROVE  SegmentUseInv'
    <3>1. cur[d] \in Preqs
      BY <1>2, <2>5, Holder DEF BackInv, SetupIndirect, Holding
    <3>2. /\ UNCHANGED <<nr, filled, req, bug, lateUse>>
          /\ \/ extra' = extra
             \/ extra' = [extra EXCEPT ![cur[d]] = ExtraPages(req[cur[d]])]
      BY <2>5 DEF SetupIndirect
    <3>3. ExtraPages(req[cur[d]]) # 0 => req[cur[d]] \in Indirect
      BY DEF ExtraPages
    <3> QED BY <1>2, <3>1, <3>2, <3>3 DEF SegmentUseInv, SegmentsPresent, BackInv, TypeOK
  <2>6. ASSUME NEW d \in Devices, ThreadStep(d)
        PROVE  SegmentUseInv'
    <3>1. CASE Release(d)
      <4>1. cur[d] \in Preqs
        BY <1>2, <3>1, Holder DEF BackInv, Release, Holding
      <4> QED BY <2>2, <3>1, <4>1 DEF Release
    <3>2. CASE \/ ThreadStart(d) \/ CancelUrb(d) \/ KillReturns(d) \/ SetupUrb(d)
               \/ Submit(d) \/ SubmitFails(d) \/ FlushAndRespond(d)
               \/ Respond(d) \/ ThreadFlush(d) \/ ThreadExit(d)
      <4>1. UNCHANGED <<nr, filled, extra, bug, lateUse, req>>
        BY <3>2 DEF ThreadStart, CancelUrb, KillReturns, SetupUrb, Submit, SubmitFails,
           FlushAndRespond, Respond, ThreadFlush, ThreadExit
      <4>2. SegmentsPresent'
        BY <1>2, <4>1 DEF SegmentUseInv, SegmentsPresent
      <4> QED BY <2>1, <4>1, <4>2
    <3> QED BY <2>3, <2>4, <2>5, <2>6, <3>1, <3>2 DEF ThreadStep
  <2>7. ASSUME NEW p \in Preqs, AsyncFree(p)
        PROVE  SegmentUseInv'
    BY <2>2, <2>7 DEF AsyncFree
  <2>8. CASE \/ \E d \in Devices : DisconnectStep(d)
             \/ \E d \in Leaving : KthreadStop(d)
             \/ \E p \in Preqs : TimerStep(p) \/ EndUsbIoOp(p) \/ TimeoutTooLate(p)
             \/ \E p \in Preqs : EndResponds(p) \/ EndPuts(p) \/ EndQueues(p)
             \/ SpliceToFree
             \/ \E r \in Requests : Send(r)
             \/ UNCHANGED vars
    <3>1. UNCHANGED <<nr, filled, extra, bug, lateUse, req>>
      BY <2>8 DEF DisconnectStep, Disconnect, UsbifFree, KthreadStop, EndResponds,
         EndPuts, EndQueues, TimerStep, TimerExpires, TimeoutUsbIoOp, EndUsbIoOp,
         TimeoutTooLate, SpliceToFree, Send, vars
    <3>2. SegmentsPresent'
      BY <1>2, <3>1 DEF SegmentUseInv, SegmentsPresent
    <3> QED BY <2>1, <3>1, <3>2
  <2>9. ASSUME NEW p \in Preqs, EndWakes(p)
        PROVE  SegmentUseInv'
    <3>1. UNCHANGED <<nr, filled, extra, req>>
      BY <2>9 DEF EndWakes
    <3>2. SegmentsPresent'
      BY <1>2, <2>9 DEF EndWakes, SegmentUseInv, SegmentsPresent
    <3> QED BY <2>1, <3>1, <3>2
  <2> QED BY <1>2, <2>6, <2>7, <2>8, <2>9 DEF Next, TaskletStep, CompletionStep
<1>3. BackInv /\ SegmentUseInv /\ [Next]_vars => SegmentUseInv'
  BY <1>2
<1>4. SegmentUseInv => SegmentsPresent
  BY DEF SegmentUseInv
<1> QED BY <1>1, <1>3, <1>4, BackInvariant, PTL DEF Spec

-----------------------------------------------------------------------------
(* Every device's ring as a pair of queues *)

\* A request that a pending_req stands for is on no ring, and is one.
LEMMA Standing ==
    ASSUME BackInv, NEW p \in Preqs, req[p] # NoReq
    PROVE  /\ req[p] \in Requests
           /\ \A q \in Preqs : req[q] = req[p] => q = p
  BY DEF BackInv, TypeOK, RequestInv

\* A step that moves no request and answers none: what is owed stays owed and
\* nobody new works on a request.
LEMMA QuietIsStutter ==
    ASSUME ChannelInv, UNCHANGED <<ring, req, answers>>,
           AnsweredNow = {} => UNCHANGED given,
           \A p \in Preqs : Owing(p) => Owing(p)',
           \A d \in Devices, p \in Preqs : Answers(d, p)' => Answers(d, p)
    PROVE  SettledInv' /\ OwnInv' /\ GivenInv' /\ UNCHANGED Channel!vars
<1>1. AnsweredNow = {}
  BY DEF AnsweredNow
<1>2. SettledInv' /\ OwnInv' /\ GivenInv'
  BY <1>1 DEF ChannelInv, SettledInv, OwnInv, GivenInv
<1>3. Owned' = Owned
  BY DEF Owned
<1> QED BY <1>1, <1>2, <1>3 DEF Channel!vars

\* The answer to a request that was owed one.
LEMMA AnswerIsAnswer ==
    ASSUME ChannelInv, Watched \in Devices,
           NEW d \in Devices, NEW p \in Preqs, Owing(p), ~Owing(p)', Answers(d, p),
           req[p] \in Requests, UNCHANGED <<req, ring>>, MakeResponse(req[p]),
           \/ AnsweredNow = {} /\ UNCHANGED given
           \/ \E r \in AnsweredNow : given' = Append(given, r),
           \A q \in Preqs : q # p /\ Owing(q) => Owing(q)',
           \A e \in Devices, q \in Preqs : Answers(e, q)' => Answers(e, q)
    PROVE  SettledInv' /\ OwnInv' /\ GivenInv' /\ [Channel!Next]_Channel!vars
<1>1. /\ answers[req[p]] = 0 /\ DevOf[req[p]] = d /\ req[p] # NoReq
      /\ answers \in [Requests -> 0 .. 2]
  BY BackAssumption DEF ChannelInv, BackInv, RequestInv, OwnInv, TypeOK
<1>2. \A r \in Requests : answers'[r] = IF r = req[p] THEN 1 ELSE answers[r]
  BY <1>1 DEF MakeResponse
<1>3. \A q \in Preqs : req[q] = req[p] => q = p
  BY <1>1, Standing DEF ChannelInv
<1>4. SettledInv'
  <2>1. ASSUME NEW q \in Preqs, req[q] # NoReq, ~Owing(q)'
        PROVE  answers'[req[q]] = 1
    <3>1. req[q] \in Requests
      BY <2>1, Standing DEF ChannelInv
    <3>2. CASE q = p
      BY <1>2, <3>1, <3>2
    <3>3. CASE q # p
      <4>1. answers[req[q]] = 1
        BY <2>1, <3>3 DEF ChannelInv, SettledInv
      <4> QED BY <1>2, <1>3, <3>1, <3>3, <4>1
    <3> QED BY <3>2, <3>3
  <2> QED BY <2>1 DEF SettledInv
<1>5. OwnInv'
  BY DEF ChannelInv, OwnInv
<1>6. GivenInv /\ given \in Seq(Sent) /\ DOMAIN given = 1 .. Len(given) /\ Len(given) \in Nat
  <2>1. GivenInv /\ given \in Seq(Sent)
    BY DEF ChannelInv, GivenInv
  <2> QED BY <2>1, LenProperties
<1>7. \A k \in DOMAIN given : given[k] \in Sent /\ answers'[given[k]] = 1
  <2>1. ASSUME NEW k \in DOMAIN given
        PROVE  given[k] \in Sent
    BY <1>6, ElementOfSeq
  <2> QED BY <1>2, <1>6, <2>1 DEF GivenInv, Sent
<1>8. \A r \in Requests : r \in Owned' <=> r \in Owned /\ r # req[p]
  BY <1>1, <1>2 DEF Owned, Sent
<1>9. Owned' = Owned \ {req[p]}
  BY <1>8 DEF Owned, Sent
<1>10. CASE d = Watched
  <2>1. AnsweredNow = {req[p]}
    BY <1>1, <1>2, <1>10 DEF AnsweredNow
  <2>2. given' = Append(given, req[p])
    BY <2>1
  <2>3. req[p] \in Sent /\ req[p] \in Owned
    BY <1>1, <1>10 DEF Owned, Sent
  <2>4. GivenInv'
    <3>1. /\ given' \in Seq(Sent) /\ DOMAIN given' = 1 .. Len(given) + 1
          /\ \A k \in 1 .. Len(given) : given'[k] = given[k]
          /\ given'[Len(given) + 1] = req[p]
      <4>1. /\ Append(given, req[p]) \in Seq(Sent)
            /\ Len(Append(given, req[p])) = Len(given) + 1
            /\ \A k \in 1 .. Len(given) : Append(given, req[p])[k] = given[k]
            /\ Append(given, req[p])[Len(given) + 1] = req[p]
        BY <1>6, <2>3, AppendProperties
      <4>2. DOMAIN Append(given, req[p]) = 1 .. Len(given) + 1
        BY <4>1, LenProperties
      <4> QED BY <2>2, <4>1, <4>2
    <3>2. ASSUME NEW k \in DOMAIN given' PROVE answers'[given'[k]] = 1
      <4>1. k \in 1 .. Len(given) \/ k = Len(given) + 1
        BY <1>6, <3>1
      <4> QED BY <1>2, <1>6, <1>7, <3>1, <4>1
    <3>3. Sent' = Sent
      BY DEF Sent
    <3> QED BY <3>1, <3>2, <3>3 DEF GivenInv
  <2>5. Channel!Answer(req[p])
    BY <1>9, <2>2, <2>3 DEF Channel!Answer
  <2> QED BY <1>4, <1>5, <2>3, <2>4, <2>5 DEF Channel!Next
<1>11. CASE d # Watched
  <2>1. AnsweredNow = {}
    <3>1. ASSUME NEW r \in AnsweredNow PROVE FALSE
      <4>1. r = req[p]
        BY <1>2 DEF AnsweredNow
      <4>2. PICK q \in Preqs : req[q] = r /\ Answers(Watched, q)
        BY DEF AnsweredNow
      <4>3. DevOf[req[p]] = Watched
        BY <1>3, <4>1, <4>2 DEF ChannelInv, OwnInv
      <4> QED BY <1>1, <1>11, <4>3
    <3> QED BY <3>1
  <2>2. given' = given /\ Owned' = Owned
    BY <1>1, <1>9, <1>11, <2>1 DEF Owned, Sent
  <2>3. GivenInv'
    BY <1>6, <1>7, <2>2 DEF GivenInv, Sent
  <2> QED BY <1>4, <1>5, <2>2, <2>3 DEF Channel!vars
<1> QED BY <1>10, <1>11

\* Giving a pending_req back drops no request: it had been answered.
LEMMA FreeIsStutter ==
    ASSUME ChannelInv, NEW p \in Preqs, FreeReq(p), ~Owing(p), ~Owing(p)',
           UNCHANGED <<ring, answers>>, AnsweredNow = {} => UNCHANGED given,
           \A q \in Preqs : q # p /\ Owing(q) => Owing(q)',
           \A d \in Devices, q \in Preqs : Answers(d, q)' => q # p /\ Answers(d, q)
    PROVE  SettledInv' /\ OwnInv' /\ GivenInv' /\ UNCHANGED Channel!vars
<1>1. req'[p] = NoReq /\ \A q \in Preqs : q # p => req'[q] = req[q]
  BY FreeReqFields DEF ChannelInv, BackInv
<1>2. AnsweredNow = {}
  BY DEF AnsweredNow
<1>3. SettledInv' /\ OwnInv' /\ GivenInv'
  BY <1>1, <1>2 DEF ChannelInv, SettledInv, OwnInv, GivenInv
<1>4. \A r \in Requests : r \in Owned' <=> r \in Owned
  <2>1. ASSUME NEW r \in Requests, answers[r] = 0
        PROVE  (\E q \in Preqs : req'[q] = r) <=> (\E q \in Preqs : req[q] = r)
    <3>1. r # NoReq
      BY BackAssumption
    <3>2. req[p] # r
      BY <2>1, <3>1 DEF ChannelInv, SettledInv
    <3> QED BY <1>1, <3>1, <3>2
  <2> QED BY <2>1 DEF Owned, Sent
<1>5. Owned' = Owned
  BY <1>4 DEF Owned, Sent
<1> QED BY <1>2, <1>3, <1>5 DEF Channel!vars

\* alloc_req: the oldest request of the ring is received.
LEMMA TakeIsTake ==
    ASSUME ChannelInv, Watched \in Devices, AnswerRecorded,
           NEW d \in Devices, TakeRequest(d)
    PROVE  SettledInv' /\ OwnInv' /\ GivenInv' /\ [Channel!Next]_Channel!vars
<1> USE DEF ChannelInv, BackInv, poolVars, urbVars, threadVars, taskVars, devVars, Goto
<1> DEFINE r == Head(ring[d])
<1>1. PICK p \in free : /\ cur' = [cur EXCEPT ![d] = p] /\ req' = [req EXCEPT ![p] = r]
                        /\ ring' = [ring EXCEPT ![d] = Tail(@)]
                        /\ UNCHANGED <<urb, usbif, answers>>
                        /\ pc[d] = "idle" /\ ring[d] # << >>
                        /\ \E l \in {"dispatch", "cancel", "respond"} : pc' = [pc EXCEPT ![d] = l]
  BY DEF TakeRequest
<1>2. /\ p \in Preqs /\ req[p] = NoReq /\ urb[p] = "none"
      /\ \A e \in Devices : cur[e] # p
      /\ cur[d] = NoPreq /\ NoPreq \notin Preqs /\ NoReq \notin Requests
  <2>1. NoPreq \notin Preqs /\ NoReq \notin Requests
    BY BackAssumption
  <2>2. p \in Preqs /\ req[p] = NoReq /\ urb[p] = "none"
    BY <1>1 DEF PlaceInv, TypeOK
  <2>3. \A e \in Devices : cur[e] # p
    BY <2>1, <2>2 DEF ThreadInv
  <2>4. cur[d] = NoPreq
    BY <1>1 DEF ThreadInv, Holding
  <2> QED BY <2>1, <2>2, <2>3, <2>4
<1>3. /\ r \in Requests /\ DevOf[r] = d /\ answers[r] = 0
      /\ ring[d] \in Seq(Requests) /\ 1 \in DOMAIN ring[d] /\ r = ring[d][1]
  <2>1. ring[d] \in Seq(Requests)
    BY DEF TypeOK
  <2>2. /\ Len(ring[d]) \in Nat \ {0} /\ DOMAIN ring[d] = 1 .. Len(ring[d])
    BY <1>1, <2>1, EmptySeq, LenProperties
  <2>3. r = ring[d][1] /\ 1 \in DOMAIN ring[d] /\ r \in Requests
    BY <1>1, <2>1, <2>2, ElementOfSeq, HeadTailProperties
  <2> QED BY <2>1, <2>3 DEF RequestInv
<1>4. /\ req'[p] = r /\ cur'[d] = p /\ \A q \in Preqs : q # p => req'[q] = req[q]
      /\ \A e \in Devices : e # d => cur'[e] = cur[e] /\ pc'[e] = pc[e]
      /\ pc'[d] # "release"
  BY <1>1, <1>2 DEF TypeOK
<1>5. Owing(p)' /\ \A q \in Preqs : Owing(q) => Owing(q)'
  <2>1. Owing(p)'
    BY <1>4 DEF Owing, Held
  <2>2. \A q \in Preqs : \A e \in Held(q) : e # d
    BY <1>2 DEF Held
  <2>3. \A q \in Preqs : Owing(q) => Owing(q)'
    BY <1>1, <1>4, <2>2 DEF Owing, Held
  <2> QED BY <2>1, <2>3
<1>6. \A q \in Preqs : req[q] # r
  BY <1>3 DEF RequestInv
<1>7. AnsweredNow = {} /\ given' = given
  BY <1>1 DEF AnsweredNow, AnswerRecorded
<1>8. SettledInv'
  BY <1>1, <1>4, <1>5 DEF SettledInv
<1>9. OwnInv'
  <2>1. ASSUME NEW e \in Devices, NEW q \in Preqs, Answers(e, q)'
        PROVE  DevOf[req'[q]] = e
    <3>1. CASE q = p
      BY <1>1, <1>2, <1>3, <1>4, <2>1, <3>1 DEF Answers
    <3>2. CASE q # p
      <4>1. Answers(e, q)
        BY <1>1, <1>4, <2>1, <3>2 DEF Answers
      <4> QED BY <1>4, <3>2, <4>1 DEF OwnInv
    <3> QED BY <3>1, <3>2
  <2> QED BY <2>1 DEF OwnInv
<1>10. GivenInv'
  BY <1>1, <1>7 DEF GivenInv, Sent
<1>11. \A s \in Requests : (\E q \in Preqs : req'[q] = s) <=> s = r \/ \E q \in Preqs : req[q] = s
  BY <1>2, <1>4
<1>12. CASE d = Watched
  <2>1. r \in Sent /\ Owned' = Owned \cup {r}
    BY <1>1, <1>3, <1>11, <1>12 DEF Owned, Sent
  <2>2. ring'[d] = Tail(ring[d])
    BY <1>1 DEF TypeOK
  <2>3. Channel!Take
    BY <1>1, <1>7, <1>12, <2>1, <2>2 DEF Channel!Take
  <2> QED BY <1>8, <1>9, <1>10, <2>3 DEF Channel!Next
<1>13. CASE d # Watched
  <2>1. ring'[Watched] = ring[Watched]
    BY <1>1, <1>13 DEF TypeOK
  <2>2. Owned' = Owned
    BY <1>1, <1>3, <1>11, <1>13 DEF Owned, Sent
  <2> QED BY <1>7, <1>8, <1>9, <1>10, <2>1, <2>2 DEF Channel!vars
<1> QED BY <1>12, <1>13

\* A frontend sends a request that is nowhere.
LEMMA SendIsSend ==
    ASSUME ChannelInv, Watched \in Devices, AnswerRecorded,
           NEW r \in Requests, Send(r)
    PROVE  SettledInv' /\ OwnInv' /\ GivenInv' /\ [Channel!Next]_Channel!vars
<1> USE DEF ChannelInv, BackInv, poolVars, urbVars, threadVars, taskVars, devVars
<1> DEFINE d == DevOf[r]
<1>1. /\ answers[r] = 0 /\ \A p \in Preqs : req[p] # r
      /\ \A k \in DOMAIN ring[d] : ring[d][k] # r
      /\ ring' = [ring EXCEPT ![d] = Append(@, r)]
      /\ UNCHANGED <<req, urb, usbif, cur, pc, answers>>
  BY DEF Send, OnRing
<1>2. AnsweredNow = {} /\ given' = given
  BY <1>1 DEF AnsweredNow, AnswerRecorded
<1>3. SettledInv' /\ OwnInv' /\ GivenInv'
  BY <1>1, <1>2 DEF SettledInv, OwnInv, GivenInv, Owing, Held, Answers, Sent
<1>4. Owned' = Owned
  BY <1>1 DEF Owned, Sent
<1>5. CASE d = Watched
  <2>1. ring'[Watched] = Append(ring[Watched], r)
    BY <1>1, <1>5 DEF TypeOK
  <2>2. r \in Sent /\ r \notin Owned
    BY <1>1, <1>5 DEF Owned, Sent
  <2>3. r \notin Channel!InUse
    BY <1>1, <1>5, <2>2 DEF Channel!InUse, Channel!Elements, GivenInv
  <2>4. Channel!Send(r)
    BY <1>2, <1>4, <2>1, <2>2, <2>3 DEF Channel!Send
  <2> QED BY <1>3, <2>2, <2>4 DEF Channel!Next
<1>6. CASE d # Watched
  <2>1. ring'[Watched] = ring[Watched]
    BY <1>1, <1>6 DEF TypeOK
  <2> QED BY <1>2, <1>3, <1>4, <2>1 DEF Channel!vars
<1> QED BY <1>5, <1>6

\* Steps that only stop a device, move lists or timers, or leave an URB on its
\* way from the core to the tasklet.
LEMMA CoreIsStutter ==
    ASSUME ChannelInv, AnswerRecorded,
           \/ \E d \in Devices : KthreadStop(d) \/ Disconnect(d) \/ UsbifFree(d)
           \/ \E p \in Preqs : \/ TimerExpires(p) \/ TimeoutUsbIoOp(p) \/ TimeoutTooLate(p)
                             \/ EndUsbIoOp(p) \/ EndPuts(p) \/ EndWakes(p) \/ EndQueues(p)
           \/ SpliceToFree
    PROVE  SettledInv' /\ OwnInv' /\ GivenInv' /\ UNCHANGED Channel!vars
<1> USE DEF ChannelInv, BackInv, poolVars, urbVars, threadVars, taskVars, devVars
<1>1. /\ UNCHANGED <<ring, req, answers, usbif, cur, pc>>
      /\ \/ UNCHANGED urb
         \/ \E p \in Preqs : \E s \in {"flushed", "wake", "put", "queued"} :
              /\ urb' = [urb EXCEPT ![p] = s] /\ urb[p] # "none"
              /\ s = "flushed" \/ urb[p] \notin {"flight", "flushed"}
  <2>1. CASE \/ \E d \in Devices : KthreadStop(d) \/ Disconnect(d) \/ UsbifFree(d)
             \/ \E p \in Preqs : \/ TimerExpires(p) \/ TimeoutUsbIoOp(p) \/ TimeoutTooLate(p)
             \/ SpliceToFree
    BY <2>1 DEF KthreadStop, Disconnect, UsbifFree, TimerExpires, TimeoutUsbIoOp,
       TimeoutTooLate, SpliceToFree
  <2>2. ASSUME NEW p \in Preqs, EndUsbIoOp(p) \/ EndPuts(p) \/ EndWakes(p) \/ EndQueues(p)
        PROVE  /\ UNCHANGED <<ring, req, answers, usbif, cur, pc>>
               /\ \E s \in {"flushed", "wake", "put", "queued"} :
                    /\ urb' = [urb EXCEPT ![p] = s] /\ urb[p] # "none"
                    /\ s = "flushed" \/ urb[p] \notin {"flight", "flushed"}
    BY <2>2 DEF EndUsbIoOp, EndPuts, EndWakes, EndQueues
  <2> QED BY <2>1, <2>2
<1>2. ASSUME NEW q \in Preqs
      PROVE  /\ urb[q] \in {"flight", "flushed"} => urb'[q] \in {"flight", "flushed"}
             /\ urb'[q] # "none" => urb[q] # "none"
  BY <1>1 DEF TypeOK
<1>3. \A q \in Preqs : Owing(q) => Owing(q)'
  BY <1>1, <1>2 DEF Owing, Held
<1>4. \A e \in Devices, q \in Preqs : Answers(e, q)' => Answers(e, q)
  BY <1>1, <1>2 DEF Answers
<1> QED BY <1>1, <1>3, <1>4, QuietIsStutter DEF AnswerRecorded

\* Steps of a thread before it answers, and at its beginning and end.
LEMMA ThreadIsStutter ==
    ASSUME ChannelInv, AnswerRecorded, NEW d \in Devices,
           \/ ThreadStart(d) \/ CancelUrb(d) \/ KillReturns(d) \/ Populate(d)
           \/ SetupIndirect(d) \/ SetupUrb(d) \/ Submit(d) \/ SubmitFails(d)
           \/ ThreadFlush(d) \/ ThreadExit(d)
    PROVE  SettledInv' /\ OwnInv' /\ GivenInv' /\ UNCHANGED Channel!vars
<1> USE DEF ChannelInv, BackInv, poolVars, urbVars, threadVars, taskVars, devVars,
        Goto, LetGo
<1>1. CASE Submit(d)
  <2>1. /\ UNCHANGED <<ring, req, answers, usbif>>
        /\ pc[d] = "submit" /\ pc' = [pc EXCEPT ![d] = "idle"]
        /\ cur' = [cur EXCEPT ![d] = NoPreq]
        /\ urb' = [urb EXCEPT ![cur[d]] = "flight"]
    BY <1>1 DEF Submit
  <2>2. /\ cur[d] \in Preqs /\ usbif[cur[d]] = d /\ NoPreq \notin Preqs
        /\ Held(cur[d]) = {d}
    BY <2>1, Holder, BackAssumption DEF ThreadInv, Holding
  <2>3. /\ urb'[cur[d]] = "flight" /\ \A q \in Preqs : q # cur[d] => urb'[q] = urb[q]
        /\ cur'[d] = NoPreq
        /\ \A e \in Devices : e # d => cur'[e] = cur[e] /\ pc'[e] = pc[e]
    BY <2>1, <2>2 DEF TypeOK
  <2>4. \A q \in Preqs : Owing(q) => Owing(q)'
    <3>1. \A q \in Preqs : q # cur[d] => \A e \in Held(q) : e # d /\ e \in Held(q)'
      BY <2>3 DEF Held
    <3> QED BY <2>3, <3>1 DEF Owing, Held
  <2>5. \A e \in Devices, q \in Preqs : Answers(e, q)' => Answers(e, q)
    BY <2>1, <2>2, <2>3 DEF Answers
  <2> QED BY <2>1, <2>4, <2>5, QuietIsStutter DEF AnswerRecorded
<1>2. CASE ~Submit(d)
  <2>1. /\ UNCHANGED <<ring, req, answers, urb, cur>>
        /\ \/ UNCHANGED usbif
           \/ pc[d] = "dispatch" /\ usbif' = [usbif EXCEPT ![cur[d]] = d]
        /\ pc[d] # "release"
        /\ \E l : pc' = [pc EXCEPT ![d] = l] /\ l # "release"
    <3>1. CASE ThreadStart(d) \/ CancelUrb(d) \/ KillReturns(d) \/ ThreadFlush(d) \/ ThreadExit(d)
      BY <3>1 DEF ThreadStart, CancelUrb, KillReturns, ThreadFlush, ThreadExit
    <3>2. CASE Populate(d) \/ SetupIndirect(d)
      BY <3>2 DEF Populate, SetupIndirect
    <3>3. CASE SetupUrb(d) \/ SubmitFails(d)
      BY <3>3 DEF SetupUrb, SubmitFails
    <3> QED BY <1>2, <3>1, <3>2, <3>3
  <2>2. pc'[d] # "release" /\ \A e \in Devices : e # d => pc'[e] = pc[e]
    BY <2>1 DEF TypeOK
  <2>3. \A q \in Preqs : Owing(q) => Owing(q)'
    BY <2>1, <2>2 DEF Owing, Held
  <2>4. \A e \in Devices, q \in Preqs : Answers(e, q)' => Answers(e, q)
    <3>1. pc[d] = "dispatch" => cur[d] \in Preqs /\ urb[cur[d]] = "none"
      BY Holder DEF Holding
    <3> QED BY <2>1, <3>1 DEF Answers, TypeOK
  <2> QED BY <2>1, <2>3, <2>4, QuietIsStutter DEF AnswerRecorded
<1> QED BY <1>1, <1>2

\* fail_flush, fail_response and the requests answered at once; and the
\* completion of an URB.
LEMMA RespondIsAnswer ==
    ASSUME ChannelInv, Watched \in Devices, AnswerRecorded,
           \/ \E d \in Devices : FlushAndRespond(d) \/ Respond(d)
           \/ \E p \in Preqs : EndResponds(p)
    PROVE  SettledInv' /\ OwnInv' /\ GivenInv' /\ [Channel!Next]_Channel!vars
<1> USE DEF ChannelInv, BackInv, poolVars, urbVars, threadVars, taskVars, devVars, Goto
<1>1. ASSUME NEW d \in Devices, FlushAndRespond(d) \/ Respond(d)
      PROVE  SettledInv' /\ OwnInv' /\ GivenInv' /\ [Channel!Next]_Channel!vars
  <2>1. /\ pc[d] \in {"flush", "respond"} /\ pc' = [pc EXCEPT ![d] = "release"]
        /\ MakeResponse(req[cur[d]])
        /\ UNCHANGED <<ring, req, urb, usbif, cur>>
    BY <1>1 DEF FlushAndRespond, Respond
  <2>2. PICK p \in Preqs : /\ p = cur[d] /\ urb[p] = "none" /\ req[p] \in Requests
                            /\ Held(p) = {d}
    BY <2>1, Holder DEF Holding
  <2>3. pc'[d] = "release" /\ \A e \in Devices : e # d => pc'[e] = pc[e]
    BY <2>1 DEF TypeOK
  <2>4. Owing(p) /\ ~Owing(p)' /\ Answers(d, p)
    BY <2>1, <2>2, <2>3 DEF Owing, Held, Answers
  <2>5. \A q \in Preqs : q # p /\ Owing(q) => Owing(q)'
    BY <2>1, <2>2, <2>3 DEF Owing, Held
  <2>6. \A e \in Devices, q \in Preqs : Answers(e, q)' => Answers(e, q)
    BY <2>1 DEF Answers
  <2> QED BY <2>1, <2>2, <2>4, <2>5, <2>6, AnswerIsAnswer DEF AnswerRecorded
<1>2. ASSUME NEW p \in Preqs, EndResponds(p)
      PROVE  SettledInv' /\ OwnInv' /\ GivenInv' /\ [Channel!Next]_Channel!vars
  <2>1. /\ urb[p] = "flushed" /\ urb' = [urb EXCEPT ![p] = "answered"]
        /\ MakeResponse(req[p])
        /\ UNCHANGED <<ring, req, usbif, pc, cur>>
    BY <1>2 DEF EndResponds
  <2>2. /\ usbif[p] \in Devices /\ req[p] \in Requests
        /\ \A e \in Devices : cur[e] # p
    BY <2>1, NotHeld DEF PlaceInv, TypeOK
  <2>3. \A q \in Preqs : urb'[q] = IF q = p THEN "answered" ELSE urb[q]
    BY <2>1 DEF TypeOK
  <2>4. Owing(p) /\ ~Owing(p)' /\ Answers(usbif[p], p)
    BY <2>1, <2>2, <2>3 DEF Owing, Held, Answers
  <2>5. \A q \in Preqs : q # p /\ Owing(q) => Owing(q)'
    BY <2>1, <2>3 DEF Owing, Held
  <2>6. \A e \in Devices, q \in Preqs : Answers(e, q)' => Answers(e, q)
    BY <2>1, <2>3 DEF Answers
  <2> QED BY <2>1, <2>2, <2>4, <2>5, <2>6, AnswerIsAnswer DEF AnswerRecorded
<1> QED BY <1>1, <1>2

\* free_req, by the thread and by the tasklet.
LEMMA GiveBackIsStutter ==
    ASSUME ChannelInv, AnswerRecorded,
           (\E d \in Devices : Release(d)) \/ (\E p \in Preqs : AsyncFree(p))
    PROVE  SettledInv' /\ OwnInv' /\ GivenInv' /\ UNCHANGED Channel!vars
<1> USE DEF ChannelInv, BackInv, poolVars, urbVars, threadVars, taskVars, devVars,
        Goto, LetGo
<1>1. ASSUME NEW d \in Devices, Release(d)
      PROVE  SettledInv' /\ OwnInv' /\ GivenInv' /\ UNCHANGED Channel!vars
  <2>1. /\ pc[d] = "release" /\ pc' = [pc EXCEPT ![d] = "idle"]
        /\ cur' = [cur EXCEPT ![d] = NoPreq] /\ FreeReq(cur[d])
        /\ UNCHANGED <<ring, answers>>
    BY <1>1 DEF Release
  <2>2. PICK p \in Preqs : p = cur[d] /\ urb[p] = "none" /\ Held(p) = {d}
    BY <2>1, Holder DEF Holding
  <2>3. /\ cur'[d] = NoPreq /\ NoPreq \notin Preqs
        /\ \A e \in Devices : e # d => cur'[e] = cur[e] /\ pc'[e] = pc[e]
    BY <2>1, BackAssumption DEF TypeOK
  <2>4. /\ urb'[p] = "none"
        /\ \A q \in Preqs : q # p => urb'[q] = urb[q] /\ usbif'[q] = usbif[q]
    BY <2>1, <2>2, FreeReqFields
  <2>5. ~Owing(p) /\ ~Owing(p)'
    BY <2>1, <2>2, <2>3, <2>4 DEF Owing, Held
  <2>6. \A q \in Preqs : q # p /\ Owing(q) => Owing(q)'
    BY <2>2, <2>3, <2>4 DEF Owing, Held
  <2>7. \A e \in Devices, q \in Preqs : Answers(e, q)' => q # p /\ Answers(e, q)
    BY <2>2, <2>3, <2>4 DEF Answers, Held
  <2> QED BY <2>1, <2>2, <2>5, <2>6, <2>7, FreeIsStutter DEF AnswerRecorded
<1>2. ASSUME NEW p \in Preqs, AsyncFree(p)
      PROVE  SettledInv' /\ OwnInv' /\ GivenInv' /\ UNCHANGED Channel!vars
  <2>1. p \in tmp /\ FreeReq(p) /\ UNCHANGED <<ring, answers, pc, cur>>
    BY <1>2 DEF AsyncFree
  <2>2. urb[p] = "queued" /\ \A e \in Devices : cur[e] # p
    BY <2>1, NotHeld DEF PlaceInv
  <2>3. /\ urb'[p] = "none"
        /\ \A q \in Preqs : q # p => urb'[q] = urb[q] /\ usbif'[q] = usbif[q]
    BY <2>1, FreeReqFields
  <2>4. ~Owing(p) /\ ~Owing(p)'
    BY <2>1, <2>2, <2>3 DEF Owing, Held
  <2>5. \A q \in Preqs : q # p /\ Owing(q) => Owing(q)'
    BY <2>1, <2>3 DEF Owing, Held
  <2>6. \A e \in Devices, q \in Preqs : Answers(e, q)' => q # p /\ Answers(e, q)
    BY <2>1, <2>2, <2>3 DEF Answers
  <2> QED BY <2>1, <2>4, <2>5, <2>6, FreeIsStutter DEF AnswerRecorded
<1> QED BY <1>1, <1>2

\* At the start nothing is sent, taken or answered.
LEMMA ChannelInitInv ==
    ASSUME ChannelInit, Watched \in Devices
    PROVE  ChannelInv /\ Channel!Init
<1>1. BackInv
  BY InitBackInv DEF ChannelInit
<1>2. SettledInv
  BY DEF ChannelInit, Init, SettledInv
<1>3. OwnInv
  BY BackAssumption DEF ChannelInit, Init, OwnInv, Answers
<1>4. GivenInv
  BY DEF ChannelInit, GivenInv
<1>5. Owned = {}
  BY BackAssumption DEF ChannelInit, Init, Owned, Sent
<1> QED BY <1>1, <1>2, <1>3, <1>4, <1>5 DEF ChannelInv, Channel!Init, ChannelInit, Init

\* Every step of the backend is one of the channel's, or none.
LEMMA ChannelStep ==
    ASSUME ChannelInv, Watched \in Devices, [ChannelNext]_channelVars
    PROVE  ChannelInv' /\ [Channel!Next]_Channel!vars
<1>1. CASE ChannelNext
  <2>1. Next /\ AnswerRecorded /\ BackInv'
    BY <1>1, StepBackInv DEF ChannelNext, ChannelInv, AnswerRecorded
  <2>2. CASE \E d \in Devices : TakeRequest(d)
    BY <2>1, <2>2, TakeIsTake DEF ChannelInv
  <2>3. CASE \E r \in Requests : Send(r)
    BY <2>1, <2>3, SendIsSend DEF ChannelInv
  <2>4. CASE \/ \E d \in Devices : FlushAndRespond(d) \/ Respond(d)
             \/ \E p \in Preqs : EndResponds(p)
    BY <2>1, <2>4, RespondIsAnswer DEF ChannelInv
  <2>5. CASE (\E d \in Devices : Release(d)) \/ (\E p \in Preqs : AsyncFree(p))
    BY <2>1, <2>5, GiveBackIsStutter DEF ChannelInv
  <2>6. CASE \/ \E d \in Devices : KthreadStop(d) \/ Disconnect(d) \/ UsbifFree(d)
             \/ \E p \in Preqs : \/ TimerExpires(p) \/ TimeoutUsbIoOp(p) \/ TimeoutTooLate(p)
                               \/ EndUsbIoOp(p) \/ EndPuts(p) \/ EndWakes(p) \/ EndQueues(p)
             \/ SpliceToFree
    BY <2>1, <2>6, CoreIsStutter DEF ChannelInv
  <2>7. CASE \E d \in Devices :
               \/ ThreadStart(d) \/ CancelUrb(d) \/ KillReturns(d) \/ Populate(d)
               \/ SetupIndirect(d) \/ SetupUrb(d) \/ Submit(d) \/ SubmitFails(d)
               \/ ThreadFlush(d) \/ ThreadExit(d)
    BY <2>1, <2>7, ThreadIsStutter DEF ChannelInv
  <2> QED BY <2>1, <2>2, <2>3, <2>4, <2>5, <2>6, <2>7, BackAssumption
          DEF Next, ThreadStep, DisconnectStep, CompletionStep, TimerStep, TaskletStep
<1>2. CASE UNCHANGED channelVars
  <2>1. UNCHANGED vars /\ UNCHANGED given
    BY <1>2 DEF channelVars
  <2>2. BackInv'
    BY <2>1, StepBackInv DEF ChannelInv
  <2>3. UNCHANGED <<ring, req, answers, urb, usbif, cur, pc>>
    BY <2>1 DEF vars, poolVars, urbVars, threadVars
  <2>4. /\ \A p \in Preqs : Owing(p) => Owing(p)'
        /\ \A d \in Devices, p \in Preqs : Answers(d, p)' => Answers(d, p)
    BY <2>3 DEF Owing, Held, Answers
  <2> QED BY <2>1, <2>2, <2>3, <2>4, QuietIsStutter DEF ChannelInv
<1> QED BY <1>1, <1>2

\* What has been taken off a ring is never lost, and nobody answers on the
\* ring of another: the invariant of the refinement.
THEOREM ChannelInvariant ==
    ASSUME Watched \in Devices
    PROVE  ChannelSpec => []ChannelInv
<1>1. ChannelInit => ChannelInv
  BY ChannelInitInv
<1>2. ChannelInv /\ [ChannelNext]_channelVars => ChannelInv'
  BY ChannelStep
<1> QED BY <1>1, <1>2, PTL DEF ChannelSpec

\* Towards every frontend the backend is the channel: requests are taken in
\* their order, and each that was taken is answered once on its own ring and
\* never dropped, whatever the other frontends, the timers, cancels and
\* failures do (VusbBackChannel.ImplementsChannel).
THEOREM BackImplementsChannel ==
    ASSUME Watched \in Devices
    PROVE  ChannelSpec => ImplementsChannel
<1>1. ChannelInit => Channel!Init
  BY ChannelInitInv
<1>2. ChannelInv /\ [ChannelNext]_channelVars => [Channel!Next]_Channel!vars
  BY ChannelStep
<1> QED BY <1>1, <1>2, ChannelInvariant, PTL DEF ChannelSpec, ImplementsChannel, Channel!Spec
=============================================================================
