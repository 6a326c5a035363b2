------------------------- MODULE VusbRingRefinement -------------------------
(***************************************************************************)
(* Proof that the ring implements VusbChannel: every step of VusbRing is,  *)
(* through the refinement mapping of that module, a step of the two queues *)
(* or leaves them alone.  The argument rests on the inductive invariant    *)
(* RingInv: the slots between two indices are the queue, a push extends it *)
(* at the far end and a read takes from the near one, and no write reaches *)
(* a slot that still belongs to either queue.                              *)
(***************************************************************************)
EXTENDS VusbRingProofs, SequenceTheorems

-----------------------------------------------------------------------------
(* Windows: the part of an unbounded tape between two indices, as a sequence *)

Window(f, lo, hi) == [k \in 1 .. hi - lo |-> f[lo + k - 1]]

\* The ids on the ring, as if the ring had no end.
Ids == [k \in Nat |-> slots[SlotOf(k)].id]

\* A window is a sequence of what the tape holds there, ...
LEMMA WindowIsSeq ==
    ASSUME NEW S, NEW f, NEW lo \in Nat, NEW hi \in Nat, lo <= hi,
           \A k \in lo .. hi - 1 : f[k] \in S
    PROVE  Window(f, lo, hi) \in Seq(S)
<1>1. hi - lo \in Nat /\ \A k \in 1 .. hi - lo : lo + k - 1 \in lo .. hi - 1
  OBVIOUS
<1>2. Window(f, lo, hi) \in [1 .. hi - lo -> S]
  BY <1>1 DEF Window
<1> QED BY <1>1, <1>2, SeqDef

\* ... as long as its indices are apart.
LEMMA WindowLen ==
    ASSUME NEW f, NEW lo \in Nat, NEW hi \in Nat, lo <= hi
    PROVE  /\ Len(Window(f, lo, hi)) = hi - lo
           /\ \A k \in 1 .. hi - lo : Window(f, lo, hi)[k] = f[lo + k - 1]
<1> DEFINE S == {f[k] : k \in lo .. hi - 1}
<1>1. Window(f, lo, hi) \in Seq(S)
  BY WindowIsSeq
<1>2. DOMAIN Window(f, lo, hi) = 1 .. hi - lo /\ hi - lo \in Nat
  BY DEF Window
<1> HIDE DEF S
<1>3. Len(Window(f, lo, hi)) = hi - lo
  BY <1>1, <1>2, LenProperties
<1> QED BY <1>3 DEF Window

\* What is in a window is all there is to it.
LEMMA WindowSame ==
    ASSUME NEW f, NEW g, NEW lo \in Nat, NEW hi \in Nat,
           \A k \in lo .. hi - 1 : f[k] = g[k]
    PROVE  Window(f, lo, hi) = Window(g, lo, hi)
<1>1. \A k \in 1 .. hi - lo : lo + k - 1 \in lo .. hi - 1
  OBVIOUS
<1> QED BY <1>1 DEF Window

\* Moving the far end on by one appends what is there.
LEMMA WindowGrows ==
    ASSUME NEW f, NEW g, NEW lo \in Nat, NEW hi \in Nat, lo <= hi,
           \A k \in lo .. hi - 1 : g[k] = f[k]
    PROVE  Window(g, lo, hi + 1) = Append(Window(f, lo, hi), g[hi])
<1> DEFINE S == {f[k] : k \in lo .. hi - 1} \cup {g[hi]}
<1>0. /\ \A k \in lo .. hi - 1 : f[k] \in S
      /\ hi + 1 \in Nat /\ lo <= hi + 1 /\ \A k \in lo .. (hi + 1) - 1 : g[k] \in S
      /\ g[hi] \in S
  OBVIOUS
<1> HIDE DEF S
<1> DEFINE w == Window(f, lo, hi)
           v == Window(g, lo, hi + 1)
           a == Append(w, g[hi])
<1>1. /\ w \in Seq(S) /\ Len(w) = hi - lo
      /\ \A k \in 1 .. hi - lo : w[k] = f[lo + k - 1]
  <2>1. w \in Seq(S)
    BY <1>0, WindowIsSeq
  <2> QED BY <2>1, WindowLen
<1>2. /\ v \in Seq(S) /\ Len(v) = hi + 1 - lo
      /\ \A k \in 1 .. hi + 1 - lo : v[k] = g[lo + k - 1]
  <2>1. v \in Seq(S)
    BY <1>0, WindowIsSeq
  <2> QED BY <1>0, <2>1, WindowLen
<1> HIDE DEF w, v
<1>3. /\ a \in Seq(S) /\ Len(a) = Len(w) + 1
      /\ \A k \in 1 .. Len(w) : a[k] = w[k]
      /\ a[Len(w) + 1] = g[hi]
  BY <1>0, <1>1, AppendProperties
<1> HIDE DEF a
<1>4. Len(a) = Len(v)
  BY <1>1, <1>2, <1>3
<1>5. ASSUME NEW k \in 1 .. Len(a) PROVE a[k] = v[k]
  <2>1. CASE k <= hi - lo
    <3>1. k \in 1 .. hi - lo /\ k \in 1 .. hi + 1 - lo /\ lo + k - 1 \in lo .. hi - 1
      BY <2>1
    <3> QED BY <1>1, <1>2, <1>3, <3>1
  <2>2. CASE k = hi - lo + 1
    <3>1. k \in 1 .. hi + 1 - lo /\ lo + k - 1 = hi
      BY <2>2
    <3> QED BY <1>1, <1>2, <1>3, <2>2, <3>1
  <2> QED BY <1>1, <1>3, <2>1, <2>2
<1>6. a = v
  BY <1>2, <1>3, <1>4, <1>5, SeqEqual
<1> QED BY <1>6 DEF a, v, w

\* Moving the near end on by one takes the first.
LEMMA WindowShrinks ==
    ASSUME NEW f, NEW lo \in Nat, NEW hi \in Nat, lo < hi
    PROVE  /\ Window(f, lo, hi) # << >>
           /\ Head(Window(f, lo, hi)) = f[lo]
           /\ Tail(Window(f, lo, hi)) = Window(f, lo + 1, hi)
<1> DEFINE S == {f[k] : k \in lo .. hi - 1}
<1>0. /\ lo <= hi /\ \A k \in lo .. hi - 1 : f[k] \in S
      /\ lo + 1 \in Nat /\ lo + 1 <= hi /\ \A k \in lo + 1 .. hi - 1 : f[k] \in S
  OBVIOUS
<1> HIDE DEF S
<1> DEFINE w == Window(f, lo, hi)
           v == Window(f, lo + 1, hi)
           t == Tail(w)
<1>1. /\ w \in Seq(S) /\ Len(w) = hi - lo
      /\ \A k \in 1 .. hi - lo : w[k] = f[lo + k - 1]
  <2>1. w \in Seq(S)
    BY <1>0, WindowIsSeq
  <2> QED BY <1>0, <2>1, WindowLen
<1>2. /\ v \in Seq(S) /\ Len(v) = hi - (lo + 1)
      /\ \A k \in 1 .. hi - (lo + 1) : v[k] = f[lo + 1 + k - 1]
  <2>1. v \in Seq(S)
    BY <1>0, WindowIsSeq
  <2> QED BY <1>0, <2>1, WindowLen
<1> HIDE DEF w, v
<1>3. w # << >>
  BY <1>1, EmptySeq
<1>4. Head(w) = f[lo]
  <2>1. Head(w) = w[1]
    BY <1>1, <1>3
  <2> QED BY <1>1, <2>1
<1>5. t \in Seq(S) /\ Len(t) = Len(w) - 1 /\ \A k \in 1 .. Len(t) : t[k] = w[k + 1]
  BY <1>1, <1>3, HeadTailProperties
<1> HIDE DEF t
<1>6. Len(t) = Len(v)
  BY <1>1, <1>2, <1>5
<1>7. ASSUME NEW k \in 1 .. Len(t) PROVE t[k] = v[k]
  <2>1. k + 1 \in 1 .. hi - lo /\ k \in 1 .. hi - (lo + 1)
    BY <1>1, <1>5
  <2>2. lo + (k + 1) - 1 = lo + 1 + k - 1
    BY <2>1
  <2>3. t[k] = w[k + 1] /\ w[k + 1] = f[lo + (k + 1) - 1]
    BY <1>1, <1>5, <2>1
  <2> QED BY <1>2, <2>1, <2>2, <2>3
<1>8. t = v
  BY <1>2, <1>5, <1>6, <1>7, SeqEqual
<1> QED BY <1>3, <1>4, <1>8 DEF t, v, w

-----------------------------------------------------------------------------
(* The two queues of the ring *)

Counters == reqProd \in Nat /\ reqCons \in Nat /\ rspProd \in Nat /\ rspCons \in Nat

\* The refinement mapping, in terms of windows.
QueuesAreWindows ==
    /\ IdsBetween(reqCons, reqProd) = Window(Ids, reqCons, reqProd)
    /\ IdsBetween(rspCons, rspProd) = Window(Ids, rspCons, rspProd)

LEMMA MappingIsWindows == Counters => QueuesAreWindows
<1>1. ASSUME NEW lo \in Nat, NEW hi \in Nat
      PROVE  IdsBetween(lo, hi) = Window(Ids, lo, hi)
  <2>1. \A k \in 1 .. hi - lo : lo + k - 1 \in Nat
    OBVIOUS
  <2> QED BY <2>1 DEF IdsBetween, Window, Ids
<1> QED BY <1>1 DEF Counters, QueuesAreWindows

\* The same after a step.
LEMMA MappingIsWindowsNext == Counters' => QueuesAreWindows'
  BY MappingIsWindows, PTL

\* Both queues hold shadows, and shadows that are where the queue says.
LEMMA QueueIds ==
    ASSUME RingInv
    PROVE  /\ Counters /\ RingSafe
           /\ \A k \in reqCons .. reqProd - 1 :
                 Ids[k] \in Shadows /\ stage[Ids[k]] = "queued"
           /\ \A k \in rspCons .. rspProd - 1 :
                 Ids[k] \in Shadows /\ stage[Ids[k]] = "answered"
<1>1. Counters /\ RingSafe
  BY CountsOrder DEF RingInv, TypeOK, Counters
<1>2. ASSUME NEW k \in Nat, slots[SlotOf(k)].what # "blank"
      PROVE  Ids[k] = slots[SlotOf(k)].id /\ Ids[k] \in Shadows
  <2>1. slots[SlotOf(k)] \in Slot
    BY SlotIndex DEF RingInv, TypeOK
  <2> QED BY <1>2, <2>1 DEF Slot, Ids
<1>3. \A k \in reqCons .. reqProd - 1 : k \in Nat /\ slots[SlotOf(k)].what # "blank"
  BY <1>1 DEF RingInv, RequestsIntact, Counters
<1>4. \A k \in rspCons .. rspProd - 1 : k \in Nat /\ slots[SlotOf(k)].what # "blank"
  BY <1>1 DEF RingInv, ResponsesIntact, Counters
<1> QED BY <1>1, <1>2, <1>3, <1>4 DEF RingInv, RequestsIntact, ResponsesIntact

\* A queue that no step touches.
LEMMA QueueSame ==
    ASSUME NEW lo \in Nat, NEW hi \in Nat,
           \A k \in lo .. hi - 1 : slots'[SlotOf(k)] = slots[SlotOf(k)]
    PROVE  \A k \in lo .. hi - 1 : Ids'[k] = Ids[k]
  BY DEF Ids, SlotOf

\* What a request in either queue is, no shadow elsewhere is.
LEMMA InUseStages ==
    ASSUME RingInv, NEW i \in Shadows, stage[i] = "free"
    PROVE  i \notin Channel!InUse
<1> DEFINE w == Window(Ids, reqCons, reqProd)
           v == Window(Ids, rspCons, rspProd)
<1>1. /\ Counters /\ RingSafe
      /\ \A k \in reqCons .. reqProd - 1 : stage[Ids[k]] = "queued"
      /\ \A k \in rspCons .. rspProd - 1 : stage[Ids[k]] = "answered"
  BY QueueIds
<1>2. ASSUME NEW k \in DOMAIN w PROVE stage[w[k]] = "queued"
  <2>1. k \in 1 .. reqProd - reqCons /\ w[k] = Ids[reqCons + k - 1]
    BY DEF Window
  <2>2. reqCons + k - 1 \in reqCons .. reqProd - 1
    BY <1>1, <2>1 DEF Counters
  <2> QED BY <1>1, <2>1, <2>2
<1>3. ASSUME NEW k \in DOMAIN v PROVE stage[v[k]] = "answered"
  <2>1. k \in 1 .. rspProd - rspCons /\ v[k] = Ids[rspCons + k - 1]
    BY DEF Window
  <2>2. rspCons + k - 1 \in rspCons .. rspProd - 1
    BY <1>1, <2>1 DEF Counters
  <2> QED BY <1>1, <2>1, <2>2
<1>4. i \notin StageSet("taken") /\ i \notin StageSet("finish")
  BY DEF StageSet
<1>5. /\ IdsBetween(reqCons, reqProd) = w
      /\ IdsBetween(rspCons, rspProd) = v
  BY <1>1, MappingIsWindows DEF QueuesAreWindows
<1> HIDE DEF w, v
<1>6. i \notin Channel!Elements(w) /\ i \notin Channel!Elements(v)
  BY <1>2, <1>3 DEF Channel!Elements
<1> QED BY <1>4, <1>5, <1>6 DEF Channel!InUse

\* Moving one shadow on.
LEMMA StageSetMove ==
    ASSUME TypeOK, NEW i \in Shadows, NEW s \in Stages, NEW t \in Stages,
           stage[i] = s, s # t, stage' = [stage EXCEPT ![i] = t]
    PROVE  /\ i \in StageSet(s)
           /\ StageSet(s)' = StageSet(s) \ {i}
           /\ StageSet(t)' = StageSet(t) \cup {i}
           /\ \A u : u # s /\ u # t => StageSet(u)' = StageSet(u)
  BY DEF TypeOK, StageSet

-----------------------------------------------------------------------------
(* Step by step *)

\* vusb_put_ring sends the shadow it has allocated.
LEMMA PutIsSend ==
    ASSUME RingInv, Counters', NEW i \in Shadows, NEW k \in Kinds, PutRequest(i, k)
    PROVE  Channel!Send(i)
<1> USE DEF frontVars, kthreadVars, preqVars
<1>1. /\ TypeOK /\ Counters /\ RingSafe
      /\ \A j \in reqCons .. reqProd - 1 : Ids[j] \in Shadows
      /\ \A j \in rspCons .. rspProd - 1 : Ids[j] \in Shadows
  BY QueueIds DEF RingInv
<1>2. /\ reqProd' = reqProd + 1 /\ reqCons' = reqCons
      /\ rspProd' = rspProd /\ rspCons' = rspCons
      /\ slots' = [slots EXCEPT ![SlotOf(reqProd)] = [what |-> "request", id |-> i]]
      /\ stage[i] = "free" /\ stage' = [stage EXCEPT ![i] = "queued"]
  BY DEF PutRequest, MayAllocate
<1>3. \A j \in rspCons .. reqProd - 1 : slots'[SlotOf(j)] = slots[SlotOf(j)]
  <2>1. reqProd < rspCons + N
    BY <1>1, <1>2, FreeShadowFreeSlot DEF RingInv
  <2> QED BY <1>1, <1>2, <2>1, OtherSlot, SlotIndex, RingAssumption
          DEF TypeOK, RingSafe, Counters
<1>4. /\ \A j \in reqCons .. reqProd - 1 : Ids'[j] = Ids[j]
      /\ \A j \in rspCons .. rspProd - 1 : Ids'[j] = Ids[j]
  <2>1. \A j \in rspCons .. reqProd - 1 : Ids'[j] = Ids[j]
    BY <1>1, <1>3, QueueSame DEF Counters
  <2> QED BY <1>1, <2>1 DEF RingSafe, Counters
<1>5. Ids'[reqProd] = i
  BY <1>1, <1>2, SlotIndex DEF Ids, Counters, TypeOK, SlotOf
<1>6. Window(Ids', reqCons, reqProd + 1) = Append(Window(Ids, reqCons, reqProd), i)
  <2>1. /\ reqCons \in Nat /\ reqProd \in Nat /\ reqCons <= reqProd
        /\ \A j \in reqCons .. reqProd - 1 : Ids'[j] = Ids[j]
    BY <1>1, <1>4 DEF Counters, RingSafe
  <2>2. Window(Ids', reqCons, reqProd + 1) = Append(Window(Ids, reqCons, reqProd), Ids'[reqProd])
    BY ONLY <2>1, WindowGrows
  <2> QED BY <1>5, <2>2
<1>7. Window(Ids', rspCons, rspProd) = Window(Ids, rspCons, rspProd)
  <2>1. rspCons \in Nat /\ rspProd \in Nat /\ \A j \in rspCons .. rspProd - 1 : Ids'[j] = Ids[j]
    BY <1>1, <1>4 DEF Counters
  <2> QED BY ONLY <2>1, WindowSame
<1>8. /\ IdsBetween(reqCons, reqProd)' = Append(IdsBetween(reqCons, reqProd), i)
      /\ IdsBetween(rspCons, rspProd)' = IdsBetween(rspCons, rspProd)
  BY <1>1, <1>2, <1>6, <1>7, MappingIsWindows, MappingIsWindowsNext
     DEF QueuesAreWindows
<1>9. StageSet("taken")' = StageSet("taken") /\ StageSet("finish")' = StageSet("finish")
  BY <1>1, <1>2, StageSetMove DEF Stages
<1>10. i \notin Channel!InUse
  BY <1>2, InUseStages
<1> QED BY <1>8, <1>9, <1>10 DEF Channel!Send

\* do_usb_io_op takes the oldest request.
LEMMA TakeIsTake ==
    ASSUME RingInv, Counters', NEW p \in Preqs, TakeRequest(p)
    PROVE  Channel!Take
<1> USE DEF frontVars, kthreadVars, preqVars
<1> DEFINE i == Ids[reqCons]
<1>1. /\ TypeOK /\ Counters /\ RingSafe
      /\ \A j \in reqCons .. reqProd - 1 : Ids[j] \in Shadows /\ stage[Ids[j]] = "queued"
  BY QueueIds DEF RingInv
<1>2. reqCons < reqProd
  BY <1>1 DEF RingInv, Snapshots, TypeOK, TakeRequest, MoreInSnapshot
<1>3. /\ reqProd' = reqProd /\ reqCons' = reqCons + 1
      /\ rspProd' = rspProd /\ rspCons' = rspCons
      /\ slots' = slots /\ stage' = [stage EXCEPT ![i] = "taken"]
  BY <1>1 DEF TakeRequest, Ids, Counters
<1>4. i \in Shadows /\ stage[i] = "queued"
  BY <1>1, <1>2 DEF Counters
<1>5. Ids' = Ids
  BY <1>3 DEF Ids, SlotOf
<1>6. /\ Window(Ids, reqCons, reqProd) # << >>
      /\ Head(Window(Ids, reqCons, reqProd)) = i
      /\ Tail(Window(Ids, reqCons, reqProd)) = Window(Ids, reqCons + 1, reqProd)
  BY <1>1, <1>2, WindowShrinks DEF Counters
<1>7. /\ IdsBetween(reqCons, reqProd) # << >>
      /\ Head(IdsBetween(reqCons, reqProd)) = i
      /\ IdsBetween(reqCons, reqProd)' = Tail(IdsBetween(reqCons, reqProd))
      /\ IdsBetween(rspCons, rspProd)' = IdsBetween(rspCons, rspProd)
  BY <1>1, <1>3, <1>5, <1>6, MappingIsWindows, MappingIsWindowsNext
     DEF QueuesAreWindows
<1> HIDE DEF i
<1>8. /\ StageSet("taken")' = StageSet("taken") \cup {i}
      /\ StageSet("finish")' = StageSet("finish")
  BY <1>1, <1>3, <1>4, StageSetMove DEF Stages
<1> QED BY <1>7, <1>8 DEF Channel!Take

\* make_response answers the request its pending_req stands for.
LEMMA PushIsAnswer ==
    ASSUME RingInv, Counters', NEW p \in Preqs, PushResponse(p)
    PROVE  \E i \in Shadows : Channel!Answer(i)
<1> USE DEF frontVars, kthreadVars, preqVars
<1> DEFINE i == prId[p]
<1>1. TypeOK /\ Counters /\ RingSafe
  BY QueueIds DEF RingInv
<1>2. /\ reqProd' = reqProd /\ reqCons' = reqCons
      /\ rspProd' = rspProd + 1 /\ rspCons' = rspCons
      /\ slots' = [slots EXCEPT ![SlotOf(rspProd)] = [what |-> "response", id |-> i]]
      /\ stage' = [stage EXCEPT ![i] = "answered"]
  BY DEF PushResponse
<1>3. i \in Shadows /\ stage[i] = "taken"
  BY DEF RingInv, PreqsIntact, PushResponse, Unanswered
<1> HIDE DEF i
<1>4. /\ \A j \in reqCons .. reqProd - 1 : slots'[SlotOf(j)] = slots[SlotOf(j)]
      /\ \A j \in rspCons .. rspProd - 1 : slots'[SlotOf(j)] = slots[SlotOf(j)]
  <2>1. rspProd < reqCons
    BY <1>1, <1>3, TakenLeavesRoom DEF RingInv
  <2> QED BY <1>1, <1>2, <2>1, OtherSlot, SlotIndex, RingAssumption
          DEF TypeOK, RingSafe, Counters
<1>5. /\ \A j \in reqCons .. reqProd - 1 : Ids'[j] = Ids[j]
      /\ \A j \in rspCons .. rspProd - 1 : Ids'[j] = Ids[j]
  BY <1>1, <1>4, QueueSame DEF Counters
<1>6. Ids'[rspProd] = i
  BY <1>1, <1>2, SlotIndex DEF Ids, Counters, TypeOK, SlotOf
<1>7. Window(Ids', rspCons, rspProd + 1) = Append(Window(Ids, rspCons, rspProd), i)
  <2>1. /\ rspCons \in Nat /\ rspProd \in Nat /\ rspCons <= rspProd
        /\ \A j \in rspCons .. rspProd - 1 : Ids'[j] = Ids[j]
    BY <1>1, <1>5 DEF Counters, RingSafe
  <2>2. Window(Ids', rspCons, rspProd + 1) = Append(Window(Ids, rspCons, rspProd), Ids'[rspProd])
    BY ONLY <2>1, WindowGrows
  <2> QED BY <1>6, <2>2
<1>8. Window(Ids', reqCons, reqProd) = Window(Ids, reqCons, reqProd)
  <2>1. reqCons \in Nat /\ reqProd \in Nat /\ \A j \in reqCons .. reqProd - 1 : Ids'[j] = Ids[j]
    BY <1>1, <1>5 DEF Counters
  <2> QED BY ONLY <2>1, WindowSame
<1>9. /\ IdsBetween(rspCons, rspProd)' = Append(IdsBetween(rspCons, rspProd), i)
      /\ IdsBetween(reqCons, reqProd)' = IdsBetween(reqCons, reqProd)
  BY <1>1, <1>2, <1>7, <1>8, MappingIsWindows, MappingIsWindowsNext
     DEF QueuesAreWindows
<1>10. /\ StageSet("taken")' = StageSet("taken") \ {i}
       /\ StageSet("finish")' = StageSet("finish")
       /\ i \in StageSet("taken")
  BY <1>1, <1>2, <1>3, StageSetMove DEF Stages
<1> QED BY <1>3, <1>9, <1>10 DEF Channel!Answer

\* vusb_interrupt receives the oldest answer, and holds on to the shadow of
\* an URB.
LEMMA ConsumeIsReceive ==
    ASSUME RingInv, Counters', ConsumeResponse
    PROVE  Channel!Receive
<1> USE DEF frontVars, kthreadVars, preqVars
<1> DEFINE i == Ids[rspCons]
           t == IF kind[i] = "urb" THEN "finish" ELSE "free"
<1>1. /\ TypeOK /\ Counters /\ RingSafe
      /\ \A j \in rspCons .. rspProd - 1 : Ids[j] \in Shadows /\ stage[Ids[j]] = "answered"
  BY QueueIds DEF RingInv
<1>2. rspCons < rspProd
  BY <1>1 DEF RingInv, Snapshots, TypeOK, ConsumeResponse
<1>3. /\ reqProd' = reqProd /\ reqCons' = reqCons
      /\ rspProd' = rspProd /\ rspCons' = rspCons + 1
      /\ slots' = slots /\ stage' = [stage EXCEPT ![i] = t]
  BY <1>1 DEF ConsumeResponse, Ids, Counters
<1>4. i \in Shadows /\ stage[i] = "answered" /\ t \in {"finish", "free"}
  BY <1>1, <1>2 DEF Counters
<1>5. Ids' = Ids
  BY <1>3 DEF Ids, SlotOf
<1>6. /\ Window(Ids, rspCons, rspProd) # << >>
      /\ Head(Window(Ids, rspCons, rspProd)) = i
      /\ Tail(Window(Ids, rspCons, rspProd)) = Window(Ids, rspCons + 1, rspProd)
  BY <1>1, <1>2, WindowShrinks DEF Counters
<1>7. /\ IdsBetween(rspCons, rspProd) # << >>
      /\ Head(IdsBetween(rspCons, rspProd)) = i
      /\ IdsBetween(rspCons, rspProd)' = Tail(IdsBetween(rspCons, rspProd))
      /\ IdsBetween(reqCons, reqProd)' = IdsBetween(reqCons, reqProd)
  BY <1>1, <1>3, <1>5, <1>6, MappingIsWindows, MappingIsWindowsNext
     DEF QueuesAreWindows
<1> HIDE DEF i, t
<1>8. /\ StageSet("taken")' = StageSet("taken")
      /\ StageSet("finish")' \in {StageSet("finish"), StageSet("finish") \cup {i}}
  BY <1>1, <1>3, <1>4, StageSetMove DEF Stages
<1> QED BY <1>7, <1>8 DEF Channel!Receive

\* vusb_urb_finish releases the shadow of the URB.
LEMMA FinishIsRelease ==
    ASSUME RingInv, Counters', NEW i \in Shadows, FinishUrb(i)
    PROVE  \E S \in SUBSET Shadows : Channel!Release(S)
<1> USE DEF frontVars, kthreadVars, preqVars
<1>1. TypeOK /\ Counters
  BY QueueIds DEF RingInv
<1>2. /\ UNCHANGED <<reqProd, reqCons, rspProd, rspCons, slots>>
      /\ stage[i] = "finish" /\ stage' = [stage EXCEPT ![i] = "free"]
  BY DEF FinishUrb
<1>3. /\ IdsBetween(reqCons, reqProd)' = IdsBetween(reqCons, reqProd)
      /\ IdsBetween(rspCons, rspProd)' = IdsBetween(rspCons, rspProd)
  BY <1>2 DEF IdsBetween, SlotOf
<1>4. /\ StageSet("taken")' = StageSet("taken")
      /\ StageSet("finish")' = StageSet("finish") \ {i}
      /\ i \in StageSet("finish")
  BY <1>1, <1>2, StageSetMove DEF Stages
<1> QED BY <1>3, <1>4 DEF Channel!Release

\* Everything else is a stutter: notifications, looks at the ring and the
\* moves of a pending_req are not seen by the users of the queues.
LEMMA RestIsStutter ==
    ASSUME UNCHANGED <<slots, reqProd, reqCons, rspProd, rspCons, stage>>
    PROVE  UNCHANGED Channel!vars
<1>1. /\ IdsBetween(reqCons, reqProd)' = IdsBetween(reqCons, reqProd)
      /\ IdsBetween(rspCons, rspProd)' = IdsBetween(rspCons, rspProd)
  BY DEF IdsBetween, SlotOf
<1>2. \A s : StageSet(s)' = StageSet(s)
  BY DEF StageSet
<1> QED BY <1>1, <1>2 DEF Channel!vars

\* At the start both queues are empty.
LEMMA InitIsInit == Init => Channel!Init
<1> SUFFICES ASSUME Init PROVE Channel!Init
  OBVIOUS
<1>1. IdsBetween(reqCons, reqProd) = << >> /\ IdsBetween(rspCons, rspProd) = << >>
  BY DEF Init, IdsBetween
<1>2. StageSet("taken") = {} /\ StageSet("finish") = {}
  BY DEF Init, StageSet
<1> QED BY <1>1, <1>2 DEF Channel!Init

\* The shared ring implements the two queues (VusbRing.ImplementsChannel): for
\* every size of the ring and of the pool nothing the frontend or the backend
\* puts on it is lost, duplicated, overwritten or reordered.
THEOREM RingImplementsChannel == Spec => ImplementsChannel
<1>1. Init => Channel!Init
  BY InitIsInit
<1>2. RingInv /\ RingInv' /\ [Next]_vars => [Channel!Next]_Channel!vars
  <2> SUFFICES ASSUME RingInv, RingInv', [Next]_vars
               PROVE  [Channel!Next]_Channel!vars
    OBVIOUS
  <2> USE DEF frontVars, kthreadVars, preqVars
  <2>0. Counters'
    BY DEF RingInv, TypeOK, Counters
  <2>1. CASE \E i \in Shadows, k \in Kinds : PutRequest(i, k)
    BY <2>0, <2>1, PutIsSend DEF Channel!Next
  <2>2. CASE ConsumeResponse
    BY <2>0, <2>2, ConsumeIsReceive DEF Channel!Next
  <2>3. CASE \E i \in Shadows : FinishUrb(i)
    BY <2>0, <2>3, FinishIsRelease DEF Channel!Next
  <2>4. CASE \E p \in Preqs : TakeRequest(p)
    BY <2>0, <2>4, TakeIsTake DEF Channel!Next
  <2>5. CASE \E p \in Preqs : PushResponse(p)
    BY <2>0, <2>5, PushIsAnswer DEF Channel!Next
  <2>6. CASE FlushRing \/ Interrupt \/ FinalCheckResponses \/ BackInterrupt \/ Kthread
    BY <2>6, RestIsStutter
       DEF FlushRing, Interrupt, FinalCheckResponses, BackInterrupt, Kthread,
           ScheduleWake, LoadProducer, OutOfRequests, LeaveLoop
  <2>7. CASE \E p \in Preqs :
                 \/ Dispatch(p) \/ CompleteUrb(p) \/ TailCheck(p) \/ StoreReqEvent(p)
                 \/ RecheckRequests(p) \/ NotifyWork(p) \/ NotifyFront(p) \/ AsyncFree(p)
    BY <2>7, RestIsStutter
       DEF Dispatch, AnswerNow, SubmitUrb, CompleteUrb, TailCheck, StoreReqEvent,
           RecheckRequests, NotifyWork, NotifyFront, AsyncFree
  <2>8. CASE UNCHANGED vars
    BY <2>8, RestIsStutter DEF vars
  <2> QED BY <2>1, <2>2, <2>3, <2>4, <2>5, <2>6, <2>7, <2>8
          DEF Next, FrontIrq, Respond
<1> QED BY <1>1, <1>2, RingInvariant, PTL DEF Spec, ImplementsChannel, Channel!Spec
=============================================================================
