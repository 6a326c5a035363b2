-------------------------- MODULE VusbFrontProofs --------------------------
(***************************************************************************)
(* Proofs about VusbFront: an URB is in one place and comes back once, a   *)
(* shadow is free or in use, a response and a cancel request find the URB  *)
(* they are about, after the halt no task touches the lists, and the ring *)
(* is used as VusbChannel allows.                                          *)
(***************************************************************************)
EXTENDS VusbFront, SequenceTheorems, FiniteSetTheorems, TLAPS

-----------------------------------------------------------------------------
(* Lists *)

\* list_add_tail
LEMMA AppendSet ==
    ASSUME NEW S, NEW s \in Seq(S), NEW e \in S
    PROVE  /\ Append(s, e) \in Seq(S)
           /\ Append(s, e) # << >>
           /\ ToSet(Append(s, e)) = ToSet(s) \cup {e}
           /\ IsInjective(s) /\ e \notin ToSet(s) => IsInjective(Append(s, e))
<1>1. /\ Append(s, e) \in Seq(S) /\ Len(s) \in Nat /\ Len(Append(s, e)) = Len(s) + 1
      /\ DOMAIN s = 1 .. Len(s) /\ DOMAIN Append(s, e) = 1 .. Len(s) + 1
      /\ \A k \in 1 .. Len(s) : Append(s, e)[k] = s[k]
      /\ Append(s, e)[Len(s) + 1] = e
  OBVIOUS
<1>2. ToSet(Append(s, e)) = ToSet(s) \cup {e}
  BY <1>1 DEF ToSet
<1>3. IsInjective(s) /\ e \notin ToSet(s) => IsInjective(Append(s, e))
  BY <1>1 DEF ToSet, IsInjective
<1>4. Append(s, e) # << >>
  BY <1>1
<1> QED BY <1>1, <1>2, <1>3, <1>4

\* The first entry is taken.
LEMMA TailSet ==
    ASSUME NEW S, NEW s \in Seq(S), s # << >>
    PROVE  /\ Head(s) \in S /\ Head(s) \in ToSet(s) /\ Tail(s) \in Seq(S)
           /\ ToSet(s) = ToSet(Tail(s)) \cup {Head(s)}
           /\ IsInjective(s) => IsInjective(Tail(s)) /\ Head(s) \notin ToSet(Tail(s))
<1>1. /\ Head(s) \in S /\ Tail(s) \in Seq(S) /\ Len(s) \in Nat /\ Len(s) >= 1
      /\ DOMAIN s = 1 .. Len(s) /\ DOMAIN Tail(s) = 1 .. Len(s) - 1
      /\ \A k \in 1 .. Len(s) - 1 : Tail(s)[k] = s[k + 1]
      /\ Head(s) = s[1]
  OBVIOUS
<1>2. Head(s) \in ToSet(s)
  BY <1>1 DEF ToSet
<1>3. ToSet(Tail(s)) \subseteq ToSet(s)
  BY <1>1 DEF ToSet
<1>4. ToSet(s) \subseteq ToSet(Tail(s)) \cup {Head(s)}
  <2> SUFFICES ASSUME NEW k \in 1 .. Len(s), s[k] # Head(s)
               PROVE  s[k] \in ToSet(Tail(s))
    BY <1>1 DEF ToSet
  <2>1. k - 1 \in 1 .. Len(s) - 1 /\ Tail(s)[k - 1] = s[k]
    BY <1>1
  <2> QED BY <1>1, <2>1 DEF ToSet
<1>5. IsInjective(s) => IsInjective(Tail(s)) /\ Head(s) \notin ToSet(Tail(s))
  BY <1>1 DEF ToSet, IsInjective
<1> QED BY <1>1, <1>2, <1>3, <1>4, <1>5

\* The last entry is taken.
LEMMA FrontSet ==
    ASSUME NEW S, NEW s \in Seq(S), s # << >>
    PROVE  /\ Last(s) \in S /\ Last(s) \in ToSet(s) /\ Front(s) \in Seq(S)
           /\ ToSet(s) = ToSet(Front(s)) \cup {Last(s)}
           /\ IsInjective(s) => IsInjective(Front(s)) /\ Last(s) \notin ToSet(Front(s))
<1>1. Len(s) \in Nat /\ Len(s) >= 1 /\ DOMAIN s = 1 .. Len(s) /\ Last(s) = s[Len(s)]
      /\ \A k \in 1 .. Len(s) : s[k] \in S
  BY DEF Last
<1>2. /\ Front(s) \in Seq(S) /\ DOMAIN Front(s) = 1 .. Len(s) - 1
      /\ \A k \in 1 .. Len(s) - 1 : Front(s)[k] = s[k]
  <2>1. Front(s) = [k \in 1 .. Len(s) - 1 |-> s[k]]
    BY <1>1 DEF Front
  <2> QED BY <1>1, <2>1
<1>3. ToSet(s) = ToSet(Front(s)) \cup {Last(s)}
  BY <1>1, <1>2 DEF ToSet
<1>4. IsInjective(s) => IsInjective(Front(s)) /\ Last(s) \notin ToSet(Front(s))
  BY <1>1, <1>2 DEF ToSet, IsInjective
<1> QED BY <1>1, <1>2, <1>3, <1>4 DEF ToSet

\* list_splice_tail
LEMMA ConcatSet ==
    ASSUME NEW S, NEW s \in Seq(S), NEW t \in Seq(S)
    PROVE  /\ s \o t \in Seq(S)
           /\ ToSet(s \o t) = ToSet(s) \cup ToSet(t)
           /\ s # << >> => s \o t # << >>
           /\ IsInjective(s) /\ IsInjective(t) /\ ToSet(s) \cap ToSet(t) = {} =>
                IsInjective(s \o t)
<1>1. /\ s \o t \in Seq(S) /\ Len(s) \in Nat /\ Len(t) \in Nat
      /\ DOMAIN s = 1 .. Len(s) /\ DOMAIN t = 1 .. Len(t)
      /\ DOMAIN (s \o t) = 1 .. Len(s) + Len(t)
      /\ \A k \in 1 .. Len(s) + Len(t) :
           (s \o t)[k] = IF k <= Len(s) THEN s[k] ELSE t[k - Len(s)]
      /\ Len(s \o t) = Len(s) + Len(t)
  OBVIOUS
<1>2. ToSet(s \o t) \subseteq ToSet(s) \cup ToSet(t)
  BY <1>1 DEF ToSet
<1>3. ToSet(s) \subseteq ToSet(s \o t)
  BY <1>1 DEF ToSet
<1>4. ToSet(t) \subseteq ToSet(s \o t)
  <2> SUFFICES ASSUME NEW k \in 1 .. Len(t) PROVE t[k] \in ToSet(s \o t)
    BY <1>1 DEF ToSet
  <2>1. k + Len(s) \in 1 .. Len(s) + Len(t) /\ (s \o t)[k + Len(s)] = t[k]
    BY <1>1
  <2> QED BY <1>1, <2>1 DEF ToSet
<1>5. ASSUME IsInjective(s), IsInjective(t), ToSet(s) \cap ToSet(t) = {}
      PROVE  IsInjective(s \o t)
  <2> SUFFICES ASSUME NEW j \in 1 .. Len(s) + Len(t), NEW k \in 1 .. Len(s) + Len(t),
                      (s \o t)[j] = (s \o t)[k]
               PROVE  j = k
    BY <1>1 DEF IsInjective
  <2>1. CASE j <= Len(s) /\ k <= Len(s)
    BY <1>1, <1>5, <2>1 DEF IsInjective
  <2>2. CASE ~(j <= Len(s)) /\ ~(k <= Len(s))
    <3>1. /\ j - Len(s) \in DOMAIN t /\ k - Len(s) \in DOMAIN t
          /\ t[j - Len(s)] = t[k - Len(s)]
      BY <1>1, <2>2
    <3>2. j - Len(s) = k - Len(s)
      BY <1>5, <3>1 DEF IsInjective
    <3> QED BY <1>1, <3>2
  <2>3. CASE j <= Len(s) /\ ~(k <= Len(s))
    <3>1. j \in DOMAIN s /\ k - Len(s) \in DOMAIN t /\ s[j] = t[k - Len(s)]
      BY <1>1, <2>3
    <3> QED BY <1>5, <3>1 DEF ToSet
  <2>4. CASE ~(j <= Len(s)) /\ k <= Len(s)
    <3>1. k \in DOMAIN s /\ j - Len(s) \in DOMAIN t /\ s[k] = t[j - Len(s)]
      BY <1>1, <2>4
    <3> QED BY <1>5, <3>1 DEF ToSet
  <2> QED BY <2>1, <2>2, <2>3, <2>4
<1>6. s # << >> => s \o t # << >>
  BY <1>1
<1> QED BY <1>1, <1>2, <1>3, <1>4, <1>5, <1>6

\* list_del of an entry that is on the list once
LEMMA RemoveSet ==
    ASSUME NEW S, NEW s \in Seq(S), NEW e \in ToSet(s), IsInjective(s)
    PROVE  /\ RemoveFirst(s, e) \in Seq(S)
           /\ ToSet(RemoveFirst(s, e)) = ToSet(s) \ {e}
           /\ IsInjective(RemoveFirst(s, e))
<1>1. Len(s) \in Nat /\ DOMAIN s = 1 .. Len(s) /\ \A k \in 1 .. Len(s) : s[k] \in S
  OBVIOUS
<1>2. PICK p \in 1 .. Len(s) : s[p] = e
  BY <1>1 DEF ToSet
<1>3. {k \in 1 .. Len(s) : s[k] = e} = {p}
  BY <1>1, <1>2 DEF IsInjective
<1>4. RemoveFirst(s, e) = RemoveAt(s, p)
  <2>1. Min({p}) = p
    BY <1>1, <1>2 DEF Min
  <2>2. SelectInSeq(s, LAMBDA v : v = e) = p
    BY <1>3, <2>1 DEF SelectInSeq
  <2> QED BY <1>2, <2>2 DEF RemoveFirst
<1> DEFINE a == SubSeq(s, 1, p - 1)
           b == SubSeq(s, p + 1, Len(s))
<1>5. /\ a \in Seq(S) /\ DOMAIN a = 1 .. p - 1 /\ \A k \in 1 .. p - 1 : a[k] = s[k]
  <2>1. a = [k \in 1 .. p - 1 |-> s[k]]
    BY <1>1, <1>2
  <2> QED BY <1>1, <1>2, <2>1
<1>6. /\ b \in Seq(S) /\ DOMAIN b = 1 .. Len(s) - p
      /\ \A k \in 1 .. Len(s) - p : b[k] = s[p + k]
  <2>1. b = [k \in 1 .. Len(s) - p |-> s[p + k]]
    BY <1>1, <1>2
  <2> QED BY <1>1, <1>2, <2>1
<1>7. RemoveFirst(s, e) = a \o b
  BY <1>4 DEF RemoveAt
<1> HIDE DEF a, b
<1>8. /\ \A k \in DOMAIN a : k \in DOMAIN s /\ k < p /\ a[k] = s[k]
      /\ \A k \in DOMAIN b : p + k \in DOMAIN s /\ p + k > p /\ b[k] = s[p + k]
  BY <1>1, <1>2, <1>5, <1>6
<1>9. IsInjective(a) /\ IsInjective(b)
  <2>1. ASSUME NEW j \in DOMAIN a, NEW k \in DOMAIN a, a[j] = a[k] PROVE j = k
    BY <1>8, <2>1 DEF IsInjective
  <2>2. ASSUME NEW j \in DOMAIN b, NEW k \in DOMAIN b, b[j] = b[k] PROVE j = k
    <3>1. p + j = p + k
      BY <1>8, <2>2 DEF IsInjective
    <3> QED BY <1>2, <1>6, <3>1
  <2> QED BY <2>1, <2>2 DEF IsInjective
<1>10. ToSet(a) \cap ToSet(b) = {}
  <2>1. ASSUME NEW j \in DOMAIN a, NEW k \in DOMAIN b PROVE a[j] # b[k]
    <3>1. j # p + k
      BY <1>2, <1>5, <1>8
    <3> QED BY <1>8, <3>1 DEF IsInjective
  <2> QED BY <2>1 DEF ToSet
<1>11. ToSet(a) \cup ToSet(b) = ToSet(s) \ {e}
  <2>1. ToSet(a) \cup ToSet(b) \subseteq ToSet(s) \ {e}
    <3>1. ASSUME NEW k \in DOMAIN a PROVE a[k] \in ToSet(s) \ {e}
      <4>1. k # p /\ p \in DOMAIN s
        BY <1>1, <1>2, <1>5, <1>8
      <4> QED BY <1>2, <1>8, <4>1 DEF ToSet, IsInjective
    <3>2. ASSUME NEW k \in DOMAIN b PROVE b[k] \in ToSet(s) \ {e}
      <4>1. p + k # p /\ p \in DOMAIN s
        BY <1>1, <1>2, <1>6, <1>8
      <4> QED BY <1>2, <1>8, <4>1 DEF ToSet, IsInjective
    <3> QED BY <3>1, <3>2 DEF ToSet
  <2>2. ASSUME NEW k \in 1 .. Len(s), s[k] # e PROVE s[k] \in ToSet(a) \cup ToSet(b)
    <3>1. CASE k < p
      BY <1>1, <1>2, <1>5, <3>1 DEF ToSet
    <3>2. CASE k > p
      <4>1. k - p \in DOMAIN b /\ b[k - p] = s[k]
        BY <1>1, <1>2, <1>6, <3>2
      <4> QED BY <4>1 DEF ToSet
    <3> QED BY <1>1, <1>2, <2>2, <3>1, <3>2
  <2> QED BY <1>1, <2>1, <2>2 DEF ToSet
<1> QED BY <1>5, <1>6, <1>9, <1>10, <1>11, <1>7, ConcatSet

\* What is on a list once is counted once.
LEMMA OnceOnList ==
    ASSUME NEW S, NEW s \in Seq(S), IsInjective(s), NEW e
    PROVE  Occurrences(s, e) = IF e \in ToSet(s) THEN 1 ELSE 0
<1>1. CASE e \in ToSet(s)
  <2>1. PICK k \in DOMAIN s : s[k] = e
    BY <1>1 DEF ToSet
  <2>2. {j \in DOMAIN s : s[j] = e} = {k}
    BY <2>1 DEF IsInjective
  <2> QED BY <1>1, <2>2, FS_Singleton DEF Occurrences
<1>2. CASE e \notin ToSet(s)
  <2>1. {j \in DOMAIN s : s[j] = e} = {}
    BY <1>2 DEF ToSet
  <2> QED BY <1>2, <2>1, FS_EmptySet DEF Occurrences
<1> QED BY <1>1, <1>2

\* Every shadow is on the initial free list, once.
LEMMA AllShadowsFree ==
    /\ SetToSeq(Shadows) \in Seq(Shadows) /\ SetToSeq(Shadows) # << >>
    /\ ToSet(SetToSeq(Shadows)) = Shadows /\ IsInjective(SetToSeq(Shadows))
<1> DEFINE n == Cardinality(Shadows)
           s == SetToSeq(Shadows)
<1>1. n \in Nat /\ n # 0
  BY FrontAssumption, FS_CardinalityType, FS_EmptySet
<1>2. PICK f : f \in Bijection(1 .. n, Shadows)
  <2>1. PICK m \in Nat : ExistsBijection(1 .. m, Shadows)
    BY FrontAssumption, FS_NatBijection
  <2>2. m = n
    BY <2>1, FS_CountingElements
  <2> QED BY <2>1, <2>2 DEF ExistsBijection
<1>3. f \in [1 .. n -> Shadows] /\ IsInjective(f)
  BY <1>2 DEF Bijection, Injection, IsInjective
<1>4. s \in [1 .. n -> Shadows] /\ IsInjective(s)
  BY <1>3 DEF SetToSeq
<1> HIDE DEF s
<1>5. s \in Seq(Shadows) /\ s # << >> /\ DOMAIN s = 1 .. n
  BY <1>1, <1>4
<1>6. ToSet(s) = Shadows
  <2>1. ToSet(s) \subseteq Shadows
    BY <1>4 DEF ToSet
  <2>2. s \in Injection(1 .. n, ToSet(s)) /\ s \in Surjection(1 .. n, ToSet(s))
    BY <1>4, <1>5 DEF ToSet, Injection, Surjection, IsInjective
  <2>3. ExistsBijection(1 .. n, ToSet(s))
    BY <2>2 DEF ExistsBijection, Bijection
  <2>4. IsFiniteSet(ToSet(s)) /\ Cardinality(ToSet(s)) = n
    BY <1>1, <2>3, FS_CountingElements, FrontAssumption, <2>1, FS_Subset
  <2> QED BY <2>1, <2>4, FrontAssumption, FS_Subset
<1> QED BY <1>4, <1>5, <1>6 DEF s

\* The contexts are what their names say.
LEMMA TaskFacts ==
    /\ \A u \in Urbs : Enqueuer(u) \in Tasks /\ Dequeuer(u) \in Tasks
    /\ Worker \in Tasks
    /\ \A u, v \in Urbs : /\ Enqueuer(u) = Enqueuer(v) => u = v
                         /\ Dequeuer(u) = Dequeuer(v) => u = v
                         /\ Enqueuer(u) # Dequeuer(v)
    /\ \A u \in Urbs : Enqueuer(u) # Worker /\ Dequeuer(u) # Worker
    /\ \A t \in Tasks : t[1] = "enqueue" => t[2] \in Urbs /\ t = Enqueuer(t[2])
    /\ \A u \in Urbs : Enqueuer(u)[1] = "enqueue" /\ Enqueuer(u)[2] = u
                      /\ Dequeuer(u)[1] # "enqueue"
    /\ Worker[1] # "enqueue"
    /\ Irq \notin Tasks /\ NoTask \notin Tasks /\ Irq # NoTask
BY DEF Tasks, Enqueuer, Dequeuer, Worker, Irq, NoTask

\* There are finitely many of them.
LEMMA TasksFinite == IsFiniteSet(Tasks)
<1>1. IsFiniteSet({Enqueuer(u) : u \in Urbs})
  <2>1. IsFiniteSet(Urbs)
    BY FrontAssumption
  <2>2. \E f \in Surjection(Urbs, {Enqueuer(u) : u \in Urbs}) : TRUE
    <3>1. [u \in Urbs |-> Enqueuer(u)] \in Surjection(Urbs, {Enqueuer(u) : u \in Urbs})
      BY DEF Surjection
    <3> QED BY <3>1
  <2> QED BY <2>1, <2>2, FS_Surjection DEF ExistsSurjection
<1>2. IsFiniteSet({Dequeuer(u) : u \in Urbs})
  <2>1. IsFiniteSet(Urbs)
    BY FrontAssumption
  <2>2. \E f \in Surjection(Urbs, {Dequeuer(u) : u \in Urbs}) : TRUE
    <3>1. [u \in Urbs |-> Dequeuer(u)] \in Surjection(Urbs, {Dequeuer(u) : u \in Urbs})
      BY DEF Surjection
    <3> QED BY <3>1
  <2> QED BY <2>1, <2>2, FS_Surjection DEF ExistsSurjection
<1>3. IsFiniteSet({Worker})
  BY FS_Singleton
<1> QED BY <1>1, <1>2, <1>3, FS_Union DEF Tasks

\* What ToSet and IsInjective make of an empty list.
LEMMA EmptyList ==
    ToSet(<< >>) = {} /\ IsInjective(<< >>)
BY DEF ToSet, IsInjective

-----------------------------------------------------------------------------
(* The invariant holds at the start *)

\* A device that has just been created is in such a state.
LEMMA InitFront == Init => FrontInv
<1> SUFFICES ASSUME Init PROVE FrontInv
  OBVIOUS
<1> USE FrontAssumption, TaskFacts, AllShadowsFree, EmptyList DEF Init
<1>1. TypeOK
  <2>1. FlagTypes
    BY DEF FlagTypes
  <2>2. ListTypes
    BY DEF ListTypes
  <2>3. RingTypes
    BY DEF RingTypes, Shadow, FreeShadow
  <2>4. TaskTypes
    BY DEF TaskTypes
  <2> QED BY <2>1, <2>2, <2>3, <2>4 DEF TypeOK
<1>2. LockInv
  BY DEF LockInv
<1>3. Busy = {} /\ Cardinality(Busy) = 0
  BY FS_EmptySet DEF Busy
<1>4. CountInv
  BY <1>3 DEF CountInv
<1>5. TeardownInv
  BY <1>3 DEF TeardownInv, Walking
<1>6. StartInv
  BY <1>3 DEF StartInv
<1>7. CallInv
  BY DEF CallInv
<1>8. PlaceInv
  BY DEF PlaceInv, Entering, Pending, Finishing, Releasing, Leaving, LeavingBy
<1>9. SendInv /\ StateInv
  BY DEF SendInv, StateInv, Entering, Pending
<1>10. ShadowInv
  BY DEF ShadowInv, Sent, Pending, Finishing, FreeShadow
<1>11. FlightInv
  BY DEF FlightInv, Sending, Served, Answered
<1>12. UseInv
  BY DEF UseInv, Sending, Served, Answered, FreeShadow
<1>13. CancelInv
  BY DEF CancelInv
<1> QED BY <1>1, <1>2, <1>4, <1>5, <1>6, <1>7, <1>8, <1>9, <1>10, <1>11, <1>12, <1>13
        DEF FrontInv

-----------------------------------------------------------------------------
(* What the contexts leave alone *)

\* What vusb_interrupt leaves alone.
LEMMA IrqFrame ==
    ASSUME Interrupt
    PROVE  /\ present' = present /\ closing' = closing /\ resetPending' = resetPending
           /\ releaseList' = releaseList /\ state' = state /\ reqId' = reqId
           /\ toBack' = toBack /\ atDevice' = atDevice /\ completing' = completing
           /\ sring' = sring /\ irqBound' = irqBound /\ xpc' = xpc
           /\ grantWait' = grantWait /\ portWork' = portWork /\ ppc' = ppc
           /\ pc' = pc /\ tmp' = tmp /\ sendQueue' = sendQueue
           /\ linked' = linked /\ unlinked' = unlinked /\ given' = given
<1> USE DEF listVars, ringVars, teardownVars, flagVars, workVars, taskVars, portVars, coreVars
<1>1. CASE IrqEnter
  BY <1>1 DEF IrqEnter
<1>2. CASE IrqGate
  BY <1>2 DEF IrqGate
<1>3. CASE IrqConsume
  BY <1>3 DEF IrqConsume
<1>4. CASE IrqExit
  BY <1>4 DEF IrqExit
<1> QED BY <1>1, <1>2, <1>3, <1>4 DEF Interrupt

\* What the send loop leaves alone.
LEMMA SendFrame ==
    ASSUME NEW t, Send(t)
    PROVE  /\ present' = present /\ closing' = closing /\ resetPending' = resetPending
           /\ resetDone' = resetDone /\ processing' = processing
           /\ finishList' = finishList
           /\ atDevice' = atDevice /\ completing' = completing /\ toFront' = toFront
           /\ evt' = evt
           /\ sring' = sring /\ irqBound' = irqBound /\ xpc' = xpc
           /\ rflush' = rflush /\ speed' = speed /\ portWork' = portWork /\ ppc' = ppc
           /\ lock' = lock /\ pc' = pc /\ tmp' = tmp /\ ipc' = ipc /\ iproc' = iproc
           /\ linked' = linked /\ unlinked' = unlinked /\ given' = given
           /\ pc[t] = "send" /\ sendQueue # << >> /\ sendQueue' = Tail(sendQueue)
BY DEF Send, SendSkip, SendUrb, SendAgain, SendBusy, SendImmediate, NextToSend, listVars,
       shadowVars, ringVars, teardownVars, flagVars, workVars, irqVars, portVars, coreVars

\* What the port's reset leaves alone.
LEMMA PortFrame ==
    ASSUME PortReset \/ PortWork
    PROVE  /\ present' = present /\ closing' = closing
           /\ pendingList' = pendingList /\ finishList' = finishList
           /\ releaseList' = releaseList /\ state' = state /\ reqId' = reqId
           /\ atDevice' = atDevice /\ completing' = completing /\ toFront' = toFront
           /\ evt' = evt
           /\ sring' = sring /\ irqBound' = irqBound /\ xpc' = xpc
           /\ rflush' = rflush /\ speed' = speed /\ grantWait' = grantWait /\ work' = work
           /\ lock' = lock /\ pc' = pc /\ tmp' = tmp /\ sendQueue' = sendQueue
           /\ ipc' = ipc /\ iproc' = iproc
           /\ linked' = linked /\ unlinked' = unlinked /\ given' = given
<1> USE DEF listVars, ringVars, teardownVars, flagVars, workVars, taskVars, irqVars, coreVars
<1>1. CASE PortReset
  BY <1>1 DEF PortReset
<1>2. CASE PortWorkRun
  BY <1>2 DEF PortWorkRun
<1>3. CASE PortPutReset
  BY <1>3 DEF PortPutReset
<1>4. CASE PortResetComplete
  BY <1>4 DEF PortResetComplete
<1> QED BY <1>1, <1>2, <1>3, <1>4 DEF PortWork

\* The xenwatch thread
Xenwatch == StartDevice \/ DestroyBegin \/ Destroy

\* What starting and destroying the device leave alone.
LEMMA XenFrame ==
    ASSUME Xenwatch
    PROVE  /\ atDevice' = atDevice /\ completing' = completing /\ toFront' = toFront
           /\ portWork' = portWork /\ ppc' = ppc
           /\ lock' = lock /\ pc' = pc /\ tmp' = tmp /\ sendQueue' = sendQueue
           /\ ipc' = ipc /\ iproc' = iproc
<1> USE DEF ringVars, workVars, taskVars, irqVars
<1>1. CASE StartDevice
  BY <1>1 DEF StartDevice, Start
<1>2. CASE DestroyBegin
  BY <1>2 DEF DestroyBegin
<1>3. CASE Destroy
  BY <1>3 DEF Destroy, HaltRflush, HaltWait, DestroyStop, DestroyFinish, DestroyFree,
                   DestroyUnbind, DestroyRelease
<1> QED BY <1>1, <1>2, <1>3 DEF Xenwatch

\* The backend and the devices
Behind == Backend \/ EndUsbIoOp \/ \E u \in Urbs : DeviceComplete(u)

\* What the backend leaves alone: everything the driver keeps.
LEMMA BackFrame ==
    ASSUME Behind
    PROVE  /\ present' = present /\ closing' = closing /\ resetPending' = resetPending
           /\ resetDone' = resetDone /\ processing' = processing
           /\ pendingList' = pendingList /\ finishList' = finishList
           /\ releaseList' = releaseList /\ state' = state /\ reqId' = reqId
           /\ freeList' = freeList /\ shadow' = shadow
           /\ sring' = sring /\ irqBound' = irqBound /\ xpc' = xpc
           /\ rflush' = rflush /\ speed' = speed /\ grantWait' = grantWait
           /\ work' = work /\ portWork' = portWork /\ ppc' = ppc
           /\ lock' = lock /\ pc' = pc /\ tmp' = tmp /\ sendQueue' = sendQueue
           /\ ipc' = ipc /\ iproc' = iproc
           /\ linked' = linked /\ unlinked' = unlinked /\ given' = given
<1>1. BackUnchanged
  BY DEF Behind, Backend, BackSubmit, BackKill, BackAnswer, EndUsbIoOp, DeviceComplete
<1> QED BY <1>1 DEF BackUnchanged, portVars, listVars, shadowVars, teardownVars, flagVars,
                   workVars, taskVars, irqVars, coreVars

\* The steps there are.
LEMMA Steps ==
    ASSUME Next
    PROVE  \/ \E u \in Urbs : EnqueueLink(u) \/ DequeueStart(u) \/ DequeueFind(u)
           \/ WorkRun \/ GrantAvailable
           \/ \E t \in Tasks : ProcessBegin(t) \/ Send(t) \/ ProcessEnd(t) \/ ProcessRelease(t)
           \/ Interrupt \/ PortReset \/ PortWork
           \/ Xenwatch \/ Behind
BY DEF Next, Process, Xenwatch, Behind

-----------------------------------------------------------------------------
(* The lock *)

\* vdev->lock is held by one context, which holds it until it is through.
LEMMA LockStep ==
    ASSUME FrontInv, Next
    PROVE  LockInv'
<1>1. /\ LockInv /\ CallInv
      /\ pc \in [Tasks -> {"idle", "find", "process", "send", "release"}]
      /\ sendQueue \in Seq(Urbs)
  BY DEF FrontInv, TypeOK, TaskTypes
<1>2. ASSUME NEW u \in Urbs, EnqueueLink(u) PROVE LockInv'
  <2>1. /\ pc' = [pc EXCEPT ![Enqueuer(u)] = "process"] /\ u \notin linked \cup given
        /\ lock' = lock /\ ipc' = ipc /\ sendQueue' = sendQueue
    BY <1>2 DEF EnqueueLink, irqVars
  <2>2. pc[Enqueuer(u)] = "idle"
    BY <1>1, <2>1 DEF CallInv
  <2> QED BY <1>1, <2>1, <2>2, TaskFacts DEF LockInv
<1>3. ASSUME NEW u \in Urbs, DequeueStart(u) PROVE LockInv'
  <2>1. /\ pc' \in {pc, [pc EXCEPT ![Dequeuer(u)] = "find"]} /\ u \in linked \ unlinked
        /\ lock' = lock /\ ipc' = ipc /\ sendQueue' = sendQueue
    BY <1>3 DEF DequeueStart, irqVars
  <2>2. pc[Dequeuer(u)] = "idle"
    BY <1>1, <2>1 DEF CallInv
  <2> QED BY <1>1, <2>1, <2>2, TaskFacts DEF LockInv
<1>4. ASSUME NEW u \in Urbs, DequeueFind(u) PROVE LockInv'
  <2>1. /\ pc' = [pc EXCEPT ![Dequeuer(u)] = "process"] /\ pc[Dequeuer(u)] = "find"
        /\ lock' = lock /\ ipc' = ipc /\ sendQueue' = sendQueue
    BY <1>4 DEF DequeueFind, irqVars
  <2> QED BY <1>1, <2>1, TaskFacts DEF LockInv
<1>5. CASE WorkRun
  <2>1. /\ pc' \in {pc, [pc EXCEPT ![Worker] = "process"]} /\ pc[Worker] = "idle"
        /\ lock' = lock /\ ipc' = ipc /\ sendQueue' = sendQueue
    BY <1>5 DEF WorkRun, irqVars
  <2> QED BY <1>1, <2>1, TaskFacts DEF LockInv
<1>6. CASE GrantAvailable
  BY <1>1, <1>6 DEF GrantAvailable, LockInv, taskVars, irqVars
<1>7. ASSUME NEW t \in Tasks, ProcessBegin(t) PROVE LockInv'
  <2>1. /\ pc' = [pc EXCEPT ![t] = "send"] /\ lock = NoTask /\ lock' = t /\ ipc' = ipc
    BY <1>7 DEF ProcessBegin, irqVars
  <2> QED BY <1>1, <2>1, TaskFacts DEF LockInv
<1>8. ASSUME NEW t \in Tasks, Send(t) PROVE LockInv'
  <2>1. pc[t] = "send" /\ lock' = lock /\ pc' = pc /\ ipc' = ipc
    BY <1>8, SendFrame
  <2> QED BY <1>1, <2>1, TaskFacts DEF LockInv
<1>9. ASSUME NEW t \in Tasks, ProcessEnd(t) PROVE LockInv'
  <2>1. /\ \E l \in {"release", "idle"} : pc' = [pc EXCEPT ![t] = l]
        /\ pc[t] = "send" /\ sendQueue = << >>
        /\ lock' = NoTask /\ ipc' = ipc /\ sendQueue' = sendQueue
    BY <1>9 DEF ProcessEnd, irqVars
  <2> QED BY <1>1, <2>1, TaskFacts DEF LockInv
<1>10. ASSUME NEW t \in Tasks, ProcessRelease(t) PROVE LockInv'
  <2>1. /\ pc' = [pc EXCEPT ![t] = "idle"] /\ pc[t] = "release"
        /\ lock' = lock /\ ipc' = ipc /\ sendQueue' = sendQueue
    BY <1>10 DEF ProcessRelease, irqVars
  <2> QED BY <1>1, <2>1, TaskFacts DEF LockInv
<1>11. CASE Interrupt
  <2>1. pc' = pc /\ sendQueue' = sendQueue
    BY <1>11, IrqFrame
  <2>2. CASE IrqEnter
    BY <1>1, <2>1, <2>2 DEF IrqEnter, LockInv
  <2>3. CASE IrqGate
    BY <1>1, <2>1, <2>3, TaskFacts DEF IrqGate, LockInv
  <2>4. CASE IrqConsume
    BY <1>1, <2>1, <2>4 DEF IrqConsume, LockInv, irqVars
  <2>5. CASE IrqExit
    BY <1>1, <2>1, <2>5, TaskFacts DEF IrqExit, LockInv
  <2> QED BY <1>11, <2>2, <2>3, <2>4, <2>5 DEF Interrupt
<1>12. CASE PortReset \/ PortWork \/ Xenwatch \/ Behind
  <2>1. lock' = lock /\ pc' = pc /\ sendQueue' = sendQueue /\ ipc' = ipc
    BY <1>12, PortFrame, XenFrame, BackFrame
  <2> QED BY <1>1, <2>1 DEF LockInv
<1> QED BY <1>2, <1>3, <1>4, <1>5, <1>6, <1>7, <1>8, <1>9, <1>10, <1>11, <1>12, Steps

-----------------------------------------------------------------------------
(* What counts as processing *)

\* A context starts or ends to process.
LEMMA BusyCounts ==
    ASSUME FrontInv, NEW t \in Tasks,
           NEW l \in {"idle", "find", "process", "send", "release"},
           pc' = [pc EXCEPT ![t] = l]
    PROVE  /\ Cardinality(Busy) \in Nat
           /\ pc[t] = "idle" /\ l # "idle" => Cardinality(Busy') = Cardinality(Busy) + 1
           /\ pc[t] # "idle" /\ l = "idle" => Cardinality(Busy') = Cardinality(Busy) - 1
           /\ pc[t] # "idle" /\ l # "idle" => Busy' = Busy
<1>1. pc \in [Tasks -> {"idle", "find", "process", "send", "release"}]
  BY DEF FrontInv, TypeOK, TaskTypes
<1>2. IsFiniteSet(Busy) /\ Cardinality(Busy) \in Nat
  BY TasksFinite, FS_Subset, FS_CardinalityType DEF Busy
<1>3. \A s \in Tasks : pc'[s] = IF s = t THEN l ELSE pc[s]
  BY <1>1
<1>4. l # "idle" => Busy' = Busy \cup {t}
  BY <1>3 DEF Busy
<1>5. l = "idle" => Busy' = Busy \ {t}
  BY <1>3 DEF Busy
<1>6. t \in Busy <=> pc[t] # "idle"
  BY DEF Busy
<1>7. Cardinality(Busy \cup {t}) = IF t \in Busy THEN Cardinality(Busy) ELSE Cardinality(Busy) + 1
  BY <1>2, FS_AddElement
<1>8. Cardinality(Busy \ {t}) = IF t \in Busy THEN Cardinality(Busy) - 1 ELSE Cardinality(Busy)
  BY <1>2, FS_RemoveElement
<1> QED BY <1>2, <1>4, <1>5, <1>6, <1>7, <1>8

\* Nobody processes, once the count says so.
LEMMA NobodyBusy ==
    ASSUME FrontInv, processing = 0
    PROVE  Busy = {} /\ ppc = "idle" /\ ~iproc
<1>1. IsFiniteSet(Busy) /\ Cardinality(Busy) \in Nat
  BY TasksFinite, FS_Subset, FS_CardinalityType DEF Busy
<1>2. Cardinality(Busy) = 0 /\ ppc = "idle" /\ ~iproc
  BY <1>1 DEF FrontInv, CountInv
<1> QED BY <1>1, <1>2, FS_EmptySet

\* processing counts the tasks, the interrupt and the port's work that are under way.
LEMMA CountStep ==
    ASSUME FrontInv, Next
    PROVE  CountInv' /\ processing' \in Nat
<1>1. /\ CountInv /\ CallInv /\ LockInv /\ TeardownInv
      /\ pc \in [Tasks -> {"idle", "find", "process", "send", "release"}]
  BY DEF FrontInv, TypeOK, TaskTypes
<1>2. Cardinality(Busy) \in Nat /\ processing \in Nat
  BY TasksFinite, FS_Subset, FS_CardinalityType DEF Busy, FrontInv, TypeOK, TaskTypes
<1> DEFINE n == Cardinality(Busy)
<1>3. /\ processing = n + (IF iproc THEN 1 ELSE 0) + (IF ppc # "idle" THEN 1 ELSE 0)
      /\ ipc = "idle" => ~iproc
  BY <1>1 DEF CountInv
<1>4. ASSUME NEW m, n' = m,
             processing' = m + (IF iproc' THEN 1 ELSE 0) + (IF ppc' # "idle" THEN 1 ELSE 0),
             ipc' = "idle" => ~iproc', m \in Nat
      PROVE  CountInv' /\ processing' \in Nat
  BY <1>4 DEF CountInv
<1>5. pc' = pc => n' = n
  BY DEF Busy
<1> HIDE DEF n
<1>6. ASSUME NEW u \in Urbs, EnqueueLink(u) PROVE CountInv' /\ processing' \in Nat
  <2>1. /\ pc' = [pc EXCEPT ![Enqueuer(u)] = "process"] /\ u \notin linked \cup given
        /\ processing' = processing + 1 /\ iproc' = iproc /\ ipc' = ipc /\ ppc' = ppc
    BY <1>6 DEF EnqueueLink, irqVars
  <2>2. pc[Enqueuer(u)] = "idle"
    BY <1>1, <2>1 DEF CallInv
  <2>3. n' = n + 1
    <3>1. PICK t \in Tasks : t = Enqueuer(u)
      BY TaskFacts
    <3>2. pc' = [pc EXCEPT ![t] = "process"] /\ pc[t] = "idle"
      BY <2>1, <2>2, <3>1
    <3>3. Cardinality(Busy') = Cardinality(Busy) + 1
      BY <3>2, BusyCounts
    <3> QED BY <3>3 DEF n
  <2> QED BY <1>2, <1>3, <1>4, <2>1, <2>3 DEF n
<1>7. ASSUME NEW u \in Urbs, DequeueStart(u) PROVE CountInv' /\ processing' \in Nat
  <2>1. /\ u \in linked \ unlinked /\ iproc' = iproc /\ ipc' = ipc /\ ppc' = ppc
        /\ \/ pc' = [pc EXCEPT ![Dequeuer(u)] = "find"] /\ processing' = processing + 1
           \/ pc' = pc /\ processing' = processing
    BY <1>7 DEF DequeueStart, irqVars
  <2>2. pc[Dequeuer(u)] = "idle"
    BY <1>1, <2>1 DEF CallInv
  <2>3. pc' # pc => n' = n + 1 /\ processing' = processing + 1
    <3>1. PICK t \in Tasks : t = Dequeuer(u)
      BY TaskFacts
    <3>2. pc' # pc => pc' = [pc EXCEPT ![t] = "find"] /\ pc[t] = "idle"
      BY <2>1, <2>2, <3>1
    <3>3. pc' # pc => n' = n + 1
      BY <3>2, BusyCounts DEF n
    <3> QED BY <2>1, <3>3
  <2>4. CASE pc' = pc
    <3>1. processing' = processing
      <4>1. pc # [pc EXCEPT ![Dequeuer(u)] = "find"]
        BY <1>1, <2>2, TaskFacts
      <4> QED BY <2>1, <2>4, <4>1
    <3> QED BY <1>2, <1>3, <1>4, <1>5, <2>1, <2>4, <3>1 DEF n
  <2>5. CASE pc' # pc
    BY <1>2, <1>3, <1>4, <2>1, <2>3, <2>5 DEF n
  <2> QED BY <2>4, <2>5
<1>8. ASSUME NEW u \in Urbs, DequeueFind(u) PROVE CountInv' /\ processing' \in Nat
  <2>1. /\ pc' = [pc EXCEPT ![Dequeuer(u)] = "process"] /\ pc[Dequeuer(u)] = "find"
        /\ processing' = processing /\ iproc' = iproc /\ ipc' = ipc /\ ppc' = ppc
    BY <1>8 DEF DequeueFind, irqVars, portVars
  <2>2. n' = n
    <3>1. PICK t \in Tasks : t = Dequeuer(u)
      BY TaskFacts
    <3>2. pc' = [pc EXCEPT ![t] = "process"] /\ pc[t] # "idle"
      BY <2>1, <3>1
    <3>3. Busy' = Busy
      BY <3>2, BusyCounts
    <3> QED BY <3>3 DEF n
  <2> QED BY <1>2, <1>3, <1>4, <2>1, <2>2 DEF n
<1>9. CASE WorkRun
  <2>1. /\ pc[Worker] = "idle" /\ iproc' = iproc /\ ipc' = ipc /\ ppc' = ppc
        /\ \/ pc' = [pc EXCEPT ![Worker] = "process"] /\ processing' = processing + 1
           \/ pc' = pc /\ processing' = processing
    BY <1>9 DEF WorkRun, irqVars
  <2>2. CASE pc' = [pc EXCEPT ![Worker] = "process"] /\ processing' = processing + 1
    <3>1. n' = n + 1
      BY <2>1, <2>2, TaskFacts, BusyCounts DEF n
    <3> QED BY <1>2, <1>3, <1>4, <2>1, <2>2, <3>1 DEF n
  <2>3. CASE pc' = pc /\ processing' = processing
    BY <1>2, <1>3, <1>4, <1>5, <2>1, <2>3 DEF n
  <2> QED BY <2>1, <2>2, <2>3
<1>10. CASE GrantAvailable
  BY <1>2, <1>3, <1>4, <1>5, <1>10 DEF GrantAvailable, taskVars, irqVars, portVars, n
<1>11. ASSUME NEW t \in Tasks, ProcessBegin(t) PROVE CountInv' /\ processing' \in Nat
  <2>1. /\ pc' = [pc EXCEPT ![t] = "send"] /\ pc[t] = "process"
        /\ processing' = processing /\ iproc' = iproc /\ ipc' = ipc /\ ppc' = ppc
    BY <1>11 DEF ProcessBegin, irqVars, portVars
  <2>2. n' = n
    <3>1. Busy' = Busy
      BY <2>1, BusyCounts
    <3> QED BY <3>1 DEF n
  <2> QED BY <1>2, <1>3, <1>4, <2>1, <2>2 DEF n
<1>12. ASSUME NEW t \in Tasks, Send(t) PROVE CountInv' /\ processing' \in Nat
  BY <1>2, <1>3, <1>4, <1>5, <1>12, SendFrame DEF n
<1>13. ASSUME NEW t \in Tasks, ProcessEnd(t) PROVE CountInv' /\ processing' \in Nat
  <2>1. /\ pc[t] = "send" /\ iproc' = iproc /\ ipc' = ipc /\ ppc' = ppc
        /\ \/ pc' = [pc EXCEPT ![t] = "release"] /\ processing' = processing
           \/ pc' = [pc EXCEPT ![t] = "idle"] /\ processing' = processing - 1
    BY <1>13 DEF ProcessEnd, irqVars
  <2>2. CASE pc' = [pc EXCEPT ![t] = "release"] /\ processing' = processing
    <3>1. n' = n
      <4>1. Busy' = Busy
        BY <2>1, <2>2, BusyCounts
      <4> QED BY <4>1 DEF n
    <3> QED BY <1>2, <1>3, <1>4, <2>1, <2>2, <3>1 DEF n
  <2>3. CASE pc' = [pc EXCEPT ![t] = "idle"] /\ processing' = processing - 1
    <3>1. n' = n - 1 /\ n' \in Nat
      <4>1. n' = n - 1
        BY <2>1, <2>3, BusyCounts DEF n
      <4>2. t \in Busy
        BY <2>1 DEF Busy
      <4>3. n # 0
        BY <4>2, TasksFinite, FS_Subset, FS_EmptySet DEF n, Busy
      <4> QED BY <1>2, <4>1, <4>3 DEF n
    <3> QED BY <1>2, <1>3, <1>4, <2>1, <2>3, <3>1 DEF n
  <2> QED BY <2>1, <2>2, <2>3
<1>14. ASSUME NEW t \in Tasks, ProcessRelease(t) PROVE CountInv' /\ processing' \in Nat
  <2>1. /\ pc[t] = "release" /\ iproc' = iproc /\ ipc' = ipc /\ ppc' = ppc
        /\ pc' = [pc EXCEPT ![t] = "idle"] /\ processing' = processing - 1
    BY <1>14 DEF ProcessRelease, irqVars
  <2>2. n' = n - 1 /\ n' \in Nat
    <3>1. n' = n - 1
      BY <2>1, BusyCounts DEF n
    <3>2. t \in Busy
      BY <2>1 DEF Busy
    <3>3. n # 0
      BY <3>2, TasksFinite, FS_Subset, FS_EmptySet DEF n, Busy
    <3> QED BY <1>2, <3>1, <3>3 DEF n
  <2> QED BY <1>2, <1>3, <1>4, <2>1, <2>2 DEF n
<1>15. CASE Interrupt
  <2>1. pc' = pc /\ ppc' = ppc
    BY <1>15, IrqFrame
  <2>2. CASE IrqEnter
    BY <1>2, <1>3, <1>4, <1>5, <2>1, <2>2 DEF IrqEnter, n
  <2>3. CASE IrqGate
    BY <1>2, <1>3, <1>4, <1>5, <2>1, <2>3 DEF IrqGate, IrqDropped, portVars, n
  <2>4. CASE IrqConsume
    BY <1>2, <1>3, <1>4, <1>5, <2>1, <2>4 DEF IrqConsume, irqVars, n
  <2>5. CASE IrqExit
    BY <1>2, <1>3, <1>4, <1>5, <2>1, <2>5 DEF IrqExit, n
  <2> QED BY <1>15, <2>2, <2>3, <2>4, <2>5 DEF Interrupt
<1>16. CASE PortReset \/ PortWork
  <2>1. pc' = pc /\ iproc' = iproc /\ ipc' = ipc
    BY <1>16, PortFrame
  <2>2. CASE PortReset
    BY <1>2, <1>3, <1>4, <1>5, <2>1, <2>2 DEF PortReset, n
  <2>3. CASE PortWorkRun
    BY <1>2, <1>3, <1>4, <1>5, <2>1, <2>3 DEF PortWorkRun, n
  <2>4. CASE PortPutReset
    BY <1>2, <1>3, <1>4, <1>5, <2>1, <2>4 DEF PortPutReset, n
  <2>5. CASE PortResetComplete
    BY <1>2, <1>3, <1>4, <1>5, <2>1, <2>5 DEF PortResetComplete, n
  <2> QED BY <1>16, <2>2, <2>3, <2>4, <2>5 DEF PortWork
<1>17. CASE Xenwatch
  <2>1. pc' = pc /\ iproc' = iproc /\ ipc' = ipc /\ ppc' = ppc
    BY <1>17, XenFrame
  <2>2. CASE DestroyRelease
    <3>1. n = 0 /\ ppc = "idle" /\ ~iproc
      BY <1>1, <1>3, <2>2, FS_EmptySet DEF DestroyRelease, TeardownInv, Walking, n
    <3>2. processing' = 0
      BY <2>2 DEF DestroyRelease
    <3> QED BY <1>4, <1>5, <2>1, <3>1, <3>2 DEF n
  <2>3. CASE ~DestroyRelease
    <3>1. processing' = processing
      BY <1>17, <2>3 DEF Xenwatch, StartDevice, DestroyBegin, Destroy, HaltRflush, HaltWait,
                         DestroyStop, DestroyFinish, DestroyFree, DestroyUnbind, portVars
    <3> QED BY <1>2, <1>3, <1>4, <1>5, <2>1, <3>1 DEF n
  <2> QED BY <2>2, <2>3
<1>18. CASE Behind
  BY <1>2, <1>3, <1>4, <1>5, <1>18, BackFrame DEF n
<1> QED BY <1>6, <1>7, <1>8, <1>9, <1>10, <1>11, <1>12, <1>13, <1>14, <1>15, <1>16, <1>17,
           <1>18, Steps

-----------------------------------------------------------------------------
(* Start and teardown *)

\* Only who has been let in is busy, and he stays so or ends.
LEMMA NobodyEnters ==
    ASSUME FrontInv, Next, ~CanStart, Busy = {}, ppc = "idle", ~iproc
    PROVE  Busy' = {} /\ ppc' = "idle" /\ ~iproc'
<1>1. \A t \in Tasks : pc[t] = "idle"
  BY DEF Busy
<1>2. ASSUME NEW u \in Urbs, EnqueueLink(u) \/ DequeueStart(u) \/ DequeueFind(u)
      PROVE  Busy' = {} /\ ppc' = "idle" /\ ~iproc'
  <2>1. ~DequeueFind(u) /\ ~EnqueueLink(u)
    BY <1>1, TaskFacts DEF DequeueFind, EnqueueLink
  <2>2. pc' = pc /\ ppc' = ppc /\ iproc' = iproc
    BY <1>2, <2>1 DEF DequeueStart, irqVars
  <2> QED BY <1>1, <2>2 DEF Busy
<1>3. CASE WorkRun \/ GrantAvailable
  BY <1>1, <1>3 DEF WorkRun, GrantAvailable, taskVars, irqVars, Busy
<1>4. ASSUME NEW t \in Tasks,
             ProcessBegin(t) \/ Send(t) \/ ProcessEnd(t) \/ ProcessRelease(t)
      PROVE  FALSE
  <2>1. pc[t] = "idle"
    BY <1>1
  <2>2. ~Send(t)
    BY <2>1, SendFrame
  <2> QED BY <1>4, <2>1, <2>2 DEF ProcessBegin, ProcessEnd, ProcessRelease
<1>5. CASE Interrupt \/ Xenwatch \/ Behind
  <2>1. pc' = pc /\ ppc' = ppc
    BY <1>5, IrqFrame, XenFrame, BackFrame
  <2>2. CASE Interrupt
    BY <1>1, <2>1, <2>2 DEF Interrupt, IrqEnter, IrqGate, IrqConsume, IrqExit, irqVars, Busy
  <2>3. CASE Xenwatch \/ Behind
    BY <1>1, <2>1, <2>3, XenFrame, BackFrame DEF Busy
  <2> QED BY <1>5, <2>2, <2>3
<1>6. CASE PortReset \/ PortWork
  <2>1. pc' = pc /\ iproc' = iproc
    BY <1>6, PortFrame
  <2>2. ppc' = "idle"
    BY <1>6 DEF PortReset, PortWork, PortWorkRun, PortPutReset, PortResetComplete
  <2> QED BY <1>1, <2>1, <2>2 DEF Busy
<1> QED BY <1>2, <1>3, <1>4, <1>5, <1>6, Steps

\* What is left of the finish list says which entry is finished next.
LEMMA WalkGoesOn ==
    ASSUME NEW list \in Seq(Urbs), WalkOn(list)
    PROVE  /\ xpc' \in {"finishMore", "finishLast", "free"}
           /\ xpc' = "finishLast" => list # << >>
           /\ xpc' = "finishMore" => Len(list) > 1
<1>1. Len(list) \in Nat /\ (list # << >> => Len(list) > 0)
  OBVIOUS
<1>2. xpc' = "free" \/ (xpc' = "finishLast" /\ list # << >>)
      \/ (xpc' = "finishMore" /\ list # << >> /\ Len(list) # 1)
  BY DEF WalkOn
<1> QED BY <1>1, <1>2

\* With nobody processing, the finish list only gets longer.
LEMMA FinishListGrows ==
    ASSUME FrontInv, Next, ~Xenwatch, Busy = {}
    PROVE  finishList' = finishList \/ \E u : finishList' = Append(finishList, u)
<1>1. \A t \in Tasks : pc[t] = "idle"
  BY DEF Busy
<1>2. ASSUME NEW u \in Urbs, EnqueueLink(u) \/ DequeueStart(u) \/ DequeueFind(u)
      PROVE  finishList' = finishList
  BY <1>2 DEF EnqueueLink, DequeueStart, DequeueFind, listVars
<1>3. CASE WorkRun \/ GrantAvailable
  BY <1>3 DEF WorkRun, GrantAvailable, listVars
<1>4. ASSUME NEW t \in Tasks,
             ProcessBegin(t) \/ Send(t) \/ ProcessEnd(t) \/ ProcessRelease(t)
      PROVE  FALSE
  <2>1. pc[t] = "idle"
    BY <1>1
  <2>2. ~Send(t)
    BY <2>1, SendFrame
  <2> QED BY <1>4, <2>1, <2>2 DEF ProcessBegin, ProcessEnd, ProcessRelease
<1>5. CASE Interrupt
  BY <1>5 DEF Interrupt, IrqEnter, IrqGate, IrqConsume, IrqExit, listVars
<1>6. CASE PortReset \/ PortWork \/ Behind
  BY <1>6, PortFrame, BackFrame
<1> QED BY <1>2, <1>3, <1>4, <1>5, <1>6, Steps

\* xenwatch comes past the halt only when nothing is under way, and nothing starts then.
LEMMA TeardownStep ==
    ASSUME FrontInv, Next
    PROVE  TeardownInv'
<1>1. TeardownInv /\ CountInv /\ finishList \in Seq(Urbs)
  BY DEF FrontInv, TypeOK, ListTypes
<1> USE DEF Walking
<1>2. CASE Xenwatch
  <2>1. pc' = pc /\ ppc' = ppc /\ ipc' = ipc /\ iproc' = iproc
    BY <1>2, XenFrame
  <2>2. Busy' = Busy
    BY <2>1 DEF Busy
  <2>3. CASE StartDevice
    BY <1>1, <2>1, <2>2, <2>3 DEF StartDevice, Start, TeardownInv
  <2>4. CASE DestroyBegin
    BY <1>1, <2>1, <2>2, <2>4 DEF DestroyBegin, TeardownInv
  <2>5. CASE HaltRflush
    BY <1>1, <2>1, <2>2, <2>5 DEF HaltRflush, TeardownInv, portVars
  <2>6. CASE HaltWait
    BY <1>1, <2>1, <2>2, <2>6 DEF HaltWait, TeardownInv, portVars
  <2>10. CASE DestroyStop
    <3>1. Busy = {} /\ ppc = "idle" /\ ~iproc
      BY <2>10, NobodyBusy DEF DestroyStop
    <3>2. /\ finishList' = finishList /\ xpc' \in {"finishMore", "finishLast", "free"}
          /\ xpc' = "finishLast" => finishList # << >>
          /\ xpc' = "finishMore" => Len(finishList) > 1
      BY <1>1, <2>10, WalkGoesOn DEF DestroyStop, listVars
    <3>3. xpc = "stop" /\ UNCHANGED <<present, closing, sring, irqBound>>
      BY <2>10 DEF DestroyStop, portVars
    <3> QED BY <1>1, <2>1, <2>2, <3>1, <3>2, <3>3 DEF TeardownInv
  <2>7. CASE DestroyFinish
    <3>1. PICK list \in Seq(Urbs) : list \in {<< >>, finishList'} /\ WalkOn(list)
      <4>1. finishList # << >>
        BY <1>1, <2>7 DEF TeardownInv, DestroyFinish
      <4>2. finishList' \in Seq(Urbs)
        BY <1>1, <2>7, <4>1 DEF DestroyFinish
      <4>3. CASE xpc = "finishLast"
        <5>1. xpc' = "free"
          BY <2>7, <4>3 DEF DestroyFinish, WalkOn
        <5>2. << >> \in Seq(Urbs) /\ WalkOn(<< >>)
          BY <5>1 DEF WalkOn
        <5> QED BY <5>2
      <4>4. CASE xpc # "finishLast"
        BY <2>7, <4>2, <4>4 DEF DestroyFinish, WalkOn
      <4> QED BY <4>3, <4>4
    <3>2. /\ xpc' \in {"finishMore", "finishLast", "free"}
          /\ xpc' = "finishLast" => finishList' # << >>
          /\ xpc' = "finishMore" => Len(finishList') > 1
      BY <3>1, WalkGoesOn
    <3>3. /\ xpc \in {"finishMore", "finishLast"}
          /\ UNCHANGED <<present, closing, sring, irqBound>>
      BY <2>7 DEF DestroyFinish, portVars
    <3> QED BY <1>1, <2>1, <2>2, <3>2, <3>3 DEF TeardownInv
  <2>11. CASE DestroyFree
    BY <1>1, <2>1, <2>2, <2>11 DEF DestroyFree, TeardownInv, portVars
  <2>8. CASE DestroyUnbind
    BY <1>1, <2>1, <2>2, <2>8 DEF DestroyUnbind, TeardownInv, portVars
  <2>9. CASE DestroyRelease
    BY <1>1, <2>1, <2>2, <2>9 DEF DestroyRelease, TeardownInv
  <2> QED BY <1>2, <2>3, <2>4, <2>5, <2>6, <2>7, <2>8, <2>9, <2>10, <2>11 DEF Xenwatch, Destroy
<1>3. CASE ~Xenwatch
  <2> DEFINE Same == /\ present' = present /\ closing' = closing /\ sring' = sring
                     /\ irqBound' = irqBound /\ xpc' = xpc
  <2>1. Same
    <3>1. ASSUME NEW u \in Urbs, EnqueueLink(u) \/ DequeueStart(u) \/ DequeueFind(u)
          PROVE  Same
      BY <3>1 DEF EnqueueLink, DequeueStart, DequeueFind, portVars, teardownVars
    <3>2. CASE WorkRun \/ GrantAvailable
      BY <3>2 DEF WorkRun, GrantAvailable, portVars, teardownVars
    <3>3. ASSUME NEW t \in Tasks, ProcessBegin(t) \/ ProcessEnd(t) \/ ProcessRelease(t)
          PROVE  Same
      BY <3>3 DEF ProcessBegin, ProcessEnd, ProcessRelease, portVars, teardownVars
    <3>4. ASSUME NEW t \in Tasks, Send(t) PROVE Same
      BY <3>4, SendFrame
    <3>5. CASE Interrupt \/ PortReset \/ PortWork \/ Behind
      BY <3>5, IrqFrame, PortFrame, BackFrame
    <3> QED BY <1>3, <3>1, <3>2, <3>3, <3>4, <3>5, Steps
  <2>2. xpc \in Walking \cup {"gone"} => Busy' = {} /\ ppc' = "idle" /\ ~iproc'
    <3>1. xpc \in Walking \cup {"gone"} => Busy = {} /\ ppc = "idle" /\ ~iproc /\ ~CanStart
      BY <1>1 DEF TeardownInv, CanStart
    <3> QED BY <3>1, NobodyEnters
  <2>4. /\ xpc = "finishLast" => finishList' # << >>
        /\ xpc = "finishMore" => Len(finishList') > 1
    <3> SUFFICES ASSUME xpc \in {"finishLast", "finishMore"}
                 PROVE  /\ xpc = "finishLast" => finishList' # << >>
                        /\ xpc = "finishMore" => Len(finishList') > 1
      OBVIOUS
    <3>1. Busy = {}
      BY <1>1 DEF TeardownInv
    <3>2. finishList' = finishList \/ \E u : finishList' = Append(finishList, u)
      BY <1>3, <3>1, FinishListGrows
    <3>3. /\ xpc = "finishLast" => finishList # << >>
          /\ xpc = "finishMore" => Len(finishList) > 1
      BY <1>1 DEF TeardownInv
    <3>4. Len(finishList) \in Nat /\ (finishList # << >> => Len(finishList) > 0)
      BY <1>1
    <3>5. Len(finishList') \in Nat /\ Len(finishList') >= Len(finishList)
          /\ (Len(finishList') > 0 => finishList' # << >>)
      BY <1>1, <3>2
    <3> QED BY <3>3, <3>4, <3>5
  <2>3. ~irqBound => ipc' = "idle"
    <3> SUFFICES ASSUME ~irqBound PROVE ipc' = "idle"
      OBVIOUS
    <3>1. ipc = "idle"
      BY <1>1 DEF TeardownInv
    <3>2. ~Interrupt
      BY <3>1 DEF Interrupt, IrqEnter, IrqGate, IrqConsume, IrqExit
    <3>3. ASSUME NEW u \in Urbs, EnqueueLink(u) \/ DequeueStart(u) \/ DequeueFind(u)
          PROVE  ipc' = ipc
      BY <3>3 DEF EnqueueLink, DequeueStart, DequeueFind, irqVars
    <3>4. CASE WorkRun \/ GrantAvailable
      BY <3>1, <3>4 DEF WorkRun, GrantAvailable, irqVars
    <3>5. ASSUME NEW t \in Tasks,
                 ProcessBegin(t) \/ Send(t) \/ ProcessEnd(t) \/ ProcessRelease(t)
          PROVE  ipc' = ipc
      BY <3>5, SendFrame DEF ProcessBegin, ProcessEnd, ProcessRelease, irqVars
    <3>6. CASE PortReset \/ PortWork \/ Behind
      BY <3>1, <3>6, PortFrame, BackFrame
    <3> QED BY <1>3, <3>1, <3>2, <3>3, <3>4, <3>5, <3>6, Steps
  <2> QED BY <1>1, <2>1, <2>2, <2>3, <2>4 DEF TeardownInv
<1> QED BY <1>2, <1>3

\* Before the device is started nothing happens but that.
LEMMA StartStep ==
    ASSUME FrontInv, Next
    PROVE  StartInv'
<1>1. StartInv /\ TeardownInv
  BY DEF FrontInv
<1>2. CASE xpc \notin {"probed", "started"}
  <2>1. xpc' \notin {"probed", "started"}
    <3>1. CASE Xenwatch
      BY <1>2, <3>1 DEF Xenwatch, StartDevice, Start, DestroyBegin, Destroy, HaltRflush,
                        HaltWait, DestroyStop, DestroyFinish, WalkOn, DestroyFree,
                        DestroyUnbind, DestroyRelease
    <3>2. CASE ~Xenwatch
      <4>1. ASSUME NEW u \in Urbs, EnqueueLink(u) \/ DequeueStart(u) \/ DequeueFind(u)
            PROVE  xpc' = xpc
        BY <4>1 DEF EnqueueLink, DequeueStart, DequeueFind, teardownVars
      <4>2. CASE WorkRun \/ GrantAvailable
        BY <1>2, <4>2 DEF WorkRun, GrantAvailable, teardownVars
      <4>3. ASSUME NEW t \in Tasks,
                   ProcessBegin(t) \/ Send(t) \/ ProcessEnd(t) \/ ProcessRelease(t)
            PROVE  xpc' = xpc
        BY <4>3, SendFrame DEF ProcessBegin, ProcessEnd, ProcessRelease, teardownVars
      <4>4. CASE Interrupt \/ PortReset \/ PortWork \/ Behind
        BY <1>2, <4>4, IrqFrame, PortFrame, BackFrame
      <4> QED BY <1>2, <3>2, <4>1, <4>2, <4>3, <4>4, Steps
    <3> QED BY <3>1, <3>2
  <2> QED BY <2>1 DEF StartInv
<1>3. CASE xpc \in {"probed", "started"}
  <2>1. /\ freeList # << >> /\ Busy = {} /\ ppc = "idle" /\ linked = {}
        /\ ~work /\ ~portWork /\ ~grantWait
        /\ toBack = << >> /\ atDevice = {} /\ completing = {} /\ ~evt /\ ipc = "idle"
    BY <1>1, <1>3 DEF StartInv
  <2>2. \A t \in Tasks : pc[t] = "idle"
    BY <2>1 DEF Busy
  <2>3. ASSUME NEW u \in Urbs, EnqueueLink(u) \/ DequeueStart(u) \/ DequeueFind(u)
        PROVE  FALSE
    BY <1>3, <2>1, <2>2, <2>3, TaskFacts DEF EnqueueLink, DequeueStart, DequeueFind, Enumerated
  <2>4. ~WorkRun /\ ~GrantAvailable
    BY <2>1 DEF WorkRun, GrantAvailable
  <2>5. ASSUME NEW t \in Tasks,
               ProcessBegin(t) \/ Send(t) \/ ProcessEnd(t) \/ ProcessRelease(t)
        PROVE  FALSE
    <3>1. pc[t] = "idle"
      BY <2>2
    <3>2. ~Send(t)
      BY <3>1, SendFrame
    <3> QED BY <2>5, <3>1, <3>2 DEF ProcessBegin, ProcessEnd, ProcessRelease
  <2>6. ~Interrupt
    BY <2>1 DEF Interrupt, IrqEnter, IrqGate, IrqConsume, IrqExit
  <2>7. ~PortReset /\ ~PortWork
    BY <1>3, <2>1 DEF PortReset, PortWork, PortWorkRun, PortPutReset, PortResetComplete,
                      Enumerated
  <2>8. ~Behind
    BY <2>1 DEF Behind, Backend, BackSubmit, BackKill, BackAnswer, CancelFinds, EndUsbIoOp,
                DeviceComplete
  <2>9. Xenwatch
    BY <2>3, <2>4, <2>5, <2>6, <2>7, <2>8, Steps
  <2>10. StartDevice
    BY <1>3, <2>9 DEF Xenwatch, DestroyBegin, Destroy, HaltRflush, HaltWait, DestroyStop,
                      DestroyFinish, DestroyFree, DestroyUnbind, DestroyRelease
  <2>11. CASE xpc = "probed"
    <3>1. /\ UNCHANGED <<shadowVars, ringVars>>
          /\ UNCHANGED <<flagVars, workVars, taskVars, irqVars, ppc, coreVars>>
      BY <2>10, <2>11 DEF StartDevice, Start
    <3>2. Busy' = Busy
      BY <3>1 DEF taskVars, Busy
    <3> QED BY <2>1, <3>1, <3>2 DEF StartInv, shadowVars, ringVars, flagVars, workVars, irqVars,
                                    coreVars
  <2>12. CASE xpc = "started"
    BY <2>10, <2>12 DEF StartDevice, Start, StartInv
  <2> QED BY <1>3, <2>11, <2>12
<1> QED BY <1>2, <1>3

\* Calls and the URBs of the driver.
LEMMA CallStep ==
    ASSUME FrontInv, Next
    PROVE  CallInv'
<1>1. /\ CallInv
      /\ pc \in [Tasks -> {"idle", "find", "process", "send", "release"}]
  BY DEF FrontInv, TypeOK, TaskTypes
<1>2. ASSUME NEW u \in Urbs, EnqueueLink(u) PROVE CallInv'
  <2>1. /\ pc' = [pc EXCEPT ![Enqueuer(u)] = "process"] /\ u \notin linked \cup given
        /\ linked' = linked \cup {u} /\ unlinked' = unlinked /\ given' = given
    BY <1>2 DEF EnqueueLink
  <2> QED BY <1>1, <2>1, TaskFacts DEF CallInv
<1>3. ASSUME NEW u \in Urbs, DequeueStart(u) PROVE CallInv'
  <2>1. /\ pc' \in {pc, [pc EXCEPT ![Dequeuer(u)] = "find"]} /\ u \in linked \ unlinked
        /\ linked' = linked /\ unlinked' = unlinked \cup {u} /\ given' = given
    BY <1>3 DEF DequeueStart
  <2> QED BY <1>1, <2>1, TaskFacts DEF CallInv
<1>4. ASSUME NEW u \in Urbs, DequeueFind(u) PROVE CallInv'
  <2>1. /\ pc' = [pc EXCEPT ![Dequeuer(u)] = "process"] /\ pc[Dequeuer(u)] = "find"
        /\ linked' = linked /\ unlinked' = unlinked /\ given' = given
    BY <1>4 DEF DequeueFind, coreVars
  <2> QED BY <1>1, <2>1, TaskFacts DEF CallInv
<1>5. CASE WorkRun
  <2>1. /\ pc' \in {pc, [pc EXCEPT ![Worker] = "process"]}
        /\ linked' = linked /\ unlinked' = unlinked /\ given' = given
    BY <1>5 DEF WorkRun, coreVars
  <2> QED BY <1>1, <2>1, TaskFacts DEF CallInv
<1>6. CASE GrantAvailable
  BY <1>1, <1>6 DEF GrantAvailable, CallInv, taskVars, coreVars
<1>7. ASSUME NEW t \in Tasks, ProcessBegin(t) \/ ProcessEnd(t) PROVE CallInv'
  <2>1. /\ \E l \in {"send", "release", "idle"} : pc' = [pc EXCEPT ![t] = l]
        /\ pc[t] \in {"process", "send"}
        /\ linked' = linked /\ unlinked' = unlinked /\ given' = given
    BY <1>7 DEF ProcessBegin, ProcessEnd, coreVars
  <2> QED BY <1>1, <2>1 DEF CallInv
<1>8. ASSUME NEW t \in Tasks, Send(t) PROVE CallInv'
  BY <1>1, <1>8, SendFrame DEF CallInv
<1>9. ASSUME NEW t \in Tasks, ProcessRelease(t) PROVE CallInv'
  <2>1. /\ pc' = [pc EXCEPT ![t] = "idle"]
        /\ linked' = linked \ ToSet(tmp[t]) /\ unlinked' = unlinked \ ToSet(tmp[t])
        /\ given' = given \cup ToSet(tmp[t])
    BY <1>9 DEF ProcessRelease, ReleaseUrbs
  <2> QED BY <1>1, <2>1 DEF CallInv
<1>10. CASE Interrupt \/ PortReset \/ PortWork \/ Behind
  BY <1>1, <1>10, IrqFrame, PortFrame, BackFrame DEF CallInv
<1>11. CASE Xenwatch
  <2>1. pc' = pc
    BY <1>11, XenFrame
  <2>2. CASE DestroyRelease
    <3>1. \E S : /\ linked' = linked \ S /\ unlinked' = unlinked \ S
                 /\ given' = given \cup S
      BY <2>2 DEF DestroyRelease, ReleaseUrbs
    <3> QED BY <1>1, <2>1, <3>1 DEF CallInv
  <2>3. CASE ~DestroyRelease
    <3>1. linked' = linked /\ unlinked' = unlinked /\ given' = given
      BY <1>11, <2>3 DEF Xenwatch, StartDevice, DestroyBegin, Destroy, HaltRflush, HaltWait,
                         DestroyStop, DestroyFinish, DestroyFree, DestroyUnbind, coreVars
    <3> QED BY <1>1, <2>1, <3>1 DEF CallInv
  <2> QED BY <2>2, <2>3
<1> QED BY <1>2, <1>3, <1>4, <1>5, <1>6, <1>7, <1>8, <1>9, <1>10, <1>11, Steps

-----------------------------------------------------------------------------
(* Where an URB is *)

\* FinishAll splices the finish list to the release list.
LEMMA FinishAllMoves ==
    ASSUME FrontInv, FinishAll
    PROVE  /\ finishList' = << >> /\ releaseList' \in Seq(Urbs)
           /\ IsInjective(finishList') /\ IsInjective(releaseList')
           /\ ToSet(finishList') = {}
           /\ ToSet(releaseList') = ToSet(releaseList) \cup ToSet(finishList)
<1>1. /\ finishList \in Seq(Urbs) /\ releaseList \in Seq(Urbs)
      /\ IsInjective(finishList) /\ IsInjective(releaseList)
  BY DEF FrontInv, TypeOK, ListTypes, PlaceInv
<1>2. ToSet(finishList) \subseteq Urbs
  BY <1>1 DEF ToSet
<1>3. ToSet(releaseList) \cap ToSet(finishList) = {}
  BY <1>2 DEF FrontInv, PlaceInv, Finishing, Releasing
<1>4. finishList' = << >> /\ releaseList' = releaseList \o finishList
  BY DEF FinishAll
<1> QED BY <1>1, <1>3, <1>4, ConcatSet, EmptyList

\* xenwatch finishes the first URB of the finish list.
LEMMA FinishOneMoves ==
    ASSUME FrontInv, DestroyFinish, NEW u, u = Head(finishList)
    PROVE  /\ finishList # << >> /\ u \in Urbs /\ Finishing(u)
           /\ finishList' \in Seq(Urbs) /\ releaseList' \in Seq(Urbs)
           /\ IsInjective(finishList') /\ IsInjective(releaseList')
           /\ ToSet(finishList') = ToSet(finishList) \ {u}
           /\ ToSet(releaseList') = ToSet(releaseList) \cup {u}
<1>1. /\ finishList \in Seq(Urbs) /\ releaseList \in Seq(Urbs)
      /\ IsInjective(finishList) /\ IsInjective(releaseList)
  BY DEF FrontInv, TypeOK, ListTypes, PlaceInv
<1>2. finishList # << >>
  <2>1. TeardownInv
    BY DEF FrontInv
  <2> QED BY <1>1, <2>1 DEF TeardownInv, DestroyFinish
<1>3. u \in Urbs /\ Finishing(u)
  BY <1>1, <1>2, TailSet DEF Finishing
<1>4. u \notin ToSet(releaseList)
  BY <1>3 DEF FrontInv, PlaceInv, Releasing
<1>5. finishList' = Tail(finishList) /\ releaseList' = Append(releaseList, u)
  BY DEF DestroyFinish
<1>6. /\ finishList' \in Seq(Urbs) /\ IsInjective(finishList')
      /\ ToSet(finishList') = ToSet(finishList) \ {u}
  BY <1>1, <1>2, <1>5, TailSet
<1>7. /\ releaseList' \in Seq(Urbs) /\ IsInjective(releaseList')
      /\ ToSet(releaseList') = ToSet(releaseList) \cup {u}
  BY <1>1, <1>3, <1>4, <1>5, AppendSet
<1> QED BY <1>2, <1>3, <1>6, <1>7

\* What the next URB to send is.
LEMMA NextIsPending ==
    ASSUME FrontInv, NEW t, NEW u \in Urbs, NextToSend(t, u)
    PROVE  /\ pc[t] = "send" /\ Pending(u)
           /\ sendQueue' \in Seq(Urbs) /\ IsInjective(sendQueue')
           /\ ToSet(sendQueue') \subseteq ToSet(pendingList) \ {u}
<1>1. sendQueue \in Seq(Urbs) /\ IsInjective(sendQueue)
      /\ ToSet(sendQueue) \subseteq ToSet(pendingList)
  BY DEF FrontInv, TypeOK, TaskTypes, SendInv
<1>2. pc[t] = "send" /\ sendQueue # << >> /\ u = Head(sendQueue) /\ sendQueue' = Tail(sendQueue)
  BY DEF NextToSend
<1> QED BY <1>1, <1>2, TailSet DEF Pending

\* An URB on the pending list is taken off it, whoever does it.
LEMMA PendingRemoved ==
    ASSUME FrontInv, NEW u \in Urbs, Pending(u), pendingList' = RemoveFirst(pendingList, u)
    PROVE  /\ pendingList' \in Seq(Urbs) /\ IsInjective(pendingList')
           /\ ToSet(pendingList') = ToSet(pendingList) \ {u}
<1>1. pendingList \in Seq(Urbs) /\ IsInjective(pendingList) /\ u \in ToSet(pendingList)
  BY DEF FrontInv, TypeOK, ListTypes, PlaceInv, Pending
<1> QED BY <1>1, RemoveSet

\* An URB goes to the back of the finish list, or of the release list.
LEMMA FinishAppended ==
    ASSUME FrontInv, NEW u \in Urbs, ~Finishing(u), finishList' = Append(finishList, u)
    PROVE  /\ finishList' \in Seq(Urbs) /\ IsInjective(finishList')
           /\ ToSet(finishList') = ToSet(finishList) \cup {u}
<1>1. finishList \in Seq(Urbs) /\ IsInjective(finishList) /\ u \notin ToSet(finishList)
  BY DEF FrontInv, TypeOK, ListTypes, PlaceInv, Finishing
<1> QED BY <1>1, AppendSet

\* An URB goes to the back of the release list.
LEMMA ReleaseAppended ==
    ASSUME FrontInv, NEW u \in Urbs, ~Releasing(u), releaseList' = Append(releaseList, u)
    PROVE  /\ releaseList' \in Seq(Urbs) /\ IsInjective(releaseList')
           /\ ToSet(releaseList') = ToSet(releaseList) \cup {u}
<1>1. releaseList \in Seq(Urbs) /\ IsInjective(releaseList) /\ u \notin ToSet(releaseList)
  BY DEF FrontInv, TypeOK, ListTypes, PlaceInv, Releasing
<1> QED BY <1>1, AppendSet

\* The URB of a response is pending: the shadow in use is its own.
LEMMA ResponseOfPending ==
    ASSUME FrontInv, toFront # << >>, xpc # "gone", NEW i, i = Head(toFront)
    PROVE  /\ i \in Shadows /\ shadow[i].use \in Commands \cup {"urb"}
           /\ Answered(i) /\ i \notin ToSet(freeList)
           /\ shadow[i].use = "urb" =>
                 /\ shadow[i].urb \in Urbs /\ Pending(shadow[i].urb)
                 /\ ~Finishing(shadow[i].urb) /\ reqId[shadow[i].urb] = i
                 /\ state[shadow[i].urb] \in {"SENT", "CANCEL"}
<1>1. toFront \in Seq(Shadows) /\ shadow \in [Shadows -> Shadow]
  BY DEF FrontInv, TypeOK, RingTypes
<1>2. i \in Shadows /\ Answered(i)
  BY <1>1, TailSet DEF Answered
<1>3. shadow[i].use # "free" /\ ~Finishing(shadow[i].urb)
  BY <1>2 DEF FrontInv, UseInv
<1>4. shadow[i].use \in Commands \cup {"urb"}
  <2>1. shadow[i] \in Shadow
    BY <1>1, <1>2
  <2> QED BY <1>3, <2>1 DEF Shadow
<1>5. i \notin ToSet(freeList)
  BY <1>2, <1>3 DEF FrontInv, ShadowInv
<1>6. ASSUME shadow[i].use = "urb"
      PROVE  /\ shadow[i].urb \in Urbs /\ Sent(shadow[i].urb) /\ reqId[shadow[i].urb] = i
  BY <1>2, <1>6 DEF FrontInv, ShadowInv
<1> QED BY <1>2, <1>3, <1>4, <1>5, <1>6 DEF Sent

\* While the interrupt runs, the device is there.
LEMMA ConsumingBeforeGone ==
    ASSUME FrontInv, ipc # "idle"
    PROVE  xpc # "gone" /\ xpc # "release"
BY DEF FrontInv, TeardownInv

\* A step that leaves the lists alone.
LEMMA PlaceSame ==
    ASSUME PlaceInv,
           pendingList' = pendingList, finishList' = finishList,
           releaseList' = releaseList, tmp' = tmp, linked' = linked,
           \A u \in Urbs : (Entering(u))' <=> Entering(u),
           \A t \in Tasks : pc[t] = "release" => pc'[t] = "release"
    PROVE  PlaceInv'
BY DEF PlaceInv, Pending, Finishing, Releasing, Leaving, LeavingBy

\* Each URB is in the place it is moved to and no other.
LEMMA PlaceStep ==
    ASSUME FrontInv, Next
    PROVE  PlaceInv'
<1>1. /\ PlaceInv /\ CallInv /\ LockInv /\ TeardownInv
      /\ pc \in [Tasks -> {"idle", "find", "process", "send", "release"}]
      /\ tmp \in [Tasks -> Seq(Urbs)]
      /\ pendingList \in Seq(Urbs) /\ finishList \in Seq(Urbs) /\ releaseList \in Seq(Urbs)
  BY DEF FrontInv, TypeOK, TaskTypes, ListTypes
<1> DEFINE InOne(u) ==
         /\ u \in linked <=>
                Entering(u) \/ Pending(u) \/ Finishing(u) \/ Releasing(u) \/ Leaving(u)
         /\ Entering(u) => ~Pending(u) /\ ~Finishing(u) /\ ~Releasing(u) /\ ~Leaving(u)
         /\ Pending(u) => ~Finishing(u) /\ ~Releasing(u) /\ ~Leaving(u)
         /\ Finishing(u) => ~Releasing(u) /\ ~Leaving(u)
         /\ Releasing(u) => ~Leaving(u)
         /\ \A s, t \in Tasks : LeavingBy(s, u) /\ LeavingBy(t, u) => s = t
       Injective ==
         IsInjective(pendingList) /\ IsInjective(finishList) /\ IsInjective(releaseList)
       Spliced == \A t \in Tasks : tmp[t] # << >> => pc[t] = "release"
<1>2. /\ PlaceInv <=> Injective /\ Spliced /\ \A u \in Urbs : InOne(u)
      /\ PlaceInv' <=> Injective' /\ Spliced' /\ \A u \in Urbs : InOne(u)'
  BY DEF PlaceInv
<1>3. ASSUME NEW u \in Urbs, EnqueueLink(u) PROVE PlaceInv'
  <2>1. /\ pc' = [pc EXCEPT ![Enqueuer(u)] = "process"] /\ u \notin linked \cup given
        /\ linked' = linked \cup {u} /\ tmp' = tmp
        /\ pendingList' = pendingList /\ finishList' = finishList /\ releaseList' = releaseList
    BY <1>3 DEF EnqueueLink, listVars
  <2>2. pc[Enqueuer(u)] = "idle"
    BY <1>1, <2>1 DEF CallInv
  <2>3. ASSUME NEW v \in Urbs
        PROVE  /\ (Entering(v))' <=> Entering(v) \/ v = u
               /\ (Pending(v))' <=> Pending(v)
               /\ (Finishing(v))' <=> Finishing(v)
               /\ (Releasing(v))' <=> Releasing(v)
               /\ (Leaving(v))' <=> Leaving(v)
               /\ \A t \in Tasks : (LeavingBy(t, v))' <=> LeavingBy(t, v)
    <3>1. pc'[Enqueuer(v)] = IF v = u THEN "process" ELSE pc[Enqueuer(v)]
      BY <1>1, <2>1, TaskFacts
    <3>2. (Entering(v))' <=> Entering(v) \/ v = u
      BY <3>1 DEF Entering
    <3> QED BY <2>1, <3>2 DEF Pending, Finishing, Releasing, Leaving, LeavingBy
  <2>4. ASSUME NEW v \in Urbs PROVE InOne(v)'
    BY <1>1, <1>2, <2>1, <2>3
  <2>5. Injective' /\ Spliced'
    BY <1>1, <1>2, <2>1, <2>2, TaskFacts
  <2> QED BY <1>2, <2>4, <2>5
<1>4. ASSUME NEW u \in Urbs, DequeueStart(u) PROVE PlaceInv'
  <2>1. /\ pc' \in {pc, [pc EXCEPT ![Dequeuer(u)] = "find"]} /\ u \in linked \ unlinked
        /\ linked' = linked /\ tmp' = tmp
        /\ pendingList' = pendingList /\ finishList' = finishList /\ releaseList' = releaseList
    BY <1>4 DEF DequeueStart, listVars
  <2>2. pc[Dequeuer(u)] = "idle"
    BY <1>1, <2>1 DEF CallInv
  <2>3. ASSUME NEW v \in Urbs PROVE pc'[Enqueuer(v)] = pc[Enqueuer(v)]
    <3>1. Enqueuer(v) \in Tasks /\ Enqueuer(v) # Dequeuer(u)
      BY TaskFacts
    <3> QED BY <1>1, <2>1, <3>1
  <2>4. \A t \in Tasks : pc[t] = "release" => pc'[t] = "release"
    BY <1>1, <2>1, <2>2, TaskFacts
  <2>5. \A v \in Urbs : (Entering(v))' <=> Entering(v)
    BY <2>3 DEF Entering
  <2> QED BY <1>1, <2>1, <2>4, <2>5, PlaceSame
<1>5. ASSUME NEW u \in Urbs, DequeueFind(u) PROVE PlaceInv'
  <2>1. /\ pc' = [pc EXCEPT ![Dequeuer(u)] = "process"] /\ pc[Dequeuer(u)] = "find"
        /\ linked' = linked /\ tmp' = tmp
    BY <1>5 DEF DequeueFind, coreVars
  <2>2. /\ \A v \in Urbs : (Entering(v))' <=> Entering(v)
        /\ \A t \in Tasks : pc[t] = "release" => pc'[t] = "release"
    <3>1. ASSUME NEW v \in Urbs PROVE pc'[Enqueuer(v)] = pc[Enqueuer(v)]
      <4>1. Enqueuer(v) \in Tasks /\ Enqueuer(v) # Dequeuer(u)
        BY TaskFacts
      <4> QED BY <1>1, <2>1, <4>1
    <3>2. \A t \in Tasks : pc[t] = "release" => pc'[t] = "release"
      BY <1>1, <2>1, TaskFacts
    <3> QED BY <3>1, <3>2 DEF Entering
  <2>3. CASE /\ Pending(u) /\ pendingList' = RemoveFirst(pendingList, u)
             /\ releaseList' = Append(releaseList, u) /\ finishList' = finishList
    <3>1. ~Releasing(u) /\ ~Entering(u) /\ ~Finishing(u) /\ ~Leaving(u)
      BY <1>1, <2>3 DEF PlaceInv
    <3>2. ASSUME NEW v \in Urbs
          PROVE  /\ (Pending(v))' <=> Pending(v) /\ v # u
                 /\ (Finishing(v))' <=> Finishing(v)
                 /\ (Releasing(v))' <=> Releasing(v) \/ v = u
                 /\ (Leaving(v))' <=> Leaving(v)
                 /\ \A t \in Tasks : (LeavingBy(t, v))' <=> LeavingBy(t, v)
      BY <2>1, <2>3, <3>1, PendingRemoved, ReleaseAppended
         DEF Pending, Finishing, Releasing, Leaving, LeavingBy
    <3>3. ASSUME NEW v \in Urbs PROVE InOne(v)'
      BY <1>1, <1>2, <2>1, <2>2, <2>3, <3>1, <3>2
    <3>4. Injective' /\ Spliced'
      BY <1>1, <1>2, <2>1, <2>2, <2>3, <3>1, PendingRemoved, ReleaseAppended
    <3> QED BY <1>2, <3>3, <3>4
  <2>4. CASE pendingList' = pendingList /\ finishList' = finishList /\ releaseList' = releaseList
    BY <1>1, <2>1, <2>2, <2>4, PlaceSame
  <2> QED BY <1>5, <2>3, <2>4 DEF DequeueFind, Pending, listVars
<1>6. CASE WorkRun
  <2>1. /\ pc' \in {pc, [pc EXCEPT ![Worker] = "process"]} /\ pc[Worker] = "idle"
        /\ linked' = linked /\ tmp' = tmp
        /\ pendingList' = pendingList /\ finishList' = finishList /\ releaseList' = releaseList
    BY <1>6 DEF WorkRun, coreVars, listVars
  <2> QED BY <1>1, <2>1, TaskFacts, PlaceSame DEF Entering
<1>7. CASE GrantAvailable
  BY <1>1, <1>7, PlaceSame DEF GrantAvailable, taskVars, coreVars, listVars, Entering
<1>8. ASSUME NEW t \in Tasks, ProcessBegin(t) PROVE PlaceInv'
  <2>1. /\ pc' = [pc EXCEPT ![t] = "send"] /\ pc[t] = "process" /\ FinishAll
        /\ linked' = linked /\ tmp' = tmp
        /\ pendingList' = IF t[1] = "enqueue" THEN Append(pendingList, t[2]) ELSE pendingList
    BY <1>8 DEF ProcessBegin, coreVars
  <2>2. /\ finishList' = << >> /\ IsInjective(finishList') /\ IsInjective(releaseList')
        /\ ToSet(finishList') = {}
        /\ ToSet(releaseList') = ToSet(releaseList) \cup ToSet(finishList)
    BY <2>1, FinishAllMoves
  <2>3. \A v \in Urbs : /\ (Finishing(v))' <=> FALSE
                        /\ (Releasing(v))' <=> Releasing(v) \/ Finishing(v)
                        /\ (Leaving(v))' <=> Leaving(v)
                        /\ \A s \in Tasks : (LeavingBy(s, v))' <=> LeavingBy(s, v)
    BY <2>1, <2>2 DEF Finishing, Releasing, Leaving, LeavingBy
  <2>4. Spliced'
    BY <1>1, <1>2, <2>1
  <2>5. ASSUME NEW u \in Urbs, t = Enqueuer(u) PROVE PlaceInv'
    <3>1. Entering(u) /\ ~Pending(u) /\ ~Finishing(u) /\ ~Releasing(u) /\ ~Leaving(u)
      BY <1>1, <2>1, <2>5 DEF PlaceInv, Entering
    <3>2. /\ IsInjective(pendingList')
          /\ ToSet(pendingList') = ToSet(pendingList) \cup {u}
      BY <1>1, <2>1, <2>5, <3>1, TaskFacts, AppendSet DEF PlaceInv, Pending
    <3>3. \A v \in Urbs : /\ (Entering(v))' <=> Entering(v) /\ v # u
                          /\ (Pending(v))' <=> Pending(v) \/ v = u
      BY <1>1, <2>1, <2>5, <3>2, TaskFacts DEF Entering, Pending
    <3>4. ASSUME NEW v \in Urbs PROVE InOne(v)'
      BY <1>1, <1>2, <2>1, <2>3, <3>1, <3>3
    <3> QED BY <1>2, <2>2, <2>4, <3>2, <3>4
  <2>6. CASE t[1] # "enqueue"
    <3>1. \A v \in Urbs : /\ (Entering(v))' <=> Entering(v)
                          /\ (Pending(v))' <=> Pending(v)
      BY <1>1, <2>1, <2>6, TaskFacts DEF Entering, Pending
    <3>2. ASSUME NEW v \in Urbs PROVE InOne(v)'
      BY <1>1, <1>2, <2>1, <2>3, <3>1
    <3> QED BY <1>1, <1>2, <2>1, <2>2, <2>4, <2>6, <3>2
  <2> QED BY <2>5, <2>6, TaskFacts
<1>9. ASSUME NEW t \in Tasks, Send(t) PROVE PlaceInv'
  <2>1. PICK u \in Urbs : \/ SendSkip(t, u) \/ SendUrb(t, u) \/ SendAgain(t, u)
                          \/ SendBusy(t, u) \/ SendImmediate(t, u)
    BY <1>9 DEF Send
  <2>2. linked' = linked /\ tmp' = tmp /\ pc' = pc /\ finishList' = finishList
    BY <1>9, SendFrame
  <2>3. CASE SendImmediate(t, u)
    <3>1. /\ NextToSend(t, u) /\ pendingList' = RemoveFirst(pendingList, u)
          /\ releaseList' = Append(releaseList, u)
      BY <2>3 DEF SendImmediate
    <3>2. Pending(u) /\ ~Releasing(u) /\ ~Entering(u) /\ ~Finishing(u) /\ ~Leaving(u)
      BY <1>1, <3>1, NextIsPending DEF PlaceInv
    <3>3. ASSUME NEW v \in Urbs
          PROVE  /\ (Entering(v))' <=> Entering(v)
                 /\ (Pending(v))' <=> Pending(v) /\ v # u
                 /\ (Finishing(v))' <=> Finishing(v)
                 /\ (Releasing(v))' <=> Releasing(v) \/ v = u
                 /\ (Leaving(v))' <=> Leaving(v)
                 /\ \A s \in Tasks : (LeavingBy(s, v))' <=> LeavingBy(s, v)
      BY <2>2, <3>1, <3>2, PendingRemoved, ReleaseAppended
         DEF Entering, Pending, Finishing, Releasing, Leaving, LeavingBy
    <3>4. ASSUME NEW v \in Urbs PROVE InOne(v)'
      BY <1>1, <1>2, <2>2, <3>2, <3>3
    <3>5. Injective' /\ Spliced'
      BY <1>1, <1>2, <2>2, <3>1, <3>2, PendingRemoved, ReleaseAppended
    <3> QED BY <1>2, <3>4, <3>5
  <2>4. CASE ~SendImmediate(t, u)
    <3>1. pendingList' = pendingList /\ releaseList' = releaseList
      BY <2>1, <2>4 DEF SendSkip, SendUrb, SendAgain, SendBusy, listVars
    <3> QED BY <1>1, <2>2, <3>1, PlaceSame DEF Entering
  <2> QED BY <2>3, <2>4
<1>10. ASSUME NEW t \in Tasks, ProcessEnd(t) PROVE PlaceInv'
  <2>1. /\ pc[t] = "send" /\ linked' = linked
        /\ pendingList' = pendingList /\ finishList' = finishList
    BY <1>10 DEF ProcessEnd, coreVars
  <2>2. CASE releaseList = << >>
    <3>1. pc' = [pc EXCEPT ![t] = "idle"] /\ tmp' = tmp /\ releaseList' = releaseList
      BY <1>10, <2>2 DEF ProcessEnd
    <3> QED BY <1>1, <2>1, <3>1, PlaceSame DEF Entering
  <2>3. CASE releaseList # << >>
    <3>1. /\ pc' = [pc EXCEPT ![t] = "release"] /\ tmp' = [tmp EXCEPT ![t] = releaseList]
          /\ releaseList' = << >>
      BY <1>10, <2>3 DEF ProcessEnd
    <3>2. tmp[t] = << >>
      BY <1>1, <2>1 DEF PlaceInv
    <3>3. ASSUME NEW v \in Urbs
          PROVE  /\ (Entering(v))' <=> Entering(v)
                 /\ (Pending(v))' <=> Pending(v)
                 /\ (Finishing(v))' <=> Finishing(v)
                 /\ ~(Releasing(v))'
                 /\ ~LeavingBy(t, v)
                 /\ (LeavingBy(t, v))' <=> Releasing(v)
                 /\ \A s \in Tasks : s # t => ((LeavingBy(s, v))' <=> LeavingBy(s, v))
      BY <1>1, <2>1, <3>1, <3>2, EmptyList DEF Entering, Pending, Finishing, Releasing, LeavingBy
    <3>4. ASSUME NEW v \in Urbs PROVE (Leaving(v))' <=> Leaving(v) \/ Releasing(v)
      BY <3>3 DEF Leaving
    <3>5. ASSUME NEW v \in Urbs PROVE InOne(v)'
      <4>1. \A s \in Tasks : LeavingBy(s, v) => Leaving(v)
        BY DEF Leaving
      <4> QED BY <1>1, <1>2, <2>1, <3>3, <3>4, <4>1
    <3>6. Injective' /\ Spliced'
      BY <1>1, <1>2, <2>1, <3>1, EmptyList
    <3> QED BY <1>2, <3>5, <3>6
  <2> QED BY <2>2, <2>3
<1>11. ASSUME NEW t \in Tasks, ProcessRelease(t) PROVE PlaceInv'
  <2>1. /\ pc' = [pc EXCEPT ![t] = "idle"] /\ pc[t] = "release"
        /\ linked' = linked \ ToSet(tmp[t]) /\ tmp' = [tmp EXCEPT ![t] = << >>]
        /\ pendingList' = pendingList /\ finishList' = finishList /\ releaseList' = releaseList
    BY <1>11 DEF ProcessRelease, ReleaseUrbs
  <2>2. ASSUME NEW v \in Urbs
        PROVE  /\ (Entering(v))' <=> Entering(v)
               /\ (Pending(v))' <=> Pending(v)
               /\ (Finishing(v))' <=> Finishing(v)
               /\ (Releasing(v))' <=> Releasing(v)
               /\ ~(LeavingBy(t, v))'
               /\ \A s \in Tasks : s # t => ((LeavingBy(s, v))' <=> LeavingBy(s, v))
               /\ v \in linked' <=> v \in linked /\ ~LeavingBy(t, v)
    BY <1>1, <2>1, EmptyList DEF Entering, Pending, Finishing, Releasing, LeavingBy
  <2>3. ASSUME NEW v \in Urbs
        PROVE  (Leaving(v))' <=> \E s \in Tasks : s # t /\ LeavingBy(s, v)
    BY <2>2 DEF Leaving
  <2>4. ASSUME NEW v \in Urbs PROVE InOne(v)'
    <3>1. Leaving(v) <=> (\E s \in Tasks : s # t /\ LeavingBy(s, v)) \/ LeavingBy(t, v)
      BY DEF Leaving
    <3> QED BY <1>1, <1>2, <2>2, <2>3, <3>1
  <2>5. Injective' /\ Spliced'
    BY <1>1, <1>2, <2>1
  <2> QED BY <1>2, <2>4, <2>5
<1>12. CASE IrqConsume
  <2>1. linked' = linked /\ tmp' = tmp /\ pc' = pc /\ releaseList' = releaseList
    BY <1>12, IrqFrame DEF Interrupt
  <2> DEFINE i == Head(toFront)
             u == shadow[i].urb
  <2>2. CASE shadow[i].use \in Commands
    <3>1. pendingList' = pendingList /\ finishList' = finishList
      BY <1>12, <2>2 DEF IrqConsume, listVars
    <3> QED BY <1>1, <2>1, <3>1, PlaceSame DEF Entering
  <2>3. CASE shadow[i].use \notin Commands
    <3>1. /\ ipc = "consume" /\ toFront # << >>
          /\ pendingList' = RemoveFirst(pendingList, u) /\ finishList' = Append(finishList, u)
      BY <1>12, <2>3 DEF IrqConsume
    <3>2. /\ u \in Urbs /\ Pending(u) /\ ~Finishing(u)
      BY <2>3, <3>1, ResponseOfPending, ConsumingBeforeGone
    <3> HIDE DEF u
    <3>3. ~Releasing(u) /\ ~Entering(u) /\ ~Leaving(u)
      BY <1>1, <3>2 DEF PlaceInv
    <3>4. ASSUME NEW v \in Urbs
          PROVE  /\ (Entering(v))' <=> Entering(v)
                 /\ (Pending(v))' <=> Pending(v) /\ v # u
                 /\ (Finishing(v))' <=> Finishing(v) \/ v = u
                 /\ (Releasing(v))' <=> Releasing(v)
                 /\ (Leaving(v))' <=> Leaving(v)
                 /\ \A s \in Tasks : (LeavingBy(s, v))' <=> LeavingBy(s, v)
      BY <2>1, <3>1, <3>2, PendingRemoved, FinishAppended
         DEF Entering, Pending, Finishing, Releasing, Leaving, LeavingBy
    <3>5. ASSUME NEW v \in Urbs PROVE InOne(v)'
      BY <1>1, <1>2, <2>1, <3>2, <3>3, <3>4
    <3>6. Injective' /\ Spliced'
      BY <1>1, <1>2, <2>1, <3>1, <3>2, PendingRemoved, FinishAppended
    <3> QED BY <1>2, <3>5, <3>6
  <2> QED BY <2>2, <2>3
<1>13. CASE Interrupt /\ ~IrqConsume
  <2>1. /\ linked' = linked /\ tmp' = tmp /\ pc' = pc /\ releaseList' = releaseList
    BY <1>13, IrqFrame
  <2>2. pendingList' = pendingList /\ finishList' = finishList
    BY <1>13 DEF Interrupt, IrqEnter, IrqGate, IrqExit, listVars
  <2> QED BY <1>1, <2>1, <2>2, PlaceSame DEF Entering
<1>14. CASE PortReset \/ PortWork \/ Behind
  BY <1>1, <1>14, PortFrame, BackFrame, PlaceSame DEF Entering
<1>15. CASE Xenwatch /\ ~DestroyFinish /\ ~DestroyRelease
  <2>1. /\ linked' = linked /\ pendingList' = pendingList /\ finishList' = finishList
        /\ releaseList' = releaseList
    BY <1>15 DEF Xenwatch, StartDevice, DestroyBegin, Destroy, HaltRflush, HaltWait,
                 DestroyStop, DestroyFree, DestroyUnbind, coreVars, listVars
  <2> QED BY <1>1, <1>15, <2>1, XenFrame, PlaceSame DEF Entering
<1>16. CASE DestroyFinish
  <2>1. linked' = linked /\ pendingList' = pendingList
    BY <1>16 DEF DestroyFinish, coreVars
  <2>2. tmp' = tmp /\ pc' = pc
    BY <1>16, XenFrame DEF Xenwatch, Destroy
  <2>3. PICK u \in Urbs : u = Head(finishList) /\ Finishing(u)
    BY <1>16, FinishOneMoves
  <2>4. ASSUME NEW v \in Urbs
        PROVE  /\ (Entering(v))' <=> Entering(v)
               /\ (Pending(v))' <=> Pending(v)
               /\ (Finishing(v))' <=> Finishing(v) /\ v # u
               /\ (Releasing(v))' <=> Releasing(v) \/ v = u
               /\ (Leaving(v))' <=> Leaving(v)
               /\ \A s \in Tasks : (LeavingBy(s, v))' <=> LeavingBy(s, v)
    BY <1>16, <2>1, <2>2, <2>3, FinishOneMoves
       DEF Entering, Pending, Finishing, Releasing, Leaving, LeavingBy
  <2>5. ASSUME NEW v \in Urbs PROVE InOne(v)'
    BY <1>1, <1>2, <2>1, <2>3, <2>4
  <2>6. Injective' /\ Spliced'
    BY <1>1, <1>2, <1>16, <2>1, <2>2, FinishOneMoves
  <2> QED BY <1>2, <2>5, <2>6
<1>17. CASE DestroyRelease
  <2>1. /\ linked' = linked \ (ToSet(releaseList) \cup ToSet(pendingList))
        /\ releaseList' = << >> /\ pendingList' = << >> /\ finishList' = finishList
    BY <1>17 DEF DestroyRelease, ReleaseUrbs
  <2>2. tmp' = tmp /\ pc' = pc
    BY <1>17, XenFrame DEF Xenwatch, Destroy
  <2>3. ASSUME NEW v \in Urbs
        PROVE  /\ (Entering(v))' <=> Entering(v)
               /\ ~(Pending(v))' /\ ~(Releasing(v))'
               /\ (Finishing(v))' <=> Finishing(v)
               /\ (Leaving(v))' <=> Leaving(v)
               /\ \A s \in Tasks : (LeavingBy(s, v))' <=> LeavingBy(s, v)
               /\ v \in linked' <=> v \in linked /\ ~Pending(v) /\ ~Releasing(v)
    BY <2>1, <2>2, EmptyList DEF Entering, Pending, Finishing, Releasing, Leaving, LeavingBy
  <2>4. ASSUME NEW v \in Urbs PROVE InOne(v)'
    BY <1>1, <1>2, <2>3
  <2>5. Injective' /\ Spliced'
    BY <1>1, <1>2, <2>1, <2>2, EmptyList
  <2> QED BY <1>2, <2>4, <2>5
<1> QED BY <1>3, <1>4, <1>5, <1>6, <1>7, <1>8, <1>9, <1>10, <1>11, <1>12, <1>13, <1>14,
           <1>15, <1>16, <1>17, Steps DEF Xenwatch, Destroy

\* Unless a task sends, there is nothing left to send.
LEMMA NothingToSend ==
    ASSUME FrontInv, lock \notin Tasks
    PROVE  sendQueue = << >>
BY DEF FrontInv, LockInv

\* The send loop keeps to what is pending.
LEMMA SendStep ==
    ASSUME FrontInv, Next
    PROVE  SendInv' /\ sendQueue' \in Seq(Urbs)
<1>1. /\ SendInv /\ LockInv /\ TeardownInv /\ PlaceInv /\ PlaceInv'
      /\ sendQueue \in Seq(Urbs) /\ pendingList \in Seq(Urbs)
  BY PlaceStep DEF FrontInv, TypeOK, TaskTypes, ListTypes
<1>2. CASE sendQueue' = sendQueue /\ pendingList' = pendingList
  BY <1>1, <1>2 DEF SendInv
<1>3. CASE sendQueue' = sendQueue /\ sendQueue = << >>
  BY <1>3, EmptyList DEF SendInv
<1>4. ASSUME NEW u \in Urbs, EnqueueLink(u) \/ DequeueStart(u) PROVE SendInv' /\ sendQueue' \in Seq(Urbs)
  BY <1>1, <1>2, <1>4 DEF EnqueueLink, DequeueStart, listVars
<1>5. ASSUME NEW u \in Urbs, DequeueFind(u) PROVE SendInv' /\ sendQueue' \in Seq(Urbs)
  BY <1>1, <1>3, <1>5, NothingToSend, TaskFacts DEF DequeueFind
<1>6. CASE WorkRun \/ GrantAvailable
  BY <1>1, <1>2, <1>6 DEF WorkRun, GrantAvailable, listVars, taskVars
<1>7. ASSUME NEW t \in Tasks, ProcessBegin(t) PROVE SendInv' /\ sendQueue' \in Seq(Urbs)
  <2>1. /\ sendQueue' = pendingList'
        /\ pendingList' = IF t[1] = "enqueue" THEN Append(pendingList, t[2]) ELSE pendingList
    BY <1>7 DEF ProcessBegin
  <2>2. t[1] = "enqueue" => t[2] \in Urbs
    BY TaskFacts
  <2>3. pendingList' \in Seq(Urbs)
    BY <1>1, <2>1, <2>2
  <2> QED BY <1>1, <2>1, <2>3 DEF SendInv, PlaceInv
<1>8. ASSUME NEW t \in Tasks, Send(t) PROVE SendInv' /\ sendQueue' \in Seq(Urbs)
  <2>1. PICK u \in Urbs : \/ SendSkip(t, u) \/ SendUrb(t, u) \/ SendAgain(t, u)
                          \/ SendBusy(t, u) \/ SendImmediate(t, u)
    BY <1>8 DEF Send
  <2>2. NextToSend(t, u)
    BY <2>1 DEF SendSkip, SendUrb, SendAgain, SendBusy, SendImmediate
  <2>3. pendingList' = pendingList \/ pendingList' = RemoveFirst(pendingList, u)
    BY <2>1 DEF SendSkip, SendUrb, SendAgain, SendBusy, SendImmediate, listVars
  <2>4. ToSet(pendingList) \ {u} \subseteq ToSet(pendingList')
    BY <2>2, <2>3, NextIsPending, PendingRemoved
  <2> QED BY <2>2, <2>4, NextIsPending DEF SendInv
<1>9. ASSUME NEW t \in Tasks, ProcessEnd(t) \/ ProcessRelease(t) PROVE SendInv' /\ sendQueue' \in Seq(Urbs)
  BY <1>1, <1>2, <1>9 DEF ProcessEnd, ProcessRelease
<1>10. CASE Interrupt
  <2>1. sendQueue' = sendQueue
    BY <1>10, IrqFrame
  <2>2. CASE IrqConsume
    <3>1. lock = Irq
      BY <1>1, <2>2 DEF IrqConsume, LockInv
    <3> QED BY <1>3, <2>1, <3>1, NothingToSend, TaskFacts
  <2>3. CASE ~IrqConsume
    BY <1>2, <1>10, <2>1, <2>3 DEF Interrupt, IrqEnter, IrqGate, IrqExit, listVars
  <2> QED BY <2>2, <2>3
<1>11. CASE PortReset \/ PortWork \/ Behind
  BY <1>2, <1>11, PortFrame, BackFrame
<1>12. CASE Xenwatch
  <2>1. sendQueue' = sendQueue
    BY <1>12, XenFrame
  <2>2. CASE DestroyRelease
    <3>1. Busy = {}
      BY <1>1, <2>2 DEF DestroyRelease, TeardownInv, Walking
    <3>2. lock \notin Tasks
      BY <1>1, <3>1 DEF LockInv, Busy
    <3> QED BY <1>3, <2>1, <3>2, NothingToSend
  <2>3. CASE ~DestroyRelease
    BY <1>2, <1>12, <2>1, <2>3 DEF Xenwatch, StartDevice, DestroyBegin, Destroy, HaltRflush,
       HaltWait, DestroyStop, DestroyFinish, DestroyFree, DestroyUnbind, listVars
  <2> QED BY <2>2, <2>3
<1> QED BY <1>4, <1>5, <1>6, <1>7, <1>8, <1>9, <1>10, <1>11, <1>12, Steps

\* What a state of an URB says of the place it is in.
LEMMA StateStep ==
    ASSUME FrontInv, Next
    PROVE  StateInv'
<1>1. /\ StateInv /\ CallInv /\ PlaceInv /\ PlaceInv'
      /\ pc \in [Tasks -> {"idle", "find", "process", "send", "release"}]
      /\ state \in [Urbs -> {"NEW", "SENT", "DONE", "CANCEL", "freed"}]
      /\ pendingList \in Seq(Urbs)
  BY PlaceStep DEF FrontInv, TypeOK, TaskTypes, ListTypes
<1> DEFINE Stated(v) ==
         /\ v \notin linked \cup given \/ Entering(v) => state[v] = "NEW"
         /\ Pending(v) => state[v] \in {"NEW", "SENT", "CANCEL"}
         /\ pc[Dequeuer(v)] = "find" \/ v \in linked \ unlinked => state[v] # "CANCEL"
       Same(v) ==
         /\ state'[v] = state[v] /\ (v \notin (linked \cup given)' => v \notin linked \cup given)
         /\ (Entering(v))' => Entering(v) \/ v \notin linked \cup given
         /\ (Pending(v))' => Pending(v) \/ Entering(v)
         /\ pc'[Dequeuer(v)] = "find" =>
                pc[Dequeuer(v)] = "find" \/ v \in linked \ unlinked \/ v \notin linked \cup given
         /\ v \in (linked \ unlinked)' => v \in linked \ unlinked \/ v \notin linked \cup given
<1>2. /\ StateInv <=> \A v \in Urbs : Stated(v)
      /\ StateInv' <=> \A v \in Urbs : Stated(v)'
  BY DEF StateInv
<1>3. ASSUME NEW v \in Urbs, Same(v) PROVE Stated(v)'
  BY <1>1, <1>2, <1>3
<1> HIDE DEF Same
<1>4. ASSUME NEW u \in Urbs, EnqueueLink(u), NEW v \in Urbs PROVE Stated(v)'
  <2>1. /\ pc' = [pc EXCEPT ![Enqueuer(u)] = "process"] /\ u \notin linked \cup given
        /\ linked' = linked \cup {u} /\ unlinked' = unlinked /\ given' = given
        /\ state' = state /\ pendingList' = pendingList
    BY <1>4 DEF EnqueueLink, listVars
  <2>2. /\ Enqueuer(v) \in Tasks /\ Dequeuer(v) \in Tasks /\ Enqueuer(u) # Dequeuer(v)
        /\ v # u => Enqueuer(v) # Enqueuer(u)
    BY TaskFacts
  <2>3. /\ pc'[Dequeuer(v)] = pc[Dequeuer(v)]
        /\ v # u => pc'[Enqueuer(v)] = pc[Enqueuer(v)]
    BY <1>1, <2>1, <2>2
  <2>4. Same(v)
    BY <2>1, <2>3 DEF Same, Entering, Pending
  <2> QED BY <1>3, <2>4
<1>5. ASSUME NEW u \in Urbs, DequeueStart(u), NEW v \in Urbs PROVE Stated(v)'
  <2>1. /\ pc' \in {pc, [pc EXCEPT ![Dequeuer(u)] = "find"]} /\ u \in linked \ unlinked
        /\ linked' = linked /\ unlinked' = unlinked \cup {u} /\ given' = given
        /\ state' = state /\ pendingList' = pendingList
    BY <1>5 DEF DequeueStart, listVars
  <2>2. /\ Enqueuer(v) \in Tasks /\ Dequeuer(v) \in Tasks /\ Dequeuer(u) # Enqueuer(v)
        /\ v # u => Dequeuer(v) # Dequeuer(u)
    BY TaskFacts
  <2>3. /\ pc'[Enqueuer(v)] = pc[Enqueuer(v)]
        /\ v # u => pc'[Dequeuer(v)] = pc[Dequeuer(v)]
    BY <1>1, <2>1, <2>2
  <2>4. Same(v)
    BY <2>1, <2>3 DEF Same, Entering, Pending
  <2> QED BY <1>3, <2>4
<1>6. ASSUME NEW u \in Urbs, DequeueFind(u), NEW v \in Urbs PROVE Stated(v)'
  <2>1. /\ pc' = [pc EXCEPT ![Dequeuer(u)] = "process"] /\ pc[Dequeuer(u)] = "find"
        /\ linked' = linked /\ unlinked' = unlinked /\ given' = given
    BY <1>6 DEF DequeueFind, coreVars
  <2>2. /\ Enqueuer(v) \in Tasks /\ Dequeuer(v) \in Tasks /\ Dequeuer(u) # Enqueuer(v)
        /\ Dequeuer(u) \in Tasks
        /\ v # u => Dequeuer(v) # Dequeuer(u)
    BY TaskFacts
  <2>3. /\ pc'[Enqueuer(v)] = pc[Enqueuer(v)] /\ pc'[Dequeuer(u)] = "process"
        /\ v # u => pc'[Dequeuer(v)] = pc[Dequeuer(v)]
    BY <1>1, <2>1, <2>2
  <2>4. (Pending(v))' => Pending(v)
    <3>1. \/ Pending(u) /\ pendingList' = RemoveFirst(pendingList, u)
          \/ pendingList' = pendingList
      BY <1>6 DEF DequeueFind, Pending, listVars
    <3> QED BY <3>1, PendingRemoved DEF Pending
  <2>5. CASE state' = state
    <3>1. Same(v)
      BY <2>1, <2>3, <2>4, <2>5 DEF Same, Entering
    <3> QED BY <1>3, <3>1
  <2>6. CASE Pending(u) /\ state' = [state EXCEPT ![u] = "CANCEL"]
    <3>1. CASE v # u
      <4>1. Same(v)
        BY <1>1, <2>1, <2>3, <2>4, <2>6, <3>1 DEF Same, Entering
      <4> QED BY <1>3, <4>1
    <3>2. CASE v = u
      <4>1. u \in linked /\ ~Entering(u) /\ u \in unlinked
        BY <1>1, <2>1, <2>6 DEF PlaceInv, CallInv
      <4>2. state'[u] = "CANCEL"
        BY <1>1, <2>6
      <4> QED BY <2>1, <2>3, <3>2, <4>1, <4>2 DEF Entering
    <3> QED BY <3>1, <3>2
  <2> QED BY <1>6, <2>5, <2>6 DEF DequeueFind, Pending, listVars
<1>7. ASSUME WorkRun, NEW v \in Urbs PROVE Stated(v)'
  <2>1. /\ pc' \in {pc, [pc EXCEPT ![Worker] = "process"]}
        /\ linked' = linked /\ unlinked' = unlinked /\ given' = given
        /\ state' = state /\ pendingList' = pendingList
    BY <1>7 DEF WorkRun, coreVars, listVars
  <2>2. /\ Enqueuer(v) \in Tasks /\ Dequeuer(v) \in Tasks
        /\ Enqueuer(v) # Worker /\ Dequeuer(v) # Worker
    BY TaskFacts
  <2>3. pc'[Enqueuer(v)] = pc[Enqueuer(v)] /\ pc'[Dequeuer(v)] = pc[Dequeuer(v)]
    BY <1>1, <2>1, <2>2
  <2>4. Same(v)
    BY <2>1, <2>3 DEF Same, Entering, Pending
  <2> QED BY <1>3, <2>4
<1>8. ASSUME GrantAvailable, NEW v \in Urbs PROVE Stated(v)'
  <2>1. Same(v)
    BY <1>8 DEF GrantAvailable, Same, Entering, Pending, taskVars, listVars, coreVars
  <2> QED BY <1>3, <2>1
<1>9. ASSUME NEW t \in Tasks, ProcessBegin(t), NEW v \in Urbs PROVE Stated(v)'
  <2>1. /\ pc' = [pc EXCEPT ![t] = "send"] /\ pc[t] = "process" /\ FinishAll
        /\ linked' = linked /\ unlinked' = unlinked /\ given' = given
        /\ pendingList' = IF t[1] = "enqueue" THEN Append(pendingList, t[2]) ELSE pendingList
    BY <1>9 DEF ProcessBegin, coreVars
  <2>2. Enqueuer(v) \in Tasks /\ Dequeuer(v) \in Tasks
    BY TaskFacts
  <2>3. /\ (Entering(v))' => Entering(v)
        /\ pc'[Dequeuer(v)] = "find" => pc[Dequeuer(v)] = "find"
    BY <1>1, <2>1, <2>2 DEF Entering
  <2>4. (Pending(v))' => Pending(v) \/ Entering(v)
    <3>1. t[1] = "enqueue" => t[2] \in Urbs /\ t = Enqueuer(t[2])
      BY TaskFacts
    <3>2. CASE t[1] = "enqueue"
      BY <1>1, <2>1, <3>1, <3>2, AppendSet DEF Pending, Entering
    <3> QED BY <2>1, <3>2 DEF Pending
  <2>5. state' = [u \in Urbs |-> IF u \in ToSet(finishList) THEN "DONE" ELSE state[u]]
    BY <2>1 DEF FinishAll
  <2>6. CASE Finishing(v)
    <3>1. v \in linked /\ ~Entering(v) /\ ~Pending(v) /\ state'[v] = "DONE"
      BY <1>1, <2>5, <2>6 DEF PlaceInv, Finishing
    <3> QED BY <2>1, <2>3, <2>4, <3>1
  <2>7. CASE ~Finishing(v)
    <3>1. state'[v] = state[v]
      BY <2>5, <2>7 DEF Finishing
    <3>2. Same(v)
      BY <2>1, <2>3, <2>4, <3>1 DEF Same
    <3> QED BY <1>3, <3>2
  <2> QED BY <2>6, <2>7
<1>10. ASSUME NEW t \in Tasks, Send(t), NEW v \in Urbs PROVE Stated(v)'
  <2>1. PICK u \in Urbs : \/ SendSkip(t, u) \/ SendUrb(t, u) \/ SendAgain(t, u)
                          \/ SendBusy(t, u) \/ SendImmediate(t, u)
    BY <1>10 DEF Send
  <2>2. linked' = linked /\ unlinked' = unlinked /\ given' = given /\ pc' = pc
    BY <1>10, SendFrame
  <2>3. NextToSend(t, u) /\ Pending(u)
    BY <2>1, NextIsPending DEF SendSkip, SendUrb, SendAgain, SendBusy, SendImmediate
  <2>4. u \in linked /\ ~Entering(u)
    BY <1>1, <2>3 DEF PlaceInv
  <2>5. (Pending(v))' => Pending(v)
    <3>1. pendingList' = pendingList \/ pendingList' = RemoveFirst(pendingList, u)
      BY <2>1 DEF SendSkip, SendUrb, SendAgain, SendBusy, SendImmediate, listVars
    <3> QED BY <2>3, <3>1, PendingRemoved DEF Pending
  <2>6. CASE state'[v] = state[v]
    <3>1. Same(v)
      BY <2>2, <2>5, <2>6 DEF Same, Entering
    <3> QED BY <1>3, <3>1
  <2>7. CASE SendUrb(t, u) /\ v = u
    <3>1. state'[v] = "SENT"
      BY <1>1, <2>7 DEF SendUrb
    <3> QED BY <2>2, <2>4, <2>7, <3>1 DEF Entering
  <2>8. CASE SendImmediate(t, u) /\ v = u
    <3>1. state'[v] = "DONE" /\ ~(Pending(v))'
      BY <1>1, <2>3, <2>8, PendingRemoved DEF SendImmediate, Pending
    <3> QED BY <2>2, <2>4, <2>8, <3>1 DEF Entering
  <2> QED BY <1>1, <2>1, <2>6, <2>7, <2>8 DEF SendSkip, SendUrb, SendAgain, SendBusy,
             SendImmediate, listVars
<1>11. ASSUME NEW t \in Tasks, ProcessEnd(t), NEW v \in Urbs PROVE Stated(v)'
  <2>1. /\ \E l \in {"release", "idle"} : pc' = [pc EXCEPT ![t] = l]
        /\ linked' = linked /\ unlinked' = unlinked /\ given' = given
        /\ state' = state /\ pendingList' = pendingList
    BY <1>11 DEF ProcessEnd, coreVars
  <2>2. Enqueuer(v) \in Tasks /\ Dequeuer(v) \in Tasks
    BY TaskFacts
  <2>3. /\ (Entering(v))' => Entering(v)
        /\ pc'[Dequeuer(v)] = "find" => pc[Dequeuer(v)] = "find"
    BY <1>1, <2>1, <2>2 DEF Entering
  <2>4. Same(v)
    BY <2>1, <2>3 DEF Same, Pending
  <2> QED BY <1>3, <2>4
<1>12. ASSUME NEW t \in Tasks, ProcessRelease(t), NEW v \in Urbs PROVE Stated(v)'
  <2>1. /\ pc' = [pc EXCEPT ![t] = "idle"] /\ ReleaseUrbs(ToSet(tmp[t]))
        /\ pendingList' = pendingList
    BY <1>12 DEF ProcessRelease
  <2>2. Enqueuer(v) \in Tasks /\ Dequeuer(v) \in Tasks
    BY TaskFacts
  <2>3. /\ (Entering(v))' => Entering(v)
        /\ pc'[Dequeuer(v)] = "find" => pc[Dequeuer(v)] = "find"
    BY <1>1, <2>1, <2>2 DEF Entering
  <2>4. CASE v \in ToSet(tmp[t])
    <3>1. Leaving(v)
      BY <2>4 DEF Leaving, LeavingBy
    <3>2. v \in linked /\ ~Entering(v) /\ ~Pending(v)
      BY <1>1, <3>1 DEF PlaceInv
    <3>3. state'[v] = "freed" /\ v \in given'
      BY <2>1, <2>4 DEF ReleaseUrbs
    <3> QED BY <2>1, <2>3, <3>2, <3>3 DEF Pending
  <2>5. CASE v \notin ToSet(tmp[t])
    <3>1. Same(v)
      BY <2>1, <2>3, <2>5 DEF Same, Pending, ReleaseUrbs
    <3> QED BY <1>3, <3>1
  <2> QED BY <2>4, <2>5
<1>13. ASSUME Interrupt, NEW v \in Urbs PROVE Stated(v)'
  <2>1. (Pending(v))' => Pending(v)
    <3>1. CASE IrqConsume
      <4>1. \/ pendingList' = pendingList
            \/ /\ shadow[Head(toFront)].use \notin Commands /\ toFront # << >> /\ ipc = "consume"
               /\ pendingList' = RemoveFirst(pendingList, shadow[Head(toFront)].urb)
        BY <3>1 DEF IrqConsume, listVars
      <4> QED BY <4>1, ResponseOfPending, ConsumingBeforeGone, PendingRemoved DEF Pending
    <3>2. CASE ~IrqConsume
      BY <1>13, <3>2 DEF Interrupt, IrqEnter, IrqGate, IrqExit, listVars, Pending
    <3> QED BY <3>1, <3>2
  <2>2. Same(v)
    BY <1>13, <2>1, IrqFrame DEF Same, Entering
  <2> QED BY <1>3, <2>2
<1>14. ASSUME PortReset \/ PortWork \/ Behind, NEW v \in Urbs PROVE Stated(v)'
  <2>1. Same(v)
    BY <1>14, PortFrame, BackFrame DEF Same, Entering, Pending
  <2> QED BY <1>3, <2>1
<1>15. ASSUME Xenwatch, NEW v \in Urbs PROVE Stated(v)'
  <2>1. pc' = pc
    BY <1>15, XenFrame
  <2>2. CASE DestroyFinish
    <3>1. /\ linked' = linked /\ unlinked' = unlinked /\ given' = given
          /\ pendingList' = pendingList
          /\ state' = [state EXCEPT ![Head(finishList)] = "DONE"]
      BY <2>2 DEF DestroyFinish, coreVars
    <3>4. PICK u \in Urbs : u = Head(finishList) /\ Finishing(u)
      BY <2>2, FinishOneMoves
    <3>5. state \in [Urbs -> {"NEW", "SENT", "DONE", "CANCEL", "freed"}]
      BY DEF FrontInv, TypeOK, ListTypes
    <3>2. CASE v = u
      <4>1. v \in linked /\ ~Entering(v) /\ ~Pending(v) /\ state'[v] = "DONE"
        BY <1>1, <3>1, <3>2, <3>4, <3>5 DEF PlaceInv
      <4> QED BY <2>1, <3>1, <4>1 DEF Entering, Pending
    <3>3. CASE v # u
      <4>1. Same(v)
        BY <2>1, <3>1, <3>3, <3>4, <3>5 DEF Same, Entering, Pending
      <4> QED BY <1>3, <4>1
    <3> QED BY <3>2, <3>3
  <2>3. CASE DestroyRelease
    <3> DEFINE S == ToSet(releaseList) \cup ToSet(pendingList)
    <3>1. /\ linked' = linked \ S /\ unlinked' = unlinked \ S /\ given' = given \cup S
          /\ state' = [u \in Urbs |-> IF u \in S THEN "freed" ELSE state[u]]
          /\ pendingList' = << >>
      BY <2>3 DEF DestroyRelease, ReleaseUrbs
    <3>2. ~(Pending(v))'
      BY <3>1, EmptyList DEF Pending
    <3>3. CASE v \in S
      <4>1. ~Entering(v)
        BY <1>1, <3>3 DEF PlaceInv, Pending, Releasing
      <4> QED BY <2>1, <3>1, <3>2, <3>3, <4>1 DEF Entering
    <3>4. CASE v \notin S
      <4>1. Same(v)
        BY <2>1, <3>1, <3>2, <3>4 DEF Same, Entering
      <4> QED BY <1>3, <4>1
    <3> QED BY <3>3, <3>4
  <2>4. CASE ~DestroyRelease /\ ~DestroyFinish
    <3>1. Same(v)
      BY <1>15, <2>1, <2>4 DEF Xenwatch, StartDevice, DestroyBegin, Destroy, HaltRflush,
         HaltWait, DestroyStop, DestroyFree, DestroyUnbind, listVars, coreVars, Same, Entering, Pending
    <3> QED BY <1>3, <3>1
  <2> QED BY <2>2, <2>3, <2>4
<1> QED BY <1>2, <1>4, <1>5, <1>6, <1>7, <1>8, <1>9, <1>10, <1>11, <1>12, <1>13, <1>14,
           <1>15, Steps

-----------------------------------------------------------------------------
(* What a step does to the shadows and the requests in flight *)

\* The device is still there.
Up == xpc # "gone" /\ xpc' # "gone"

QueuesSame == UNCHANGED <<toBack, atDevice, completing, toFront>>

\* No URB gains or loses a shadow, or is finished with it.
SentSame == \A u \in Urbs :
    /\ (Sent(u))' <=> Sent(u)
    /\ (Finishing(u))' <=> Finishing(u)
    /\ Sent(u) => reqId'[u] = reqId[u]

\* Nothing happens to a shadow or a request.
Quiet ==
    /\ xpc' = "gone" <=> xpc = "gone"
    /\ QueuesSame /\ SentSame /\ freeList' = freeList /\ shadow' = shadow

\* An internal request is put on the ring; one to cancel names the id of a sent
\* URB.
PutsInternal(c, j, v) ==
    /\ Up /\ InternalHasRoom /\ SentSame
    /\ PutInternalRequest(c, j, v)
    /\ UNCHANGED <<atDevice, completing, toFront>>
    /\ c = "cancel" => Sent(v) /\ ~Finishing(v) /\ reqId[v] = j

\* An URB is sent.
PutsUrb(u) ==
    /\ Up /\ InternalHasRoom /\ GetShadow("urb", u)
    /\ toBack' = Append(toBack,
         [id |-> TopShadow, type |-> "urb", cancelId |-> NoShadow, urb |-> u])
    /\ UNCHANGED <<atDevice, completing, toFront>>
    /\ ~Sent(u) /\ (Sent(u))' /\ reqId'[u] = TopShadow
    /\ \A v \in Urbs :
         /\ v # u => ((Sent(v))' <=> Sent(v)) /\ reqId'[v] = reqId[v]
         /\ (Finishing(v))' <=> Finishing(v)

\* The response to an internal request is consumed.
ConsumesInternal(i) ==
    /\ Up /\ SentSame /\ toFront # << >> /\ i = Head(toFront)
    /\ i \in Shadows /\ shadow[i].use \in Commands
    /\ shadow' = [shadow EXCEPT ![i] = FreeShadow] /\ freeList' = Append(freeList, i)
    /\ toFront' = Tail(toFront)
    /\ UNCHANGED <<toBack, atDevice, completing>>

\* The response to an URB is consumed.
ConsumesUrb(i, u) ==
    /\ Up /\ toFront # << >> /\ i = Head(toFront) /\ toFront' = Tail(toFront)
    /\ i \in Shadows /\ shadow[i].use = "urb" /\ shadow[i].urb = u
    /\ ~Finishing(u) /\ (Finishing(u))' /\ reqId' = reqId
    /\ \A v \in Urbs : /\ (Sent(v))' <=> Sent(v)
                       /\ v # u => ((Finishing(v))' <=> Finishing(v))
    /\ UNCHANGED <<freeList, shadow, toBack, atDevice, completing>>

\* The URBs on the finish list are finished.
Finishes ==
    /\ Up /\ FinishAll /\ QueuesSame /\ reqId' = reqId
    /\ \A u \in Urbs : ~(Finishing(u))' /\ ((Sent(u))' <=> Sent(u) /\ ~Finishing(u))

\* One URB of the finish list is finished.
FinishesOne(u) ==
    /\ Up /\ QueuesSame /\ reqId' = reqId /\ Finishing(u)
    /\ freeList' = Append(freeList, reqId[u])
    /\ shadow' = [shadow EXCEPT ![reqId[u]] = FreeShadow]
    /\ \A v \in Urbs : /\ (Finishing(v))' <=> Finishing(v) /\ v # u
                       /\ (Sent(v))' <=> Sent(v) /\ v # u

\* The device goes away, and URBs with it; what is on the finish list stays.
GoesAway ==
    /\ xpc' = "gone" /\ QueuesSame /\ UNCHANGED shadowVars /\ finishList' = finishList
    /\ \A u \in Urbs : Finishing(u) => reqId'[u] = reqId[u]

Effect ==
    \/ Quiet
    \/ \E c \in Commands, j \in Shadows \cup {NoShadow}, v \in Urbs \cup {NoUrb} :
           PutsInternal(c, j, v)
    \/ \E u \in Urbs : PutsUrb(u)
    \/ \E i \in Shadows : ConsumesInternal(i)
    \/ \E i \in Shadows, u \in Urbs : ConsumesUrb(i, u)
    \/ Finishes
    \/ \E u \in Urbs : FinishesOne(u)
    \/ GoesAway
    \/ Behind

\* Lists, states and ids as they were: no shadow changes hands.
LEMMA ListsSame ==
    ASSUME UNCHANGED listVars
    PROVE  SentSame
BY DEF SentSame, Sent, Pending, Finishing, listVars

\* As long as somebody processes, the device is there.
LEMMA BusyMeansUp ==
    ASSUME FrontInv, NEW t \in Tasks, pc[t] # "idle" \/ ppc # "idle"
    PROVE  xpc # "gone" /\ xpc # "release" /\ xpc # "unbind"
BY DEF FrontInv, TeardownInv, Walking, Busy

\* vusb_hcd_urb_dequeue sends at most a cancel request, for an URB that was sent.
LEMMA EffectOfDequeue ==
    ASSUME FrontInv, NEW u \in Urbs, DequeueFind(u)
    PROVE  Effect
<1>1. /\ StateInv /\ PlaceInv
      /\ state \in [Urbs -> {"NEW", "SENT", "DONE", "CANCEL", "freed"}]
      /\ reqId \in [Urbs -> Shadows \cup {NoShadow}]
  BY DEF FrontInv, TypeOK, ListTypes
<1>2. pc[Dequeuer(u)] = "find" /\ Dequeuer(u) \in Tasks /\ xpc' = xpc
  BY TaskFacts DEF DequeueFind, teardownVars
<1>3. Up
  BY <1>2, BusyMeansUp DEF Up
<1>4. CASE /\ Pending(u) /\ ~OnRing(u) /\ pendingList' = RemoveFirst(pendingList, u)
           /\ UNCHANGED <<finishList, state, reqId, shadowVars, ringVars>>
  <2>1. ~Sent(u)
    BY <1>1, <1>2, <1>4 DEF StateInv, PlaceInv, Sent, OnRing
  <2>2. \A v \in Urbs : /\ (Pending(v))' <=> Pending(v) /\ v # u
                        /\ (Finishing(v))' <=> Finishing(v)
    BY <1>4, PendingRemoved DEF Pending, Finishing
  <2>3. SentSame
    BY <1>4, <2>1, <2>2 DEF SentSame, Sent
  <2> QED BY <1>2, <1>4, <2>3 DEF Effect, Quiet, QueuesSame, shadowVars, ringVars
<1>5. CASE /\ Pending(u) /\ OnRing(u) /\ state' = [state EXCEPT ![u] = "CANCEL"]
           /\ UNCHANGED <<pendingList, releaseList, finishList, reqId>>
  <2>1. Sent(u) /\ ~Finishing(u)
    BY <1>1, <1>5 DEF PlaceInv, Sent, OnRing
  <2>2. \A v \in Urbs : /\ (Pending(v))' <=> Pending(v)
                        /\ (Finishing(v))' <=> Finishing(v)
                        /\ state'[v] = IF v = u THEN "CANCEL" ELSE state[v]
    BY <1>1, <1>5 DEF Pending, Finishing
  <2>3. SentSame
    BY <1>5, <2>1, <2>2 DEF SentSame, Sent
  <2>4. CASE InternalHasRoom
    <3>1. PutInternalRequest("cancel", reqId[u], u) /\ UNCHANGED <<atDevice, completing, toFront>>
      BY <1>5, <2>4 DEF DequeueFind, Pending
    <3>2. PutsInternal("cancel", reqId[u], u)
      BY <1>3, <2>1, <2>3, <2>4, <3>1 DEF PutsInternal
    <3>3. "cancel" \in Commands /\ reqId[u] \in Shadows \cup {NoShadow}
      BY <1>1 DEF Commands
    <3> QED BY <3>2, <3>3 DEF Effect
  <2>5. CASE ~InternalHasRoom
    <3>1. UNCHANGED <<shadowVars, ringVars>>
      BY <1>5, <2>5 DEF DequeueFind, Pending
    <3> QED BY <1>2, <2>3, <3>1 DEF Effect, Quiet, QueuesSame, shadowVars, ringVars
  <2> QED BY <2>4, <2>5
<1>6. CASE UNCHANGED <<listVars, shadowVars, ringVars>>
  BY <1>2, <1>6, ListsSame DEF Effect, Quiet, QueuesSame, shadowVars, ringVars
<1> QED BY <1>4, <1>5, <1>6 DEF DequeueFind, Pending

\* vusb_send_urb sends at most one URB.
LEMMA EffectOfSend ==
    ASSUME FrontInv, NEW t \in Tasks, Send(t)
    PROVE  Effect
<1>1. /\ PlaceInv
      /\ state \in [Urbs -> {"NEW", "SENT", "DONE", "CANCEL", "freed"}]
      /\ reqId \in [Urbs -> Shadows \cup {NoShadow}]
  BY DEF FrontInv, TypeOK, ListTypes
<1>2. PICK u \in Urbs : \/ SendSkip(t, u) \/ SendUrb(t, u) \/ SendAgain(t, u)
                        \/ SendBusy(t, u) \/ SendImmediate(t, u)
  BY DEF Send
<1>3. /\ xpc' = xpc /\ finishList' = finishList
      /\ UNCHANGED <<atDevice, completing, toFront>>
  BY SendFrame
<1>4. Pending(u) /\ ~Finishing(u) /\ Up
  <2>1. NextToSend(t, u)
    BY <1>2 DEF SendSkip, SendUrb, SendAgain, SendBusy, SendImmediate
  <2>2. Pending(u) /\ pc[t] = "send"
    BY <2>1, NextIsPending
  <2> QED BY <1>1, <1>3, <2>2, BusyMeansUp DEF PlaceInv, Up
<1>5. \A v \in Urbs : (Finishing(v))' <=> Finishing(v)
  BY <1>3 DEF Finishing
<1>6. CASE SendSkip(t, u) \/ SendAgain(t, u)
  BY <1>3, <1>6, ListsSame DEF SendSkip, SendAgain, Effect, Quiet, QueuesSame, shadowVars, ringVars
<1>7. CASE SendUrb(t, u)
  <2>1. ~Sent(u)
    BY <1>4, <1>7 DEF SendUrb, Sent
  <2>2. \A v \in Urbs : (Pending(v))' <=> Pending(v)
    BY <1>7 DEF SendUrb, Pending
  <2>3. /\ state' = [state EXCEPT ![u] = "SENT"] /\ reqId' = [reqId EXCEPT ![u] = TopShadow]
        /\ GetShadow("urb", u) /\ InternalHasRoom
        /\ toBack' = Append(toBack,
             [id |-> TopShadow, type |-> "urb", cancelId |-> NoShadow, urb |-> u])
    BY <1>7 DEF SendUrb, UrbHasRoom, InternalHasRoom
  <2>4. \A v \in Urbs : /\ state'[v] = IF v = u THEN "SENT" ELSE state[v]
                        /\ reqId'[v] = IF v = u THEN TopShadow ELSE reqId[v]
    BY <1>1, <2>3
  <2>5. (Sent(u))'
    BY <1>4, <2>2, <2>4 DEF Sent
  <2>6. \A v \in Urbs : v # u => ((Sent(v))' <=> Sent(v)) /\ reqId'[v] = reqId[v]
    BY <1>5, <2>2, <2>4 DEF Sent
  <2>7. PutsUrb(u)
    BY <1>3, <1>4, <1>5, <2>1, <2>3, <2>4, <2>5, <2>6 DEF PutsUrb
  <2> QED BY <2>7 DEF Effect
<1>8. CASE SendBusy(t, u)
  <2>1. ~Sent(u)
    BY <1>4, <1>8 DEF SendBusy, Sent
  <2>2. /\ reqId' = [reqId EXCEPT ![u] = TopShadow] /\ state' = state
        /\ pendingList' = pendingList /\ UNCHANGED <<shadowVars, ringVars>>
    BY <1>8 DEF SendBusy
  <2>3. \A v \in Urbs : v # u => reqId'[v] = reqId[v]
    BY <1>1, <2>2
  <2>4. SentSame
    BY <1>5, <2>1, <2>2, <2>3 DEF SentSame, Sent, Pending
  <2> QED BY <1>3, <2>2, <2>4 DEF Effect, Quiet, QueuesSame, shadowVars, ringVars
<1>9. CASE SendImmediate(t, u)
  <2>1. ~Sent(u)
    BY <1>4, <1>9 DEF SendImmediate, Sent
  <2>2. /\ reqId' = reqId /\ state' = [state EXCEPT ![u] = "DONE"]
        /\ pendingList' = RemoveFirst(pendingList, u) /\ UNCHANGED <<shadowVars, ringVars>>
    BY <1>9 DEF SendImmediate
  <2>3. \A v \in Urbs : /\ v # u => state'[v] = state[v]
                        /\ (Pending(v))' <=> Pending(v) /\ v # u
    BY <1>1, <1>4, <2>2, PendingRemoved DEF Pending
  <2>4. SentSame
    BY <1>4, <1>5, <2>1, <2>2, <2>3 DEF SentSame, Sent
  <2> QED BY <1>3, <2>2, <2>4 DEF Effect, Quiet, QueuesSame, shadowVars, ringVars
<1> QED BY <1>2, <1>6, <1>7, <1>8, <1>9

\* FinishAll, whoever calls it
LEMMA EffectOfFinish ==
    ASSUME FrontInv, FinishAll, QueuesSame, reqId' = reqId, Up,
           \A v \in Urbs : /\ Pending(v) => (Pending(v))'
                           /\ (Pending(v))' => Pending(v) \/ Entering(v)
    PROVE  Finishes
<1>1. PlaceInv /\ StateInv
  BY DEF FrontInv
<1>2. \A v \in Urbs : ~(Finishing(v))'
  BY FinishAllMoves DEF Finishing
<1>3. ASSUME NEW v \in Urbs PROVE (Sent(v))' <=> Sent(v) /\ ~Finishing(v)
  <2>1. state'[v] = IF Finishing(v) THEN "DONE" ELSE state[v]
    BY DEF FinishAll, Finishing
  <2>2. Entering(v) => state[v] = "NEW" /\ ~Finishing(v)
    BY <1>1 DEF StateInv, PlaceInv
  <2> QED BY <1>1, <1>2, <2>1, <2>2 DEF Sent, PlaceInv
<1> QED BY <1>2, <1>3 DEF Finishes

\* vusb_process first finishes what is on the finish list.
LEMMA EffectOfBegin ==
    ASSUME FrontInv, NEW t \in Tasks, ProcessBegin(t)
    PROVE  Effect
<1>1. /\ FinishAll /\ reqId' = reqId /\ xpc' = xpc /\ QueuesSame /\ pc[t] = "process"
      /\ pendingList' = IF t[1] = "enqueue" THEN Append(pendingList, t[2]) ELSE pendingList
  BY DEF ProcessBegin, QueuesSame, ringVars, teardownVars
<1>2. Up
  BY <1>1, BusyMeansUp DEF Up
<1>3. pendingList \in Seq(Urbs)
  BY DEF FrontInv, TypeOK, ListTypes
<1>4. t[1] = "enqueue" => t[2] \in Urbs /\ t = Enqueuer(t[2])
  BY TaskFacts
<1>5. ASSUME NEW v \in Urbs
      PROVE  /\ Pending(v) => (Pending(v))'
             /\ (Pending(v))' => Pending(v) \/ Entering(v)
  <2>1. CASE t[1] = "enqueue"
    BY <1>1, <1>3, <1>4, <2>1, AppendSet DEF Pending, Entering
  <2> QED BY <1>1, <2>1 DEF Pending
<1> QED BY <1>1, <1>2, <1>5, EffectOfFinish DEF Effect

\* An URB that is released has no shadow any more.
LEMMA EffectOfRelease ==
    ASSUME FrontInv, NEW t \in Tasks, ProcessRelease(t)
    PROVE  Effect
<1>1. /\ ReleaseUrbs(ToSet(tmp[t])) /\ pendingList' = pendingList /\ finishList' = finishList
      /\ xpc' = xpc /\ UNCHANGED <<shadowVars, ringVars>>
  BY DEF ProcessRelease, teardownVars
<1>2. ASSUME NEW v \in Urbs
      PROVE  /\ (Finishing(v))' <=> Finishing(v)
             /\ (Pending(v))' <=> Pending(v)
             /\ Pending(v) \/ Finishing(v) => state'[v] = state[v] /\ reqId'[v] = reqId[v]
  <2>1. v \in ToSet(tmp[t]) => Leaving(v)
    BY DEF Leaving, LeavingBy
  <2>2. v \in ToSet(tmp[t]) => ~Pending(v) /\ ~Finishing(v)
    BY <2>1 DEF FrontInv, PlaceInv
  <2> QED BY <1>1, <2>2 DEF ReleaseUrbs, Pending, Finishing
<1>3. SentSame
  BY <1>2 DEF SentSame, Sent
<1> QED BY <1>1, <1>3 DEF Effect, Quiet, QueuesSame, shadowVars, ringVars

\* vusb_interrupt consumes one response.
LEMMA EffectOfConsume ==
    ASSUME FrontInv, IrqConsume
    PROVE  Effect
<1> DEFINE i == Head(toFront)
           u == shadow[i].urb
<1>1. /\ toFront # << >> /\ ipc = "consume" /\ toFront' = Tail(toFront)
      /\ state' = state /\ reqId' = reqId /\ xpc' = xpc
      /\ UNCHANGED <<toBack, atDevice, completing>>
  BY IrqFrame DEF IrqConsume, Interrupt
<1>2. Up
  BY <1>1, ConsumingBeforeGone DEF Up
<1>3. CASE shadow[i].use \in Commands
  <2>1. /\ UNCHANGED listVars
        /\ shadow' = [shadow EXCEPT ![i] = FreeShadow] /\ freeList' = Append(freeList, i)
    BY <1>3 DEF IrqConsume
  <2>2. i \in Shadows
    BY <1>1, <1>2, ResponseOfPending DEF Up
  <2>3. ConsumesInternal(i)
    BY <1>1, <1>2, <1>3, <2>1, <2>2, ListsSame DEF ConsumesInternal
  <2> QED BY <2>2, <2>3 DEF Effect
<1>4. CASE shadow[i].use \notin Commands
  <2>1. PICK j \in Shadows, v \in Urbs : j = i /\ v = u
    BY <1>1, <1>2, <1>4, ResponseOfPending DEF Up
  <2>2. /\ pendingList' = RemoveFirst(pendingList, v) /\ finishList' = Append(finishList, v)
        /\ UNCHANGED shadowVars
    BY <1>4, <2>1 DEF IrqConsume
  <2>3. /\ j = Head(toFront) /\ shadow[j].use = "urb" /\ shadow[j].urb = v
        /\ Pending(v) /\ ~Finishing(v) /\ state[v] \in {"SENT", "CANCEL"}
    BY <1>1, <1>2, <1>4, <2>1, ResponseOfPending DEF Up
  <2> HIDE DEF i, u
  <2>4. \A w \in Urbs : /\ (Pending(w))' <=> Pending(w) /\ w # v
                        /\ (Finishing(w))' <=> Finishing(w) \/ w = v
    BY <2>2, <2>3, PendingRemoved, FinishAppended DEF Pending, Finishing
  <2>5. \A w \in Urbs : (Sent(w))' <=> Sent(w)
    BY <1>1, <2>3, <2>4 DEF Sent
  <2>6. (Finishing(v))' /\ \A w \in Urbs : w # v => ((Finishing(w))' <=> Finishing(w))
    BY <2>4
  <2>7. UNCHANGED <<freeList, shadow, toBack, atDevice, completing>>
    BY <1>1, <2>2 DEF shadowVars
  <2>8. ConsumesUrb(j, v)
    BY <1>1, <1>2, <2>3, <2>5, <2>6, <2>7 DEF ConsumesUrb
  <2> QED BY <2>8 DEF Effect
<1> QED BY <1>3, <1>4

\* xenwatch sends the speed request, finishes what is left, and takes the device away.
LEMMA EffectOfXenwatch ==
    ASSUME FrontInv, Xenwatch
    PROVE  Effect
<1>1. CASE StartDevice
  <2>1. SentSame
    BY <1>1, ListsSame DEF StartDevice
  <2>2. CASE xpc = "started"
    <3>1. /\ PutInternalRequest("speed", NoShadow, NoUrb) /\ xpc' = "speed"
          /\ UNCHANGED <<atDevice, completing, toFront>>
      BY <1>1, <2>2 DEF StartDevice, Start
    <3>2. InternalHasRoom
      BY <2>2 DEF FrontInv, StartInv, InternalHasRoom
    <3>3. PutsInternal("speed", NoShadow, NoUrb)
      BY <2>1, <2>2, <3>1, <3>2 DEF PutsInternal, Up
    <3> QED BY <3>3 DEF Effect, Commands
  <2>3. CASE xpc # "started"
    BY <1>1, <2>1, <2>3 DEF StartDevice, Start, Effect, Quiet, QueuesSame, shadowVars, ringVars
  <2> QED BY <2>2, <2>3
<1>2. CASE DestroyBegin \/ HaltRflush \/ HaltWait \/ DestroyStop \/ DestroyFree \/ DestroyUnbind
  <2>1. /\ UNCHANGED listVars /\ UNCHANGED shadowVars /\ QueuesSame
        /\ xpc' # "gone" /\ xpc # "gone"
    BY <1>2 DEF DestroyBegin, HaltRflush, HaltWait, DestroyStop, WalkOn, DestroyFree,
                DestroyUnbind, QueuesSame, ringVars
  <2> QED BY <2>1, ListsSame DEF Effect, Quiet, shadowVars
<1>3. CASE DestroyFinish
  <2>1. /\ QueuesSame /\ reqId' = reqId /\ pendingList' = pendingList
        /\ freeList' = Append(freeList, reqId[Head(finishList)])
        /\ shadow' = [shadow EXCEPT ![reqId[Head(finishList)]] = FreeShadow]
        /\ state' = [state EXCEPT ![Head(finishList)] = "DONE"]
    BY <1>3 DEF DestroyFinish, QueuesSame, ringVars
  <2>2. Up
    BY <1>3 DEF DestroyFinish, WalkOn, Up
  <2>3. PICK u \in Urbs : /\ u = Head(finishList) /\ Finishing(u)
                         /\ ToSet(finishList') = ToSet(finishList) \ {u}
    BY <1>3, FinishOneMoves
  <2>4. /\ state \in [Urbs -> {"NEW", "SENT", "DONE", "CANCEL", "freed"}]
        /\ PlaceInv
    BY DEF FrontInv, TypeOK, ListTypes
  <2>5. ASSUME NEW v \in Urbs
        PROVE  /\ (Finishing(v))' <=> Finishing(v) /\ v # u
               /\ (Sent(v))' <=> Sent(v) /\ v # u
    <3>1. /\ (Finishing(v))' <=> Finishing(v) /\ v # u
          /\ (Pending(v))' <=> Pending(v)
      BY <2>1, <2>3 DEF Finishing, Pending
    <3>2. state'[v] = IF v = u THEN "DONE" ELSE state[v]
      BY <2>1, <2>3, <2>4
    <3> QED BY <3>1, <3>2 DEF Sent
  <2>6. FinishesOne(u)
    BY <2>1, <2>2, <2>3, <2>5 DEF FinishesOne
  <2> QED BY <2>6 DEF Effect
<1>4. CASE DestroyRelease
  <2>1. /\ xpc' = "gone" /\ QueuesSame /\ UNCHANGED shadowVars /\ finishList' = finishList
        /\ ReleaseUrbs(ToSet(releaseList) \cup ToSet(pendingList))
    BY <1>4 DEF DestroyRelease, QueuesSame, ringVars
  <2>2. ASSUME NEW u \in Urbs, Finishing(u) PROVE reqId'[u] = reqId[u]
    <3>1. u \notin ToSet(releaseList) \cup ToSet(pendingList)
      BY <2>2 DEF FrontInv, PlaceInv, Pending, Releasing
    <3> QED BY <2>1, <3>1 DEF ReleaseUrbs
  <2> QED BY <2>1, <2>2 DEF Effect, GoesAway
<1> QED BY <1>1, <1>2, <1>3, <1>4 DEF Xenwatch, Destroy

\* Every step has one of these effects.
LEMMA Effects ==
    ASSUME FrontInv, Next
    PROVE  Effect
<1>1. ASSUME NEW u \in Urbs, EnqueueLink(u) \/ DequeueStart(u) PROVE Effect
  BY <1>1, ListsSame DEF EnqueueLink, DequeueStart, Effect, Quiet, QueuesSame, shadowVars,
     ringVars, teardownVars
<1>2. CASE WorkRun \/ GrantAvailable
  BY <1>2, ListsSame DEF WorkRun, GrantAvailable, Effect, Quiet, QueuesSame, shadowVars,
     ringVars, teardownVars
<1>3. ASSUME NEW t \in Tasks, ProcessEnd(t) PROVE Effect
  <2>1. SentSame
    BY <1>3 DEF ProcessEnd, SentSame, Sent, Pending, Finishing
  <2> QED BY <1>3, <2>1 DEF ProcessEnd, Effect, Quiet, QueuesSame, shadowVars, ringVars,
             teardownVars
<1>4. CASE Interrupt /\ ~IrqConsume
  BY <1>4, ListsSame DEF Interrupt, IrqEnter, IrqGate, IrqExit, Effect, Quiet, QueuesSame,
     shadowVars, ringVars, teardownVars
<1>5. CASE PortReset \/ PortWork
  <2>1. SentSame /\ xpc' = xpc
    BY <1>5, PortFrame DEF SentSame, Sent, Pending, Finishing
  <2>2. CASE PortPutReset /\ InternalHasRoom
    <3>1. PutInternalRequest("reset", NoShadow, NoUrb) /\ UNCHANGED <<atDevice, completing, toFront>>
      BY <2>2 DEF PortPutReset
    <3>2. Up
      BY <2>1, <2>2, BusyMeansUp, TaskFacts DEF PortPutReset, Up
    <3>3. PutsInternal("reset", NoShadow, NoUrb)
      BY <2>1, <2>2, <3>1, <3>2 DEF PutsInternal
    <3> QED BY <3>3 DEF Effect, Commands
  <2>3. CASE ~(PortPutReset /\ InternalHasRoom)
    <3>1. UNCHANGED <<shadowVars, ringVars>>
      BY <1>5, <2>3 DEF PortReset, PortWork, PortWorkRun, PortPutReset, PortResetComplete
    <3> QED BY <2>1, <3>1 DEF Effect, Quiet, QueuesSame, shadowVars, ringVars
  <2> QED BY <2>2, <2>3
<1>6. CASE Behind
  BY <1>6 DEF Effect
<1> QED BY <1>1, <1>2, <1>3, <1>4, <1>5, <1>6, Steps, EffectOfDequeue, EffectOfSend,
           EffectOfBegin, EffectOfRelease, EffectOfConsume, EffectOfXenwatch DEF Interrupt

-----------------------------------------------------------------------------
(* Shadows *)

\* The shadow of a sent URB is its own.
LEMMA ShadowOfSent ==
    ASSUME FrontInv, xpc # "gone", NEW u \in Urbs, Sent(u)
    PROVE  /\ reqId[u] \in Shadows /\ reqId[u] \notin ToSet(freeList)
           /\ shadow[reqId[u]].use = "urb" /\ shadow[reqId[u]].urb = u
<1>1. reqId[u] \in Shadows /\ shadow[reqId[u]] = [use |-> "urb", urb |-> u]
  BY DEF FrontInv, ShadowInv
<1>2. shadow[reqId[u]].use = "urb" /\ shadow[reqId[u]].urb = u
  BY <1>1
<1>3. reqId[u] \notin ToSet(freeList)
  BY <1>1, <1>2 DEF FrontInv, ShadowInv
<1> QED BY <1>1, <1>2, <1>3

\* The shadow that a request gets is one that nobody has.
LEMMA ShadowGot ==
    ASSUME FrontInv, xpc # "gone", InternalHasRoom, NEW p, p = TopShadow,
           NEW use, NEW w, GetShadow(use, w)
    PROVE  /\ p \in Shadows /\ shadow[p].use = "free"
           /\ ~Sending(p) /\ ~Served(p) /\ ~Answered(p)
           /\ freeList' \in Seq(Shadows) /\ IsInjective(freeList')
           /\ ToSet(freeList') = ToSet(freeList) \ {p}
           /\ \A i \in Shadows : shadow'[i] = IF i = p THEN [use |-> use, urb |-> w] ELSE shadow[i]
           /\ \A u \in Urbs : Sent(u) => reqId[u] # p
<1>1. /\ freeList \in Seq(Shadows) /\ freeList # << >> /\ IsInjective(freeList)
      /\ shadow \in [Shadows -> Shadow] /\ ShadowInv /\ UseInv
      /\ freeList' = Front(freeList)
      /\ shadow' = [shadow EXCEPT ![TopShadow] = [use |-> use, urb |-> w]]
  BY DEF FrontInv, TypeOK, RingTypes, ShadowInv, InternalHasRoom, GetShadow
<1>2. /\ p \in Shadows /\ p \in ToSet(freeList) /\ freeList' \in Seq(Shadows)
      /\ IsInjective(freeList') /\ ToSet(freeList') = ToSet(freeList) \ {p}
  BY <1>1, FrontSet DEF TopShadow
<1>3. shadow[p].use = "free"
  BY <1>1, <1>2 DEF ShadowInv
<1>4. ~Sending(p) /\ ~Served(p) /\ ~Answered(p)
  BY <1>1, <1>2, <1>3 DEF UseInv
<1>5. \A u \in Urbs : Sent(u) => reqId[u] # p
  BY <1>3, ShadowOfSent
<1> QED BY <1>1, <1>2, <1>3, <1>4, <1>5

\* The shadows of the URBs that are finished go to the free list, once each.
LEMMA ShadowsPutBack ==
    ASSUME FrontInv, xpc # "gone", FinishAll
    PROVE  /\ freeList' \in Seq(Shadows) /\ IsInjective(freeList')
           /\ \A i \in Shadows : i \in ToSet(freeList') <=>
                 i \in ToSet(freeList) \/ \E u \in Urbs : Finishing(u) /\ reqId[u] = i
           /\ \A i \in Shadows : shadow'[i] =
                 IF \E u \in Urbs : Finishing(u) /\ reqId[u] = i THEN FreeShadow ELSE shadow[i]
<1>1. /\ freeList \in Seq(Shadows) /\ IsInjective(freeList) /\ ShadowInv
      /\ finishList \in Seq(Urbs) /\ IsInjective(finishList)
  BY DEF FrontInv, TypeOK, RingTypes, ListTypes, ShadowInv, PlaceInv
<1> DEFINE ids == [k \in DOMAIN finishList |-> reqId[finishList[k]]]
<1>2. freeList' = freeList \o ids
  BY DEF FinishAll
<1>3. /\ Len(finishList) \in Nat /\ DOMAIN finishList = 1 .. Len(finishList)
      /\ \A k \in DOMAIN finishList : finishList[k] \in Urbs /\ Finishing(finishList[k])
  BY <1>1 DEF Finishing, ToSet
<1>4. \A u \in Urbs : Finishing(u) => \E k \in DOMAIN finishList : finishList[k] = u
  BY DEF Finishing, ToSet
<1>5. \A k \in DOMAIN finishList : /\ reqId[finishList[k]] \in Shadows
                                   /\ shadow[reqId[finishList[k]]].use = "urb"
                                   /\ shadow[reqId[finishList[k]]].urb = finishList[k]
  BY <1>3, ShadowOfSent DEF Sent
<1>6. ids \in Seq(Shadows) /\ DOMAIN ids = DOMAIN finishList
  BY <1>3, <1>5
<1>7. IsInjective(ids)
  BY <1>1, <1>5, <1>6 DEF IsInjective
<1>8. \A i \in Shadows : i \in ToSet(ids) <=> \E u \in Urbs : Finishing(u) /\ reqId[u] = i
  <2>1. \A k \in DOMAIN ids : ids[k] = reqId[finishList[k]]
    OBVIOUS
  <2> HIDE DEF ids
  <2> QED BY <1>3, <1>4, <1>6, <2>1 DEF ToSet
<1>9. ToSet(freeList) \cap ToSet(ids) = {}
  <2>1. \A k \in DOMAIN ids : ids[k] \in Shadows /\ ids[k] \notin ToSet(freeList)
    BY <1>1, <1>5 DEF ShadowInv
  <2> HIDE DEF ids
  <2> QED BY <2>1 DEF ToSet
<1> HIDE DEF ids
<1>10. \A i \in Shadows : i \in ToSet(freeList') <=>
                 i \in ToSet(freeList) \/ \E u \in Urbs : Finishing(u) /\ reqId[u] = i
  BY <1>1, <1>2, <1>6, <1>8, ConcatSet
<1>11. \A i \in Shadows : shadow'[i] =
                 IF \E u \in Urbs : Finishing(u) /\ reqId[u] = i THEN FreeShadow ELSE shadow[i]
  <2>1. ToSet(finishList) \subseteq Urbs
    BY <1>3 DEF ToSet
  <2> QED BY <2>1 DEF FinishAll, Finishing
<1> QED BY <1>1, <1>2, <1>6, <1>7, <1>9, <1>10, <1>11, ConcatSet

\* A shadow is free or somebody's, whatever a step does.
LEMMA ShadowStep ==
    ASSUME FrontInv, Effect
    PROVE  ShadowInv'
<1> SUFFICES ASSUME xpc' # "gone" PROVE ShadowInv'
  BY DEF ShadowInv
<1> USE DEF Commands
<1>1. /\ freeList \in Seq(Shadows) /\ shadow \in [Shadows -> Shadow]
      /\ reqId \in [Urbs -> Shadows \cup {NoShadow}] /\ NoUrb \notin Urbs
  BY FrontAssumption DEF FrontInv, TypeOK, RingTypes, ListTypes
<1> DEFINE Fits(i) ==
             /\ i \in ToSet(freeList) <=> shadow[i].use = "free"
             /\ shadow[i].use # "urb" => shadow[i].urb = NoUrb
             /\ shadow[i].use = "urb" =>
                    shadow[i].urb \in Urbs /\ Sent(shadow[i].urb) /\ reqId[shadow[i].urb] = i
           Has(u) ==
             Sent(u) => reqId[u] \in Shadows /\ shadow[reqId[u]] = [use |-> "urb", urb |-> u]
<1>2. /\ ShadowInv <=> (xpc # "gone" =>
           IsInjective(freeList) /\ (\A i \in Shadows : Fits(i)) /\ \A u \in Urbs : Has(u))
      /\ ShadowInv' <=> (xpc' # "gone" =>
           IsInjective(freeList') /\ (\A i \in Shadows : Fits(i)') /\ \A u \in Urbs : Has(u)')
  BY DEF ShadowInv
<1>3. xpc # "gone" => IsInjective(freeList) /\ (\A i \in Shadows : Fits(i)) /\ \A u \in Urbs : Has(u)
  BY <1>2 DEF FrontInv
<1>4. CASE Quiet
  <2>1. ASSUME NEW i \in Shadows PROVE Fits(i)'
    BY <1>3, <1>4 DEF Quiet, SentSame
  <2>2. ASSUME NEW u \in Urbs PROVE Has(u)'
    BY <1>3, <1>4 DEF Quiet, SentSame
  <2> QED BY <1>2, <1>3, <1>4, <2>1, <2>2 DEF Quiet
<1>5. ASSUME NEW c \in Commands, NEW j \in Shadows \cup {NoShadow}, NEW v \in Urbs \cup {NoUrb},
             PutsInternal(c, j, v)
      PROVE  ShadowInv'
  <2>1. PICK p : p = TopShadow
    OBVIOUS
  <2>2. /\ p \in Shadows /\ shadow[p].use = "free" /\ IsInjective(freeList')
        /\ ToSet(freeList') = ToSet(freeList) \ {p}
        /\ \A i \in Shadows : shadow'[i] = IF i = p THEN [use |-> c, urb |-> NoUrb] ELSE shadow[i]
        /\ \A u \in Urbs : Sent(u) => reqId[u] # p
    BY <1>5, <2>1, ShadowGot DEF PutsInternal, PutInternalRequest, Up
  <2>3. xpc # "gone" /\ SentSame
    BY <1>5 DEF PutsInternal, Up
  <2>4. ASSUME NEW i \in Shadows PROVE Fits(i)'
    BY <1>3, <2>2, <2>3 DEF SentSame
  <2>5. ASSUME NEW u \in Urbs PROVE Has(u)'
    BY <1>3, <2>2, <2>3 DEF SentSame
  <2> QED BY <1>2, <2>2, <2>4, <2>5
<1>6. ASSUME NEW u \in Urbs, PutsUrb(u) PROVE ShadowInv'
  <2>1. PICK p : p = TopShadow
    OBVIOUS
  <2>2. /\ p \in Shadows /\ shadow[p].use = "free" /\ IsInjective(freeList')
        /\ ToSet(freeList') = ToSet(freeList) \ {p}
        /\ \A i \in Shadows : shadow'[i] = IF i = p THEN [use |-> "urb", urb |-> u] ELSE shadow[i]
        /\ \A v \in Urbs : Sent(v) => reqId[v] # p
    BY <1>6, <2>1, ShadowGot DEF PutsUrb, Up
  <2>3. /\ xpc # "gone" /\ ~Sent(u) /\ (Sent(u))' /\ reqId'[u] = p
        /\ \A v \in Urbs : v # u => ((Sent(v))' <=> Sent(v)) /\ reqId'[v] = reqId[v]
    BY <1>6, <2>1 DEF PutsUrb, Up
  <2>4. ASSUME NEW i \in Shadows PROVE Fits(i)'
    <3>1. CASE i = p
      BY <2>2, <2>3, <3>1
    <3>2. CASE i # p
      BY <1>3, <2>2, <2>3, <3>2
    <3> QED BY <3>1, <3>2
  <2>5. ASSUME NEW v \in Urbs PROVE Has(v)'
    <3>1. CASE v = u
      BY <2>2, <2>3, <3>1
    <3>2. CASE v # u
      BY <1>3, <2>2, <2>3, <3>2
    <3> QED BY <3>1, <3>2
  <2> QED BY <1>2, <2>2, <2>4, <2>5
<1>7. ASSUME NEW p \in Shadows, ConsumesInternal(p) PROVE ShadowInv'
  <2>1. /\ xpc # "gone" /\ SentSame /\ toFront # << >> /\ p = Head(toFront)
        /\ shadow[p].use \in Commands /\ freeList' = Append(freeList, p)
        /\ shadow' = [shadow EXCEPT ![p] = FreeShadow]
    BY <1>7 DEF ConsumesInternal, Up
  <2>2. /\ IsInjective(freeList') /\ ToSet(freeList') = ToSet(freeList) \cup {p}
    BY <1>1, <1>3, <2>1, AppendSet, ResponseOfPending
  <2>3. \A i \in Shadows : shadow'[i] = IF i = p THEN FreeShadow ELSE shadow[i]
    BY <1>1, <2>1
  <2>4. \A u \in Urbs : Sent(u) => reqId[u] # p
    BY <2>1, ShadowOfSent
  <2>5. ASSUME NEW i \in Shadows PROVE Fits(i)'
    BY <1>3, <2>1, <2>2, <2>3 DEF SentSame, FreeShadow
  <2>6. ASSUME NEW u \in Urbs PROVE Has(u)'
    BY <1>3, <2>1, <2>3, <2>4 DEF SentSame
  <2> QED BY <1>2, <2>2, <2>5, <2>6
<1>8. ASSUME NEW p \in Shadows, NEW u \in Urbs, ConsumesUrb(p, u) PROVE ShadowInv'
  <2>1. /\ xpc # "gone" /\ freeList' = freeList /\ shadow' = shadow /\ reqId' = reqId
        /\ \A v \in Urbs : (Sent(v))' <=> Sent(v)
    BY <1>8 DEF ConsumesUrb, Up
  <2>2. ASSUME NEW i \in Shadows PROVE Fits(i)'
    BY <1>3, <2>1
  <2>3. ASSUME NEW v \in Urbs PROVE Has(v)'
    BY <1>3, <2>1
  <2> QED BY <1>2, <1>3, <2>1, <2>2, <2>3
<1>9. CASE Finishes
  <2>1. /\ xpc # "gone" /\ FinishAll /\ reqId' = reqId
        /\ \A u \in Urbs : ((Sent(u))' <=> Sent(u) /\ ~Finishing(u))
    BY <1>9 DEF Finishes, Up
  <2>2. \A u \in Urbs : Finishing(u) => Sent(u)
    BY DEF Sent
  <2>3. ASSUME NEW i \in Shadows PROVE Fits(i)'
    <3>1. CASE \E u \in Urbs : Finishing(u) /\ reqId[u] = i
      <4>1. shadow'[i] = FreeShadow /\ i \in ToSet(freeList')
        BY <2>1, <3>1, ShadowsPutBack
      <4> QED BY <4>1 DEF FreeShadow
    <3>2. CASE ~\E u \in Urbs : Finishing(u) /\ reqId[u] = i
      <4>1. shadow'[i] = shadow[i] /\ (i \in ToSet(freeList') <=> i \in ToSet(freeList))
        BY <2>1, <3>2, ShadowsPutBack
      <4> QED BY <1>3, <2>1, <3>2, <4>1
    <3> QED BY <3>1, <3>2
  <2>4. ASSUME NEW v \in Urbs PROVE Has(v)'
    <3> SUFFICES ASSUME (Sent(v))'
                 PROVE  reqId'[v] \in Shadows /\ shadow'[reqId'[v]] = [use |-> "urb", urb |-> v]
      OBVIOUS
    <3>1. Sent(v) /\ ~Finishing(v) /\ reqId'[v] = reqId[v] /\ reqId[v] \in Shadows
          /\ shadow[reqId[v]] = [use |-> "urb", urb |-> v]
      BY <1>3, <2>1
    <3>2. ASSUME NEW u \in Urbs, Finishing(u), reqId[u] = reqId[v] PROVE FALSE
      <4>1. shadow[reqId[u]] = [use |-> "urb", urb |-> u]
        BY <1>3, <2>1, <2>2, <3>2
      <4> QED BY <3>1, <3>2, <4>1
    <3>3. shadow'[reqId[v]] = shadow[reqId[v]]
      BY <2>1, <3>1, <3>2, ShadowsPutBack
    <3> QED BY <3>1, <3>3
  <2> QED BY <1>2, <2>1, <2>3, <2>4, ShadowsPutBack
<1>11. ASSUME NEW u \in Urbs, FinishesOne(u) PROVE ShadowInv'
  <2>1. PICK p : p = reqId[u]
    OBVIOUS
  <2>2. /\ xpc # "gone" /\ reqId' = reqId /\ freeList' = Append(freeList, p)
        /\ \A v \in Urbs : (Sent(v))' <=> Sent(v) /\ v # u
    BY <1>11, <2>1 DEF FinishesOne, Up
  <2>3. /\ p \in Shadows /\ p \notin ToSet(freeList)
        /\ shadow[p].use = "urb" /\ shadow[p].urb = u
    BY <1>11, <2>1, <2>2, ShadowOfSent DEF FinishesOne, Sent
  <2>4. \A i \in Shadows : shadow'[i] = IF i = p THEN FreeShadow ELSE shadow[i]
    BY <1>1, <1>11, <2>1 DEF FinishesOne
  <2>5. IsInjective(freeList') /\ ToSet(freeList') = ToSet(freeList) \cup {p}
    BY <1>1, <1>3, <2>2, <2>3, AppendSet
  <2>6. ASSUME NEW i \in Shadows PROVE Fits(i)'
    <3>1. CASE i = p
      BY <2>4, <2>5, <3>1 DEF FreeShadow
    <3>2. CASE i # p
      <4>1. shadow'[i] = shadow[i] /\ (i \in ToSet(freeList') <=> i \in ToSet(freeList))
        BY <2>4, <2>5, <3>2
      <4>2. shadow[i].use = "urb" => shadow[i].urb # u
        BY <1>3, <2>1, <2>2, <3>2
      <4> QED BY <1>3, <2>2, <4>1, <4>2
    <3> QED BY <3>1, <3>2
  <2>7. ASSUME NEW v \in Urbs PROVE Has(v)'
    <3> SUFFICES ASSUME (Sent(v))'
                 PROVE  reqId'[v] \in Shadows /\ shadow'[reqId'[v]] = [use |-> "urb", urb |-> v]
      OBVIOUS
    <3>1. /\ Sent(v) /\ v # u /\ reqId'[v] = reqId[v] /\ reqId[v] \in Shadows
          /\ shadow[reqId[v]] = [use |-> "urb", urb |-> v]
      BY <1>3, <2>2
    <3>2. reqId[v] # p
      BY <2>3, <3>1
    <3> QED BY <2>4, <3>1, <3>2
  <2> QED BY <1>2, <2>5, <2>6, <2>7
<1>10. CASE Behind
  <2>1. /\ xpc' = xpc /\ freeList' = freeList /\ shadow' = shadow /\ reqId' = reqId
        /\ pendingList' = pendingList /\ finishList' = finishList /\ state' = state
    BY <1>10, BackFrame
  <2>2. ASSUME NEW v \in Urbs PROVE (Sent(v))' <=> Sent(v)
    BY <2>1 DEF Sent, Pending, Finishing
  <2>3. ASSUME NEW i \in Shadows PROVE Fits(i)'
    BY <1>3, <2>1, <2>2
  <2>4. ASSUME NEW v \in Urbs PROVE Has(v)'
    BY <1>3, <2>1, <2>2
  <2> QED BY <1>2, <1>3, <2>1, <2>3, <2>4
<1> QED BY <1>4, <1>5, <1>6, <1>7, <1>8, <1>9, <1>10, <1>11 DEF Effect, GoesAway

-----------------------------------------------------------------------------
(* Requests in flight *)

\* A request is put on the ring.
LEMMA RequestPut ==
    ASSUME toBack \in Seq(Request), NEW r \in Request, toBack' = Append(toBack, r)
    PROVE  /\ toBack' \in Seq(Request) /\ Len(toBack) \in Nat
           /\ DOMAIN toBack = 1 .. Len(toBack) /\ DOMAIN toBack' = 1 .. Len(toBack) + 1
           /\ \A k \in DOMAIN toBack : toBack'[k] = toBack[k] /\ toBack[k] \in Request
           /\ toBack'[Len(toBack) + 1] = r
           /\ \A i : (Sending(i))' <=> Sending(i) \/ r.id = i
<1>1. /\ toBack' \in Seq(Request) /\ Len(toBack) \in Nat
      /\ DOMAIN toBack = 1 .. Len(toBack) /\ DOMAIN toBack' = 1 .. Len(toBack) + 1
      /\ \A k \in DOMAIN toBack : toBack'[k] = toBack[k] /\ toBack[k] \in Request
      /\ toBack'[Len(toBack) + 1] = r
  OBVIOUS
<1>2. \A i : (Sending(i))' <=> Sending(i) \/ r.id = i
  BY <1>1 DEF Sending
<1> QED BY <1>1, <1>2

\* The backend takes the first request.
LEMMA RequestTaken ==
    ASSUME toBack \in Seq(Request), toBack # << >>, NEW h, h = Head(toBack),
           toBack' = Tail(toBack),
           \A j, k \in DOMAIN toBack : toBack[j].id = toBack[k].id => j = k
    PROVE  /\ h \in Request /\ toBack' \in Seq(Request) /\ Len(toBack) \in Nat
           /\ DOMAIN toBack = 1 .. Len(toBack) /\ DOMAIN toBack' = 1 .. Len(toBack) - 1
           /\ 1 \in DOMAIN toBack /\ toBack[1] = h /\ Sending(h.id)
           /\ \A k \in DOMAIN toBack' :
                k \in Nat /\ k + 1 \in DOMAIN toBack /\ toBack'[k] = toBack[k + 1]
           /\ \A i : (Sending(i))' <=> Sending(i) /\ h.id # i
<1>1. /\ h \in Request /\ toBack' \in Seq(Request) /\ Len(toBack) \in Nat
      /\ DOMAIN toBack = 1 .. Len(toBack) /\ DOMAIN toBack' = 1 .. Len(toBack) - 1
      /\ 1 \in DOMAIN toBack /\ toBack[1] = h
      /\ \A k \in DOMAIN toBack' :
           k \in Nat /\ k + 1 \in DOMAIN toBack /\ toBack'[k] = toBack[k + 1]
  OBVIOUS
<1>2. Sending(h.id)
  BY <1>1 DEF Sending
<1>3. ASSUME NEW i, Sending(i), h.id # i PROVE (Sending(i))'
  <2>1. PICK k \in DOMAIN toBack : toBack[k].id = i
    BY <1>3 DEF Sending
  <2>2. k # 1 /\ k - 1 \in DOMAIN toBack' /\ toBack'[k - 1] = toBack[k]
    BY <1>1, <1>3, <2>1
  <2> QED BY <2>1, <2>2 DEF Sending
<1>4. ASSUME NEW i, (Sending(i))' PROVE Sending(i) /\ h.id # i
  <2>1. PICK k \in DOMAIN toBack' : toBack'[k].id = i
    BY <1>4 DEF Sending
  <2>2. k + 1 # 1 /\ k + 1 \in DOMAIN toBack /\ toBack[k + 1].id = i
    BY <1>1, <2>1
  <2>3. toBack[1].id # toBack[k + 1].id
    BY <1>1, <2>2
  <2> QED BY <1>1, <2>2, <2>3 DEF Sending
<1> QED BY <1>1, <1>2, <1>3, <1>4

\* What the backend and the devices do to the requests.
Takes(h) ==
    /\ toBack # << >> /\ h = Head(toBack) /\ h.type = "urb" /\ toBack' = Tail(toBack)
    /\ atDevice' = atDevice \cup {[id |-> h.id, urb |-> h.urb]}
    /\ UNCHANGED <<completing, toFront>>
Kills(x) ==
    /\ x \in atDevice /\ atDevice' = atDevice \ {x}
    /\ toFront' = Append(toFront, x.id)
    /\ UNCHANGED <<toBack, completing>>
Echoes(h) ==
    /\ toBack # << >> /\ h = Head(toBack) /\ h.type \in Commands /\ toBack' = Tail(toBack)
    /\ toFront' = Append(toFront, h.id)
    /\ UNCHANGED <<atDevice, completing>>
Completes(x) ==
    /\ x \in atDevice /\ atDevice' = atDevice \ {x} /\ completing' = completing \cup {x}
    /\ UNCHANGED <<toBack, toFront>>
Ends(x) ==
    /\ x \in completing /\ completing' = completing \ {x}
    /\ toFront' = Append(toFront, x.id)
    /\ UNCHANGED <<toBack, atDevice>>

\* The backend and the devices make one of these moves.
LEMMA BehindMoves ==
    ASSUME Behind
    PROVE  \/ \E h : Takes(h) \/ Echoes(h)
           \/ \E x : Kills(x) \/ Completes(x) \/ Ends(x)
<1>1. CASE BackSubmit
  BY <1>1 DEF BackSubmit, Takes
<1>2. CASE BackKill
  <2>1. PICK x \in Victims(Head(toBack)) : atDevice' = atDevice \ {x} /\ Answer(x.id)
    BY <1>2 DEF BackKill
  <2>2. Kills(x)
    BY <1>2, <2>1 DEF BackKill, Kills, Victims, Answer
  <2> QED BY <2>2
<1>3. CASE BackAnswer
  BY <1>3 DEF BackAnswer, Echoes, Answer
<1>4. CASE EndUsbIoOp
  BY <1>4 DEF EndUsbIoOp, Ends, Answer
<1>5. ASSUME NEW u \in Urbs, DeviceComplete(u)
      PROVE  \E x : Completes(x)
  BY <1>5 DEF DeviceComplete, Completes
<1> QED BY <1>1, <1>2, <1>3, <1>4, <1>5 DEF Behind, Backend

\* The requests of which it is true, by the kind of step.
LEMMA PutRequest ==
    ASSUME FrontInv, Effect
    PROVE  \/ \E r \in Request :
                /\ xpc # "gone" /\ xpc' # "gone"
                /\ toBack' = Append(toBack, r) /\ UNCHANGED <<atDevice, completing, toFront>>
                /\ r.id \in Shadows /\ ~Sending(r.id) /\ ~Served(r.id) /\ ~Answered(r.id)
                /\ r.type = "urb" => r.urb \in Urbs
                /\ r.type = "cancel" => r.urb \in Urbs /\ Sent(r.urb) /\ reqId[r.urb] = r.cancelId
           \/ /\ toFront # << >> /\ toFront' = Tail(toFront)
              /\ UNCHANGED <<toBack, atDevice, completing>>
           \/ QueuesSame
           \/ Behind
<1>1. reqId \in [Urbs -> Shadows \cup {NoShadow}] /\ NoUrb \notin Urbs
  BY FrontAssumption DEF FrontInv, TypeOK, ListTypes
<1>2. ASSUME NEW c \in Commands, NEW j \in Shadows \cup {NoShadow}, NEW v \in Urbs \cup {NoUrb},
             PutsInternal(c, j, v)
      PROVE  \E r \in Request :
                /\ xpc # "gone" /\ xpc' # "gone"
                /\ toBack' = Append(toBack, r) /\ UNCHANGED <<atDevice, completing, toFront>>
                /\ r.id \in Shadows /\ ~Sending(r.id) /\ ~Served(r.id) /\ ~Answered(r.id)
                /\ r.type = "urb" => r.urb \in Urbs
                /\ r.type = "cancel" => r.urb \in Urbs /\ Sent(r.urb) /\ reqId[r.urb] = r.cancelId
  <2>1. PICK p : p = TopShadow
    OBVIOUS
  <2>2. p \in Shadows /\ ~Sending(p) /\ ~Served(p) /\ ~Answered(p)
    BY <1>2, <2>1, ShadowGot DEF PutsInternal, PutInternalRequest, Up
  <2> DEFINE r == [id |-> p, type |-> c, cancelId |-> j, urb |-> v]
  <2>3. /\ r \in Request /\ r.id = p /\ r.type = c /\ r.cancelId = j /\ r.urb = v /\ c # "urb"
    BY <2>2 DEF Request, Commands
  <2>4. toBack' = Append(toBack, r)
    BY <1>2, <2>1 DEF PutsInternal, PutInternalRequest
  <2> HIDE DEF r
  <2>5. c = "cancel" => v \in Urbs /\ Sent(v) /\ reqId[v] = j
    <3>1. pendingList \in Seq(Urbs) /\ finishList \in Seq(Urbs)
      BY DEF FrontInv, TypeOK, ListTypes
    <3>2. Sent(v) => v \in Urbs
      BY <3>1 DEF Sent, Pending, Finishing, ToSet
    <3> QED BY <1>2, <3>2 DEF PutsInternal
  <2>6. UNCHANGED <<atDevice, completing, toFront>> /\ xpc # "gone" /\ xpc' # "gone"
    BY <1>2 DEF PutsInternal, Up
  <2> r \in Request
    BY <2>3
  <2> WITNESS r \in Request
  <2> QED BY <2>2, <2>3, <2>4, <2>5, <2>6
<1>3. ASSUME NEW u \in Urbs, PutsUrb(u)
      PROVE  \E r \in Request :
                /\ xpc # "gone" /\ xpc' # "gone"
                /\ toBack' = Append(toBack, r) /\ UNCHANGED <<atDevice, completing, toFront>>
                /\ r.id \in Shadows /\ ~Sending(r.id) /\ ~Served(r.id) /\ ~Answered(r.id)
                /\ r.type = "urb" => r.urb \in Urbs
                /\ r.type = "cancel" => r.urb \in Urbs /\ Sent(r.urb) /\ reqId[r.urb] = r.cancelId
  <2>1. PICK p : p = TopShadow
    OBVIOUS
  <2>2. p \in Shadows /\ ~Sending(p) /\ ~Served(p) /\ ~Answered(p)
    BY <1>3, <2>1, ShadowGot DEF PutsUrb, Up
  <2> DEFINE r == [id |-> p, type |-> "urb", cancelId |-> NoShadow, urb |-> u]
  <2>3. /\ r \in Request /\ r.id = p /\ r.type = "urb" /\ r.urb = u
    BY <2>2 DEF Request, Commands
  <2>4. toBack' = Append(toBack, r)
    BY <1>3, <2>1 DEF PutsUrb
  <2> HIDE DEF r
  <2>5. UNCHANGED <<atDevice, completing, toFront>> /\ xpc # "gone" /\ xpc' # "gone"
    BY <1>3 DEF PutsUrb, Up
  <2> r \in Request
    BY <2>3
  <2> WITNESS r \in Request
  <2> QED BY <2>2, <2>3, <2>4, <2>5
<1>4. CASE Quiet \/ Finishes \/ GoesAway \/ \E u \in Urbs : FinishesOne(u)
  BY <1>4 DEF Quiet, Finishes, FinishesOne, GoesAway
<1>5. ASSUME NEW i \in Shadows, ConsumesInternal(i) \/ \E u \in Urbs : ConsumesUrb(i, u)
      PROVE  /\ toFront # << >> /\ toFront' = Tail(toFront)
             /\ UNCHANGED <<toBack, atDevice, completing>>
  BY <1>5 DEF ConsumesInternal, ConsumesUrb
<1> QED BY <1>2, <1>3, <1>4, <1>5 DEF Effect

\* Requests in flight stay apart.
LEMMA FlightStep ==
    ASSUME FrontInv, Effect
    PROVE  FlightInv'
<1>1. /\ FlightInv /\ toBack \in Seq(Request) /\ toFront \in Seq(Shadows)
      /\ \A x \in atDevice \cup completing : x.id \in Shadows
  BY DEF FrontInv, TypeOK, RingTypes
<1> DEFINE Apart(i) == /\ ~(Sending(i) /\ Served(i)) /\ ~(Sending(i) /\ Answered(i))
                       /\ ~(Served(i) /\ Answered(i))
           BackApart == /\ \A j, k \in DOMAIN toBack : toBack[j].id = toBack[k].id => j = k
                        /\ \A k \in DOMAIN toBack : toBack[k].type = "urb" => toBack[k].urb \in Urbs
           DeviceApart == /\ \A x, y \in atDevice \cup completing : x.id = y.id => x = y
                          /\ atDevice \cap completing = {}
<1>2. /\ FlightInv <=> /\ BackApart /\ DeviceApart /\ IsInjective(toFront)
                       /\ \A i \in Shadows : Apart(i)
      /\ FlightInv' <=> /\ BackApart' /\ DeviceApart' /\ IsInjective(toFront')
                        /\ \A i \in Shadows : Apart(i)'
  BY DEF FlightInv
<1>3. BackApart /\ DeviceApart /\ IsInjective(toFront) /\ \A i \in Shadows : Apart(i)
  BY <1>1, <1>2
<1>4. ASSUME NEW r \in Request,
             toBack' = Append(toBack, r), UNCHANGED <<atDevice, completing, toFront>>,
             r.id \in Shadows, ~Sending(r.id), ~Served(r.id), ~Answered(r.id),
             r.type = "urb" => r.urb \in Urbs
      PROVE  FlightInv'
  <2>1. BackApart'
    BY <1>1, <1>3, <1>4, RequestPut DEF Sending
  <2>2. DeviceApart' /\ IsInjective(toFront')
    BY <1>3, <1>4
  <2>3. ASSUME NEW i \in Shadows PROVE Apart(i)'
    <3>1. /\ (Sending(i))' <=> Sending(i) \/ r.id = i
          /\ (Served(i))' <=> Served(i)
          /\ (Answered(i))' <=> Answered(i)
      BY <1>1, <1>4, RequestPut DEF Served, Answered
    <3> QED BY <1>3, <1>4, <3>1
  <2> QED BY <1>2, <2>1, <2>2, <2>3
<1>5. CASE toFront # << >> /\ toFront' = Tail(toFront) /\ UNCHANGED <<toBack, atDevice, completing>>
  <2>1. IsInjective(toFront') /\ ToSet(toFront') \subseteq ToSet(toFront)
    BY <1>1, <1>3, <1>5, TailSet
  <2>2. ASSUME NEW i \in Shadows PROVE Apart(i)'
    <3>1. /\ (Sending(i))' <=> Sending(i)
          /\ (Served(i))' <=> Served(i)
          /\ (Answered(i))' => Answered(i)
      BY <1>5, <2>1 DEF Served, Answered, Sending
    <3> QED BY <1>3, <3>1
  <2> QED BY <1>2, <1>3, <1>5, <2>1, <2>2
<1>6. CASE QueuesSame
  BY <1>1, <1>6 DEF QueuesSame, FlightInv, Sending, Served, Answered
<1>7. ASSUME NEW h, Takes(h) PROVE FlightInv'
  <2>1. /\ toBack # << >> /\ h = Head(toBack) /\ h.type = "urb" /\ toBack' = Tail(toBack)
        /\ atDevice' = atDevice \cup {[id |-> h.id, urb |-> h.urb]}
        /\ completing' = completing /\ toFront' = toFront
    BY <1>7 DEF Takes
  <2>2. /\ h \in Request /\ Sending(h.id)
        /\ DOMAIN toBack' = 1 .. Len(toBack) - 1 /\ Len(toBack) \in Nat
        /\ \A k \in DOMAIN toBack' :
             k \in Nat /\ k + 1 \in DOMAIN toBack /\ toBack'[k] = toBack[k + 1]
        /\ \A i : (Sending(i))' <=> Sending(i) /\ h.id # i
    BY <1>1, <1>3, <2>1, RequestTaken
  <2>3. h.id \in Shadows
    BY <2>2 DEF Request
  <2>4. BackApart'
    <3>1. ASSUME NEW j \in DOMAIN toBack', NEW k \in DOMAIN toBack',
                 toBack'[j].id = toBack'[k].id
          PROVE  j = k
      <4>1. j + 1 = k + 1 /\ j \in Nat /\ k \in Nat
        BY <1>3, <2>2, <3>1
      <4> QED BY <4>1
    <3>2. \A k \in DOMAIN toBack' : toBack'[k].type = "urb" => toBack'[k].urb \in Urbs
      BY <1>3, <2>2
    <3> QED BY <3>1, <3>2
  <2>5. ~Served(h.id) /\ ~Answered(h.id)
    BY <1>3, <2>2, <2>3
  <2>6. PICK n : n = [id |-> h.id, urb |-> h.urb]
    OBVIOUS
  <2>7. /\ n.id = h.id /\ atDevice' = atDevice \cup {n} /\ completing' = completing
        /\ toFront' = toFront
    BY <2>1, <2>6
  <2>8. DeviceApart'
    <3>1. \A x \in atDevice \cup completing : x.id # h.id
      BY <2>5 DEF Served
    <3>2. n \notin atDevice \cup completing
      BY <3>1, <2>7
    <3> QED BY <1>3, <2>7, <3>1, <3>2
  <2>9. ASSUME NEW i \in Shadows PROVE Apart(i)'
    <3>1. /\ (Served(i))' <=> Served(i) \/ h.id = i
          /\ (Answered(i))' <=> Answered(i)
      BY <2>7 DEF Served, Answered
    <3> QED BY <1>3, <2>2, <2>5, <3>1
  <2> QED BY <1>2, <1>3, <2>1, <2>4, <2>8, <2>9
<1>8. ASSUME NEW h, Echoes(h) PROVE FlightInv'
  <2>1. /\ toBack # << >> /\ h = Head(toBack) /\ toBack' = Tail(toBack)
        /\ toFront' = Append(toFront, h.id)
        /\ completing' = completing /\ atDevice' = atDevice
    BY <1>8 DEF Echoes
  <2>2. /\ h \in Request /\ Sending(h.id)
        /\ DOMAIN toBack' = 1 .. Len(toBack) - 1 /\ Len(toBack) \in Nat
        /\ \A k \in DOMAIN toBack' :
             k \in Nat /\ k + 1 \in DOMAIN toBack /\ toBack'[k] = toBack[k + 1]
        /\ \A i : (Sending(i))' <=> Sending(i) /\ h.id # i
    BY <1>1, <1>3, <2>1, RequestTaken
  <2>3. h.id \in Shadows
    BY <2>2 DEF Request
  <2>4. BackApart'
    <3>1. ASSUME NEW j \in DOMAIN toBack', NEW k \in DOMAIN toBack',
                 toBack'[j].id = toBack'[k].id
          PROVE  j = k
      <4>1. j + 1 = k + 1 /\ j \in Nat /\ k \in Nat
        BY <1>3, <2>2, <3>1
      <4> QED BY <4>1
    <3>2. \A k \in DOMAIN toBack' : toBack'[k].type = "urb" => toBack'[k].urb \in Urbs
      BY <1>3, <2>2
    <3> QED BY <3>1, <3>2
  <2>5. ~Served(h.id) /\ ~Answered(h.id)
    BY <1>3, <2>2, <2>3
  <2>6. IsInjective(toFront') /\ ToSet(toFront') = ToSet(toFront) \cup {h.id}
    BY <1>1, <1>3, <2>1, <2>3, <2>5, AppendSet DEF Answered
  <2>7. ASSUME NEW i \in Shadows PROVE Apart(i)'
    <3>1. /\ (Served(i))' <=> Served(i)
          /\ (Answered(i))' <=> Answered(i) \/ h.id = i
      BY <2>1, <2>6 DEF Served, Answered
    <3> QED BY <1>3, <2>2, <2>5, <3>1
  <2> QED BY <1>2, <1>3, <2>1, <2>4, <2>6, <2>7
<1>9. ASSUME NEW x, Kills(x) \/ Ends(x) PROVE FlightInv'
  <2>1. /\ x \in atDevice \cup completing /\ toBack' = toBack
        /\ (atDevice \cup completing)' = (atDevice \cup completing) \ {x}
        /\ atDevice' \subseteq atDevice /\ completing' \subseteq completing
        /\ toFront' = Append(toFront, x.id)
    BY <1>3, <1>9 DEF Kills, Ends
  <2>2. x.id \in Shadows /\ Served(x.id)
    BY <1>1, <2>1 DEF Served
  <2>3. ~Sending(x.id) /\ ~Answered(x.id)
    BY <1>3, <2>2
  <2>4. IsInjective(toFront') /\ ToSet(toFront') = ToSet(toFront) \cup {x.id}
    BY <1>1, <1>3, <2>1, <2>2, <2>3, AppendSet DEF Answered
  <2>5. ASSUME NEW i \in Shadows PROVE Apart(i)'
    <3>1. /\ (Sending(i))' <=> Sending(i)
          /\ (Answered(i))' <=> Answered(i) \/ x.id = i
      BY <2>1, <2>4 DEF Sending, Answered
    <3>2. (Served(i))' => Served(i) /\ x.id # i
      BY <1>3, <2>1 DEF Served
    <3> QED BY <1>3, <2>2, <2>3, <3>1, <3>2
  <2>6. BackApart' /\ DeviceApart'
    BY <1>3, <2>1
  <2> QED BY <1>2, <2>4, <2>5, <2>6
<1>10. ASSUME NEW x, Completes(x) PROVE FlightInv'
  <2>1. /\ (atDevice \cup completing)' = atDevice \cup completing
        /\ atDevice' = atDevice \ {x} /\ completing' = completing \cup {x}
        /\ toBack' = toBack /\ toFront' = toFront
    BY <1>10 DEF Completes
  <2>2. DeviceApart' /\ BackApart'
    BY <1>3, <2>1
  <2>3. ASSUME NEW i \in Shadows PROVE Apart(i)'
    BY <1>3, <2>1 DEF Served, Sending, Answered
  <2> QED BY <1>2, <1>3, <2>1, <2>2, <2>3
<1> QED BY <1>4, <1>5, <1>6, <1>7, <1>8, <1>9, <1>10, PutRequest, BehindMoves

\* The lists and what they hold, by type.
LEMMA ListTypesStep ==
    ASSUME FrontInv, Next
    PROVE  ListTypes' /\ tmp' \in [Tasks -> Seq(Urbs)]
<1>1. /\ ListTypes /\ tmp \in [Tasks -> Seq(Urbs)] /\ freeList \in Seq(Shadows)
      /\ pendingList \in Seq(Urbs) /\ finishList \in Seq(Urbs) /\ releaseList \in Seq(Urbs)
      /\ state \in [Urbs -> {"NEW", "SENT", "DONE", "CANCEL", "freed"}]
      /\ reqId \in [Urbs -> Shadows \cup {NoShadow}]
  BY DEF FrontInv, TypeOK, TaskTypes, ListTypes, RingTypes
<1>2. ASSUME UNCHANGED listVars PROVE ListTypes'
  BY <1>1, <1>2 DEF ListTypes, listVars
<1>3. ASSUME NEW u \in Urbs, EnqueueLink(u) \/ DequeueStart(u)
      PROVE  ListTypes' /\ tmp' \in [Tasks -> Seq(Urbs)]
  BY <1>1, <1>2, <1>3 DEF EnqueueLink, DequeueStart
<1>4. ASSUME NEW u \in Urbs, DequeueFind(u)
      PROVE  ListTypes' /\ tmp' \in [Tasks -> Seq(Urbs)]
  <2>1. tmp' = tmp
    BY <1>4 DEF DequeueFind
  <2>2. CASE /\ Pending(u) /\ pendingList' = RemoveFirst(pendingList, u)
             /\ releaseList' = Append(releaseList, u)
             /\ UNCHANGED <<finishList, state, reqId>>
    BY <1>1, <2>1, <2>2, PendingRemoved DEF ListTypes
  <2>3. CASE /\ state' = [state EXCEPT ![u] = "CANCEL"]
             /\ UNCHANGED <<pendingList, releaseList, finishList, reqId>>
    BY <1>1, <2>1, <2>3 DEF ListTypes
  <2> QED BY <1>1, <1>2, <1>4, <2>1, <2>2, <2>3 DEF DequeueFind, Pending
<1>5. CASE WorkRun \/ GrantAvailable
  BY <1>1, <1>2, <1>5 DEF WorkRun, GrantAvailable, taskVars
<1>6. ASSUME FinishAll, reqId' = reqId, pendingList' \in Seq(Urbs) PROVE ListTypes'
  <2>1. state' = [u \in Urbs |-> IF u \in ToSet(finishList) THEN "DONE" ELSE state[u]]
    BY <1>6 DEF FinishAll
  <2> QED BY <1>1, <1>6, <2>1, FinishAllMoves DEF ListTypes
<1>7. ASSUME NEW t \in Tasks, ProcessBegin(t)
      PROVE  ListTypes' /\ tmp' \in [Tasks -> Seq(Urbs)]
  <2>1. /\ FinishAll /\ reqId' = reqId /\ tmp' = tmp
        /\ pendingList' = IF t[1] = "enqueue" THEN Append(pendingList, t[2]) ELSE pendingList
    BY <1>7 DEF ProcessBegin
  <2>2. t[1] = "enqueue" => t[2] \in Urbs
    BY TaskFacts
  <2> QED BY <1>1, <1>6, <2>1, <2>2
<1>8. ASSUME NEW t \in Tasks, Send(t)
      PROVE  ListTypes' /\ tmp' \in [Tasks -> Seq(Urbs)]
  <2>1. PICK u \in Urbs : \/ SendSkip(t, u) \/ SendUrb(t, u) \/ SendAgain(t, u)
                          \/ SendBusy(t, u) \/ SendImmediate(t, u)
    BY <1>8 DEF Send
  <2>2. tmp' = tmp /\ finishList' = finishList
    BY <1>8, SendFrame
  <2>3. CASE SendSkip(t, u) \/ SendAgain(t, u)
    BY <1>1, <1>2, <2>2, <2>3 DEF SendSkip, SendAgain
  <2>4. CASE SendUrb(t, u) \/ SendBusy(t, u)
    <3>1. UrbHasRoom /\ reqId' = [reqId EXCEPT ![u] = TopShadow]
          /\ pendingList' = pendingList /\ releaseList' = releaseList
          /\ state' \in {state, [state EXCEPT ![u] = "SENT"]}
      BY <2>4 DEF SendUrb, SendBusy
    <3>2. TopShadow \in Shadows
      BY <1>1, <3>1, FrontSet DEF UrbHasRoom, TopShadow
    <3> QED BY <1>1, <2>2, <3>1, <3>2 DEF ListTypes
  <2>5. CASE SendImmediate(t, u)
    <3>1. /\ NextToSend(t, u) /\ pendingList' = RemoveFirst(pendingList, u)
          /\ releaseList' = Append(releaseList, u) /\ reqId' = reqId
          /\ state' = [state EXCEPT ![u] = "DONE"]
      BY <2>5 DEF SendImmediate
    <3> QED BY <1>1, <2>2, <3>1, NextIsPending, PendingRemoved DEF ListTypes
  <2> QED BY <2>1, <2>3, <2>4, <2>5
<1>9. ASSUME NEW t \in Tasks, ProcessEnd(t)
      PROVE  ListTypes' /\ tmp' \in [Tasks -> Seq(Urbs)]
  <2>1. /\ pendingList' = pendingList /\ finishList' = finishList /\ state' = state
        /\ reqId' = reqId
    BY <1>9 DEF ProcessEnd
  <2>2. releaseList' \in Seq(Urbs) /\ tmp' \in [Tasks -> Seq(Urbs)]
    <3>1. CASE releaseList # << >>
      <4>1. tmp' = [tmp EXCEPT ![t] = releaseList] /\ releaseList' = << >>
        BY <1>9, <3>1 DEF ProcessEnd
      <4> QED BY <1>1, <4>1
    <3>2. CASE releaseList = << >>
      BY <1>1, <1>9, <3>2 DEF ProcessEnd
    <3> QED BY <3>1, <3>2
  <2> QED BY <1>1, <2>1, <2>2 DEF ListTypes
<1>10. ASSUME NEW t \in Tasks, ProcessRelease(t)
       PROVE  ListTypes' /\ tmp' \in [Tasks -> Seq(Urbs)]
  <2>1. /\ tmp' = [tmp EXCEPT ![t] = << >>] /\ ReleaseUrbs(ToSet(tmp[t]))
        /\ pendingList' = pendingList /\ finishList' = finishList /\ releaseList' = releaseList
    BY <1>10 DEF ProcessRelease
  <2> QED BY <1>1, <2>1 DEF ListTypes, ReleaseUrbs
<1>11. CASE Interrupt
  <2>1. tmp' = tmp /\ releaseList' = releaseList /\ state' = state /\ reqId' = reqId
    BY <1>11, IrqFrame
  <2>2. CASE IrqConsume
    <3>1. CASE shadow[Head(toFront)].use \in Commands
      BY <1>1, <1>2, <2>1, <2>2, <3>1 DEF IrqConsume
    <3>2. CASE shadow[Head(toFront)].use \notin Commands
      <4>1. /\ toFront # << >> /\ ipc = "consume"
            /\ pendingList' = RemoveFirst(pendingList, shadow[Head(toFront)].urb)
            /\ finishList' = Append(finishList, shadow[Head(toFront)].urb)
        BY <2>2, <3>2 DEF IrqConsume
      <4>2. PICK u \in Urbs : u = shadow[Head(toFront)].urb /\ Pending(u)
        BY <3>2, <4>1, ResponseOfPending, ConsumingBeforeGone
      <4> QED BY <1>1, <2>1, <4>1, <4>2, PendingRemoved DEF ListTypes
    <3> QED BY <3>1, <3>2
  <2>3. CASE ~IrqConsume
    BY <1>1, <1>2, <1>11, <2>1, <2>3 DEF Interrupt, IrqEnter, IrqGate, IrqExit
  <2> QED BY <2>2, <2>3
<1>12. CASE PortReset \/ PortWork \/ Behind
  BY <1>1, <1>12, PortFrame, BackFrame DEF ListTypes
<1>13. CASE Xenwatch
  <2>1. tmp' = tmp
    BY <1>13, XenFrame
  <2>2. CASE DestroyFinish
    BY <1>1, <2>1, <2>2, FinishOneMoves DEF DestroyFinish, ListTypes
  <2>3. CASE DestroyRelease
    BY <1>1, <2>1, <2>3 DEF DestroyRelease, ReleaseUrbs, ListTypes
  <2>4. CASE ~DestroyFinish /\ ~DestroyRelease
    BY <1>1, <1>2, <1>13, <2>1, <2>4 DEF Xenwatch, StartDevice, DestroyBegin, Destroy,
       HaltRflush, HaltWait, DestroyStop, DestroyFree, DestroyUnbind
  <2> QED BY <2>2, <2>3, <2>4
<1> QED BY <1>3, <1>4, <1>5, <1>7, <1>8, <1>9, <1>10, <1>11, <1>12, <1>13, Steps

\* A shadow is in use as long as its request is in flight or its URB waits to
\* be finished.
LEMMA UseStep ==
    ASSUME FrontInv, Effect, finishList' \in Seq(Urbs)
    PROVE  UseInv'
<1> SUFFICES ASSUME xpc' # "gone" PROVE UseInv'
  BY DEF UseInv
<1>1. /\ toBack \in Seq(Request) /\ toFront \in Seq(Shadows) /\ shadow \in [Shadows -> Shadow]
      /\ \A x \in atDevice \cup completing : x.id \in Shadows
      /\ \A k \in DOMAIN toBack : toBack[k].id \in Shadows
      /\ FlightInv
  <2>1. /\ toBack \in Seq(Request) /\ toFront \in Seq(Shadows) /\ FlightInv
        /\ shadow \in [Shadows -> Shadow]
        /\ atDevice \cup completing \in SUBSET [id : Shadows, urb : Urbs]
    BY DEF FrontInv, TypeOK, RingTypes
  <2>2. \A k \in DOMAIN toBack : toBack[k] \in Request
    BY <2>1
  <2> QED BY <2>1, <2>2 DEF Request
<1>2. ~Finishing(NoUrb) /\ ~(Finishing(NoUrb))'
  <2>1. NoUrb \notin Urbs /\ finishList \in Seq(Urbs)
    BY FrontAssumption DEF FrontInv, TypeOK, ListTypes
  <2> QED BY <2>1 DEF Finishing, ToSet
<1> DEFINE Flying(i) == Sending(i) \/ Served(i) \/ Answered(i)
           Uses(i) == Flying(i) <=> shadow[i].use # "free" /\ ~Finishing(shadow[i].urb)
           Says(k) == /\ shadow[toBack[k].id].use = toBack[k].type
                      /\ toBack[k].type = "urb" => shadow[toBack[k].id].urb = toBack[k].urb
           Serves(x) == shadow[x.id] = [use |-> "urb", urb |-> x.urb]
           All == /\ \A i \in Shadows : Uses(i)
                  /\ \A k \in DOMAIN toBack : Says(k)
                  /\ \A x \in atDevice \cup completing : Serves(x)
<1>3. (UseInv <=> (xpc # "gone" => All)) /\ (UseInv' <=> (xpc' # "gone" => All'))
  BY DEF UseInv
<1>4. /\ xpc # "gone" => All
      /\ xpc # "gone" => \A i \in Shadows :
           /\ i \in ToSet(freeList) <=> shadow[i].use = "free"
           /\ shadow[i].use # "urb" => shadow[i].urb = NoUrb
           /\ shadow[i].use = "urb" =>
                  shadow[i].urb \in Urbs /\ Sent(shadow[i].urb) /\ reqId[shadow[i].urb] = i
  BY <1>3 DEF FrontInv, ShadowInv
<1>5. ASSUME xpc # "gone", NEW i \in Shadows
      PROVE  shadow[i].urb \in Urbs \cup {NoUrb}
  BY <1>4, <1>5
<1>6. CASE Quiet
  <2>1. /\ xpc # "gone" /\ shadow' = shadow /\ QueuesSame /\ SentSame
    BY <1>6 DEF Quiet
  <2>2. ASSUME NEW i \in Shadows PROVE Uses(i)'
    BY <1>2, <1>4, <1>5, <2>1 DEF SentSame, QueuesSame, Sending, Served, Answered
  <2> QED BY <1>3, <1>4, <2>1, <2>2 DEF QueuesSame
<1>7. ASSUME NEW c \in Commands, NEW j \in Shadows \cup {NoShadow}, NEW v \in Urbs \cup {NoUrb},
             PutsInternal(c, j, v)
      PROVE  UseInv'
  <2>1. PICK p : p = TopShadow
    OBVIOUS
  <2>2. /\ p \in Shadows /\ ~Sending(p) /\ ~Served(p)
        /\ \A i \in Shadows : shadow'[i] = IF i = p THEN [use |-> c, urb |-> NoUrb] ELSE shadow[i]
    BY <1>7, <2>1, ShadowGot DEF PutsInternal, PutInternalRequest, Up
  <2>3. PICK r \in Request : /\ r.id = p /\ r.type = c /\ toBack' = Append(toBack, r)
    <3> DEFINE r == [id |-> p, type |-> c, cancelId |-> j, urb |-> v]
    <3>1. r \in Request /\ r.id = p /\ r.type = c /\ toBack' = Append(toBack, r)
      BY <1>7, <2>1, <2>2 DEF PutsInternal, PutInternalRequest, Request
    <3> QED BY <3>1
  <2>4. xpc # "gone" /\ SentSame /\ UNCHANGED <<atDevice, completing, toFront>>
    BY <1>7 DEF PutsInternal, Up
  <2>5. c # "urb" /\ c # "free" /\ shadow'[p].use = c /\ shadow'[p].urb = NoUrb
    BY <2>2 DEF Commands
  <2>6. \A i : /\ (Sending(i))' <=> Sending(i) \/ i = p
               /\ (Served(i))' <=> Served(i)
               /\ (Answered(i))' <=> Answered(i)
    BY <1>1, <2>3, <2>4, RequestPut DEF Served, Answered
  <2>7. ASSUME NEW i \in Shadows PROVE Uses(i)'
    <3>1. CASE i = p
      BY <1>2, <2>5, <2>6, <3>1
    <3>2. CASE i # p
      BY <1>2, <1>4, <1>5, <2>2, <2>4, <2>6, <3>2 DEF SentSame
    <3> QED BY <3>1, <3>2
  <2>8. ASSUME NEW k \in DOMAIN toBack' PROVE Says(k)'
    <3>1. CASE k \in DOMAIN toBack
      <4>1. toBack'[k] = toBack[k] /\ toBack[k].id # p /\ toBack[k].id \in Shadows
        BY <1>1, <2>2, <2>3, <3>1, RequestPut DEF Sending
      <4> QED BY <1>4, <2>2, <2>4, <3>1, <4>1
    <3>2. CASE k \notin DOMAIN toBack
      <4>1. toBack'[k] = r
        BY <1>1, <2>3, <3>2, RequestPut
      <4> QED BY <2>3, <2>5, <4>1
    <3> QED BY <3>1, <3>2
  <2>9. ASSUME NEW x \in atDevice \cup completing PROVE Serves(x)'
    <3>1. x.id # p /\ x.id \in Shadows
      BY <1>1, <2>2 DEF Served
    <3> QED BY <1>4, <2>2, <2>4, <3>1
  <2> QED BY <1>3, <2>4, <2>7, <2>8, <2>9
<1>8. ASSUME NEW u \in Urbs, PutsUrb(u) PROVE UseInv'
  <2>1. PICK p : p = TopShadow
    OBVIOUS
  <2>2. /\ p \in Shadows /\ ~Sending(p) /\ ~Served(p)
        /\ \A i \in Shadows : shadow'[i] = IF i = p THEN [use |-> "urb", urb |-> u] ELSE shadow[i]
    BY <1>8, <2>1, ShadowGot DEF PutsUrb, Up
  <2>3. PICK r \in Request : /\ r.id = p /\ r.type = "urb" /\ r.urb = u
                             /\ toBack' = Append(toBack, r)
    <3> DEFINE r == [id |-> p, type |-> "urb", cancelId |-> NoShadow, urb |-> u]
    <3>1. r \in Request /\ r.id = p /\ r.type = "urb" /\ r.urb = u /\ toBack' = Append(toBack, r)
      BY <1>8, <2>1, <2>2 DEF PutsUrb, Request
    <3> QED BY <3>1
  <2>4. /\ xpc # "gone" /\ UNCHANGED <<atDevice, completing, toFront>>
        /\ ~Finishing(u) /\ \A v \in Urbs : (Finishing(v))' <=> Finishing(v)
    BY <1>8 DEF PutsUrb, Up, Sent
  <2>5. shadow'[p].use = "urb" /\ shadow'[p].urb = u
    BY <2>2
  <2>6. \A i : /\ (Sending(i))' <=> Sending(i) \/ i = p
               /\ (Served(i))' <=> Served(i)
               /\ (Answered(i))' <=> Answered(i)
    BY <1>1, <2>3, <2>4, RequestPut DEF Served, Answered
  <2>7. ASSUME NEW i \in Shadows PROVE Uses(i)'
    <3>1. CASE i = p
      <4>1. ~(Finishing(u))'
        BY <2>4
      <4>2. ~Finishing(u)' /\ (Flying(i))'
        BY <2>6, <3>1, <4>1
      <4> QED BY <2>5, <3>1, <4>2 DEF Finishing
    <3>2. CASE i # p
      BY <1>2, <1>4, <1>5, <2>2, <2>4, <2>6, <3>2
    <3> QED BY <3>1, <3>2
  <2>8. ASSUME NEW k \in DOMAIN toBack' PROVE Says(k)'
    <3>1. CASE k \in DOMAIN toBack
      <4>1. toBack'[k] = toBack[k] /\ toBack[k].id # p /\ toBack[k].id \in Shadows
        BY <1>1, <2>2, <2>3, <3>1, RequestPut DEF Sending
      <4> QED BY <1>4, <2>2, <2>4, <3>1, <4>1
    <3>2. CASE k \notin DOMAIN toBack
      <4>1. toBack'[k] = r
        BY <1>1, <2>3, <3>2, RequestPut
      <4> QED BY <2>3, <2>5, <4>1
    <3> QED BY <3>1, <3>2
  <2>9. ASSUME NEW x \in atDevice \cup completing PROVE Serves(x)'
    <3>1. x.id # p /\ x.id \in Shadows
      BY <1>1, <2>2 DEF Served
    <3> QED BY <1>4, <2>2, <2>4, <3>1
  <2> QED BY <1>3, <2>4, <2>7, <2>8, <2>9
<1>9. ASSUME NEW p \in Shadows, toFront # << >>, p = Head(toFront), toFront' = Tail(toFront),
             UNCHANGED <<toBack, atDevice, completing>>
      PROVE  /\ ~Sending(p) /\ ~Served(p)
             /\ \A i : /\ (Sending(i))' <=> Sending(i)
                       /\ (Served(i))' <=> Served(i)
                       /\ (Answered(i))' <=> Answered(i) /\ i # p
  <2>1. /\ ToSet(toFront) = ToSet(toFront') \cup {p} /\ p \notin ToSet(toFront')
    BY <1>1, <1>9, TailSet DEF FlightInv
  <2>2. Answered(p)
    BY <2>1 DEF Answered
  <2> QED BY <1>1, <1>9, <2>1, <2>2 DEF FlightInv, Sending, Served, Answered
<1>10. ASSUME NEW p \in Shadows, ConsumesInternal(p) PROVE UseInv'
  <2>1. /\ xpc # "gone" /\ toFront # << >> /\ p = Head(toFront) /\ toFront' = Tail(toFront)
        /\ SentSame /\ UNCHANGED <<toBack, atDevice, completing>>
        /\ shadow' = [shadow EXCEPT ![p] = FreeShadow]
    BY <1>10 DEF ConsumesInternal, Up
  <2>2. \A i \in Shadows : shadow'[i] = IF i = p THEN FreeShadow ELSE shadow[i]
    BY <1>1, <2>1
  <2>3. ASSUME NEW i \in Shadows PROVE Uses(i)'
    <3>1. CASE i = p
      BY <1>9, <2>1, <2>2, <3>1 DEF FreeShadow
    <3>2. CASE i # p
      BY <1>2, <1>4, <1>5, <1>9, <2>1, <2>2, <3>2 DEF SentSame
    <3> QED BY <3>1, <3>2
  <2>4. ASSUME NEW k \in DOMAIN toBack' PROVE Says(k)'
    <3>1. toBack'[k] = toBack[k] /\ toBack[k].id # p /\ toBack[k].id \in Shadows
      BY <1>1, <1>9, <2>1 DEF Sending
    <3> QED BY <1>4, <2>1, <2>2, <3>1
  <2>5. ASSUME NEW x \in atDevice \cup completing PROVE Serves(x)'
    <3>1. x.id # p /\ x.id \in Shadows
      BY <1>1, <1>9, <2>1 DEF Served
    <3> QED BY <1>4, <2>1, <2>2, <3>1
  <2> QED BY <1>3, <2>1, <2>3, <2>4, <2>5
<1>11. ASSUME NEW p \in Shadows, NEW u \in Urbs, ConsumesUrb(p, u) PROVE UseInv'
  <2>1. /\ xpc # "gone" /\ toFront # << >> /\ p = Head(toFront) /\ toFront' = Tail(toFront)
        /\ shadow' = shadow /\ UNCHANGED <<toBack, atDevice, completing>>
        /\ shadow[p].use = "urb" /\ shadow[p].urb = u /\ (Finishing(u))'
        /\ \A v \in Urbs : v # u => ((Finishing(v))' <=> Finishing(v))
    BY <1>11 DEF ConsumesUrb, Up
  <2>2. ASSUME NEW i \in Shadows PROVE Uses(i)'
    <3>1. CASE i = p
      <4>1. ~(Flying(i))'
        BY <1>9, <2>1, <3>1
      <4>2. (Finishing(shadow[i].urb))'
        BY <2>1, <3>1 DEF Finishing
      <4> QED BY <4>1, <4>2
    <3>2. CASE i # p
      <4>1. shadow[i].urb # u
        BY <1>4, <2>1, <3>2, FrontAssumption
      <4>2. (Finishing(shadow[i].urb))' <=> Finishing(shadow[i].urb)
        BY <1>2, <1>5, <2>1, <4>1 DEF Finishing
      <4> QED BY <1>4, <1>9, <2>1, <3>2, <4>2
    <3> QED BY <3>1, <3>2
  <2> QED BY <1>3, <1>4, <2>1, <2>2
<1>12. CASE Finishes
  <2>1. /\ xpc # "gone" /\ FinishAll /\ QueuesSame
        /\ \A u \in Urbs : ~(Finishing(u))'
    BY <1>12 DEF Finishes, Up
  <2> DEFINE Done(i) == \E u \in Urbs : Finishing(u) /\ reqId[u] = i
  <2>2. \A i \in Shadows : shadow'[i] = IF Done(i) THEN FreeShadow ELSE shadow[i]
    BY <2>1, ShadowsPutBack
  <2>3. \A i : ((Flying(i))' <=> Flying(i))
    BY <2>1 DEF QueuesSame, Sending, Served, Answered
  <2>4. ASSUME NEW i \in Shadows, Done(i) PROVE ~Flying(i)
    <3>1. PICK u \in Urbs : Finishing(u) /\ reqId[u] = i
      BY <2>4
    <3>2. shadow[i].urb = u
      BY <2>1, <3>1, ShadowOfSent DEF Sent
    <3> QED BY <1>4, <2>1, <3>1, <3>2
  <2>5. ASSUME NEW i \in Shadows, ~Done(i), shadow[i].use # "free" PROVE Flying(i)
    <3>1. ~Finishing(shadow[i].urb)
      BY <1>2, <1>4, <2>1, <2>5
    <3> QED BY <1>4, <2>1, <2>5, <3>1
  <2>6. ASSUME NEW i \in Shadows PROVE Uses(i)'
    <3>1. CASE Done(i)
      BY <2>2, <2>3, <2>4, <3>1 DEF FreeShadow
    <3>2. CASE ~Done(i)
      <4>1. shadow'[i] = shadow[i]
        BY <2>2, <3>2
      <4>2. ~(Finishing(shadow[i].urb))'
        BY <1>2, <1>5, <2>1, <4>1 DEF Finishing
      <4> QED BY <1>4, <2>1, <2>3, <2>5, <3>2, <4>1, <4>2
    <3> QED BY <3>1, <3>2
  <2> HIDE DEF Done
  <2>7. ASSUME NEW k \in DOMAIN toBack' PROVE Says(k)'
    <3>1. toBack' = toBack /\ Sending(toBack[k].id) /\ toBack[k].id \in Shadows
      BY <1>1, <2>1 DEF Sending, QueuesSame
    <3>2. ~Done(toBack[k].id)
      BY <2>4, <3>1
    <3> QED BY <1>4, <2>1, <2>2, <3>1, <3>2
  <2>8. ASSUME NEW x \in atDevice \cup completing PROVE Serves(x)'
    <3>1. Served(x.id) /\ x.id \in Shadows
      BY <1>1 DEF Served
    <3>2. ~Done(x.id)
      BY <2>4, <3>1
    <3> QED BY <1>4, <2>1, <2>2, <3>1, <3>2
  <2> QED BY <1>3, <2>1, <2>6, <2>7, <2>8 DEF QueuesSame
<1>14. ASSUME NEW u \in Urbs, FinishesOne(u) PROVE UseInv'
  <2>1. PICK p : p = reqId[u]
    OBVIOUS
  <2>2. /\ xpc # "gone" /\ QueuesSame /\ Finishing(u)
        /\ shadow' = [shadow EXCEPT ![p] = FreeShadow]
        /\ \A v \in Urbs : (Finishing(v))' <=> Finishing(v) /\ v # u
    BY <1>14, <2>1 DEF FinishesOne, Up
  <2>3. p \in Shadows /\ shadow[p].use = "urb" /\ shadow[p].urb = u
    BY <2>1, <2>2, ShadowOfSent DEF Sent
  <2>4. \A i \in Shadows : shadow'[i] = IF i = p THEN FreeShadow ELSE shadow[i]
    BY <1>1, <2>2
  <2>5. \A i : ((Flying(i))' <=> Flying(i))
    BY <2>2 DEF QueuesSame, Sending, Served, Answered
  <2>6. ~Flying(p)
    BY <1>4, <2>2, <2>3
  <2>7. ASSUME NEW i \in Shadows PROVE Uses(i)'
    <3>1. CASE i = p
      BY <2>4, <2>5, <2>6, <3>1 DEF FreeShadow
    <3>2. CASE i # p
      <4>1. shadow'[i] = shadow[i]
        BY <2>4, <3>2
      <4>2. shadow[i].urb # u
        BY <1>4, <2>1, <2>2, <3>2, FrontAssumption
      <4>3. PICK w \in Urbs \cup {NoUrb} : w = shadow[i].urb
        BY <1>5, <2>2
      <4>4. (Finishing(w))' <=> Finishing(w)
        BY <1>2, <2>2, <4>2, <4>3
      <4>5. (Finishing(shadow[i].urb))' <=> Finishing(shadow[i].urb)
        BY <4>1, <4>3, <4>4 DEF Finishing
      <4> QED BY <1>4, <2>2, <2>5, <4>1, <4>5
    <3> QED BY <3>1, <3>2
  <2>8. ASSUME NEW k \in DOMAIN toBack' PROVE Says(k)'
    <3>1. toBack' = toBack /\ Sending(toBack[k].id) /\ toBack[k].id \in Shadows
      BY <1>1, <2>2, <2>8 DEF Sending, QueuesSame
    <3>2. toBack[k].id # p
      BY <2>6, <3>1
    <3> QED BY <1>4, <2>2, <2>4, <3>1, <3>2
  <2>9. ASSUME NEW x \in atDevice \cup completing PROVE Serves(x)'
    <3>1. Served(x.id) /\ x.id \in Shadows
      BY <1>1, <2>9 DEF Served
    <3>2. x.id # p
      BY <2>6, <3>1
    <3> QED BY <1>4, <2>2, <2>4, <3>1, <3>2
  <2> QED BY <1>3, <2>2, <2>7, <2>8, <2>9 DEF QueuesSame
<1>13. CASE Behind
  <2>1. xpc # "gone" /\ shadow' = shadow /\ finishList' = finishList
    BY <1>13, BackFrame
  <2>2. ASSUME \A i \in Shadows : ((Flying(i))' <=> Flying(i)), NEW i \in Shadows
        PROVE  Uses(i)'
    BY <1>4, <2>1, <2>2 DEF Finishing
  <2>3. ASSUME NEW h, Takes(h) PROVE UseInv'
    <3>1. /\ toBack # << >> /\ h = Head(toBack) /\ h.type = "urb" /\ toBack' = Tail(toBack)
          /\ completing' = completing /\ toFront' = toFront
      BY <2>3 DEF Takes
    <3>2. PICK n : n = [id |-> h.id, urb |-> h.urb]
      OBVIOUS
    <3>3. n.id = h.id /\ n.urb = h.urb /\ atDevice' = atDevice \cup {n}
      BY <2>3, <3>2 DEF Takes
    <3>4. /\ h \in Request /\ Sending(h.id) /\ 1 \in DOMAIN toBack /\ toBack[1] = h
          /\ \A k \in DOMAIN toBack' :
               k \in Nat /\ k + 1 \in DOMAIN toBack /\ toBack'[k] = toBack[k + 1]
          /\ \A i : (Sending(i))' <=> Sending(i) /\ h.id # i
      BY <1>1, <3>1, RequestTaken DEF FlightInv
    <3>5. \A i : /\ (Served(i))' <=> Served(i) \/ h.id = i
                 /\ (Answered(i))' <=> Answered(i)
      BY <3>1, <3>3 DEF Served, Answered
    <3>6. \A i \in Shadows : ((Flying(i))' <=> Flying(i))
      BY <3>4, <3>5
    <3>7. Serves(n)
      <4>1. shadow[h.id].use = "urb" /\ shadow[h.id].urb = h.urb /\ h.id \in Shadows
        BY <1>4, <2>1, <3>1, <3>4 DEF Request
      <4>2. shadow[h.id] \in Shadow
        BY <1>1, <4>1
      <4> QED BY <3>3, <4>1, <4>2 DEF Shadow
    <3>8. ASSUME NEW k \in DOMAIN toBack' PROVE Says(k)'
      BY <1>4, <2>1, <3>4
    <3>9. ASSUME NEW x \in (atDevice \cup completing)' PROVE Serves(x)'
      <4>1. Serves(x)
        BY <1>4, <2>1, <3>1, <3>3, <3>7
      <4> QED BY <2>1, <4>1
    <3> QED BY <1>3, <2>2, <3>6, <3>8, <3>9
  <2>4. ASSUME NEW h, Echoes(h) PROVE UseInv'
    <3>1. /\ toBack # << >> /\ h = Head(toBack) /\ toBack' = Tail(toBack)
          /\ completing' = completing /\ atDevice' = atDevice
          /\ toFront' = Append(toFront, h.id)
      BY <2>4 DEF Echoes
    <3>2. /\ h \in Request /\ Sending(h.id)
          /\ \A k \in DOMAIN toBack' :
               k \in Nat /\ k + 1 \in DOMAIN toBack /\ toBack'[k] = toBack[k + 1]
          /\ \A i : (Sending(i))' <=> Sending(i) /\ h.id # i
      BY <1>1, <3>1, RequestTaken DEF FlightInv
    <3>3. \A i : /\ (Served(i))' <=> Served(i)
                 /\ (Answered(i))' <=> Answered(i) \/ h.id = i
      BY <1>1, <3>1, <3>2, AppendSet DEF Served, Answered, Request
    <3>4. \A i \in Shadows : ((Flying(i))' <=> Flying(i))
      BY <3>2, <3>3
    <3>5. ASSUME NEW k \in DOMAIN toBack' PROVE Says(k)'
      BY <1>4, <2>1, <3>2
    <3>6. ASSUME NEW x \in (atDevice \cup completing)' PROVE Serves(x)'
      BY <1>4, <2>1, <3>1
    <3> QED BY <1>3, <2>2, <3>4, <3>5, <3>6
  <2>5. ASSUME NEW x, Kills(x) \/ Ends(x) PROVE UseInv'
    <3>1. /\ x \in atDevice \cup completing /\ toBack' = toBack
          /\ (atDevice \cup completing)' = (atDevice \cup completing) \ {x}
          /\ toFront' = Append(toFront, x.id)
      BY <1>1, <2>5 DEF Kills, Ends, FlightInv
    <3>2. x.id \in Shadows
      BY <1>1, <3>1
    <3>3. \A i : /\ (Sending(i))' <=> Sending(i)
                 /\ (Answered(i))' <=> Answered(i) \/ x.id = i
      BY <1>1, <3>1, <3>2, AppendSet DEF Sending, Answered
    <3>4. \A i : /\ (Served(i))' => Served(i)
                 /\ Served(i) => (Served(i))' \/ x.id = i
      BY <3>1 DEF Served
    <3>5. Served(x.id)
      BY <3>1 DEF Served
    <3>6. \A i \in Shadows : ((Flying(i))' <=> Flying(i))
      BY <3>3, <3>4, <3>5
    <3>7. ASSUME NEW y \in (atDevice \cup completing)' PROVE Serves(y)'
      BY <1>4, <2>1, <3>1
    <3> QED BY <1>3, <1>4, <2>1, <2>2, <3>1, <3>6, <3>7
  <2>6. ASSUME NEW x, Completes(x) PROVE UseInv'
    <3>1. /\ (atDevice \cup completing)' = atDevice \cup completing
          /\ toBack' = toBack /\ toFront' = toFront
      BY <2>6 DEF Completes
    <3>2. \A i \in Shadows : ((Flying(i))' <=> Flying(i))
      BY <3>1 DEF Sending, Served, Answered
    <3> QED BY <1>3, <1>4, <2>1, <2>2, <3>1, <3>2
  <2> QED BY <1>13, <2>3, <2>4, <2>5, <2>6, BehindMoves
<1> QED BY <1>6, <1>7, <1>8, <1>10, <1>11, <1>12, <1>13, <1>14 DEF Effect, GoesAway

\* A cancel request finds the URB it is for.
LEMMA CancelStep ==
    ASSUME FrontInv, Effect
    PROVE  CancelInv'
<1>1. /\ CancelInv /\ FlightInv /\ toBack \in Seq(Request)
  BY DEF FrontInv, TypeOK, RingTypes
<1>2. ASSUME NEW r \in Request, xpc # "gone",
             toBack' = Append(toBack, r), UNCHANGED <<atDevice, completing, toFront>>,
             r.type = "cancel" => r.urb \in Urbs /\ Sent(r.urb) /\ reqId[r.urb] = r.cancelId
      PROVE  CancelInv'
  <2>1. /\ Len(toBack) \in Nat
        /\ DOMAIN toBack = 1 .. Len(toBack) /\ DOMAIN toBack' = 1 .. Len(toBack) + 1
        /\ \A k \in DOMAIN toBack : toBack'[k] = toBack[k]
        /\ toBack'[Len(toBack) + 1] = r
    BY <1>1, <1>2, RequestPut
  <2> SUFFICES ASSUME NEW k \in DOMAIN toBack', toBack'[k].type = "cancel"
               PROVE  /\ \A x \in atDevice' : x.id = toBack'[k].cancelId => x.urb = toBack'[k].urb
                      /\ \A j \in DOMAIN toBack' :
                           j < k /\ toBack'[j].type = "urb" /\ toBack'[j].id = toBack'[k].cancelId =>
                               toBack'[j].urb = toBack'[k].urb
    BY DEF CancelInv
  <2>2. CASE k \in DOMAIN toBack
    BY <1>1, <1>2, <2>1, <2>2 DEF CancelInv
  <2>3. CASE k \notin DOMAIN toBack
    <3>1. toBack'[k] = r /\ \A j \in DOMAIN toBack' : j < k => j \in DOMAIN toBack
      BY <2>1, <2>3
    <3>2. shadow[r.cancelId].urb = r.urb
      BY <1>2, <3>1, ShadowOfSent
    <3>3. ASSUME NEW x \in atDevice, x.id = r.cancelId PROVE x.urb = r.urb
      <4>1. shadow[x.id] = [use |-> "urb", urb |-> x.urb]
        BY <1>2 DEF FrontInv, UseInv
      <4>2. shadow[x.id].urb = x.urb
        BY <4>1
      <4> QED BY <3>2, <3>3, <4>2
    <3>4. ASSUME NEW j \in DOMAIN toBack, toBack[j].type = "urb", toBack[j].id = r.cancelId
          PROVE  toBack[j].urb = r.urb
      BY <1>2, <3>2, <3>4 DEF FrontInv, UseInv
    <3> QED BY <1>2, <2>1, <3>1, <3>3, <3>4
  <2> QED BY <2>2, <2>3
<1>3. CASE toBack' = toBack /\ atDevice' \subseteq atDevice
  BY <1>1, <1>3 DEF CancelInv
<1>4. ASSUME NEW h, Takes(h) \/ Echoes(h) PROVE CancelInv'
  <2>1. /\ toBack # << >> /\ h = Head(toBack) /\ toBack' = Tail(toBack)
    BY <1>4 DEF Takes, Echoes
  <2>2. /\ 1 \in DOMAIN toBack /\ toBack[1] = h
        /\ \A k \in DOMAIN toBack' :
             k \in 1 .. Len(toBack) /\ k + 1 \in DOMAIN toBack /\ toBack'[k] = toBack[k + 1]
        /\ Len(toBack) \in Nat
    BY <1>1, <2>1, RequestTaken DEF FlightInv
  <2>3. ASSUME NEW x \in atDevice'
        PROVE  x \in atDevice \/ (h.type = "urb" /\ x.id = h.id /\ x.urb = h.urb)
    BY <1>4 DEF Takes, Echoes
  <2> SUFFICES ASSUME NEW k \in DOMAIN toBack', toBack'[k].type = "cancel"
               PROVE  /\ \A x \in atDevice' : x.id = toBack'[k].cancelId => x.urb = toBack'[k].urb
                      /\ \A j \in DOMAIN toBack' :
                           j < k /\ toBack'[j].type = "urb" /\ toBack'[j].id = toBack'[k].cancelId =>
                               toBack'[j].urb = toBack'[k].urb
    BY DEF CancelInv
  <2>4. /\ k + 1 \in DOMAIN toBack /\ toBack'[k] = toBack[k + 1] /\ k \in Nat /\ 1 < k + 1
    BY <2>2
  <2>5. /\ \A x \in atDevice : x.id = toBack[k + 1].cancelId => x.urb = toBack[k + 1].urb
        /\ \A j \in DOMAIN toBack :
             j < k + 1 /\ toBack[j].type = "urb" /\ toBack[j].id = toBack[k + 1].cancelId =>
                 toBack[j].urb = toBack[k + 1].urb
    BY <1>1, <2>4 DEF CancelInv
  <2>6. ASSUME NEW x \in atDevice', x.id = toBack'[k].cancelId PROVE x.urb = toBack'[k].urb
    BY <2>2, <2>3, <2>4, <2>5, <2>6
  <2>7. ASSUME NEW j \in DOMAIN toBack', j < k, toBack'[j].type = "urb",
               toBack'[j].id = toBack'[k].cancelId
        PROVE  toBack'[j].urb = toBack'[k].urb
    <3>1. j + 1 \in DOMAIN toBack /\ toBack'[j] = toBack[j + 1] /\ j + 1 < k + 1
      BY <2>2, <2>4, <2>7
    <3> QED BY <2>4, <2>5, <2>7, <3>1
  <2> QED BY <2>6, <2>7
<1>5. ASSUME NEW x, Kills(x) \/ Completes(x) \/ Ends(x) PROVE CancelInv'
  BY <1>3, <1>5 DEF Kills, Completes, Ends
<1> QED BY <1>2, <1>3, <1>4, <1>5, PutRequest, BehindMoves DEF QueuesSame

-----------------------------------------------------------------------------
(* Types *)

\* The flags and program counters keep their types.
LEMMA FlagStep ==
    ASSUME FrontInv, Next
    PROVE  FlagTypes'
<1>1. /\ present \in BOOLEAN /\ closing \in BOOLEAN
      /\ resetPending \in BOOLEAN /\ resetDone \in BOOLEAN
      /\ evt \in BOOLEAN /\ sring \in {"mapped", "null"} /\ irqBound \in BOOLEAN
      /\ rflush \in BOOLEAN /\ speed \in BOOLEAN /\ grantWait \in BOOLEAN
      /\ work \in BOOLEAN /\ portWork \in BOOLEAN
      /\ ipc \in {"idle", "gate", "consume", "fault"} /\ iproc \in BOOLEAN
      /\ ppc \in {"idle", "put", "wait"}
      /\ xpc \in {"probed", "started", "speed", "connected", "rflush", "flushPort",
                  "flushWork", "drain", "stop", "finishMore", "finishLast", "free",
                  "unbind", "release", "gone"}
  BY DEF FrontInv, TypeOK, FlagTypes
<1> USE DEF portVars, listVars, shadowVars, ringVars, teardownVars, flagVars, workVars,
            taskVars, irqVars
<1>2. ASSUME NEW u \in Urbs, EnqueueLink(u) \/ DequeueStart(u) PROVE FlagTypes'
  BY <1>1, <1>2 DEF EnqueueLink, DequeueStart, FlagTypes
<1>3. ASSUME NEW u \in Urbs, DequeueFind(u) PROVE FlagTypes'
  <2>1. evt' = evt /\ work' \in BOOLEAN
    BY <1>1, <1>3 DEF DequeueFind, PutInternalRequest
  <2> QED BY <1>1, <1>3, <2>1 DEF DequeueFind, FlagTypes
<1>4. CASE WorkRun \/ GrantAvailable
  <2>1. /\ work' \in BOOLEAN /\ grantWait' \in BOOLEAN
        /\ UNCHANGED <<present, closing, resetPending, resetDone, evt, sring, irqBound,
                      rflush, speed, portWork, ipc, iproc, ppc, xpc>>
    <3>1. CASE WorkRun
      BY <1>1, <3>1 DEF WorkRun
    <3>2. CASE GrantAvailable
      BY <1>1, <3>2 DEF GrantAvailable
    <3> QED BY <1>4, <3>1, <3>2
  <2> QED BY <1>1, <2>1 DEF FlagTypes
<1>5. ASSUME NEW t \in Tasks, ProcessBegin(t) PROVE FlagTypes'
  <2>1. work' \in BOOLEAN
    BY <1>1, <1>5 DEF ProcessBegin
  <2> QED BY <1>1, <1>5, <2>1 DEF ProcessBegin, FlagTypes
<1>6. ASSUME NEW t \in Tasks, Send(t) PROVE FlagTypes'
  <2>1. work' \in BOOLEAN /\ grantWait' \in BOOLEAN
    BY <1>1, <1>6 DEF Send, SendSkip, SendUrb, SendAgain, SendBusy, SendImmediate
  <2> QED BY <1>1, <1>6, <2>1, SendFrame DEF FlagTypes
<1>7. ASSUME NEW t \in Tasks, ProcessEnd(t) \/ ProcessRelease(t) PROVE FlagTypes'
  BY <1>1, <1>7 DEF ProcessEnd, ProcessRelease, FlagTypes
<1>8. CASE Interrupt
  <2>1. CASE IrqEnter
    <3>1. iproc' \in BOOLEAN /\ evt' \in BOOLEAN /\ ipc' \in {"gate"}
      BY <1>1, <2>1 DEF IrqEnter, CanStart
    <3>2. UNCHANGED <<present, closing, resetPending, resetDone, sring, irqBound,
                      rflush, speed, grantWait, work, portWork, ppc, xpc>>
      BY <2>1 DEF IrqEnter
    <3> QED BY <1>1, <3>1, <3>2 DEF FlagTypes
  <2>2. CASE IrqGate
    <3>1. ipc' \in {"idle", "consume", "fault"}
      BY <2>2 DEF IrqGate
    <3>2. UNCHANGED <<present, closing, resetPending, resetDone, evt, sring, irqBound,
                      rflush, speed, grantWait, work, portWork, iproc, ppc, xpc>>
      BY <2>2 DEF IrqGate
    <3> QED BY <1>1, <3>1, <3>2 DEF FlagTypes
  <2>3. CASE IrqConsume
    <3>1. speed' \in BOOLEAN /\ resetDone' \in BOOLEAN
      BY <1>1, <2>3 DEF IrqConsume
    <3> QED BY <1>1, <2>3, <3>1 DEF IrqConsume, FlagTypes
  <2>4. CASE IrqExit
    <3>1. /\ ipc' \in {"idle", "fault"} /\ rflush' \in BOOLEAN /\ work' \in BOOLEAN
          /\ iproc' \in BOOLEAN
      BY <1>1, <2>4 DEF IrqExit
    <3> QED BY <1>1, <2>4, <3>1 DEF IrqExit, FlagTypes
  <2> QED BY <1>8, <2>1, <2>2, <2>3, <2>4 DEF Interrupt
<1>9. CASE PortReset \/ PortWork
  <2>1. /\ resetPending' \in BOOLEAN /\ resetDone' \in BOOLEAN /\ portWork' \in BOOLEAN
        /\ ppc' \in {"idle", "put", "wait"}
    BY <1>1, <1>9 DEF PortReset, PortWork, PortWorkRun, PortPutReset, PortResetComplete
  <2> QED BY <1>1, <1>9, <2>1, PortFrame DEF FlagTypes
<1>10. CASE Xenwatch
  <2>1. CASE StartDevice
    <3>1. /\ present' \in BOOLEAN /\ evt' = evt
          /\ xpc' \in {"started", "speed", "connected"}
      BY <1>1, <2>1 DEF StartDevice, Start, PutInternalRequest
    <3>2. UNCHANGED <<closing, resetPending, resetDone, sring, irqBound, rflush, speed,
                      grantWait, work, portWork, ipc, iproc, ppc>>
      BY <2>1 DEF StartDevice
    <3> QED BY <1>1, <3>1, <3>2 DEF FlagTypes
  <2>2. CASE DestroyBegin \/ HaltRflush \/ HaltWait
    <3>1. /\ closing' \in BOOLEAN /\ rflush' \in BOOLEAN /\ grantWait' \in BOOLEAN
          /\ xpc' \in {"rflush", "flushPort", "flushWork", "drain", "stop"}
      BY <1>1, <2>2 DEF DestroyBegin, HaltRflush, HaltWait
    <3>2. UNCHANGED <<present, resetPending, resetDone, evt, sring, irqBound, speed,
                      work, portWork, ipc, iproc, ppc>>
      BY <2>2 DEF DestroyBegin, HaltRflush, HaltWait
    <3> QED BY <1>1, <3>1, <3>2 DEF FlagTypes
  <2>3. CASE DestroyStop \/ DestroyFinish \/ DestroyFree
    <3>1. /\ work' \in BOOLEAN /\ sring' \in {"mapped", "null"}
          /\ xpc' \in {"finishMore", "finishLast", "free", "unbind"}
      BY <1>1, <2>3 DEF DestroyStop, DestroyFinish, WalkOn, DestroyFree
    <3>2. UNCHANGED <<present, closing, resetPending, resetDone, evt, irqBound, rflush,
                      speed, grantWait, portWork, ipc, iproc, ppc>>
      BY <2>3 DEF DestroyStop, DestroyFinish, DestroyFree
    <3> QED BY <1>1, <3>1, <3>2 DEF FlagTypes
  <2>4. CASE DestroyUnbind
    <3>1. irqBound' \in BOOLEAN /\ evt' \in BOOLEAN /\ xpc' \in {"release"}
      BY <2>4 DEF DestroyUnbind
    <3>2. UNCHANGED <<present, closing, resetPending, resetDone, sring, rflush, speed,
                      grantWait, work, portWork, ipc, iproc, ppc>>
      BY <2>4 DEF DestroyUnbind
    <3> QED BY <1>1, <3>1, <3>2 DEF FlagTypes
  <2>5. CASE DestroyRelease
    <3>1. /\ present' \in BOOLEAN /\ closing' \in BOOLEAN /\ resetPending' \in BOOLEAN
          /\ resetDone' \in BOOLEAN /\ rflush' \in BOOLEAN /\ speed' \in BOOLEAN
          /\ work' \in BOOLEAN /\ xpc' \in {"gone"}
          /\ UNCHANGED <<evt, sring, irqBound, grantWait, portWork, ipc, iproc, ppc>>
      BY <2>5 DEF DestroyRelease
    <3> QED BY <1>1, <3>1 DEF FlagTypes
  <2> QED BY <1>10, <2>1, <2>2, <2>3, <2>4, <2>5 DEF Xenwatch, Destroy
<1>11. CASE Behind
  <2>1. evt' \in BOOLEAN
    BY <1>1, <1>11 DEF Behind, Backend, BackSubmit, BackKill, BackAnswer, EndUsbIoOp,
                       DeviceComplete, Answer
  <2> QED BY <1>1, <1>11, <2>1, BackFrame DEF FlagTypes
<1> QED BY <1>2, <1>3, <1>4, <1>5, <1>6, <1>7, <1>8, <1>9, <1>10, <1>11, Steps

\* Shadows and requests keep their types.
LEMMA RingTypesStep ==
    ASSUME FrontInv, Effect
    PROVE  RingTypes'
<1>1. /\ freeList \in Seq(Shadows) /\ shadow \in [Shadows -> Shadow]
      /\ toBack \in Seq(Request) /\ toFront \in Seq(Shadows)
      /\ atDevice \cup completing \in SUBSET [id : Shadows, urb : Urbs]
      /\ FlightInv
  BY DEF FrontInv, TypeOK, RingTypes
<1>2. freeList' \in Seq(Shadows) /\ shadow' \in [Shadows -> Shadow]
  <2>1. ASSUME xpc # "gone", InternalHasRoom, NEW use \in Commands \cup {"urb"},
               NEW w \in Urbs \cup {NoUrb}, GetShadow(use, w)
        PROVE  freeList' \in Seq(Shadows) /\ shadow' \in [Shadows -> Shadow]
    <3>1. PICK p : p = TopShadow
      OBVIOUS
    <3>2. p \in Shadows /\ freeList' \in Seq(Shadows)
      BY <2>1, <3>1, ShadowGot
    <3>3. shadow' = [shadow EXCEPT ![p] = [use |-> use, urb |-> w]]
      BY <2>1, <3>1 DEF GetShadow
    <3>4. [use |-> use, urb |-> w] \in Shadow
      BY DEF Shadow
    <3> QED BY <1>1, <3>2, <3>3, <3>4
  <2>2. FreeShadow \in Shadow
    BY DEF FreeShadow, Shadow
  <2>3. ASSUME NEW c \in Commands, NEW j \in Shadows \cup {NoShadow},
               NEW v \in Urbs \cup {NoUrb}, PutsInternal(c, j, v)
        PROVE  freeList' \in Seq(Shadows) /\ shadow' \in [Shadows -> Shadow]
    BY <2>1, <2>3 DEF PutsInternal, PutInternalRequest, Up
  <2>4. ASSUME NEW u \in Urbs, PutsUrb(u)
        PROVE  freeList' \in Seq(Shadows) /\ shadow' \in [Shadows -> Shadow]
    BY <2>1, <2>4 DEF PutsUrb, Up
  <2>5. ASSUME NEW i \in Shadows, ConsumesInternal(i)
        PROVE  freeList' \in Seq(Shadows) /\ shadow' \in [Shadows -> Shadow]
    BY <1>1, <2>2, <2>5 DEF ConsumesInternal
  <2>6. CASE Finishes
    <3>1. FinishAll /\ xpc # "gone"
      BY <2>6 DEF Finishes, Up
    <3>2. freeList' \in Seq(Shadows)
      BY <3>1, ShadowsPutBack
    <3>3. shadow' = [i \in Shadows |-> IF \E u \in ToSet(finishList) : reqId[u] = i
                                      THEN FreeShadow ELSE shadow[i]]
      BY <3>1 DEF FinishAll
    <3> QED BY <1>1, <2>2, <3>2, <3>3
  <2>7. CASE freeList' = freeList /\ shadow' = shadow
    BY <1>1, <2>7
  <2>8. ASSUME NEW u \in Urbs, FinishesOne(u)
        PROVE  freeList' \in Seq(Shadows) /\ shadow' \in [Shadows -> Shadow]
    <3>1. reqId[u] \in Shadows
      BY <2>8, ShadowOfSent DEF FinishesOne, Up, Sent
    <3> QED BY <1>1, <2>2, <2>8, <3>1 DEF FinishesOne
  <2> QED BY <2>3, <2>4, <2>5, <2>6, <2>7, <2>8, BackFrame
         DEF Effect, Quiet, ConsumesUrb, GoesAway, shadowVars
<1>3. /\ toBack' \in Seq(Request) /\ toFront' \in Seq(Shadows)
      /\ (atDevice \cup completing)' \in SUBSET [id : Shadows, urb : Urbs]
  <2>1. ASSUME NEW r \in Request,
               toBack' = Append(toBack, r), UNCHANGED <<atDevice, completing, toFront>>
        PROVE  /\ toBack' \in Seq(Request) /\ toFront' \in Seq(Shadows)
               /\ (atDevice \cup completing)' \in SUBSET [id : Shadows, urb : Urbs]
    BY <1>1, <2>1
  <2>2. CASE toFront # << >> /\ toFront' = Tail(toFront) /\ UNCHANGED <<toBack, atDevice, completing>>
    BY <1>1, <2>2
  <2>3. CASE QueuesSame
    BY <1>1, <2>3 DEF QueuesSame
  <2>4. ASSUME NEW h, Takes(h)
        PROVE  /\ toBack' \in Seq(Request) /\ toFront' \in Seq(Shadows)
               /\ (atDevice \cup completing)' \in SUBSET [id : Shadows, urb : Urbs]
    <3>1. /\ toBack # << >> /\ h = toBack[1] /\ 1 \in DOMAIN toBack /\ h.type = "urb"
          /\ toBack' = Tail(toBack) /\ completing' = completing /\ toFront' = toFront
          /\ atDevice' = atDevice \cup {[id |-> h.id, urb |-> h.urb]}
      BY <1>1, <2>4 DEF Takes
    <3>2. h \in Request /\ h.urb \in Urbs
      BY <1>1, <3>1 DEF FlightInv
    <3>3. [id |-> h.id, urb |-> h.urb] \in [id : Shadows, urb : Urbs]
      BY <3>2 DEF Request
    <3> QED BY <1>1, <3>1, <3>3
  <2>5. ASSUME NEW h, Echoes(h)
        PROVE  /\ toBack' \in Seq(Request) /\ toFront' \in Seq(Shadows)
               /\ (atDevice \cup completing)' \in SUBSET [id : Shadows, urb : Urbs]
    <3>1. h \in Request
      BY <1>1, <2>5 DEF Echoes
    <3>2. h.id \in Shadows
      BY <3>1 DEF Request
    <3> QED BY <1>1, <2>5, <3>2 DEF Echoes
  <2>6. ASSUME NEW x, Kills(x) \/ Completes(x) \/ Ends(x)
        PROVE  /\ toBack' \in Seq(Request) /\ toFront' \in Seq(Shadows)
               /\ (atDevice \cup completing)' \in SUBSET [id : Shadows, urb : Urbs]
    <3>1. /\ x \in atDevice \cup completing /\ toBack' = toBack
          /\ (atDevice \cup completing)' \subseteq atDevice \cup completing
          /\ toFront' = toFront \/ toFront' = Append(toFront, x.id)
      BY <2>6 DEF Kills, Completes, Ends
    <3>2. x.id \in Shadows
      BY <1>1, <3>1
    <3>3. toFront' \in Seq(Shadows)
      BY <1>1, <3>1, <3>2
    <3> QED BY <1>1, <3>1, <3>3
  <2> QED BY <2>1, <2>2, <2>3, <2>4, <2>5, <2>6, PutRequest, BehindMoves
<1> QED BY <1>2, <1>3 DEF RingTypes

\* The lock, the tasks and the sets of the USB core keep their types.
LEMMA TaskTypesStep ==
    ASSUME FrontInv, Next
    PROVE  TaskTypes'
<1>1. /\ lock \in Tasks \cup {Irq, NoTask}
      /\ pc \in [Tasks -> {"idle", "find", "process", "send", "release"}]
      /\ linked \in SUBSET Urbs /\ unlinked \in SUBSET Urbs /\ given \in SUBSET Urbs
      /\ tmp \in [Tasks -> Seq(Urbs)]
      /\ releaseList \in Seq(Urbs) /\ pendingList \in Seq(Urbs)
  BY DEF FrontInv, TypeOK, TaskTypes, ListTypes
<1>2. processing' \in Nat /\ tmp' \in [Tasks -> Seq(Urbs)] /\ sendQueue' \in Seq(Urbs)
  BY CountStep, ListTypesStep, SendStep
<1> DEFINE Typed == /\ lock \in Tasks \cup {Irq, NoTask}
                    /\ pc \in [Tasks -> {"idle", "find", "process", "send", "release"}]
                    /\ linked \in SUBSET Urbs /\ unlinked \in SUBSET Urbs
                    /\ given \in SUBSET Urbs
<1>3. ASSUME NEW u \in Urbs, EnqueueLink(u) \/ DequeueStart(u) \/ DequeueFind(u)
      PROVE  Typed'
  <2>1. pc' \in [Tasks -> {"idle", "find", "process", "send", "release"}]
    BY <1>1, <1>3 DEF EnqueueLink, DequeueStart, DequeueFind
  <2> QED BY <1>1, <1>3, <2>1 DEF EnqueueLink, DequeueStart, DequeueFind, coreVars
<1>4. ASSUME WorkRun \/ GrantAvailable PROVE Typed'
  <2>1. CASE WorkRun
    <3>1. pc' \in [Tasks -> {"idle", "find", "process", "send", "release"}]
      BY <1>1, <2>1 DEF WorkRun
    <3> QED BY <1>1, <2>1, <3>1 DEF WorkRun, coreVars
  <2>2. CASE GrantAvailable
    BY <1>1, <2>2 DEF GrantAvailable, taskVars, coreVars
  <2> QED BY <1>4, <2>1, <2>2
<1>5. ASSUME NEW t \in Tasks, ProcessBegin(t) \/ ProcessEnd(t) PROVE Typed'
  <2>1. pc' \in [Tasks -> {"idle", "find", "process", "send", "release"}]
    BY <1>1, <1>5 DEF ProcessBegin, ProcessEnd
  <2> QED BY <1>1, <1>5, <2>1 DEF ProcessBegin, ProcessEnd, coreVars
<1>6. ASSUME NEW t \in Tasks, Send(t) PROVE Typed'
  BY <1>1, <1>6, SendFrame
<1>7. ASSUME NEW S \in SUBSET Urbs, ReleaseUrbs(S)
      PROVE  linked' \in SUBSET Urbs /\ unlinked' \in SUBSET Urbs /\ given' \in SUBSET Urbs
  BY <1>1, <1>7 DEF ReleaseUrbs
<1>8. ASSUME NEW t \in Tasks, ProcessRelease(t) PROVE Typed'
  <2>1. /\ ReleaseUrbs(ToSet(tmp[t])) /\ pc' = [pc EXCEPT ![t] = "idle"] /\ lock' = lock
    BY <1>8 DEF ProcessRelease
  <2>2. ToSet(tmp[t]) \in SUBSET Urbs
    <3>1. tmp[t] \in Seq(Urbs)
      BY <1>1
    <3> QED BY <3>1 DEF ToSet
  <2> QED BY <1>1, <1>7, <2>1, <2>2
<1>9. ASSUME Interrupt PROVE Typed'
  <2>1. lock' = lock \/ lock' = Irq \/ lock' = NoTask
    BY <1>9 DEF Interrupt, IrqEnter, IrqGate, IrqConsume, IrqExit
  <2> QED BY <1>1, <1>9, <2>1, IrqFrame
<1>10. ASSUME PortReset \/ PortWork \/ Behind PROVE Typed'
  BY <1>1, <1>10, PortFrame, BackFrame
<1>11. ASSUME Xenwatch PROVE Typed'
  <2>1. lock' = lock /\ pc' = pc
    BY <1>11, XenFrame
  <2>2. CASE DestroyRelease
    <3>1. ReleaseUrbs(ToSet(releaseList) \cup ToSet(pendingList))
      BY <2>2 DEF DestroyRelease
    <3>2. ToSet(releaseList) \cup ToSet(pendingList) \in SUBSET Urbs
      BY <1>1 DEF ToSet
    <3> QED BY <1>1, <1>7, <2>1, <3>1, <3>2
  <2>3. CASE ~DestroyRelease
    <3>1. linked' = linked /\ unlinked' = unlinked /\ given' = given
      BY <1>11, <2>3 DEF Xenwatch, StartDevice, DestroyBegin, Destroy, HaltRflush,
         HaltWait, DestroyStop, DestroyFinish, DestroyFree, DestroyUnbind, coreVars
    <3> QED BY <1>1, <2>1, <3>1
  <2> QED BY <2>2, <2>3
<1>12. Typed'
  BY <1>3, <1>4, <1>5, <1>6, <1>8, <1>9, <1>10, <1>11, Steps
<1> QED BY <1>2, <1>12 DEF TaskTypes

-----------------------------------------------------------------------------
(* The invariant holds *)

\* The steps together
LEMMA FrontStep ==
    ASSUME FrontInv, [Next]_vars
    PROVE  FrontInv'
<1>1. CASE Next
  <2>1. Effect /\ finishList' \in Seq(Urbs)
    BY <1>1, Effects, ListTypesStep DEF ListTypes
  <2>2. TypeOK'
    BY <1>1, <2>1, FlagStep, ListTypesStep, RingTypesStep, TaskTypesStep DEF TypeOK
  <2>3. LockInv' /\ CountInv' /\ TeardownInv' /\ StartInv' /\ CallInv'
    BY <1>1, LockStep, CountStep, TeardownStep, StartStep, CallStep
  <2>4. PlaceInv' /\ SendInv' /\ StateInv'
    BY <1>1, PlaceStep, SendStep, StateStep
  <2>5. ShadowInv' /\ FlightInv' /\ UseInv' /\ CancelInv'
    BY <1>1, <2>1, ShadowStep, FlightStep, UseStep, CancelStep
  <2> QED BY <2>2, <2>3, <2>4, <2>5 DEF FrontInv
<1>2. CASE UNCHANGED vars
  <2> USE <1>2 DEF vars, portVars, listVars, shadowVars, ringVars, teardownVars, flagVars,
                   workVars, taskVars, irqVars, coreVars
  <2>1. TypeOK'
    BY DEF FrontInv, TypeOK, FlagTypes, ListTypes, RingTypes, TaskTypes
  <2>2. LockInv' /\ CountInv' /\ TeardownInv' /\ StartInv' /\ CallInv'
    BY DEF FrontInv, LockInv, CountInv, TeardownInv, StartInv, CallInv, Busy
  <2>3. PlaceInv' /\ SendInv' /\ StateInv'
    BY DEF FrontInv, PlaceInv, SendInv, StateInv, Entering, Pending, Finishing, Releasing,
           Leaving, LeavingBy
  <2>4. ShadowInv' /\ FlightInv' /\ UseInv' /\ CancelInv'
    BY DEF FrontInv, ShadowInv, FlightInv, UseInv, CancelInv, Sent, Pending, Finishing,
           Sending, Served, Answered
  <2> QED BY <2>1, <2>2, <2>3, <2>4 DEF FrontInv
<1> QED BY <1>1, <1>2

\* Lists, shadows, requests and contexts agree in every reachable state.
THEOREM FrontInvariant == Spec => []FrontInv
BY InitFront, FrontStep, PTL DEF Spec

-----------------------------------------------------------------------------
(* What the invariant says of the properties *)

\* The invariant types every variable.
THEOREM FrontTypeCorrect == Spec => []TypeOK
<1>1. FrontInv => TypeOK
  BY DEF FrontInv
<1> QED BY <1>1, FrontInvariant, PTL

\* At most one context has spliced an URB off.
LEMMA LeavingOnce ==
    ASSUME FrontInv, NEW u \in Urbs
    PROVE  Cardinality({t \in Tasks : u \in ToSet(tmp[t])}) = IF Leaving(u) THEN 1 ELSE 0
<1>1. CASE Leaving(u)
  <2>1. PICK t \in Tasks : LeavingBy(t, u)
    BY <1>1 DEF Leaving
  <2>2. \A s \in Tasks : LeavingBy(s, u) => s = t
    BY <2>1 DEF FrontInv, PlaceInv
  <2>3. {s \in Tasks : u \in ToSet(tmp[s])} = {t}
    BY <2>1, <2>2 DEF LeavingBy
  <2> QED BY <1>1, <2>3, FS_Singleton
<1>2. CASE ~Leaving(u)
  <2>1. {s \in Tasks : u \in ToSet(tmp[s])} = {}
    BY <1>2 DEF Leaving, LeavingBy
  <2> QED BY <1>2, <2>1, FS_EmptySet
<1> QED BY <1>1, <1>2

\* An URB the driver owns is in exactly one place, whatever enqueue, dequeue,
\* interrupt, work and teardown do to the lists, and is given back only once.
THEOREM UrbInOnePlace == Spec => []OnePlace
<1>1. FrontInv => OnePlace
  <2> SUFFICES ASSUME FrontInv, NEW u \in Urbs
               PROVE  /\ Places(u) = IF u \in linked THEN 1 ELSE 0
                      /\ ~(u \in linked /\ u \in given)
    BY DEF OnePlace
  <2>1. /\ pendingList \in Seq(Urbs) /\ finishList \in Seq(Urbs) /\ releaseList \in Seq(Urbs)
        /\ IsInjective(pendingList) /\ IsInjective(finishList) /\ IsInjective(releaseList)
    BY DEF FrontInv, TypeOK, ListTypes, PlaceInv
  <2>2. /\ Occurrences(pendingList, u) = IF Pending(u) THEN 1 ELSE 0
        /\ Occurrences(finishList, u) = IF Finishing(u) THEN 1 ELSE 0
        /\ Occurrences(releaseList, u) = IF Releasing(u) THEN 1 ELSE 0
    BY <2>1, OnceOnList DEF Pending, Finishing, Releasing
  <2>3. Places(u) = (IF Entering(u) THEN 1 ELSE 0) + (IF Pending(u) THEN 1 ELSE 0)
                    + (IF Finishing(u) THEN 1 ELSE 0) + (IF Releasing(u) THEN 1 ELSE 0)
                    + (IF Leaving(u) THEN 1 ELSE 0)
    BY <2>2, LeavingOnce DEF Places, Entering
  <2>4. /\ u \in linked <=>
             Entering(u) \/ Pending(u) \/ Finishing(u) \/ Releasing(u) \/ Leaving(u)
        /\ Entering(u) => ~Pending(u) /\ ~Finishing(u) /\ ~Releasing(u) /\ ~Leaving(u)
        /\ Pending(u) => ~Finishing(u) /\ ~Releasing(u) /\ ~Leaving(u)
        /\ Finishing(u) => ~Releasing(u) /\ ~Leaving(u)
        /\ Releasing(u) => ~Leaving(u)
    BY DEF FrontInv, PlaceInv
  <2>5. ~(u \in linked /\ u \in given)
    BY DEF FrontInv, CallInv
  <2> QED BY <2>3, <2>4, <2>5
<1> QED BY <1>1, FrontInvariant, PTL

\* A request in flight is counted once.
LEMMA InFlightOnce ==
    ASSUME FrontInv, NEW i \in Shadows
    PROVE  InFlight(i) = IF Sending(i) \/ Served(i) \/ Answered(i) THEN 1 ELSE 0
<1>1. FlightInv /\ toFront \in Seq(Shadows)
  BY DEF FrontInv, TypeOK, RingTypes
<1>2. Cardinality({k \in DOMAIN toBack : toBack[k].id = i}) = IF Sending(i) THEN 1 ELSE 0
  <2>1. CASE Sending(i)
    <3>1. PICK k \in DOMAIN toBack : toBack[k].id = i
      BY <2>1 DEF Sending
    <3>2. {j \in DOMAIN toBack : toBack[j].id = i} = {k}
      BY <1>1, <3>1 DEF FlightInv
    <3> QED BY <2>1, <3>2, FS_Singleton
  <2>2. CASE ~Sending(i)
    <3>1. {k \in DOMAIN toBack : toBack[k].id = i} = {}
      BY <2>2 DEF Sending
    <3> QED BY <2>2, <3>1, FS_EmptySet
  <2> QED BY <2>1, <2>2
<1>3. Cardinality({x \in atDevice \cup completing : x.id = i}) = IF Served(i) THEN 1 ELSE 0
  <2>1. CASE Served(i)
    <3>1. PICK x \in atDevice \cup completing : x.id = i
      BY <2>1 DEF Served
    <3>2. {y \in atDevice \cup completing : y.id = i} = {x}
      BY <1>1, <3>1 DEF FlightInv
    <3> QED BY <2>1, <3>2, FS_Singleton
  <2>2. CASE ~Served(i)
    <3>1. {x \in atDevice \cup completing : x.id = i} = {}
      BY <2>2 DEF Served
    <3> QED BY <2>2, <3>1, FS_EmptySet
  <2> QED BY <2>1, <2>2
<1>4. Occurrences(toFront, i) = IF Answered(i) THEN 1 ELSE 0
  BY <1>1, OnceOnList DEF FlightInv, Answered
<1>5. /\ ~(Sending(i) /\ Served(i)) /\ ~(Sending(i) /\ Answered(i))
      /\ ~(Served(i) /\ Answered(i))
  BY <1>1 DEF FlightInv
<1>6. InFlight(i) = (IF Sending(i) THEN 1 ELSE 0) + (IF Served(i) THEN 1 ELSE 0)
                    + (IF Answered(i) THEN 1 ELSE 0)
  BY <1>2, <1>3, <1>4 DEF InFlight
<1> QED BY <1>5, <1>6

\* As long as the ring is there, a shadow is on the free list, once, or in use
\* by one request in flight or by an URB that waits on the finish list.
THEOREM ShadowFreeOrInUse == Spec => []ShadowsConserved
<1>1. FrontInv => ShadowsConserved
  <2> SUFFICES ASSUME FrontInv, sring = "mapped", NEW i \in Shadows
               PROVE  /\ Occurrences(freeList, i) = IF shadow[i].use = "free" THEN 1 ELSE 0
                      /\ InFlight(i) =
                           IF shadow[i].use = "free" \/ shadow[i].urb \in ToSet(finishList)
                           THEN 0 ELSE 1
    BY DEF ShadowsConserved
  <2>1. xpc # "gone"
    BY DEF FrontInv, TeardownInv
  <2>2. freeList \in Seq(Shadows) /\ IsInjective(freeList)
        /\ (i \in ToSet(freeList) <=> shadow[i].use = "free")
    BY <2>1 DEF FrontInv, TypeOK, RingTypes, ShadowInv
  <2>3. Occurrences(freeList, i) = IF shadow[i].use = "free" THEN 1 ELSE 0
    BY <2>2, OnceOnList
  <2>4. Sending(i) \/ Served(i) \/ Answered(i) <=>
            shadow[i].use # "free" /\ shadow[i].urb \notin ToSet(finishList)
    BY <2>1 DEF FrontInv, UseInv, Finishing
  <2> QED BY <2>3, <2>4, InFlightOnce
<1> QED BY <1>1, FrontInvariant, PTL

\* A response leads vusb_interrupt to the URB that was sent with it: still
\* pending, still with this id, not given back meanwhile.
THEOREM ResponseIsOfItsUrb == Spec => []ResponseFindsUrb
<1>1. FrontInv => ResponseFindsUrb
  <2> SUFFICES ASSUME FrontInv, sring = "mapped", NEW k \in DOMAIN toFront,
                      shadow[toFront[k]].use = "urb"
               PROVE  /\ shadow[toFront[k]].urb \in ToSet(pendingList)
                      /\ shadow[toFront[k]].urb \in linked
                      /\ state[shadow[toFront[k]].urb] \in {"SENT", "CANCEL"}
                      /\ reqId[shadow[toFront[k]].urb] = toFront[k]
    BY DEF ResponseFindsUrb
  <2>1. PICK i : i = toFront[k]
    OBVIOUS
  <2>2. PICK u : u = shadow[i].urb
    OBVIOUS
  <2>3. xpc # "gone" /\ toFront \in Seq(Shadows)
    BY DEF FrontInv, TeardownInv, TypeOK, RingTypes
  <2>4. i \in Shadows /\ Answered(i)
    BY <2>1, <2>3 DEF Answered, ToSet
  <2>5. ~Finishing(u)
    BY <2>2, <2>3, <2>4 DEF FrontInv, UseInv
  <2>6. u \in Urbs /\ Sent(u) /\ reqId[u] = i
    BY <2>1, <2>2, <2>3, <2>4 DEF FrontInv, ShadowInv
  <2>7. Pending(u) /\ state[u] \in {"SENT", "CANCEL"}
    BY <2>5, <2>6 DEF Sent
  <2>8. u \in linked
    BY <2>6, <2>7 DEF FrontInv, PlaceInv
  <2> QED BY <2>1, <2>2, <2>6, <2>7, <2>8 DEF Pending
<1> QED BY <1>1, FrontInvariant, PTL

\* Ids are reused at once, and still the URB that cancel_urb finds under the id
\* of a cancel request is the one that was unlinked.
THEOREM CancelIsOfItsUrb == Spec => []CancelHitsItsUrb
<1>1. FrontInv => CancelHitsItsUrb
  <2> SUFFICES ASSUME FrontInv, CancelFinds, NEW x \in Victims(Head(toBack))
               PROVE  x.urb = Head(toBack).urb
    BY DEF CancelHitsItsUrb
  <2>1. toBack \in Seq(Request) /\ toBack # << >> /\ CancelInv
    BY DEF FrontInv, TypeOK, RingTypes, CancelFinds
  <2>2. 1 \in DOMAIN toBack /\ Head(toBack) = toBack[1]
    BY <2>1
  <2>3. toBack[1].type = "cancel" /\ x \in atDevice /\ x.id = toBack[1].cancelId
    BY <2>2 DEF CancelFinds, Victims
  <2>4. x.urb = toBack[1].urb
    BY <2>1, <2>2, <2>3 DEF CancelInv
  <2> QED BY <2>2, <2>4
<1> QED BY <1>1, FrontInvariant, PTL

\* Once vusb_usbif_halt is over, no task and no port work touches the lists
\* that vusb_destroy_device walks without the lock, and when it gives back the
\* URBs left, the interrupt does not either.
THEOREM NobodyAfterHalt == Spec => []HaltedIsQuiet
<1>1. FrontInv => HaltedIsQuiet
  <2> SUFFICES ASSUME FrontInv, xpc \in Walking
               PROVE  /\ ppc = "idle" /\ ~iproc
                      /\ \A t \in Tasks : pc[t] = "idle" /\ lock # t
                      /\ xpc = "release" => ipc = "idle" /\ lock = NoTask
    BY DEF HaltedIsQuiet, Walking
  <2>1. Busy = {} /\ ppc = "idle" /\ ~iproc
    BY DEF FrontInv, TeardownInv
  <2>2. \A t \in Tasks : pc[t] = "idle"
    BY <2>1 DEF Busy
  <2>3. \A t \in Tasks : lock # t
    BY <2>2 DEF FrontInv, LockInv
  <2>4. ASSUME xpc = "release" PROVE ipc = "idle" /\ lock = NoTask
    <3>1. ipc = "idle"
      BY <2>4 DEF FrontInv, TeardownInv
    <3>2. lock # Irq
      BY <3>1 DEF FrontInv, LockInv
    <3>3. lock \in Tasks \cup {Irq, NoTask}
      BY DEF FrontInv, TypeOK, TaskTypes
    <3> QED BY <2>3, <3>1, <3>2, <3>3
  <2> QED BY <2>1, <2>2, <2>3, <2>4
<1> QED BY <1>1, FrontInvariant, PTL

-----------------------------------------------------------------------------
(* The driver uses the ring as VusbChannel allows *)

\* The mapping of VusbFront.Channel
Ids == [k \in DOMAIN toBack |-> toBack[k].id]
Owned == {x.id : x \in atDevice \cup completing}
Held == {reqId[u] : u \in ToSet(finishList)}

\* What is in use for the channel is sending, served, answered or held.
LEMMA UseOfChannel ==
    /\ \A i : i \in Owned <=> Served(i)
    /\ \A i : i \in Channel!InUse =>
           Sending(i) \/ Served(i) \/ Answered(i) \/ i \in Held
<1>1. \A i : i \in Channel!Elements(Ids) <=> Sending(i)
  BY DEF Channel!Elements, Ids, Sending
<1>2. \A i : i \in Owned <=> Served(i)
  BY DEF Owned, Served
<1>3. \A i : i \in Channel!Elements(toFront) <=> Answered(i)
  BY DEF Channel!Elements, Answered, ToSet
<1>4. Channel!InUse = Channel!Elements(Ids) \cup Owned \cup Channel!Elements(toFront) \cup Held
  BY DEF Channel!InUse, Ids, Owned, Held
<1> QED BY <1>1, <1>2, <1>3, <1>4

\* The shadows of the URBs on the finish list are held, those and no others.
LEMMA HeldSame ==
    ASSUME FrontInv, FrontInv', NEW S,
           \A u \in Urbs : (Finishing(u))' <=> Finishing(u) \/ u \in S,
           \A u \in Urbs : (Finishing(u))' => reqId'[u] = reqId[u]
    PROVE  Held' = Held \cup {reqId[u] : u \in Urbs \cap S}
<1>1. ToSet(finishList) \subseteq Urbs /\ ToSet(finishList') \subseteq Urbs
  BY DEF FrontInv, TypeOK, ListTypes, ToSet
<1>2. \A u \in Urbs : u \in ToSet(finishList') <=> u \in ToSet(finishList) \/ u \in S
  BY DEF Finishing
<1>3. \A u \in ToSet(finishList') : reqId'[u] = reqId[u]
  BY <1>1 DEF Finishing
<1> QED BY <1>1, <1>2, <1>3 DEF Held

\* No URB finishes or is finished: what is held stays.
LEMMA HeldStays ==
    ASSUME FrontInv, FrontInv',
           \A u \in Urbs : /\ (Finishing(u))' <=> Finishing(u)
                           /\ Finishing(u) => reqId'[u] = reqId[u]
    PROVE  Held' = Held
<1>1. Held' = Held \cup {reqId[u] : u \in Urbs \cap {}}
  BY HeldSame
<1> QED BY <1>1

\* The ids of the requests on the ring are a sequence of the same length.
LEMMA IdsTyped ==
    ASSUME toBack \in Seq(Request), toBack' \in Seq(Request)
    PROVE  /\ Ids \in Seq(Shadows) /\ Len(Ids) = Len(toBack)
           /\ \A k \in 1 .. Len(toBack) : Ids[k] = toBack[k].id
           /\ Ids' \in Seq(Shadows) /\ Len(Ids') = Len(toBack')
           /\ \A k \in 1 .. Len(toBack') : Ids'[k] = toBack'[k].id
<1>1. ASSUME NEW q \in Seq(Request), NEW s, s = [k \in DOMAIN q |-> q[k].id]
      PROVE  s \in Seq(Shadows) /\ Len(s) = Len(q) /\ \A k \in 1 .. Len(q) : s[k] = q[k].id
  <2>1. Len(q) \in Nat /\ DOMAIN q = 1 .. Len(q) /\ \A k \in 1 .. Len(q) : q[k] \in Request
    OBVIOUS
  <2>2. \A k \in 1 .. Len(q) : q[k].id \in Shadows
    BY <2>1 DEF Request
  <2> QED BY <1>1, <2>1, <2>2
<1>2. PICK q : q = toBack
  OBVIOUS
<1>3. PICK s : s = Ids
  OBVIOUS
<1>4. s = [k \in DOMAIN q |-> q[k].id]
  BY <1>2, <1>3 DEF Ids
<1>5. s \in Seq(Shadows) /\ Len(s) = Len(q) /\ \A k \in 1 .. Len(q) : s[k] = q[k].id
  BY <1>1, <1>2, <1>4
<1>6. PICK p : p = toBack'
  OBVIOUS
<1>7. PICK t : t = Ids'
  OBVIOUS
<1>8. t = [k \in DOMAIN p |-> p[k].id]
  BY <1>6, <1>7 DEF Ids
<1>9. t \in Seq(Shadows) /\ Len(t) = Len(p) /\ \A k \in 1 .. Len(p) : t[k] = p[k].id
  BY <1>1, <1>6, <1>8
<1> QED BY <1>2, <1>3, <1>5, <1>6, <1>7, <1>9

\* vusb_put_ring
LEMMA IdsOfPut ==
    ASSUME FrontInv, NEW r \in Request, toBack' = Append(toBack, r)
    PROVE  Ids' = Append(Ids, r.id)
<1>1. /\ toBack \in Seq(Request) /\ toBack' \in Seq(Request) /\ Len(toBack) \in Nat
      /\ Len(toBack') = Len(toBack) + 1 /\ toBack'[Len(toBack) + 1] = r
      /\ \A k \in 1 .. Len(toBack) : toBack'[k] = toBack[k]
  BY AppendProperties DEF FrontInv, TypeOK, RingTypes
<1>2. /\ Ids \in Seq(Shadows) /\ Len(Ids) = Len(toBack)
      /\ \A k \in 1 .. Len(toBack) : Ids[k] = toBack[k].id
  BY <1>1, IdsTyped
<1>3. /\ Ids' \in Seq(Shadows) /\ Len(Ids') = Len(toBack) + 1
      /\ \A k \in 1 .. Len(toBack) + 1 : Ids'[k] = toBack'[k].id
  BY <1>1, IdsTyped
<1>4. r.id \in Shadows
  BY DEF Request
<1>5. /\ Append(Ids, r.id) \in Seq(Shadows) /\ Len(Append(Ids, r.id)) = Len(toBack) + 1
      /\ \A k \in 1 .. Len(toBack) : Append(Ids, r.id)[k] = Ids[k]
      /\ Append(Ids, r.id)[Len(toBack) + 1] = r.id
  BY <1>2, <1>4, AppendProperties
<1>6. \A k \in 1 .. Len(toBack) + 1 : Ids'[k] = Append(Ids, r.id)[k]
  <2> SUFFICES ASSUME NEW k \in 1 .. Len(toBack) + 1 PROVE Ids'[k] = Append(Ids, r.id)[k]
    OBVIOUS
  <2>1. CASE k = Len(toBack) + 1
    BY <1>1, <1>3, <1>5, <2>1
  <2>2. CASE k \in 1 .. Len(toBack)
    <3>1. Ids'[k] = toBack[k].id /\ Append(Ids, r.id)[k] = toBack[k].id
      BY <1>1, <1>2, <1>3, <1>5, <2>2
    <3> QED BY <3>1
  <2>3. k = Len(toBack) + 1 \/ k \in 1 .. Len(toBack)
    BY <1>1
  <2> QED BY <2>1, <2>2, <2>3
<1> QED BY <1>3, <1>5, <1>6, SeqEqual

\* do_usb_io_op moves on to the next request.
LEMMA IdsOfTaken ==
    ASSUME FrontInv, toBack # << >>, toBack' = Tail(toBack)
    PROVE  Ids # << >> /\ Head(Ids) = Head(toBack).id /\ Ids' = Tail(Ids)
<1>1. /\ toBack \in Seq(Request) /\ toBack' \in Seq(Request)
      /\ Len(toBack) \in Nat /\ Len(toBack) >= 1 /\ Len(toBack') = Len(toBack) - 1
      /\ Head(toBack) = toBack[1]
      /\ \A k \in 1 .. Len(toBack) - 1 : toBack'[k] = toBack[k + 1]
  BY HeadTailProperties DEF FrontInv, TypeOK, RingTypes
<1>2. /\ Ids \in Seq(Shadows) /\ Len(Ids) = Len(toBack)
      /\ \A k \in 1 .. Len(toBack) : Ids[k] = toBack[k].id
  BY <1>1, IdsTyped
<1>3. /\ Ids' \in Seq(Shadows) /\ Len(Ids') = Len(toBack) - 1
      /\ \A k \in 1 .. Len(toBack) - 1 : Ids'[k] = toBack'[k].id
  <2>1. /\ Ids' \in Seq(Shadows) /\ Len(Ids') = Len(toBack')
        /\ \A k \in 1 .. Len(toBack') : Ids'[k] = toBack'[k].id
    BY ONLY <1>1, IdsTyped
  <2> QED BY <1>1, <2>1
<1>4. Ids # << >> /\ Head(Ids) = Head(toBack).id
  BY <1>1, <1>2
<1>5. /\ Tail(Ids) \in Seq(Shadows) /\ Len(Tail(Ids)) = Len(toBack) - 1
      /\ \A k \in 1 .. Len(toBack) - 1 : Tail(Ids)[k] = Ids[k + 1]
  BY <1>2, <1>4, HeadTailProperties
<1>6. \A k \in 1 .. Len(toBack) - 1 : Ids'[k] = Tail(Ids)[k]
  <2> SUFFICES ASSUME NEW k \in 1 .. Len(toBack) - 1 PROVE Ids'[k] = Tail(Ids)[k]
    OBVIOUS
  <2>1. k + 1 \in 1 .. Len(toBack)
    BY <1>1
  <2> QED BY <1>1, <1>2, <1>3, <1>5, <2>1
<1> QED BY <1>3, <1>4, <1>5, <1>6, SeqEqual

\* A request that is put on the ring is sent under an id not in use.
LEMMA PutIsSend ==
    ASSUME FrontInv, FrontInv', NEW r \in Request, toBack' = Append(toBack, r),
           UNCHANGED <<atDevice, completing, toFront>>,
           ~Sending(r.id), ~Served(r.id), ~Answered(r.id), r.id \notin Held,
           Held' = Held
    PROVE  Channel!Next
<1>1. r.id \in Shadows /\ r.id \notin Channel!InUse
  BY UseOfChannel DEF Request
<1>2. Ids' = Append(Ids, r.id) /\ Owned' = Owned
  BY IdsOfPut DEF Owned
<1>3. Channel!Send(r.id)
  BY <1>1, <1>2 DEF Channel!Send, Ids, Owned, Held
<1> QED BY <1>1, <1>3 DEF Channel!Next

\* Every step of the driver, the backend and the devices is one of the channel,
\* or is not seen there.
LEMMA StepOfChannel ==
    ASSUME FrontInv, FrontInv', Next
    PROVE  Channel!Next \/ UNCHANGED Channel!vars
<1>1. ASSUME QueuesSame, Held' = Held PROVE UNCHANGED Channel!vars
  <2>1. toBack' = toBack /\ toFront' = toFront /\ Owned' = Owned
    BY <1>1 DEF QueuesSame, Owned
  <2>2. Ids' = Ids
    BY <2>1 DEF Ids
  <2> QED BY <1>1, <2>1, <2>2 DEF Channel!vars, Ids, Owned, Held
<1>2. \A i \in Held : \E u \in Urbs : Finishing(u) /\ Sent(u) /\ reqId[u] = i
  <2>1. ToSet(finishList) \subseteq Urbs
    BY DEF FrontInv, TypeOK, ListTypes, ToSet
  <2> QED BY <2>1 DEF Held, Finishing, Sent
<1>3. CASE Quiet \/ GoesAway
  <2>1. \A u \in Urbs : /\ (Finishing(u))' <=> Finishing(u)
                        /\ Finishing(u) => reqId'[u] = reqId[u]
    <3>1. CASE Quiet
      BY <3>1 DEF Quiet, SentSame, Sent
    <3>2. CASE GoesAway
      BY <3>2 DEF GoesAway, Finishing
    <3> QED BY <1>3, <3>1, <3>2
  <2> QED BY <1>1, <1>3, <2>1, HeldStays DEF Quiet, GoesAway
<1>4. ASSUME NEW c \in Commands, NEW j \in Shadows \cup {NoShadow}, NEW v \in Urbs \cup {NoUrb},
             PutsInternal(c, j, v)
      PROVE  Channel!Next
  <2>1. PICK p : p = TopShadow
    OBVIOUS
  <2>2. /\ p \in Shadows /\ ~Sending(p) /\ ~Served(p) /\ ~Answered(p)
        /\ \A u \in Urbs : Sent(u) => reqId[u] # p
    BY <1>4, <2>1, ShadowGot DEF PutsInternal, PutInternalRequest, Up
  <2>3. PICK r : r = [id |-> p, type |-> c, cancelId |-> j, urb |-> v]
    OBVIOUS
  <2>4. r \in Request /\ r.id = p
    BY <2>2, <2>3 DEF Request
  <2>5. toBack' = Append(toBack, r) /\ UNCHANGED <<atDevice, completing, toFront>>
    BY <1>4, <2>1, <2>3 DEF PutsInternal, PutInternalRequest
  <2>6. p \notin Held
    BY <1>2, <2>2
  <2>7. Held' = Held
    BY <1>4, HeldStays DEF PutsInternal, SentSame, Sent
  <2> QED BY <2>2, <2>4, <2>5, <2>6, <2>7, PutIsSend
<1>5. ASSUME NEW u \in Urbs, PutsUrb(u) PROVE Channel!Next
  <2>1. PICK p : p = TopShadow
    OBVIOUS
  <2>2. /\ p \in Shadows /\ ~Sending(p) /\ ~Served(p) /\ ~Answered(p)
        /\ \A v \in Urbs : Sent(v) => reqId[v] # p
    BY <1>5, <2>1, ShadowGot DEF PutsUrb, Up
  <2>3. PICK r : r = [id |-> p, type |-> "urb", cancelId |-> NoShadow, urb |-> u]
    OBVIOUS
  <2>4. r \in Request /\ r.id = p
    BY <2>2, <2>3 DEF Request
  <2>5. toBack' = Append(toBack, r) /\ UNCHANGED <<atDevice, completing, toFront>>
    BY <1>5, <2>1, <2>3 DEF PutsUrb
  <2>6. p \notin Held
    BY <1>2, <2>2
  <2>7. Held' = Held
    BY <1>5, HeldStays DEF PutsUrb, Sent
  <2> QED BY <2>2, <2>4, <2>5, <2>6, <2>7, PutIsSend
<1>6. ASSUME NEW i \in Shadows, ConsumesInternal(i) PROVE Channel!Next
  <2>1. Held' = Held
    BY <1>6, HeldStays DEF ConsumesInternal, SentSame, Sent
  <2>2. /\ toFront # << >> /\ toFront' = Tail(toFront) /\ toBack' = toBack /\ Owned' = Owned
    BY <1>6 DEF ConsumesInternal, Owned
  <2>3. Ids' = Ids
    BY <2>2 DEF Ids
  <2>4. Channel!Receive
    BY <2>1, <2>2, <2>3 DEF Channel!Receive, Ids, Owned, Held
  <2> QED BY <2>4 DEF Channel!Next
<1>7. ASSUME NEW i \in Shadows, NEW u \in Urbs, ConsumesUrb(i, u) PROVE Channel!Next
  <2>1. reqId[u] = i /\ i = Head(toFront)
    BY <1>7 DEF ConsumesUrb, FrontInv, ShadowInv, Up
  <2>2. Held' = Held \cup {reqId[v] : v \in Urbs \cap {u}}
    BY <1>7, HeldSame DEF ConsumesUrb
  <2>3. Held' = Held \cup {Head(toFront)}
    BY <2>1, <2>2
  <2>4. /\ toFront # << >> /\ toFront' = Tail(toFront) /\ toBack' = toBack /\ Owned' = Owned
    BY <1>7 DEF ConsumesUrb, Owned
  <2>5. Ids' = Ids
    BY <2>4 DEF Ids
  <2>6. Channel!Receive
    BY <2>3, <2>4, <2>5 DEF Channel!Receive, Ids, Owned, Held
  <2> QED BY <2>6 DEF Channel!Next
<1>8. CASE Finishes
  <2>1. \A u \in Urbs : ~(Finishing(u))'
    BY <1>8 DEF Finishes
  <2>2. Held' = {}
    <3>1. ToSet(finishList') \subseteq Urbs
      BY DEF FrontInv, TypeOK, ListTypes, ToSet
    <3>2. ToSet(finishList') = {}
      BY <2>1, <3>1 DEF Finishing
    <3> QED BY <3>2 DEF Held
  <2>3. QueuesSame
    BY <1>8 DEF Finishes
  <2>4. CASE Held = {}
    BY <1>1, <2>2, <2>3, <2>4
  <2>5. CASE Held # {}
    <3>1. toBack' = toBack /\ toFront' = toFront /\ Owned' = Owned
      BY <2>3 DEF QueuesSame, Owned
    <3>2. Ids' = Ids
      BY <3>1 DEF Ids
    <3>3. PICK S : S = Held
      OBVIOUS
    <3>4. S \in SUBSET Shadows
      <4>1. xpc # "gone"
        BY <1>8 DEF Finishes, Up
      <4> QED BY <1>2, <3>3, <4>1, ShadowOfSent
    <3>5. S \subseteq Held /\ S # {} /\ Held' = Held \ S
      BY <2>2, <2>5, <3>3
    <3>6. Channel!Release(S)
      BY <3>1, <3>2, <3>5 DEF Channel!Release, Ids, Owned, Held
    <3> QED BY <3>4, <3>6 DEF Channel!Next
  <2> QED BY <2>4, <2>5
<1>10. ASSUME NEW u \in Urbs, FinishesOne(u) PROVE Channel!Next
  <2>1. PICK p : p = reqId[u]
    OBVIOUS
  <2>2. /\ xpc # "gone" /\ QueuesSame /\ Finishing(u) /\ reqId' = reqId
        /\ \A v \in Urbs : (Finishing(v))' <=> Finishing(v) /\ v # u
    BY <1>10 DEF FinishesOne, Up
  <2>3. /\ ToSet(finishList) \subseteq Urbs /\ ToSet(finishList') \subseteq Urbs
    BY DEF FrontInv, TypeOK, ListTypes, ToSet
  <2>4. \A v : v \in ToSet(finishList') <=> v \in ToSet(finishList) /\ v # u
    BY <2>2, <2>3 DEF Finishing
  <2>5. ASSUME NEW v \in ToSet(finishList), reqId[v] = p PROVE v = u
    <3>1. Sent(v) /\ Sent(u) /\ v \in Urbs
      BY <2>2, <2>3 DEF Sent, Finishing
    <3> QED BY <2>1, <2>2, <2>5, <3>1, ShadowOfSent
  <2>6. Held' = Held \ {p}
    BY <2>1, <2>2, <2>4, <2>5 DEF Held
  <2>7. p \in Held /\ p \in Shadows
    BY <2>1, <2>2, ShadowOfSent DEF Held, Finishing, Sent
  <2>8. toBack' = toBack /\ toFront' = toFront /\ Owned' = Owned
    BY <2>2 DEF QueuesSame, Owned
  <2>9. Ids' = Ids
    BY <2>8 DEF Ids
  <2>10. PICK S \in SUBSET Shadows : S = {p}
    BY <2>7
  <2>11. S \subseteq Held /\ S # {} /\ Held' = Held \ S
    BY <2>6, <2>7, <2>10
  <2>12. Channel!Release(S)
    BY <2>8, <2>9, <2>11 DEF Channel!Release, Ids, Owned, Held
  <2> QED BY <2>12 DEF Channel!Next
<1>9. CASE Behind
  <2>1. Held' = Held
    BY <1>9, BackFrame DEF Held
  <2>2. FlightInv
    BY DEF FrontInv
  <2>3. ASSUME NEW h, Takes(h) PROVE Channel!Next
    <3>1. /\ toBack # << >> /\ h = Head(toBack) /\ toBack' = Tail(toBack) /\ toFront' = toFront
          /\ atDevice' = atDevice \cup {[id |-> h.id, urb |-> h.urb]} /\ completing' = completing
      BY <2>3 DEF Takes
    <3>2. Ids # << >> /\ Head(Ids) = h.id /\ Ids' = Tail(Ids)
      BY <3>1, IdsOfTaken
    <3>3. Owned' = Owned \cup {Head(Ids)}
      <4>1. (atDevice \cup completing)' =
              (atDevice \cup completing) \cup {[id |-> h.id, urb |-> h.urb]}
        BY <3>1
      <4>2. Owned' = Owned \cup {[id |-> h.id, urb |-> h.urb].id}
        BY <4>1 DEF Owned
      <4> QED BY <3>2, <4>2
    <3>4. Channel!Take
      BY <2>1, <3>1, <3>2, <3>3 DEF Channel!Take, Ids, Owned, Held
    <3> QED BY <3>4 DEF Channel!Next
  <2>4. ASSUME NEW h, Echoes(h) PROVE Channel!Next
    <3>1. /\ toBack # << >> /\ h = Head(toBack) /\ toBack' = Tail(toBack)
          /\ toFront' = Append(toFront, h.id) /\ Owned' = Owned
      BY <2>4 DEF Echoes, Owned
    <3>2. Ids # << >> /\ Head(Ids) = h.id /\ Ids' = Tail(Ids)
      BY <3>1, IdsOfTaken
    <3>3. toFront' = Append(toFront, Head(Ids))
      BY <3>1, <3>2
    <3>4. Channel!Echo
      BY <2>1, <3>1, <3>2, <3>3 DEF Channel!Echo, Ids, Owned, Held
    <3> QED BY <3>4 DEF Channel!Next
  <2>5. ASSUME NEW x, Completes(x) PROVE UNCHANGED Channel!vars
    <3>1. toBack' = toBack /\ toFront' = toFront
      BY <2>5 DEF Completes
    <3>2. (atDevice \cup completing)' = atDevice \cup completing
      BY <2>5 DEF Completes
    <3>3. Owned' = Owned /\ Ids' = Ids
      BY <3>1, <3>2 DEF Owned, Ids
    <3> QED BY <2>1, <3>1, <3>3 DEF Channel!vars, Ids, Owned, Held
  <2>6. ASSUME NEW x, Kills(x) \/ Ends(x) PROVE Channel!Next
    <3>1. /\ x \in atDevice \cup completing
          /\ (atDevice \cup completing)' = (atDevice \cup completing) \ {x}
          /\ toBack' = toBack /\ toFront' = Append(toFront, x.id)
      BY <2>2, <2>6 DEF Kills, Ends, FlightInv
    <3>2. \A y \in atDevice \cup completing : y.id = x.id => y = x
      BY <2>2, <3>1 DEF FlightInv
    <3>3. x.id \in Owned /\ Owned' = Owned \ {x.id}
      BY <3>1, <3>2 DEF Owned
    <3>4. Ids' = Ids
      BY <3>1 DEF Ids
    <3>5. Channel!Answer(x.id)
      BY <2>1, <3>1, <3>3, <3>4 DEF Channel!Answer, Ids, Owned, Held
    <3>6. x.id \in Shadows
      BY <3>1 DEF FrontInv, TypeOK, RingTypes
    <3> QED BY <3>5, <3>6 DEF Channel!Next
  <2> QED BY <1>9, <2>3, <2>4, <2>5, <2>6, BehindMoves
<1> QED BY <1>3, <1>4, <1>5, <1>6, <1>7, <1>8, <1>9, <1>10, Effects DEF Effect

\* The driver and the backend use the ring as VusbChannel allows: a request is
\* sent under an id that is not in use, answered once, and its id is held until
\* the URB has been finished.
THEOREM FrontImplementsChannel == Spec => ImplementsChannel
<1>1. Init => Channel!Init
  <2> SUFFICES ASSUME Init PROVE Channel!Init
    OBVIOUS
  <2>1. toBack = << >> /\ toFront = << >> /\ atDevice = {} /\ completing = {}
        /\ finishList = << >>
    BY DEF Init
  <2>2. Ids = << >> /\ Owned = {} /\ Held = {}
    BY <2>1, EmptyList DEF Ids, Owned, Held
  <2> QED BY <2>1, <2>2 DEF Channel!Init, Ids, Owned, Held
<1>2. FrontInv /\ FrontInv' /\ [Next]_vars => [Channel!Next]_Channel!vars
  <2> SUFFICES ASSUME FrontInv, FrontInv', [Next]_vars
               PROVE  Channel!Next \/ UNCHANGED Channel!vars
    OBVIOUS
  <2>1. CASE Next
    BY <2>1, StepOfChannel
  <2>2. CASE UNCHANGED vars
    <3>1. UNCHANGED <<toBack, toFront, atDevice, completing, finishList, reqId>>
      BY <2>2 DEF vars, ringVars, listVars
    <3>2. Ids' = Ids /\ Owned' = Owned /\ Held' = Held
      BY <3>1 DEF Ids, Owned, Held
    <3> QED BY <3>1, <3>2 DEF Channel!vars, Ids, Owned, Held
  <2> QED BY <2>1, <2>2
<1> QED BY <1>1, <1>2, FrontInvariant, PTL DEF Spec, ImplementsChannel, Channel!Spec
=============================================================================
