--------------------------- MODULE VusbRingProofs ---------------------------
(***************************************************************************)
(* Proofs about VusbRing: for every size of the ring and of the backend's  *)
(* pool, and whether or not the frontend always notifies, the invariant    *)
(* RingInv holds, and with it the order of the indices (RingSafe) and the  *)
(* contents of the slots (RequestsIntact, ResponsesIntact).                *)
(***************************************************************************)
EXTENDS VusbRing, FiniteSetTheorems, TLAPS

-----------------------------------------------------------------------------
(* Lemmas on the ring arithmetic and on counting shadows *)

\* Division with remainder, as the backend provers know it.
LEMMA Division ==
    ASSUME NEW n \in Nat \ {0}, NEW k \in Nat
    PROVE  k % n \in 0 .. n - 1 /\ k \div n \in Int /\ k = (n * (k \div n)) + (k % n)
  OBVIOUS

\* Two indices less than the length of the ring apart have slots of their own.
LEMMA SlotsApart ==
    ASSUME NEW n \in Nat \ {0}, NEW k \in Nat, NEW l \in Nat, k < l, l < k + n
    PROVE  k % n # l % n
<1> DEFINE q == k \div n
           r == l \div n
<1>1. k = (n * q) + (k % n) /\ q \in Int /\ k % n \in 0 .. n - 1
  BY Division
<1>2. l = (n * r) + (l % n) /\ r \in Int /\ l % n \in 0 .. n - 1
  BY Division
<1> HIDE DEF q, r
<1>3. SUFFICES ASSUME k % n = l % n PROVE FALSE
  OBVIOUS
<1>4. n * (r - q) = l - k
  <2>1. l - k = (n * r) - (n * q)
    BY <1>1, <1>2, <1>3
  <2> QED BY <1>1, <1>2, <2>1
<1>5. CASE r - q <= 0
  <2>1. n * (r - q) <= 0
    BY <1>1, <1>2, <1>5
  <2> QED BY <1>4, <2>1
<1>6. CASE r - q >= 1
  <2>1. n * (r - q) >= n
    BY <1>1, <1>2, <1>6
  <2> QED BY <1>4, <2>1
<1> QED BY <1>1, <1>2, <1>5, <1>6

\* A slot exists for every index.
LEMMA SlotIndex ==
    ASSUME NEW k \in Nat
    PROVE  SlotOf(k) \in Indices
  BY RingAssumption, Division DEF SlotOf, Indices

\* The same as SlotsApart, for the slots of this ring and in either order.
LEMMA OtherSlot ==
    ASSUME NEW k \in Nat, NEW l \in Nat, k # l, k < l + N, l < k + N
    PROVE  SlotOf(k) # SlotOf(l)
<1>1. CASE k < l
  BY <1>1, RingAssumption, SlotsApart DEF SlotOf
<1>2. CASE l < k
  BY <1>2, RingAssumption, SlotsApart DEF SlotOf
<1> QED BY <1>1, <1>2

\* The elements of two disjoint sets are counted one set after the other.
LEMMA DisjointUnion ==
    ASSUME NEW S, NEW T, IsFiniteSet(S), IsFiniteSet(T), S \cap T = {}
    PROVE  /\ IsFiniteSet(S \cup T)
           /\ Cardinality(S \cup T) = Cardinality(S) + Cardinality(T)
<1>1. /\ IsFiniteSet(S \cup T)
      /\ Cardinality(S \cup T) = Cardinality(S) + Cardinality(T) - Cardinality(S \cap T)
  BY FS_Union
<1>2. Cardinality(S \cap T) = 0
  BY FS_EmptySet
<1>3. Cardinality(S) \in Nat /\ Cardinality(T) \in Nat
  BY FS_CardinalityType
<1> QED BY <1>1, <1>2, <1>3

LEMMA StageSetFinite ==
    ASSUME NEW s
    PROVE  IsFiniteSet(StageSet(s)) /\ Cardinality(StageSet(s)) \in Nat
<1>1. StageSet(s) \in SUBSET Shadows
  BY DEF StageSet
<1>2. IsFiniteSet(StageSet(s))
  BY <1>1, RingAssumption, FS_Subset
<1> QED BY <1>2, FS_CardinalityType

\* Moving one shadow to another stage moves one in the counts.
LEMMA StageMove ==
    ASSUME TypeOK, NEW i \in Shadows, NEW s \in Stages, NEW t \in Stages,
           stage[i] = s, s # t, stage' = [stage EXCEPT ![i] = t]
    PROVE  /\ Cardinality(StageSet(t))' = Cardinality(StageSet(t)) + 1
           /\ Cardinality(StageSet(s))' = Cardinality(StageSet(s)) - 1
           /\ \A u : u # t /\ u # s => StageSet(u)' = StageSet(u)
<1>0. stage \in [Shadows -> Stages]
  BY DEF TypeOK
<1>1. StageSet(t)' = StageSet(t) \cup {i} /\ i \notin StageSet(t)
  BY <1>0 DEF StageSet
<1>2. StageSet(s)' = StageSet(s) \ {i} /\ i \in StageSet(s)
  BY <1>0 DEF StageSet
<1>3. \A u : u # t /\ u # s => StageSet(u)' = StageSet(u)
  BY <1>0 DEF StageSet
<1>4. Cardinality(StageSet(t) \cup {i}) = Cardinality(StageSet(t)) + 1
  BY <1>1, StageSetFinite, FS_AddElement
<1>5. Cardinality(StageSet(s) \ {i}) = Cardinality(StageSet(s)) - 1
  BY <1>2, StageSetFinite, FS_RemoveElement
<1> QED BY <1>1, <1>2, <1>3, <1>4, <1>5

\* The requests under way are not more than the shadows that are not free.
LEMMA OutstandingBound ==
    ASSUME TypeOK, NEW F \in SUBSET FreeShadows
    PROVE  /\ IsFiniteSet(F)
           /\ Cardinality(StageSet("queued")) + Cardinality(StageSet("taken"))
                + Cardinality(StageSet("answered")) + Cardinality(F) <= N
<1> DEFINE Q == StageSet("queued")
           T == StageSet("taken")
           A == StageSet("answered")
<1>1. /\ Q \cap T = {} /\ (Q \cup T) \cap A = {} /\ (Q \cup T \cup A) \cap F = {}
      /\ Q \cup T \cup A \cup F \in SUBSET Shadows
  BY DEF StageSet, FreeShadows
<1>2. /\ IsFiniteSet(Q) /\ IsFiniteSet(T) /\ IsFiniteSet(A)
      /\ Cardinality(Q) \in Nat /\ Cardinality(T) \in Nat /\ Cardinality(A) \in Nat
  BY StageSetFinite
<1>3. IsFiniteSet(F) /\ Cardinality(F) \in Nat
  <2>1. F \in SUBSET Shadows
    BY DEF FreeShadows
  <2>2. IsFiniteSet(F)
    BY <2>1, RingAssumption, FS_Subset
  <2> QED BY <2>2, FS_CardinalityType
<1> HIDE DEF Q, T, A
<1>4. IsFiniteSet(Q \cup T) /\ Cardinality(Q \cup T) = Cardinality(Q) + Cardinality(T)
  BY <1>1, <1>2, DisjointUnion
<1>5. /\ IsFiniteSet(Q \cup T \cup A)
      /\ Cardinality(Q \cup T \cup A) = Cardinality(Q \cup T) + Cardinality(A)
  BY <1>1, <1>2, <1>4, DisjointUnion
<1>6. Cardinality(Q \cup T \cup A \cup F) = Cardinality(Q \cup T \cup A) + Cardinality(F)
  BY <1>1, <1>2, <1>3, <1>4, <1>5, DisjointUnion
<1>7. Cardinality(Q \cup T \cup A \cup F) <= N
  BY <1>1, RingAssumption, FS_Subset
<1> QED BY <1>2, <1>3, <1>4, <1>5, <1>6, <1>7 DEF Q, T, A

\* A free shadow is one more than are under way, so a slot is free too: what
\* the frontend relies on in place of looking at the ring.
LEMMA FreeShadowFreeSlot ==
    ASSUME TypeOK, Counts, NEW i \in Shadows, stage[i] = "free"
    PROVE  reqProd < rspCons + N
<1>1. {i} \in SUBSET FreeShadows
  BY DEF FreeShadows
<1>2. Cardinality({i}) = 1
  BY FS_Singleton
<1>3. Cardinality(StageSet("queued")) + Cardinality(StageSet("taken"))
        + Cardinality(StageSet("answered")) + 1 <= N
  BY <1>1, <1>2, OutstandingBound
<1>4. /\ Cardinality(StageSet("queued")) \in Nat
      /\ Cardinality(StageSet("taken")) \in Nat
      /\ Cardinality(StageSet("answered")) \in Nat
  BY StageSetFinite
<1> QED BY <1>3, <1>4, RingAssumption DEF Counts, TypeOK

\* A request that has been taken has left the ring, so its response fits in
\* the room it had.
LEMMA TakenLeavesRoom ==
    ASSUME TypeOK, Counts, NEW i \in Shadows, stage[i] = "taken"
    PROVE  rspProd < reqCons
<1>1. Cardinality(StageSet("taken")) \in Nat /\ IsFiniteSet(StageSet("taken"))
  BY StageSetFinite
<1>2. StageSet("taken") # {}
  BY DEF StageSet
<1>3. Cardinality(StageSet("taken")) # 0
  BY <1>1, <1>2, FS_EmptySet
<1> QED BY <1>1, <1>3 DEF Counts, TypeOK

\* The counts put the indices in order, at most N apart.
LEMMA CountsOrder ==
    ASSUME TypeOK, Counts
    PROVE  RingSafe
<1>1. /\ Cardinality(StageSet("queued")) \in Nat
      /\ Cardinality(StageSet("taken")) \in Nat
      /\ Cardinality(StageSet("answered")) \in Nat
  BY StageSetFinite
<1>2. Cardinality(StageSet("queued")) + Cardinality(StageSet("taken"))
        + Cardinality(StageSet("answered")) <= N
  <2>1. Cardinality(StageSet("queued")) + Cardinality(StageSet("taken"))
          + Cardinality(StageSet("answered")) + Cardinality({}) <= N
    BY OutstandingBound
  <2> QED BY <2>1, <1>1, FS_EmptySet, RingAssumption
<1>3. /\ reqProd \in Nat /\ reqCons \in Nat /\ rspProd \in Nat /\ rspCons \in Nat
  BY DEF TypeOK
<1> QED BY <1>1, <1>2, <1>3, RingAssumption DEF RingSafe, Counts

-----------------------------------------------------------------------------
(* The inductive invariant *)

LEMMA InitRingInv == Init => RingInv
<1> SUFFICES ASSUME Init PROVE RingInv
  OBVIOUS
<1> USE RingAssumption
<1>1. TypeOK
  BY DEF Init, TypeOK, Slot, Stages, PrStates, Kinds, NoKind, Indices
<1>2. Counts
  <2>1. /\ StageSet("queued") = {} /\ StageSet("taken") = {}
        /\ StageSet("answered") = {}
    BY DEF Init, StageSet
  <2>2. Cardinality({}) = 0
    BY FS_EmptySet
  <2> QED BY <2>1, <2>2 DEF Init, Counts
<1>3. RequestsIntact /\ ResponsesIntact
  BY DEF Init, RequestsIntact, ResponsesIntact
<1>4. PreqsIntact /\ Snapshots
  BY DEF Init, PreqsIntact, Unanswered, Snapshots
<1> QED BY <1>1, <1>2, <1>3, <1>4 DEF RingInv

\* A step that moves no index, writes no slot and takes up no request keeps
\* everything but the types and the snapshots by itself.
LEMMA QuietStep ==
    ASSUME RingInv, TypeOK', Snapshots',
           UNCHANGED <<slots, reqProd, reqCons, rspProd, rspCons, stage, prId>>,
           Unanswered' \subseteq Unanswered
    PROVE  RingInv'
<1>1. Counts'
  BY DEF RingInv, Counts, StageSet
<1>2. RequestsIntact' /\ ResponsesIntact'
  BY DEF RingInv, RequestsIntact, ResponsesIntact, SlotOf
<1>3. PreqsIntact'
  BY DEF RingInv, PreqsIntact
<1> QED BY <1>1, <1>2, <1>3 DEF RingInv

LEMMA FrontQuiet ==
    ASSUME RingInv, FlushRing \/ Interrupt \/ FinalCheckResponses
    PROVE  RingInv'
<1> USE DEF frontVars, kthreadVars, preqVars
<1>1. RingSafe
  BY CountsOrder DEF RingInv
<1>2. CASE FlushRing
  <2>1. Notified \in BOOLEAN
    BY <1>2, RingAssumption DEF Notified, PushAsksNotify
  <2> QED BY <1>2, <2>1, QuietStep DEF RingInv, TypeOK, Snapshots, Unanswered, FlushRing
<1>3. CASE Interrupt
  <2>1. TypeOK'
    BY <1>3 DEF RingInv, TypeOK, Interrupt
  <2>2. Snapshots'
    BY <1>1, <1>3 DEF RingInv, TypeOK, RingSafe, Snapshots, Interrupt
  <2> QED BY <1>3, <2>1, <2>2, QuietStep DEF Unanswered, Interrupt
<1>4. CASE FinalCheckResponses
  BY <1>1, <1>4, QuietStep
     DEF RingInv, TypeOK, RingSafe, Snapshots, Unanswered, FinalCheckResponses
<1> QED BY <1>2, <1>3, <1>4

LEMMA KthreadQuiet ==
    ASSUME RingInv, BackInterrupt \/ Kthread
    PROVE  RingInv'
<1> USE DEF frontVars, kthreadVars, preqVars, Kthread, MoreInSnapshot
<1>1. RingSafe
  BY CountsOrder DEF RingInv
<1>2. CASE BackInterrupt
  BY <1>1, <1>2, QuietStep
     DEF RingInv, TypeOK, RingSafe, Snapshots, Unanswered, BackInterrupt
<1>3. CASE ScheduleWake
  BY <1>1, <1>3, QuietStep
     DEF RingInv, TypeOK, RingSafe, Snapshots, Unanswered, ScheduleWake
<1>4. CASE LoadProducer
  BY <1>1, <1>4, QuietStep
     DEF RingInv, TypeOK, RingSafe, Snapshots, Unanswered, LoadProducer
<1>5. CASE OutOfRequests
  BY <1>1, <1>5, QuietStep
     DEF RingInv, TypeOK, RingSafe, Snapshots, Unanswered, OutOfRequests
<1>6. CASE LeaveLoop
  BY <1>1, <1>6, QuietStep
     DEF RingInv, TypeOK, RingSafe, Snapshots, Unanswered, LeaveLoop
<1> QED BY <1>2, <1>3, <1>4, <1>5, <1>6

\* What a pending_req does before and after it puts its answer on the ring.
LEMMA PreqQuiet ==
    ASSUME RingInv, NEW p \in Preqs,
           \/ Dispatch(p) \/ CompleteUrb(p) \/ TailCheck(p) \/ StoreReqEvent(p)
           \/ RecheckRequests(p) \/ NotifyWork(p) \/ NotifyFront(p) \/ AsyncFree(p)
    PROVE  RingInv'
<1> USE DEF frontVars, kthreadVars, preqVars, Dispatch
<1>1. CASE AnswerNow(p)
  BY <1>1, QuietStep DEF RingInv, TypeOK, PrStates, Snapshots, Unanswered, AnswerNow
<1>2. CASE SubmitUrb(p)
  BY <1>2, QuietStep DEF RingInv, TypeOK, PrStates, Snapshots, Unanswered, SubmitUrb
<1>3. CASE CompleteUrb(p)
  BY <1>3, QuietStep DEF RingInv, TypeOK, PrStates, Snapshots, Unanswered, CompleteUrb
<1>4. CASE TailCheck(p)
  BY <1>4, QuietStep DEF RingInv, TypeOK, PrStates, Snapshots, Unanswered, TailCheck
<1>5. CASE StoreReqEvent(p)
  BY <1>5, QuietStep DEF RingInv, TypeOK, PrStates, Snapshots, Unanswered, StoreReqEvent
<1>6. CASE RecheckRequests(p)
  BY <1>6, QuietStep DEF RingInv, TypeOK, PrStates, Snapshots, Unanswered, RecheckRequests
<1>7. CASE NotifyWork(p)
  BY <1>7, QuietStep DEF RingInv, TypeOK, PrStates, Snapshots, Unanswered, NotifyWork
<1>8. CASE NotifyFront(p)
  BY <1>8, QuietStep DEF RingInv, TypeOK, PrStates, Snapshots, Unanswered, NotifyFront
<1>9. CASE AsyncFree(p)
  BY <1>9, QuietStep DEF RingInv, TypeOK, PrStates, Snapshots, Unanswered, AsyncFree
<1> QED BY <1>1, <1>2, <1>3, <1>4, <1>5, <1>6, <1>7, <1>8, <1>9

LEMMA PutRequestStep ==
    ASSUME RingInv, NEW i \in Shadows, NEW k \in Kinds, PutRequest(i, k)
    PROVE  RingInv'
<1> USE DEF frontVars, kthreadVars, preqVars
<1>0. TypeOK /\ Counts /\ RingSafe
  BY CountsOrder DEF RingInv
<1>1. reqProd \in Nat /\ reqCons \in Nat /\ rspProd \in Nat /\ rspCons \in Nat
  BY <1>0 DEF TypeOK
<1>2. SlotOf(reqProd) \in Indices
  BY <1>1, SlotIndex
<1>3. reqProd < rspCons + N
  BY <1>0, FreeShadowFreeSlot DEF PutRequest, MayAllocate
<1>4. TypeOK'
  BY <1>0, <1>2 DEF TypeOK, PutRequest, MayAllocate, Slot, Stages
<1>5. Counts'
  <2>1. stage[i] = "free" /\ stage' = [stage EXCEPT ![i] = "queued"]
    BY DEF PutRequest, MayAllocate
  <2>2. /\ Cardinality(StageSet("queued"))' = Cardinality(StageSet("queued")) + 1
        /\ StageSet("taken")' = StageSet("taken")
        /\ StageSet("answered")' = StageSet("answered")
    BY <1>0, <2>1, StageMove DEF Stages
  <2>3. Cardinality(StageSet("queued")) \in Nat
    BY StageSetFinite
  <2> QED BY <1>0, <1>1, <2>2, <2>3 DEF Counts, PutRequest
<1>6. RequestsIntact'
  <2>1. \A j \in reqCons .. reqProd - 1 : slots'[SlotOf(j)] = slots[SlotOf(j)]
    BY <1>0, <1>1, <1>2, <1>3, OtherSlot, SlotIndex, RingAssumption
       DEF PutRequest, TypeOK, RingSafe
  <2>2. slots'[SlotOf(reqProd)] = [what |-> "request", id |-> i]
    BY <1>0, <1>2 DEF PutRequest, TypeOK
  <2>3. \A j \in reqCons .. reqProd - 1 : slots[SlotOf(j)].id # i
    BY DEF RingInv, RequestsIntact, PutRequest, MayAllocate
  <2>4. (reqCons .. reqProd - 1)' = (reqCons .. reqProd - 1) \cup {reqProd}
    BY <1>0, <1>1 DEF PutRequest, RingSafe
  <2>5. \A j \in reqCons .. reqProd - 1 : stage'[slots[SlotOf(j)].id] = "queued"
    BY <1>0, <2>3 DEF RingInv, RequestsIntact, PutRequest, TypeOK
  <2>6. stage'[i] = "queued"
    BY <1>0 DEF PutRequest, TypeOK
  <2> QED BY <2>1, <2>2, <2>3, <2>4, <2>5, <2>6
          DEF RingInv, RequestsIntact, SlotOf
<1>7. ResponsesIntact'
  <2>1. \A j \in rspCons .. rspProd - 1 : slots'[SlotOf(j)] = slots[SlotOf(j)]
    BY <1>0, <1>1, <1>2, <1>3, OtherSlot, SlotIndex, RingAssumption
       DEF PutRequest, TypeOK, RingSafe
  <2>2. \A j \in rspCons .. rspProd - 1 : stage'[slots[SlotOf(j)].id] = "answered"
    BY <1>0 DEF RingInv, ResponsesIntact, PutRequest, MayAllocate, TypeOK
  <2> QED BY <2>1, <2>2 DEF RingInv, ResponsesIntact, PutRequest, SlotOf
<1>8. PreqsIntact'
  BY <1>0 DEF RingInv, PreqsIntact, Unanswered, PutRequest, MayAllocate, TypeOK
<1>9. Snapshots'
  BY <1>0, <1>1 DEF RingInv, Snapshots, PutRequest, TypeOK
<1> QED BY <1>4, <1>5, <1>6, <1>7, <1>8, <1>9 DEF RingInv

LEMMA ConsumeResponseStep ==
    ASSUME RingInv, ConsumeResponse
    PROVE  RingInv'
<1> USE DEF frontVars, kthreadVars, preqVars
<1> DEFINE i == slots[SlotOf(rspCons)].id
           t == IF kind[i] = "urb" THEN "finish" ELSE "free"
<1>0. TypeOK /\ Counts /\ RingSafe
  BY CountsOrder DEF RingInv
<1>1. reqProd \in Nat /\ reqCons \in Nat /\ rspProd \in Nat /\ rspCons \in Nat
  BY <1>0 DEF TypeOK
<1>2. rspCons < rspProd
  BY <1>1 DEF RingInv, Snapshots, TypeOK, ConsumeResponse
\* The response found in the slot is the oldest one not read.
<1>3. /\ stage[i] = "answered"
      /\ \A j \in rspCons + 1 .. rspProd - 1 : slots[SlotOf(j)].id # i
  BY <1>1, <1>2 DEF RingInv, ResponsesIntact
<1>4. i \in Shadows
  <2>1. slots[SlotOf(rspCons)] \in Slot /\ slots[SlotOf(rspCons)].what = "response"
    BY <1>0, <1>1, <1>2, SlotIndex DEF TypeOK, RingInv, ResponsesIntact
  <2> QED BY <2>1 DEF Slot
<1>5. stage' = [stage EXCEPT ![i] = t] /\ t \in {"finish", "free"}
  BY DEF ConsumeResponse
<1> HIDE DEF i, t
<1>6. TypeOK'
  BY <1>0, <1>1, <1>4, <1>5 DEF TypeOK, ConsumeResponse, Stages, i
<1>7. Counts'
  <2>1. /\ Cardinality(StageSet("answered"))' = Cardinality(StageSet("answered")) - 1
        /\ StageSet("queued")' = StageSet("queued")
        /\ StageSet("taken")' = StageSet("taken")
    <3>1. t \in Stages /\ "answered" \in Stages /\ "answered" # t
      BY <1>5 DEF Stages
    <3> QED BY <1>0, <1>3, <1>4, <1>5, <3>1, StageMove
  <2>2. Cardinality(StageSet("answered")) \in Nat
    BY StageSetFinite
  <2> QED BY <1>0, <1>1, <2>1, <2>2 DEF Counts, ConsumeResponse
<1>8. RequestsIntact'
  BY <1>0, <1>3, <1>4, <1>5
     DEF RingInv, RequestsIntact, ConsumeResponse, SlotOf, TypeOK
<1>9. ResponsesIntact'
  <2>1. (rspCons .. rspProd - 1)' \subseteq rspCons .. rspProd - 1
        /\ (rspCons .. rspProd - 1)' = rspCons + 1 .. rspProd - 1
    BY <1>1 DEF ConsumeResponse
  <2>2. \A j \in rspCons + 1 .. rspProd - 1 : stage'[slots[SlotOf(j)].id] = "answered"
    BY <1>0, <1>1, <1>3, <1>5, <2>1 DEF RingInv, ResponsesIntact, TypeOK
  <2> QED BY <2>1, <2>2 DEF RingInv, ResponsesIntact, ConsumeResponse, SlotOf
<1>10. PreqsIntact'
  BY <1>0, <1>3, <1>5 DEF RingInv, PreqsIntact, Unanswered, ConsumeResponse, TypeOK
<1>11. Snapshots'
  BY <1>1, <1>2 DEF RingInv, Snapshots, ConsumeResponse, TypeOK
<1> QED BY <1>6, <1>7, <1>8, <1>9, <1>10, <1>11 DEF RingInv

LEMMA FinishUrbStep ==
    ASSUME RingInv, NEW i \in Shadows, FinishUrb(i)
    PROVE  RingInv'
<1> USE DEF frontVars, kthreadVars, preqVars
<1>0. TypeOK /\ Counts
  BY DEF RingInv
<1>1. stage[i] = "finish" /\ stage' = [stage EXCEPT ![i] = "free"]
  BY DEF FinishUrb
<1>2. TypeOK'
  BY <1>0 DEF TypeOK, FinishUrb, Stages
<1>3. Counts'
  <2>1. /\ StageSet("queued")' = StageSet("queued")
        /\ StageSet("taken")' = StageSet("taken")
        /\ StageSet("answered")' = StageSet("answered")
    BY <1>0, <1>1, StageMove DEF Stages
  <2> QED BY <1>0, <2>1 DEF Counts, FinishUrb
<1>4. RequestsIntact'
  BY <1>0, <1>1 DEF RingInv, RequestsIntact, FinishUrb, SlotOf, TypeOK
<1>5. ResponsesIntact'
  BY <1>0, <1>1 DEF RingInv, ResponsesIntact, FinishUrb, SlotOf, TypeOK
<1>6. PreqsIntact'
  BY <1>0, <1>1 DEF RingInv, PreqsIntact, Unanswered, FinishUrb, TypeOK
<1>7. Snapshots'
  BY DEF RingInv, Snapshots, FinishUrb
<1> QED BY <1>2, <1>3, <1>4, <1>5, <1>6, <1>7 DEF RingInv

LEMMA TakeRequestStep ==
    ASSUME RingInv, NEW p \in Preqs, TakeRequest(p)
    PROVE  RingInv'
<1> USE DEF frontVars, kthreadVars, preqVars
<1> DEFINE i == slots[SlotOf(reqCons)].id
<1>0. TypeOK /\ Counts /\ RingSafe
  BY CountsOrder DEF RingInv
<1>1. reqProd \in Nat /\ reqCons \in Nat /\ rspProd \in Nat /\ rspCons \in Nat
  BY <1>0 DEF TypeOK
<1>2. reqCons < reqProd
  BY <1>1 DEF RingInv, Snapshots, TypeOK, TakeRequest, MoreInSnapshot
<1>3. /\ stage[i] = "queued"
      /\ \A j \in reqCons + 1 .. reqProd - 1 : slots[SlotOf(j)].id # i
  BY <1>1, <1>2 DEF RingInv, RequestsIntact
<1>4. i \in Shadows
  <2>1. slots[SlotOf(reqCons)] \in Slot /\ slots[SlotOf(reqCons)].what = "request"
    BY <1>0, <1>1, <1>2, SlotIndex DEF TypeOK, RingInv, RequestsIntact
  <2> QED BY <2>1 DEF Slot
<1>5. /\ stage' = [stage EXCEPT ![i] = "taken"]
      /\ prId' = [prId EXCEPT ![p] = i]
      /\ prState' = [prState EXCEPT ![p] = "dispatch"]
      /\ prState[p] = "free"
  BY DEF TakeRequest
<1> HIDE DEF i
<1>6. TypeOK'
  BY <1>0, <1>1, <1>4, <1>5
     DEF TypeOK, TakeRequest, MoreInSnapshot, Stages, PrStates
<1>7. Counts'
  <2>1. /\ Cardinality(StageSet("queued"))' = Cardinality(StageSet("queued")) - 1
        /\ Cardinality(StageSet("taken"))' = Cardinality(StageSet("taken")) + 1
        /\ StageSet("answered")' = StageSet("answered")
    BY <1>0, <1>3, <1>4, <1>5, StageMove DEF Stages
  <2>2. Cardinality(StageSet("queued")) \in Nat /\ Cardinality(StageSet("taken")) \in Nat
    BY StageSetFinite
  <2> QED BY <1>0, <1>1, <2>1, <2>2 DEF Counts, TakeRequest
<1>8. RequestsIntact'
  <2>1. (reqCons .. reqProd - 1)' \subseteq reqCons .. reqProd - 1
        /\ (reqCons .. reqProd - 1)' = reqCons + 1 .. reqProd - 1
    BY <1>1 DEF TakeRequest
  <2>2. \A j \in reqCons + 1 .. reqProd - 1 : stage'[slots[SlotOf(j)].id] = "queued"
    BY <1>0, <1>1, <1>3, <1>5, <2>1 DEF RingInv, RequestsIntact, TypeOK
  <2> QED BY <2>1, <2>2 DEF RingInv, RequestsIntact, TakeRequest, SlotOf
<1>9. ResponsesIntact'
  BY <1>0, <1>3, <1>5 DEF RingInv, ResponsesIntact, TakeRequest, SlotOf, TypeOK
<1>10. PreqsIntact'
  <2>1. Unanswered' = Unanswered \cup {p} /\ p \notin Unanswered
    BY <1>0, <1>5 DEF Unanswered, TypeOK
  <2>2. \A q \in Unanswered : prId'[q] = prId[q] /\ prId[q] # i
    BY <1>0, <1>3, <1>5, <2>1 DEF RingInv, PreqsIntact, TypeOK, Unanswered
  <2>3. prId'[p] = i /\ stage'[i] = "taken"
    BY <1>0, <1>4, <1>5 DEF TypeOK
  <2>4. \A q \in Unanswered : stage'[prId[q]] = "taken"
    BY <1>0, <1>5, <2>2 DEF RingInv, PreqsIntact, TypeOK
  <2> QED BY <1>4, <2>1, <2>2, <2>3, <2>4 DEF RingInv, PreqsIntact
<1>11. Snapshots'
  BY <1>1, <1>2 DEF RingInv, Snapshots, TakeRequest, MoreInSnapshot, TypeOK
<1> QED BY <1>6, <1>7, <1>8, <1>9, <1>10, <1>11 DEF RingInv

LEMMA PushResponseStep ==
    ASSUME RingInv, NEW p \in Preqs, PushResponse(p)
    PROVE  RingInv'
<1> USE DEF frontVars, kthreadVars, preqVars
<1> DEFINE i == prId[p]
<1>0. TypeOK /\ Counts /\ RingSafe
  BY CountsOrder DEF RingInv
<1>1. reqProd \in Nat /\ reqCons \in Nat /\ rspProd \in Nat /\ rspCons \in Nat
  BY <1>0 DEF TypeOK
<1>2. /\ p \in Unanswered /\ i \in Shadows /\ stage[i] = "taken"
      /\ \A q \in Unanswered : prId[q] = i => q = p
  BY DEF RingInv, PreqsIntact, PushResponse, Unanswered
<1>3. /\ stage' = [stage EXCEPT ![i] = "answered"]
      /\ slots' = [slots EXCEPT ![SlotOf(rspProd)] = [what |-> "response", id |-> i]]
      /\ prId' = [prId EXCEPT ![p] = NoShadow]
      /\ prState' = [prState EXCEPT ![p] = "tail"]
  BY DEF PushResponse
<1>4. SlotOf(rspProd) \in Indices
  BY <1>1, SlotIndex
<1>5. rspProd < reqCons
  BY <1>0, <1>2, TakenLeavesRoom
<1> HIDE DEF i
<1>6. TypeOK'
  BY <1>0, <1>1, <1>2, <1>3, <1>4 DEF TypeOK, PushResponse, Slot, Stages, PrStates
<1>7. Counts'
  <2>1. /\ Cardinality(StageSet("taken"))' = Cardinality(StageSet("taken")) - 1
        /\ Cardinality(StageSet("answered"))' = Cardinality(StageSet("answered")) + 1
        /\ StageSet("queued")' = StageSet("queued")
    BY <1>0, <1>2, <1>3, StageMove DEF Stages
  <2>2. Cardinality(StageSet("taken")) \in Nat /\ Cardinality(StageSet("answered")) \in Nat
    BY StageSetFinite
  <2> QED BY <1>0, <1>1, <2>1, <2>2 DEF Counts, PushResponse
<1>8. RequestsIntact'
  <2>1. \A j \in reqCons .. reqProd - 1 : slots'[SlotOf(j)] = slots[SlotOf(j)]
    BY <1>0, <1>1, <1>3, <1>4, <1>5, OtherSlot, SlotIndex, RingAssumption
       DEF TypeOK, RingSafe
  <2>2. \A j \in reqCons .. reqProd - 1 : stage'[slots[SlotOf(j)].id] = "queued"
    BY <1>0, <1>2, <1>3 DEF RingInv, RequestsIntact, TypeOK
  <2> QED BY <2>1, <2>2 DEF RingInv, RequestsIntact, PushResponse, SlotOf
<1>9. ResponsesIntact'
  <2>1. \A j \in rspCons .. rspProd - 1 : slots'[SlotOf(j)] = slots[SlotOf(j)]
    BY <1>0, <1>1, <1>3, <1>4, <1>5, OtherSlot, SlotIndex, RingAssumption
       DEF TypeOK, RingSafe
  <2>2. slots'[SlotOf(rspProd)] = [what |-> "response", id |-> i]
    BY <1>0, <1>3, <1>4 DEF TypeOK
  <2>3. \A j \in rspCons .. rspProd - 1 : slots[SlotOf(j)].id # i
    BY <1>2 DEF RingInv, ResponsesIntact
  <2>4. (rspCons .. rspProd - 1)' = (rspCons .. rspProd - 1) \cup {rspProd}
    BY <1>0, <1>1 DEF PushResponse, RingSafe
  <2>5. \A j \in rspCons .. rspProd - 1 : stage'[slots[SlotOf(j)].id] = "answered"
    BY <1>0, <1>3, <2>3 DEF RingInv, ResponsesIntact, TypeOK
  <2>6. stage'[i] = "answered"
    BY <1>0, <1>2, <1>3 DEF TypeOK
  <2> QED BY <2>1, <2>2, <2>3, <2>4, <2>5, <2>6 DEF RingInv, ResponsesIntact, SlotOf
<1>10. PreqsIntact'
  <2>1. Unanswered' = Unanswered \ {p}
    BY <1>0, <1>3 DEF Unanswered, TypeOK
  <2>2. \A q \in Unanswered \ {p} : prId'[q] = prId[q] /\ prId[q] # i
    BY <1>0, <1>2, <1>3 DEF TypeOK, Unanswered
  <2>3. \A q \in Unanswered \ {p} : stage'[prId[q]] = "taken"
    BY <1>0, <1>3, <2>2 DEF RingInv, PreqsIntact, TypeOK
  <2> QED BY <2>1, <2>2, <2>3 DEF RingInv, PreqsIntact
<1>11. Snapshots'
  BY <1>1 DEF RingInv, Snapshots, PushResponse, TypeOK
<1> QED BY <1>6, <1>7, <1>8, <1>9, <1>10, <1>11 DEF RingInv

\* The invariant of the ring, for every size of ring and pool.
THEOREM RingInvariant == Spec => []RingInv
<1>1. Init => RingInv
  BY InitRingInv
<1>2. RingInv /\ [Next]_vars => RingInv'
  <2> SUFFICES ASSUME RingInv, [Next]_vars PROVE RingInv'
    OBVIOUS
  <2>1. CASE \E i \in Shadows, k \in Kinds : PutRequest(i, k)
    BY <2>1, PutRequestStep
  <2>2. CASE FlushRing \/ FrontIrq
    BY <2>2, FrontQuiet, ConsumeResponseStep DEF FrontIrq
  <2>3. CASE \E i \in Shadows : FinishUrb(i)
    BY <2>3, FinishUrbStep
  <2>4. CASE BackInterrupt \/ Kthread
    BY <2>4, KthreadQuiet
  <2>5. CASE \E p \in Preqs : TakeRequest(p)
    BY <2>5, TakeRequestStep
  <2>6. CASE \E p \in Preqs : Dispatch(p) \/ CompleteUrb(p)
    BY <2>6, PreqQuiet
  <2>7. CASE \E p \in Preqs : Respond(p)
    BY <2>7, PreqQuiet, PushResponseStep DEF Respond
  <2>8. CASE UNCHANGED vars
    <3>1. TypeOK' /\ Snapshots'
      BY <2>8 DEF RingInv, TypeOK, Snapshots, vars
    <3> QED BY <2>8, <3>1, QuietStep DEF vars, Unanswered
  <2> QED BY <2>1, <2>2, <2>3, <2>4, <2>5, <2>6, <2>7, <2>8 DEF Next
<1> QED BY <1>1, <1>2, PTL DEF Spec

-----------------------------------------------------------------------------
(* What follows from it *)

THEOREM TypeCorrect == Spec => []TypeOK
<1>1. RingInv => TypeOK
  BY DEF RingInv
<1> QED BY <1>1, RingInvariant, PTL

\* vusb_put_ring never runs into an unread request or response, although it
\* looks at no index: "If we have a shadow allocation, we know there is space
\* on the ring" (xc-vusb.c).
THEOREM RingNeverOverruns == Spec => []RingSafe
<1>1. RingInv => RingSafe
  BY CountsOrder DEF RingInv
<1> QED BY <1>1, RingInvariant, PTL

\* What make_response published stays as it was until vusb_interrupt has read
\* it, and the shadow it names is in use, answered exactly once: the BUG_ON of
\* the interrupt handler cannot fire, whatever the order of the completions.
THEOREM ResponsesNameShadowsInUse == Spec => []ResponsesIntact
<1>1. RingInv => ResponsesIntact
  BY DEF RingInv
<1> QED BY <1>1, RingInvariant, PTL

\* Likewise for what the backend reads: do_usb_io_op finds every request once,
\* in the order and the form in which it was pushed.
THEOREM RequestsReadAsWritten == Spec => []RequestsIntact
<1>1. RingInv => RequestsIntact
  BY DEF RingInv
<1> QED BY <1>1, RingInvariant, PTL

-----------------------------------------------------------------------------
(* Nothing is stranded *)

\* While the ring holds as many requests taken as it has slots, there is none
\* left to take.
LEMMA OverflowAllTaken ==
    ASSUME RingInv, ConsOverflow
    PROVE  reqCons = reqProd /\ rspProd # reqCons
<1>1. /\ Cardinality(StageSet("queued")) \in Nat
      /\ Cardinality(StageSet("taken")) \in Nat
      /\ Cardinality(StageSet("answered")) \in Nat
  BY StageSetFinite
<1>2. Cardinality(StageSet("queued")) + Cardinality(StageSet("taken"))
        + Cardinality(StageSet("answered")) + Cardinality({}) <= N
  BY OutstandingBound DEF RingInv
<1>3. Cardinality({}) = 0
  BY FS_EmptySet
<1> QED BY <1>1, <1>2, <1>3, RingAssumption
        DEF RingInv, Counts, TypeOK, ConsOverflow

\* A request between the two indices has a pending_req that will answer it.
LEMMA SomebodyAnswers ==
    ASSUME RingInv, TakenOwed, rspProd # reqCons
    PROVE  Unanswered # {}
<1>1. Cardinality(StageSet("taken")) # 0
  BY DEF RingInv, Counts, TypeOK
<1>2. StageSet("taken") # {}
  BY <1>1, FS_EmptySet
<1> QED BY <1>2 DEF TakenOwed, StageSet

\* So a look at the ring that sees no request has missed none.
LEMMA NothingUnconsumed ==
    ASSUME RingInv, ~HasUnconsumedRequests
    PROVE  reqCons = reqProd
  BY OverflowAllTaken DEF HasUnconsumedRequests

LEMMA InitStrandInv == Init => StrandInv
  BY RingAssumption
     DEF Init, StrandInv, LockHeld, TakenOwed, EventCurrent, EventMover,
         PushCovered, NoStrandedResponse, Unanswered

\* Steps of the frontend, which never touch a pending_req.
LEMMA FrontStrand ==
    ASSUME RingInv, StrandInv,
           \/ \E i \in Shadows, k \in Kinds : PutRequest(i, k)
           \/ FlushRing \/ FrontIrq \/ \E i \in Shadows : FinishUrb(i)
           \/ BackInterrupt
    PROVE  StrandInv'
<1> USE DEF frontVars, kthreadVars, preqVars, FrontIrq
<1>0. /\ TypeOK /\ RingSafe
      /\ LockHeld /\ TakenOwed /\ EventCurrent /\ PushCovered /\ NoStrandedResponse
  BY CountsOrder DEF RingInv, StrandInv
<1>1. /\ UNCHANGED <<reqCons, rspProd, kpc, krp, prState, prId, ringLock, reqEvent,
                     tailEvent>>
      /\ Unanswered' = Unanswered
  BY DEF PutRequest, FlushRing, Interrupt, ConsumeResponse, FinalCheckResponses,
         FinishUrb, BackInterrupt, Unanswered
<1>2. LockHeld'
  BY <1>0, <1>1 DEF LockHeld
<1>3. \A i \in Shadows : stage'[i] = "taken" => stage[i] = "taken"
  BY <1>0 DEF PutRequest, FlushRing, Interrupt, ConsumeResponse,
              FinalCheckResponses, FinishUrb, BackInterrupt, TypeOK
<1>4. TakenOwed'
  BY <1>0, <1>1, <1>3 DEF TakenOwed
<1>5. CASE \E i \in Shadows, k \in Kinds : PutRequest(i, k)
  <2>1. reqProd' = reqProd + 1 /\ fpc' \in {"flush", "flushForced"} /\ fpc = "unlocked"
        /\ UNCHANGED <<rspCons, evtFront, evtBack, waiting>>
    BY <1>5 DEF PutRequest
  <2>2. EventCurrent'
    BY <1>0, <1>1, <2>1 DEF EventCurrent, EventMover, TypeOK, RingSafe
  \* Nobody is about to look: then the thread has read all there was, and
  \* req_event asks for this very request.
  <2>3. PushCovered'
    <3>1. SUFFICES ASSUME ~AlwaysNotify, ~AnswerOwed, ~evtBack, ~waiting,
                          kpc # "load", fpc' = "flush"
                   PROVE  reqEvent = reqProd + 1
      BY <1>1, <2>1 DEF PushCovered, AnswerOwed
    <3>2. ~EventMover
      BY <1>0, <3>1 DEF AnswerOwed, EventMover, Unanswered
    <3>3. reqCons = reqProd
      BY <1>0, <2>1, <3>1, <3>2 DEF PushCovered, EventMover
    <3> QED BY <1>0, <3>2, <3>3 DEF EventCurrent
  <2>4. NoStrandedResponse'
    BY <1>0, <1>1, <2>1 DEF NoStrandedResponse
  <2> QED BY <1>2, <1>4, <2>2, <2>3, <2>4 DEF StrandInv
<1>6. CASE FlushRing
  <2>1. EventCurrent' /\ NoStrandedResponse'
    BY <1>0, <1>1, <1>6 DEF EventCurrent, EventMover, NoStrandedResponse, FlushRing
  <2>2. PushCovered'
    BY <1>0, <1>1, <1>6, RingAssumption
       DEF PushCovered, AnswerOwed, FlushRing, Notified, PushAsksNotify, TypeOK
  <2> QED BY <1>2, <1>4, <2>1, <2>2 DEF StrandInv
<1>7. CASE FrontIrq \/ (\E i \in Shadows : FinishUrb(i)) \/ BackInterrupt
  <2>1. reqProd' = reqProd /\ (evtBack' = evtBack \/ waiting')
        /\ (waiting => waiting') /\ (fpc # "unlocked" /\ fpc # "irq" => fpc' = fpc)
    BY <1>7 DEF Interrupt, ConsumeResponse, FinalCheckResponses, FinishUrb, BackInterrupt
  <2>2. EventCurrent' /\ PushCovered'
    BY <1>0, <1>1, <2>1 DEF EventCurrent, EventMover, PushCovered, AnswerOwed
  <2>3. NoStrandedResponse'
    BY <1>0, <1>1, <1>7
       DEF NoStrandedResponse, Interrupt, ConsumeResponse, FinalCheckResponses,
           FinishUrb, BackInterrupt, TypeOK, RingSafe
  <2> QED BY <1>2, <1>4, <2>2, <2>3 DEF StrandInv
<1> QED BY <1>5, <1>6, <1>7

\* Steps of the kernel thread that touch no pending_req either.
LEMMA KthreadStrand ==
    ASSUME RingInv, StrandInv, Kthread
    PROVE  StrandInv'
<1> USE DEF frontVars, kthreadVars, preqVars, Kthread
<1>0. /\ TypeOK /\ RingSafe /\ Snapshots
      /\ LockHeld /\ TakenOwed /\ EventCurrent /\ PushCovered /\ NoStrandedResponse
  BY CountsOrder DEF RingInv, StrandInv
<1>1. /\ UNCHANGED <<reqProd, reqCons, rspProd, rspCons, stage, prState, prId, ringLock,
                     reqEvent, tailEvent, fpc, evtFront, evtBack>>
      /\ Unanswered' = Unanswered
  BY DEF ScheduleWake, LoadProducer, OutOfRequests, LeaveLoop, Unanswered
<1>2. LockHeld' /\ TakenOwed' /\ NoStrandedResponse'
  BY <1>0, <1>1 DEF LockHeld, TakenOwed, NoStrandedResponse
<1>3. CASE ScheduleWake \/ LoadProducer
  BY <1>0, <1>1, <1>2, <1>3
     DEF StrandInv, EventCurrent, EventMover, PushCovered, AnswerOwed, ScheduleWake,
         LoadProducer
<1>4. CASE OutOfRequests
  <2>1. reqCons # reqProd /\ waiting'
    BY <1>0, <1>4 DEF Snapshots, OutOfRequests, MoreInSnapshot, TypeOK
  <2> QED BY <1>0, <1>1, <1>2, <1>4, <2>1
          DEF StrandInv, EventCurrent, EventMover, PushCovered, OutOfRequests
\* The thread leaves the loop when it has taken all it saw, or when all slots
\* hold requests that it has taken, which will be answered.
<1>5. CASE LeaveLoop
  <2>1. CASE ConsOverflow
    <3>1. reqCons = reqProd /\ Unanswered # {}
      BY <1>0, <2>1, OverflowAllTaken, SomebodyAnswers
    <3> QED BY <1>0, <1>1, <1>2, <3>1
            DEF StrandInv, EventCurrent, EventMover, PushCovered
  <2>2. CASE reqCons = krp
    BY <1>0, <1>1, <1>2, <1>5, <2>2
       DEF StrandInv, EventCurrent, EventMover, PushCovered, AnswerOwed, LeaveLoop
  <2> QED BY <1>5, <2>1, <2>2 DEF LeaveLoop
<1> QED BY <1>3, <1>4, <1>5

\* Taking a request makes somebody owe its answer.
LEMMA TakeStrand ==
    ASSUME RingInv, StrandInv, NEW p \in Preqs, TakeRequest(p)
    PROVE  StrandInv'
<1> USE DEF frontVars, kthreadVars, preqVars
<1>0. /\ TypeOK /\ RingSafe /\ Snapshots
      /\ LockHeld /\ TakenOwed /\ EventCurrent /\ PushCovered /\ NoStrandedResponse
  BY CountsOrder DEF RingInv, StrandInv
<1>1. /\ prState' = [prState EXCEPT ![p] = "dispatch"] /\ prState[p] = "free"
      /\ Unanswered' = Unanswered \cup {p}
  BY <1>0 DEF TakeRequest, Unanswered, TypeOK
<1>2. LockHeld' /\ NoStrandedResponse'
  BY <1>0, <1>1 DEF LockHeld, NoStrandedResponse, TakeRequest, TypeOK
<1>3. TakenOwed'
  BY <1>0, <1>1 DEF TakenOwed, TakeRequest, TypeOK, Unanswered
<1>4. EventCurrent'
  BY <1>0, <1>1 DEF EventCurrent, EventMover, TypeOK
<1>5. PushCovered'
  <2>1. AnswerOwed'
    BY <1>0, <1>1 DEF AnswerOwed, TypeOK
  <2>2. reqCons # reqProd
    BY <1>0 DEF TakeRequest, MoreInSnapshot, Snapshots, TypeOK
  <2>3. UNCHANGED <<reqProd, krp, kpc, evtBack, waiting, fpc, reqEvent>> /\ kpc = "loop"
    BY DEF TakeRequest, MoreInSnapshot
  <2> QED BY <1>0, <2>1, <2>2, <2>3 DEF PushCovered
<1> QED BY <1>2, <1>3, <1>4, <1>5 DEF StrandInv

\* A pending_req from its dispatch to the point where its answer is published.
LEMMA AnswerStrand ==
    ASSUME RingInv, StrandInv, NEW p \in Preqs,
           Dispatch(p) \/ CompleteUrb(p) \/ PushResponse(p)
    PROVE  StrandInv'
<1> USE DEF frontVars, kthreadVars, preqVars, Dispatch
<1>0. /\ TypeOK /\ RingSafe /\ Snapshots
      /\ LockHeld /\ TakenOwed /\ EventCurrent /\ PushCovered /\ NoStrandedResponse
  BY CountsOrder DEF RingInv, StrandInv
<1>1. UNCHANGED <<reqProd, reqCons, reqEvent, tailEvent, fpc, evtFront, evtBack,
                  waiting, kpc, krp>>
  BY DEF AnswerNow, SubmitUrb, CompleteUrb, PushResponse
<1>2. CASE Dispatch(p) \/ CompleteUrb(p)
  <2>1. Unanswered' = Unanswered /\ p \in Unanswered
    BY <1>0, <1>2 DEF AnswerNow, SubmitUrb, CompleteUrb, Unanswered, TypeOK
  <2>2. /\ UNCHANGED <<rspProd, rspCons, stage, prId, ringLock>>
        /\ \E s \in {"device", "respond"} : prState' = [prState EXCEPT ![p] = s]
    BY <1>2 DEF AnswerNow, SubmitUrb, CompleteUrb
  <2>3. LockHeld' /\ TakenOwed'
    BY <1>0, <2>1, <2>2 DEF LockHeld, TakenOwed, TypeOK, Unanswered
  <2>4. EventCurrent' /\ NoStrandedResponse'
    BY <1>0, <1>1, <2>1, <2>2
       DEF EventCurrent, EventMover, NoStrandedResponse, TypeOK, Unanswered
  <2>5. AnswerOwed'
    BY <1>0, <2>2 DEF AnswerOwed, TypeOK
  <2>6. PushCovered'
    BY <1>0, <1>1, <2>5 DEF PushCovered
  <2> QED BY <2>3, <2>4, <2>6 DEF StrandInv
<1>3. CASE PushResponse(p)
  <2>1. /\ prState' = [prState EXCEPT ![p] = "tail"] /\ ringLock = NoPreq /\ ringLock' = p
        /\ stage' = [stage EXCEPT ![prId[p]] = "answered"]
        /\ prId' = [prId EXCEPT ![p] = NoShadow]
        /\ p \in Unanswered /\ Unanswered' = Unanswered \ {p}
    BY <1>0, <1>3 DEF PushResponse, Unanswered, TypeOK
  <2>2. LockHeld'
    BY <1>0, <2>1, RingAssumption DEF LockHeld, TypeOK
  <2>3. TakenOwed'
    BY <1>0, <2>1 DEF TakenOwed, RingInv, PreqsIntact, TypeOK
  \* Nobody else is in the middle of the check: the lock was free.
  <2>4. EventCurrent'
    BY <1>0, <1>1, <2>1, RingAssumption DEF EventCurrent, EventMover, LockHeld, TypeOK
  <2>5. AnswerOwed' /\ NoStrandedResponse'
    BY <1>0, <2>1 DEF AnswerOwed, NoStrandedResponse, TypeOK
  <2>6. PushCovered'
    BY <1>0, <1>1, <2>5 DEF PushCovered
  <2> QED BY <2>2, <2>3, <2>4, <2>5, <2>6 DEF StrandInv
<1> QED BY <1>2, <1>3

\* The rest of make_response, with the final check for requests.
LEMMA TailStrand ==
    ASSUME RingInv, StrandInv, NEW p \in Preqs,
           \/ TailCheck(p) \/ StoreReqEvent(p) \/ RecheckRequests(p)
           \/ NotifyWork(p) \/ NotifyFront(p) \/ AsyncFree(p)
    PROVE  StrandInv'
<1> USE DEF frontVars, kthreadVars, preqVars
<1>0. /\ TypeOK /\ RingSafe /\ Snapshots
      /\ LockHeld /\ TakenOwed /\ EventCurrent /\ PushCovered /\ NoStrandedResponse
  BY CountsOrder DEF RingInv, StrandInv
<1>1. /\ UNCHANGED <<reqProd, reqCons, rspProd, rspCons, fpc, evtBack, kpc, krp, stage,
                     prId>>
      /\ Unanswered' = Unanswered /\ p \notin Unanswered
  BY <1>0 DEF TailCheck, StoreReqEvent, RecheckRequests, NotifyWork, NotifyFront,
              AsyncFree, Unanswered, TypeOK
<1>2. TakenOwed'
  BY <1>0, <1>1 DEF TakenOwed
<1>3. CASE TailCheck(p)
  <2>1. LockHeld'
    BY <1>0, <1>3, RingAssumption DEF LockHeld, TailCheck, TypeOK
  <2>2. NoStrandedResponse'
    BY <1>0, <1>1, <1>3 DEF NoStrandedResponse, TailCheck, TypeOK
  <2>3. CASE HasUnconsumedRequests
    <3>1. prState' = [prState EXCEPT ![p] = "wake"] /\ reqCons # reqProd
          /\ UNCHANGED <<tailEvent, reqEvent>>
      BY <1>3, <2>3 DEF TailCheck, HasUnconsumedRequests
    <3>2. EventCurrent' /\ AnswerOwed'
      BY <1>0, <1>1, <3>1 DEF EventCurrent, EventMover, AnswerOwed, TypeOK
    <3>3. PushCovered'
      BY <1>0, <1>1, <1>3, <3>2 DEF PushCovered, TailCheck
    <3> QED BY <1>2, <2>1, <2>2, <3>2, <3>3 DEF StrandInv
  <2>4. CASE ~HasUnconsumedRequests
    <3>1. reqCons = reqProd
      BY <2>4, NothingUnconsumed
    <3>2. rspProd # reqCons => Unanswered # {}
      BY <1>0, SomebodyAnswers
    <3>3. EventCurrent'
      BY <1>0, <1>1, <1>3, <2>4, <3>2
         DEF EventCurrent, EventMover, LockHeld, TailCheck, TypeOK
    <3> QED BY <1>1, <1>2, <2>1, <2>2, <3>1, <3>3 DEF StrandInv, PushCovered
  <2> QED BY <2>3, <2>4
<1>4. CASE StoreReqEvent(p)
  <2>1. prState[p] = "event" /\ prState' = [prState EXCEPT ![p] = "recheck"]
        /\ reqEvent' = tailEvent /\ UNCHANGED <<ringLock, waiting, evtFront>>
    BY <1>4 DEF StoreReqEvent
  <2>2. LockHeld'
    BY <1>0, <2>1 DEF LockHeld, TypeOK
  <2>3. EventCurrent'
    BY <1>0, <1>1, <2>1 DEF EventCurrent, EventMover, LockHeld, TypeOK
  <2>4. AnswerOwed' /\ NoStrandedResponse'
    BY <1>0, <1>1, <2>1 DEF AnswerOwed, NoStrandedResponse, TypeOK
  <2>5. PushCovered'
    BY <1>0, <1>1, <2>1, <2>4 DEF PushCovered
  <2> QED BY <1>2, <2>2, <2>3, <2>4, <2>5 DEF StrandInv
<1>5. CASE RecheckRequests(p)
  <2>1. LockHeld'
    BY <1>0, <1>5, RingAssumption DEF LockHeld, RecheckRequests, TypeOK
  <2>2. NoStrandedResponse'
    BY <1>0, <1>1, <1>5 DEF NoStrandedResponse, RecheckRequests, TypeOK
  <2>3. EventCurrent'
    BY <1>0, <1>1, <1>5, NothingUnconsumed
       DEF EventCurrent, EventMover, LockHeld, RecheckRequests, TypeOK
  <2>4. HasUnconsumedRequests => AnswerOwed'
    BY <1>0, <1>5 DEF AnswerOwed, RecheckRequests, TypeOK
  <2>5. PushCovered'
    BY <1>0, <1>1, <1>5, <2>4, NothingUnconsumed DEF PushCovered, RecheckRequests
  <2> QED BY <1>2, <2>1, <2>2, <2>3, <2>5 DEF StrandInv
<1>6. CASE NotifyWork(p) \/ NotifyFront(p) \/ AsyncFree(p)
  <2>1. UNCHANGED <<reqEvent, tailEvent, ringLock>> /\ (waiting => waiting')
    BY <1>6 DEF NotifyWork, NotifyFront, AsyncFree
  <2>2. /\ prState[p] \in {"wake", "notify", "async"}
        /\ \E s \in {"notify", "async", "free"} : prState' = [prState EXCEPT ![p] = s]
        /\ prState[p] = "wake" => waiting'
    BY <1>6 DEF NotifyWork, NotifyFront, AsyncFree
  <2>3. LockHeld'
    BY <1>0, <2>1, <2>2 DEF LockHeld, TypeOK
  <2>4. EventCurrent'
    BY <1>0, <1>1, <2>1, <2>2 DEF EventCurrent, EventMover, TypeOK
  <2>5. NoStrandedResponse'
    BY <1>0, <1>1, <1>6
       DEF NoStrandedResponse, NotifyWork, NotifyFront, AsyncFree, TypeOK
  <2>6. PushCovered'
    <3>1. AnswerOwed => AnswerOwed' \/ waiting'
      BY <1>0, <1>1, <2>2 DEF AnswerOwed, TypeOK
    <3> QED BY <1>0, <1>1, <2>1, <3>1 DEF PushCovered
  <2> QED BY <1>2, <2>3, <2>4, <2>5, <2>6 DEF StrandInv
<1> QED BY <1>3, <1>4, <1>5, <1>6

LEMMA StrandInvariant == Spec => []StrandInv
<1>1. Init => StrandInv
  BY InitStrandInv
<1>2. RingInv /\ StrandInv /\ [Next]_vars => StrandInv'
  <2> SUFFICES ASSUME RingInv, StrandInv, [Next]_vars PROVE StrandInv'
    OBVIOUS
  <2>1. CASE UNCHANGED vars
    BY <2>1 DEF vars, StrandInv, LockHeld, TakenOwed, EventCurrent, EventMover,
                PushCovered, NoStrandedResponse, AnswerOwed, Unanswered
  <2>2. CASE \E p \in Preqs : Dispatch(p) \/ CompleteUrb(p) \/ Respond(p)
    BY <2>2, AnswerStrand, TailStrand DEF Respond
  <2> QED BY <2>1, <2>2, FrontStrand, KthreadStrand, TakeStrand DEF Next
<1> QED BY <1>1, <1>2, RingInvariant, PTL DEF Spec

\* No request is left on the ring with nobody to look at it: a push is
\* announced, or found by whoever answers a request taken before it.
THEOREM RequestsNeverStranded == Spec => []NoStrandedRequest
<1>1. StrandInv => NoStrandedRequest
  BY DEF StrandInv, PushCovered, NoStrandedRequest, WakeupUnderway
<1> QED BY <1>1, StrandInvariant, PTL

\* And no response: until the frontend has read it the interrupt is pending,
\* running, or about to be raised.
THEOREM ResponsesNeverStranded == Spec => []NoStrandedResponse
<1>1. StrandInv => NoStrandedResponse
  BY DEF StrandInv
<1> QED BY <1>1, StrandInvariant, PTL
=============================================================================
