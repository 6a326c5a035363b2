---------------------------- MODULE VusbChannel ----------------------------
(***************************************************************************)
(* What the shared ring promises its two users: a pair of FIFO queues      *)
(* between which every request is carried once.  The frontend sends the    *)
(* number of a shadow; the backend receives requests in the order they     *)
(* were sent, answers those it owns in any order, once each; the frontend  *)
(* receives the answers in the order they were given, and only for a       *)
(* shadow it has allocated.  No slots, no indices, no notifications.       *)
(***************************************************************************)
EXTENDS Sequences, FiniteSets

CONSTANTS Shadows   \* what a request is identified by

VARIABLES
    toBack,    \* requests sent and not received, oldest first
    owned,     \* requests received by the backend and not answered
    toFront,   \* answers given and not received, oldest first
    held       \* shadows answered but still held by the frontend

vars == <<toBack, owned, toFront, held>>

Elements(q) == {q[k] : k \in DOMAIN q}
InUse == Elements(toBack) \cup owned \cup Elements(toFront) \cup held

TypeOK ==
    /\ toBack \in Seq(Shadows) /\ toFront \in Seq(Shadows)
    /\ owned \in SUBSET Shadows /\ held \in SUBSET Shadows

Init == toBack = << >> /\ owned = {} /\ toFront = << >> /\ held = {}

\* usbif_request_t with a fresh id goes onto the ring
Send(i) ==
    /\ i \in Shadows \ InUse
    /\ toBack' = Append(toBack, i)
    /\ UNCHANGED <<owned, toFront, held>>

Take ==
    /\ toBack # << >>
    /\ owned' = owned \cup {Head(toBack)}
    /\ toBack' = Tail(toBack)
    /\ UNCHANGED <<toFront, held>>

Answer(i) ==
    /\ i \in owned
    /\ owned' = owned \ {i}
    /\ toFront' = Append(toFront, i)
    /\ UNCHANGED <<toBack, held>>

\* A request that needs no work is answered as it is received.
Echo ==
    /\ toBack # << >>
    /\ toFront' = Append(toFront, Head(toBack))
    /\ toBack' = Tail(toBack)
    /\ UNCHANGED <<owned, held>>

\* The answer is received; the shadow is given back at once, or held until
\* the URB it stands for has been completed.
Receive ==
    /\ toFront # << >>
    /\ toFront' = Tail(toFront)
    /\ held' \in {held, held \cup {Head(toFront)}}
    /\ UNCHANGED <<toBack, owned>>

Release(S) ==
    /\ S \subseteq held /\ S # {}
    /\ held' = held \ S
    /\ UNCHANGED <<toBack, owned, toFront>>

Next ==
    \/ \E i \in Shadows : Send(i) \/ Answer(i)
    \/ \E S \in SUBSET Shadows : Release(S)
    \/ Take
    \/ Echo
    \/ Receive

Spec == Init /\ [][Next]_vars
=============================================================================
