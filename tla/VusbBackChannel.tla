-------------------------- MODULE VusbBackChannel --------------------------
(***************************************************************************)
(* VusbBack with a record of the responses on the ring of one device, in   *)
(* the order in which make_response put them there: towards each frontend  *)
(* the backend keeps its side of the pair of queues that VusbChannel       *)
(* promises, although the frontends share its pools.  A frontend sends     *)
(* each request once, so that no response needs to be received.            *)
(***************************************************************************)
EXTENDS VusbBack

CONSTANTS Watched   \* the device

VARIABLES given     \* responses on its ring, oldest first

channelVars == <<vars, given>>

\* make_response is called for the ring of d on behalf of p: by the thread
\* of d, or by a completion, for the usbif_t that p names.
Answers(d, p) == cur[d] = p \/ (urb[p] # "none" /\ usbif[p] = d)

\* What the step under way answers on the ring watched.
AnsweredNow ==
    {r \in Requests : /\ answers'[r] # answers[r]
                      /\ \E p \in Preqs : req[p] = r /\ Answers(Watched, p)}

ChannelInit == Init /\ given = << >>

\* The response it puts there, if it does, comes last.
AnswerRecorded ==
    \/ AnsweredNow = {} /\ UNCHANGED given
    \/ \E r \in AnsweredNow : given' = Append(given, r)

ChannelNext == Next /\ AnswerRecorded

ChannelSpec == ChannelInit /\ [][ChannelNext]_channelVars
FairChannelSpec == ChannelSpec /\ Fairness

-----------------------------------------------------------------------------
Sent == {r \in Requests : DevOf[r] = Watched}

\* Received and not answered: what pending_reqs stand for.
Owned == {r \in Sent : answers[r] = 0 /\ \E p \in Preqs : req[p] = r}

Channel == INSTANCE VusbChannel WITH
    Shadows <- Sent, toBack <- ring[Watched], owned <- Owned,
    toFront <- given, held <- {}

\* The requests of a device are taken in the order they were sent, and each
\* that was taken is answered at most once, on the ring it came from; none
\* is dropped by what gives its pending_req back.
ImplementsChannel == Channel!Spec

(* The inductive invariant, on top of BackInv *)

\* A pending_req that owes nothing any more was answered.
SettledInv == \A p \in Preqs : req[p] # NoReq /\ ~Owing(p) => answers[req[p]] = 1

\* Whoever works on a request is of the device it was sent to.
OwnInv == \A d \in Devices : \A p \in Preqs : Answers(d, p) => DevOf[req[p]] = d

\* What was given was sent there and answered.
GivenInv ==
    /\ given \in Seq(Sent)
    /\ \A k \in DOMAIN given : answers[given[k]] = 1

ChannelInv == BackInv /\ SettledInv /\ OwnInv /\ GivenInv
=============================================================================
