----------------------------- MODULE TpmProofs -----------------------------
(***************************************************************************)
(* Proofs about Tpm, for any sizes, any number of commands and a device    *)
(* that may be late, or never come, in every wait.                         *)
(***************************************************************************)
EXTENDS Tpm, TLAPS

(* Abbreviations of Tpm that every step expands.                           *)
USE DEF At, Goto, Return, OnlyPc, OnlyLaunch, Stop, GiveUp, Valid,
        driver, locality, engine, device, history, vars

-----------------------------------------------------------------------------
(* What both invariants rest on: each driver keeps to its own steps, and   *)
(* the launch to its order.                                                *)

FifoOnly == {"request", "active", "ready", "write", "expect", "execute", "read",
             "finish", "letgo"}
CrbOnly == {"status", "idle", "cmdReady", "copy", "copyOut"}
Releasing == {"relValidate", "released"}
Submitting == FifoOnly \cup CrbOnly \cup {"validate", "answer"}

Order ==
    /\ cmd \in Nat
    /\ pc \in FifoOnly => ~crb
    /\ pc \in CrbOnly \cup {"requested"} => crb
    /\ pc \in Releasing => phase \in {"prepare", "relinquish"}
    /\ pc \in Submitting => phase = "commands" /\ cmd > 0
    /\ pc = "requested" => phase = "detect"
    /\ phase = "detect" => cmd = 0
    /\ phase = "launched" => pc = "caller"

LEMMA OrderInit == Init => Order
  BY DEF Init, Order, FifoOnly, CrbOnly, Releasing, Submitting

LEMMA OrderKept == Order /\ [Next]_vars => Order'
  <1> SUFFICES ASSUME Order, [Next]_vars PROVE Order'
    OBVIOUS
  <1> USE DEF Order, FifoOnly, CrbOnly, Releasing, Submitting
  <1>1. CASE Validate
    BY <1>1 DEF Validate
  <1>2. CASE FifoStep
    <2>1. CASE RequestUse \/ ActiveLocality \/ PollCmdReady \/ Finish \/ LetGo
      BY <2>1 DEF RequestUse, ActiveLocality, PollCmdReady, Finish, LetGo
    <2>2. CASE CheckExpect \/ ExecuteCmd \/ CheckDataAvail
      BY <2>2 DEF CheckExpect, ExecuteCmd, CheckDataAvail
    <2>3. CASE WriteBurst
      <3>1. pc = "write" /\ pc' \in {"write", "expect", "letgo"}
        BY <2>3 DEF WriteBurst
      <3> QED
        BY <2>3, <3>1 DEF WriteBurst
    <2>4. CASE ReadBurst
      <3>1. pc = "read" /\ pc' \in {"read", "finish", "letgo"}
        BY <2>4 DEF ReadBurst
      <3> QED
        BY <2>4, <3>1 DEF ReadBurst
    <2> QED
      BY <1>2, <2>1, <2>2, <2>3, <2>4 DEF FifoStep
  <1>3. CASE CrbStep
    BY <1>3 DEF CrbStep, ReadStatus, GoIdle, CheckCmdReady, StartCmd, CheckStart, CopyOut
  <1>4. CASE LaunchStep
    BY <1>4 DEF LaunchStep, Prepared, Detect, Requested, Submit, CommandsEnd,
                Relinquished, ReleaseValidate, Released
  <1>5. CASE Device
    BY <1>5 DEF Device, ServeLocality, ServeReady, ServeIdle, Complete
  <1>6. CASE UNCHANGED vars
    BY <1>6
  <1> QED
    BY <1>1, <1>2, <1>3, <1>4, <1>5, <1>6 DEF Next, Driver

-----------------------------------------------------------------------------
(***************************************************************************)
(* The locality.  A request that is not served either still stands or is   *)
(* one for what is held already; so what is not held now is never granted  *)
(* later, unless a request was given up.                                   *)
(***************************************************************************)
LocalityInv ==
    /\ use \in {"none", "standing", "granted"}
    /\ asked = "use" /\ use # "standing" => holds
    /\ phase = "detect" /\ ~crb => use = "none"
    /\ pc \in {"caller", "validate", "request"} /\ ~crb /\ phase = "commands"
       /\ use = "granted" /\ holds => asked = "leave"
    /\ pc = "released" => ~missed
    /\ pc = "caller" /\ phase \in {"prepare", "relinquish"} /\ ret
       /\ ~missed /\ use # "standing" => ~holds
    /\ LaunchClear

LEMMA LocalityInit == Init => LocalityInv
  BY DEF Init, LocalityInv, LaunchClear

LEMMA LocalityKept ==
    ASSUME Order, LocalityInv, [Next]_vars
    PROVE  LocalityInv'
  <1> USE DEF Order, LocalityInv, LaunchClear, FifoOnly, CrbOnly, Releasing, Submitting
  <1>1. CASE Validate
    BY <1>1 DEF Validate
  <1>2. CASE FifoStep
    <2>1. CASE RequestUse \/ ActiveLocality \/ PollCmdReady
      BY <2>1 DEF RequestUse, ActiveLocality, PollCmdReady
    <2>2. CASE WriteBurst \/ CheckExpect \/ ExecuteCmd \/ CheckDataAvail
      BY <2>2 DEF WriteBurst, CheckExpect, ExecuteCmd, CheckDataAvail
    <2>3. CASE ReadBurst \/ Finish \/ LetGo
      BY <2>3 DEF ReadBurst, Finish, LetGo
    <2> QED
      BY <1>2, <2>1, <2>2, <2>3 DEF FifoStep
  <1>3. CASE CrbStep
    BY <1>3 DEF CrbStep, ReadStatus, GoIdle, CheckCmdReady, StartCmd, CheckStart, CopyOut
  <1>4. CASE LaunchStep
    <2>1. CASE Prepared \/ CommandsEnd \/ Relinquished \/ Submit
      BY <2>1 DEF Prepared, CommandsEnd, Relinquished, Submit
    <2>2. CASE Detect \/ Requested
      BY <2>2 DEF Detect, Requested
    <2>3. CASE ReleaseValidate \/ Released
      BY <2>3 DEF ReleaseValidate, Released
    <2> QED
      BY <1>4, <2>1, <2>2, <2>3 DEF LaunchStep
  <1>5. CASE ServeLocality
    <2>1. asked # "none" /\ asked' = "none" /\ (holds' <=> asked = "use")
      BY <1>5, Zenon DEF ServeLocality
    <2>2. UNCHANGED <<crb, phase, pc, ret, history>>
      BY <1>5 DEF ServeLocality
    <2> QED
      BY <2>1, <2>2
  <1>6. CASE ServeReady \/ ServeIdle \/ Complete
    BY <1>6 DEF ServeReady, ServeIdle, Complete
  <1>7. CASE UNCHANGED vars
    BY <1>7
  <1> QED
    BY <1>1, <1>2, <1>3, <1>4, <1>5, <1>6, <1>7 DEF Next, Driver, Device

(***************************************************************************)
(* A call of tpm_submit_cmd that got the locality has always told the      *)
(* device to let go of it: each of its gotos to RelinquishControl is       *)
(* needed, and they suffice.                                               *)
(***************************************************************************)
THEOREM LocalityAlwaysLetGo == Spec => []LocalityLetGo
  <1>1. Init => Order /\ LocalityInv
    BY OrderInit, LocalityInit
  <1>2. Order /\ LocalityInv /\ [Next]_vars => (Order /\ LocalityInv)'
    BY OrderKept, LocalityKept
  <1>3. LocalityInv => LocalityLetGo
    BY DEF LocalityInv, LocalityLetGo
  <1> QED
    BY <1>1, <1>2, <1>3, PTL DEF Spec

(***************************************************************************)
(* When the launch goes ahead the locality is not active and will not be,  *)
(* but for the two cases LaunchClear names: an active locality that the    *)
(* release could not validate, and a request that was given up.            *)
(***************************************************************************)
THEOREM LaunchAlwaysClear == Spec => []LaunchClear
  <1>1. Init => Order /\ LocalityInv
    BY OrderInit, LocalityInit
  <1>2. Order /\ LocalityInv /\ [Next]_vars => (Order /\ LocalityInv)'
    BY OrderKept, LocalityKept
  <1>3. LocalityInv => LaunchClear
    BY DEF LocalityInv
  <1> QED
    BY <1>1, <1>2, <1>3, PTL DEF Spec

-----------------------------------------------------------------------------
(***************************************************************************)
(* The answer.  Stage says, step by step, what the driver has made sure of *)
(* when it goes on: from "write" (FIFO) or "copy" (CRB) no request is left *)
(* that could take the device out of the state the driver knows it to be   *)
(* in, and from "answer" the device has its command and no other.  With a  *)
(* CRB there is another way through, that of a device that was late to go  *)
(* idle: of that call nothing more is said.                                *)
(***************************************************************************)
Requests ==
    IF crb THEN /\ "ready" \in req => dev = "idle"
                /\ "idle" \in req => dev # "idle"
    ELSE /\ "idle" \notin req
         /\ "ready" \in req => dev # "ready"

Has(n) == \A k \in 1..n : /\ k \in DOMAIN out
                          /\ out[k] = IF k <= RspSize THEN <<cmd, k>> ELSE NoByte
Done == \A k \in 1..Lesser(RspSize, out_size) : k \in DOMAIN out /\ out[k] = <<cmd, k>>

Executing ==
    /\ req = {} /\ running = cmd /\ dev \in {"executing", "completion"}
    /\ dev = "completion" => content = cmd

FifoStage ==
    /\ ~crb => ~lateIdle
    /\ pc \in {"validate", "request", "active", "ready"} => offset = 0
    /\ pc = "write" =>
          /\ req = {} /\ offset \in Nat
          /\ \/ dev = "ready" /\ offset = 0
             \/ dev = "reception" /\ fifo = offset
    /\ pc \in {"expect", "execute"} => req = {} /\ dev = "reception" /\ fifo = CmdSize
    /\ pc = "answer" /\ ~crb =>
          Executing /\ offset = 0 /\ (dev = "completion" => fifo = 0)
    /\ pc = "read" =>
          /\ req = {} /\ dev = "completion" /\ content = cmd
          /\ offset \in Nat /\ fifo = offset /\ Has(offset)
    /\ pc = "finish" => req = {} /\ dev = "completion" /\ Done
    /\ pc = "letgo" /\ ret => Done

CrbStage ==
    /\ pc = "idle" => "ready" \notin req /\ ("idle" \notin req => dev = "idle")
    /\ pc = "cmdReady" =>
          \/ "ready" \in req
          \/ req = {} /\ dev = "ready"
          \/ lateIdle
    /\ pc = "copy" =>
          \/ req = {} /\ dev = "ready"
          \/ lateIdle
    /\ pc = "answer" /\ crb =>
          \/ Executing
          \/ lateIdle
    /\ pc = "copyOut" =>
          \/ req = {} /\ dev = "completion" /\ content = cmd
          \/ lateIdle

Returned == pc = "caller" /\ phase = "commands" /\ cmd > 0 /\ ret /\ ~lateIdle => Done

AnswerInv ==
    /\ out_size \in Nat /\ req \subseteq {"ready", "idle"}
    /\ Requests /\ FifoStage /\ CrbStage /\ Returned

LEMMA AnswerInit == Init => AnswerInv
  BY DEF Init, AnswerInv, Requests, FifoStage, CrbStage, Returned

(* What was read stays read while nothing more is.                         *)
LEMMA OutKept ==
    /\ UNCHANGED <<out, cmd, out_size>> => (Done' <=> Done)
    /\ UNCHANGED <<out, cmd, offset>> => (Has(offset)' <=> Has(offset))
  BY DEF Done, Has

LEMMA AnswerKept ==
    ASSUME Order, AnswerInv, [Next]_vars
    PROVE  AnswerInv'
  <1> USE TpmAssumption, OutKept
      DEF Order, FifoOnly, CrbOnly, Releasing, Submitting, AnswerInv,
          Requests, FifoStage, CrbStage, Executing, Returned
  <1>1. CASE Validate
    BY <1>1 DEF Validate
  <1>2. CASE RequestUse
    BY <1>2 DEF RequestUse
  <1>3. CASE ActiveLocality
    BY <1>3 DEF ActiveLocality
  <1>4. CASE PollCmdReady
    <2>1. ~crb /\ "idle" \notin req /\ (dev = "ready" => req = {})
      BY <1>4 DEF PollCmdReady
    <2>2. CASE dev = "ready" /\ pc' = "write" /\ UNCHANGED <<ret, req>>
      BY <1>4, <2>1, <2>2 DEF PollCmdReady
    <2>3. CASE dev # "ready" /\ pc' = "ready" /\ req' = req \cup {"ready"}
      BY <1>4, <2>1, <2>3 DEF PollCmdReady
    <2>4. CASE dev # "ready" /\ pc' = "letgo" /\ ret' = FALSE /\ UNCHANGED req
      BY <1>4, <2>1, <2>4 DEF PollCmdReady
    <2> QED
      BY <1>4, <2>2, <2>3, <2>4 DEF PollCmdReady
  <1>5. CASE WriteBurst
    BY <1>5 DEF WriteBurst, Lesser
  <1>6. CASE CheckExpect
    BY <1>6 DEF CheckExpect
  <1>7. CASE ExecuteCmd
    BY <1>7 DEF ExecuteCmd
  <1>8. CASE CheckDataAvail
    BY <1>8 DEF CheckDataAvail, Has
  <1>9. CASE ReadBurst
    <2>1. CASE GiveUp /\ UNCHANGED <<offset, out, fifo>>
      BY <1>9, <2>1 DEF ReadBurst
    <2>2. CASE pc' # "letgo"
      <3>1. PICK row_size \in Bursts :
              /\ offset' = Lesser(out_size, offset + row_size)
              /\ fifo' = fifo + (offset' - offset)
              /\ out' = [k \in 1..offset' |-> IF k <= offset THEN out[k]
                                               ELSE Byte(fifo + k - offset)]
        BY <1>9, <2>2 DEF ReadBurst
      <3>2. ~crb /\ pc = "read" /\ UNCHANGED <<crb, phase, cmd, out_size, dev, req, content, ret, lateIdle>>
        BY <1>9, <2>2 DEF ReadBurst
      <3>3. pc' = IF offset' < RspHead \/ (offset' < RspSize /\ offset' < out_size)
                  THEN "read" ELSE "finish"
        BY <1>9, <2>2 DEF ReadBurst
      <3>4. offset' \in Nat /\ fifo' = offset' /\ offset \in Nat /\ fifo = offset
        BY <3>1, <3>2 DEF Lesser
      <3>5. Has(offset)'
        <4>1. SUFFICES ASSUME NEW k \in 1..offset'
                       PROVE  k \in DOMAIN out' /\ out'[k] = IF k <= RspSize THEN <<cmd, k>> ELSE NoByte
          BY <3>2 DEF Has
        <4>2. k \in DOMAIN out'
          BY <3>1, <4>1
        <4>3. CASE k <= offset
          BY <3>1, <3>2, <3>4, <4>1, <4>3 DEF Has
        <4>4. CASE ~(k <= offset)
          <5>1. fifo + k - offset = k
            BY <3>4, <4>1
          <5> QED
            BY <3>1, <3>2, <4>1, <4>4, <5>1 DEF Byte
        <4> QED
          BY <4>2, <4>3, <4>4
      <3>6. pc' = "finish" => Done'
        <4>1. pc' = "finish" => \A k \in 1..Lesser(RspSize, out_size) : k \in 1..offset' /\ k <= RspSize
          BY <3>2, <3>3, <3>4 DEF Lesser
        <4> QED
          BY <3>2, <3>5, <4>1 DEF Has, Done
      <3> QED
        BY <3>2, <3>3, <3>4, <3>5, <3>6
    <2> QED
      BY <1>9, <2>1, <2>2 DEF ReadBurst
  <1>10. CASE Finish
    <2>1. ~crb /\ dev = "completion" /\ Done'
      BY <1>10 DEF Finish
    <2>2. out_size' \in Nat /\ req' \subseteq {"ready", "idle"} /\ Requests'
      BY <1>10, <2>1 DEF Finish
    <2>3. FifoStage' /\ CrbStage' /\ Returned'
      BY <1>10, <2>1 DEF Finish
    <2> QED
      BY <2>2, <2>3
  <1>11. CASE LetGo
    BY <1>11 DEF LetGo
  <1>12. CASE ReadStatus
    BY <1>12 DEF ReadStatus
  <1>13. CASE GoIdle
    BY <1>13 DEF GoIdle
  <1>14. CASE CheckCmdReady
    BY <1>14 DEF CheckCmdReady
  <1>15. CASE StartCmd
    BY <1>15 DEF StartCmd
  <1>16. CASE CheckStart
    BY <1>16 DEF CheckStart
  <1>17. CASE CopyOut
    <2>1. crb /\ cmd > 0 /\ (lateIdle \/ content = cmd)
      BY <1>17 DEF CopyOut
    <2>2. lateIdle \/ Done'
      BY <1>17, <2>1 DEF CopyOut, Byte, Done, Lesser
    <2> QED
      BY <1>17, <2>1, <2>2 DEF CopyOut
  <1>18. CASE Prepared
    BY <1>18 DEF Prepared
  <1>19. CASE Detect
    BY <1>19 DEF Detect
  <1>20. CASE Requested
    BY <1>20 DEF Requested
  <1>21. CASE Submit
    BY <1>21 DEF Submit
  <1>22. CASE CommandsEnd
    BY <1>22 DEF CommandsEnd
  <1>23. CASE Relinquished
    BY <1>23 DEF Relinquished
  <1>24. CASE ReleaseValidate
    BY <1>24 DEF ReleaseValidate
  <1>25. CASE Released
    BY <1>25 DEF Released
  <1>26. CASE ServeLocality
    BY <1>26 DEF ServeLocality
  <1>27. CASE ServeReady
    BY <1>27 DEF ServeReady
  <1>28. CASE ServeIdle
    BY <1>28 DEF ServeIdle
  <1>29. CASE Complete
    <2>1. dev = "executing" /\ dev' = "completion" /\ content' = running /\ fifo' = 0
      BY <1>29 DEF Complete
    <2>2. UNCHANGED <<driver, locality, req, running, history>>
      BY <1>29 DEF Complete
    <2> QED
      BY <2>1, <2>2
  <1>30. CASE UNCHANGED vars
    BY <1>30
  <1> QED
    BY <1>1, <1>2, <1>3, <1>4, <1>5, <1>6, <1>7, <1>8, <1>9, <1>10, <1>11, <1>12, <1>13, <1>14, <1>15, <1>16, <1>17, <1>18, <1>19, <1>20, <1>21, <1>22, <1>23, <1>24, <1>25, <1>26, <1>27, <1>28, <1>29, <1>30
       DEF Next, Driver, Device, FifoStep, CrbStep, LaunchStep

(***************************************************************************)
(* An answer is the answer to the command it is returned for, however late *)
(* the device is, in this call or before, in every wait but one: a CRB may *)
(* not be late to go idle in the call itself.                              *)
(***************************************************************************)
THEOREM AnswersAreOwn == Spec => []OwnAnswer
  <1>1. Init => Order /\ AnswerInv
    BY OrderInit, AnswerInit
  <1>2. Order /\ AnswerInv /\ [Next]_vars => (Order /\ AnswerInv)'
    BY OrderKept, AnswerKept
  <1>3. AnswerInv => OwnAnswer
    BY DEF AnswerInv, Returned, Done, OwnAnswer, Answered, HasOwnAnswer
  <1> QED
    BY <1>1, <1>2, <1>3, PTL DEF Spec
=============================================================================
