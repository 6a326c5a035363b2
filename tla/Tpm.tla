-------------------------------- MODULE Tpm --------------------------------
(***************************************************************************)
(* The TPM drivers of slboot (slboot/common/tpm.c) and the order in which  *)
(* begin_launch calls them: tpm_detect, commands, prepare_tpm and, with a  *)
(* CRB, a last release in txt_launch_environment.                          *)
(*                                                                         *)
(* The driver shares a few registers with a device that works at its own   *)
(* pace, or not at all.  Every wait polls a register and gives up after a  *)
(* while; what was waited for may happen later, in the middle of what the  *)
(* driver does next.  No time is assumed for any of it: a wait whose       *)
(* condition does not hold may always give up.                             *)
(*                                                                         *)
(* The device is not part of the repository: its steps say only what the   *)
(* driver counts on.  A command is a number, an answer a row of bytes that *)
(* carry the number of the command.                                        *)
(***************************************************************************)
EXTENDS Integers

CONSTANTS
    MaxCmds,     \* bound: commands submitted
    CmdSize,     \* bytes of a command
    RspSize,     \* bytes of an answer
    RspHead,     \* RSP_RST_OFFSET: by then the size of the answer is known
    OutSizes,    \* room callers have for an answer
    Bursts       \* burst counts the device reports

ASSUME TpmAssumption ==
    /\ MaxCmds \in Nat /\ CmdSize \in Nat \ {0}
    /\ RspSize \in Nat /\ RspHead \in Nat \ {0} /\ RspHead <= RspSize
    /\ OutSizes \subseteq Nat /\ \A n \in OutSizes : RspHead <= n
    /\ Bursts \subseteq Nat \ {0}

VARIABLES
    crb,       \* is_tpm_crb: the command/response buffer or the FIFO
    phase,     \* how far the launch has come
    pc,        \* where the driver is; "caller" between two calls
    cmd,       \* the command last submitted
    out_size,  \* room for its answer
    offset,    \* bytes moved so far
    out,       \* out[]
    ret        \* what the last call returned

VARIABLES
    holds,     \* activeLocality or loc_assigned: locality 0 has the device
    asked,     \* "use", "leave" or "none": the request the device has not served
    dev,       \* its state
    req,       \* "ready", "idle": commandReady, cmdReady or goIdle not yet served
    running,   \* the command it executes or has executed; 0: one of the BIOS
    content,   \* the command whose answer is to be read, 0: none
    fifo       \* bytes it has taken, or given, through the FIFO

(* History of the driver's waits.                                          *)
VARIABLES
    use,       \* its last request for the locality: "none", "standing", "granted"
    lateIdle,  \* in this call goIdle was given up and the result not looked at
    missed     \* the last release could not validate a locality that was active

driver == <<crb, phase, pc, cmd, out_size, offset, out, ret>>
locality == <<holds, asked>>
engine == <<dev, req, running, content, fifo>>
device == <<locality, engine>>
history == <<use, lateIdle, missed>>
vars == <<driver, device, history>>

Lesser(m, n) == IF m < n THEN m ELSE n

NoByte == <<0, 0>>
(* What a read of byte k yields; past the answer nothing in particular.    *)
Byte(k) == IF content # 0 /\ k <= RspSize THEN <<content, k>> ELSE NoByte

TypeOK ==
    /\ crb \in BOOLEAN /\ ret \in BOOLEAN /\ holds \in BOOLEAN
    /\ phase \in {"detect", "commands", "prepare", "relinquish", "launched", "stopped"}
    /\ pc \in {"caller", "validate", "request", "active", "ready", "write", "expect",
               "execute", "answer", "read", "finish", "letgo", "status", "idle",
               "cmdReady", "copy", "copyOut", "relValidate", "released", "requested"}
    /\ cmd \in 0..MaxCmds /\ out_size \in Nat /\ offset \in Nat /\ fifo \in Nat
    /\ asked \in {"none", "use", "leave"} /\ req \subseteq {"ready", "idle"}
    /\ dev \in {"idle", "ready", "reception", "executing", "completion"}
    /\ running \in 0..MaxCmds /\ content \in 0..MaxCmds
    /\ use \in {"none", "standing", "granted"}
    /\ lateIdle \in BOOLEAN /\ missed \in BOOLEAN

-----------------------------------------------------------------------------
(* The driver *)

At(l) == pc = l
Goto(l) == pc' = l /\ UNCHANGED ret
Return(r) == pc' = "caller" /\ ret' = r

OnlyPc == UNCHANGED <<crb, phase, cmd, out_size, offset, out>>

(***************************************************************************)
(* tpm_validate_locality waits for the access register to be valid;        *)
(* tpm_validate_locality_crb also for the locality to be assigned.  Both   *)
(* drivers come here first; a request for a locality follows only in the   *)
(* FIFO's, the CRB's has got it in tpm_detect.                             *)
(***************************************************************************)
Valid == crb => holds

Validate ==
    /\ At("validate")
    /\ \/ Valid /\ Goto(IF crb THEN "status" ELSE "request")
       \/ Return(FALSE)
    /\ OnlyPc /\ UNCHANGED <<device, history>>

(* tpm_wait_cmd_ready: ask for the locality, and wait for it.              *)
RequestUse ==
    /\ At("request")
    /\ asked' = "use" /\ use' = "standing" /\ Goto("active")
    /\ OnlyPc /\ UNCHANGED <<holds, engine, lateIdle, missed>>

ActiveLocality ==
    /\ At("active")
    /\ \/ holds /\ use' = "granted" /\ Goto("ready")
       \/ ~holds /\ Return(FALSE) /\ UNCHANGED use
    /\ OnlyPc /\ UNCHANGED <<device, lateIdle, missed>>

(* Mutant: a device that is not ready in time is taken for ready.        *)
PollCmdReadyAnyway ==
    /\ At("ready") /\ OnlyPc
    /\ \/ dev = "ready" /\ Goto("write") /\ UNCHANGED req
       \/ dev # "ready" /\ Goto("ready") /\ req' = req \cup {"ready"}
       \/ dev # "ready" /\ "ready" \in req
          /\ Goto("write") /\ UNCHANGED req
    /\ UNCHANGED <<locality, dev, running, content, fifo, history>>

(* It then writes commandReady before each look at it.  The device ignores *)
(* what it is told again.                                                  *)
PollCmdReady ==
    /\ At("ready") /\ OnlyPc
    /\ \/ dev = "ready" /\ Goto("write") /\ UNCHANGED req
       \/ dev # "ready" /\ Goto("ready") /\ req' = req \cup {"ready"}
       \/ dev # "ready" /\ "ready" \in req
          /\ pc' = "letgo" /\ ret' = FALSE /\ UNCHANGED req
    /\ UNCHANGED <<locality, dev, running, content, fifo, history>>

(* Mutant: a wait that gives up returns at once.                         *)
GiveUpHolding == Return(FALSE)

(***************************************************************************)
(* tpm_submit_cmd: the command is written in bursts, and the device must   *)
(* not expect more before it is told to execute it.  A wait that gives up  *)
(* relinquishes the locality all the same.                                 *)
(***************************************************************************)
GiveUp == pc' = "letgo" /\ ret' = FALSE

WriteBurst ==
    /\ At("write")
    /\ \/ /\ \E row_size \in Bursts :
                /\ offset' = Lesser(CmdSize, offset + row_size)
                /\ fifo' = (IF dev = "reception" THEN fifo ELSE 0) + (offset' - offset)
          /\ dev' = IF dev = "ready" THEN "reception" ELSE dev
          /\ Goto(IF offset' < CmdSize THEN "write" ELSE "expect")
       \/ GiveUp /\ UNCHANGED <<offset, dev, fifo>>
    /\ UNCHANGED <<crb, phase, cmd, out_size, out, locality, req, running, content, history>>

CheckExpect ==
    /\ At("expect")
    /\ \/ ~(dev = "reception" /\ fifo < CmdSize) /\ Goto("execute")
       \/ GiveUp
    /\ OnlyPc /\ UNCHANGED <<device, history>>

ExecuteCmd ==
    /\ At("execute")
    /\ IF dev = "reception" /\ fifo >= CmdSize
       THEN dev' = "executing" /\ running' = cmd
       ELSE UNCHANGED <<dev, running>>
    /\ offset' = 0 /\ Goto("answer")
    /\ UNCHANGED <<crb, phase, cmd, out_size, out, locality, req, content, fifo, history>>

CheckDataAvail ==
    /\ At("answer") /\ ~crb
    /\ \/ dev = "completion" /\ Goto("read")
       \/ dev # "completion" /\ GiveUp
    /\ OnlyPc /\ UNCHANGED <<device, history>>

(* The size of the answer is taken from its head, as soon as that is read; *)
(* reading ends with the answer or the room for it.                        *)
ReadBurst ==
    /\ At("read")
    /\ \/ /\ \E row_size \in Bursts :
             LET n == Lesser(out_size, offset + row_size)
             IN  /\ offset' = n /\ fifo' = fifo + (n - offset)
                 /\ out' = [k \in 1..n |-> IF k <= offset THEN out[k]
                                           ELSE Byte(fifo + k - offset)]
          /\ LET rsp_size == IF offset' < RspHead THEN 0 ELSE RspSize
             IN  Goto(IF offset' < RspHead \/ (offset' < rsp_size /\ offset' < out_size)
                      THEN "read" ELSE "finish")
       \/ GiveUp /\ UNCHANGED <<offset, out, fifo>>
    /\ UNCHANGED <<crb, phase, cmd, out_size, locality, dev, req, running, content, history>>

Finish ==
    /\ At("finish")
    /\ req' = req \cup {"ready"} /\ pc' = "letgo" /\ ret' = TRUE
    /\ OnlyPc /\ UNCHANGED <<locality, dev, running, content, fifo, history>>

(* RelinquishControl *)
LetGo ==
    /\ At("letgo")
    /\ asked' = "leave" /\ Return(ret)
    /\ OnlyPc /\ UNCHANGED <<holds, engine, history>>

(***************************************************************************)
(* The CRB.  tpm_send_cmd_ready_status_crb takes a device that is not idle *)
(* there first; when that takes too long it returns without having written *)
(* cmdReady, which its caller does not look at: the bit is 0, as if it had *)
(* been served.  Nothing is relinquished here.                             *)
(***************************************************************************)
ReadStatus ==
    /\ At("status")
    /\ IF dev = "idle" THEN req' = req \cup {"ready"} /\ Goto("cmdReady")
                       ELSE req' = req \cup {"idle"} /\ Goto("idle")
    /\ OnlyPc /\ UNCHANGED <<locality, dev, running, content, fifo, history>>

GoIdle ==
    /\ At("idle") /\ Goto("cmdReady")
    /\ \/ "idle" \notin req /\ req' = req \cup {"ready"}
          /\ UNCHANGED lateIdle
       \/ "idle" \in req /\ UNCHANGED req /\ lateIdle' = TRUE
    /\ OnlyPc /\ UNCHANGED <<locality, dev, running, content, fifo, use, missed>>

CheckCmdReady ==
    /\ At("cmdReady")
    /\ \/ "ready" \notin req /\ Goto("copy")
       \/ "ready" \in req /\ Return(FALSE)
    /\ OnlyPc /\ UNCHANGED <<device, history>>

(* The buffer is the device's for commands and for answers.  A device that *)
(* is executing has start set already, an idle one does not take it.       *)
StartCmd ==
    /\ At("copy")
    /\ content' = 0
    /\ IF dev \in {"idle", "executing"} THEN UNCHANGED <<dev, running>>
       ELSE dev' = "executing" /\ running' = cmd
    /\ Goto("answer")
    /\ OnlyPc /\ UNCHANGED <<locality, req, fifo, history>>

(* Mutant: a wait without end.                                           *)
CheckStartForever ==
    /\ At("answer") /\ crb
    /\ dev # "executing" /\ Goto("copyOut")
    /\ OnlyPc /\ UNCHANGED <<device, history>>

CheckStart ==
    /\ At("answer") /\ crb
    /\ \/ dev # "executing" /\ Goto("copyOut")
       \/ dev = "executing" /\ Return(FALSE)
    /\ OnlyPc /\ UNCHANGED <<device, history>>

CopyOut ==
    /\ At("copyOut")
    /\ out' = [k \in 1..out_size |-> Byte(k)]
    /\ Return(TRUE)
    /\ UNCHANGED <<crb, phase, cmd, out_size, offset, device, history>>

-----------------------------------------------------------------------------
(***************************************************************************)
(* release_locality and tpm_relinquish_locality_crb.  Both take a locality *)
(* that they cannot validate for one that is not active.                   *)
(***************************************************************************)
ReleaseValidate ==
    /\ At("relValidate")
    /\ \/ holds /\ asked' = "leave" /\ Goto("released") /\ missed' = FALSE
       \/ Return(TRUE) /\ missed' = holds /\ UNCHANGED asked
    /\ OnlyPc /\ UNCHANGED <<holds, engine, use, lateIdle>>

(* Mutant: the device is not asked whether it has let go.                *)
ReleasedUnasked ==
    /\ At("released") /\ Return(TRUE)
    /\ OnlyPc /\ UNCHANGED <<device, history>>

Released ==
    /\ At("released")
    /\ \/ ~holds /\ Return(TRUE)
       \/ holds /\ Return(FALSE)
    /\ OnlyPc /\ UNCHANGED <<device, history>>

-----------------------------------------------------------------------------
(* The launch *)

OnlyLaunch == UNCHANGED <<crb, cmd, out_size, offset, out, ret, device, history>>
(* error_action shuts the system down.                                     *)
Stop == phase' = "stopped" /\ pc' = "caller"

(* tpm_detect: the FIFO's locality need only be valid, the CRB's must be   *)
(* assigned and is requested when it is not seen to be.                    *)
Detect ==
    /\ At("caller") /\ phase = "detect"
    /\ \/ Valid /\ phase' = "commands" /\ UNCHANGED <<pc, asked, use>>
       \/ crb /\ pc' = "requested" /\ asked' = "use" /\ use' = "standing"
          /\ UNCHANGED phase
       \/ ~crb /\ Stop /\ UNCHANGED <<asked, use>>
    /\ UNCHANGED <<crb, cmd, out_size, offset, out, ret, holds, engine, lateIdle, missed>>

Requested ==
    /\ At("requested")
    /\ \/ holds /\ use' = "granted" /\ phase' = "commands" /\ pc' = "caller"
       \/ ~holds /\ Stop /\ UNCHANGED use
    /\ UNCHANGED <<crb, cmd, out_size, offset, out, ret, device, lateIdle, missed>>

Submit ==
    /\ At("caller") /\ phase = "commands" /\ cmd < MaxCmds
    /\ cmd' = cmd + 1 /\ out_size' \in OutSizes /\ offset' = 0 /\ out' = <<>>
    /\ lateIdle' = FALSE
    /\ Goto("validate")
    /\ UNCHANGED <<crb, phase, device, use, missed>>

(* A command that failed is passed over or is the end of the launch.       *)
CommandsEnd ==
    /\ At("caller") /\ phase = "commands"
    /\ \/ phase' = "prepare" /\ pc' = "relValidate"
       \/ cmd > 0 /\ ~ret /\ Stop
    /\ OnlyLaunch

(* "if ( !prepare_tpm() ) error_action(TB_ERR_TPM_NOT_READY)".             *)
Prepared ==
    /\ At("caller") /\ phase = "prepare"
    /\ IF ~ret THEN Stop
       ELSE IF crb THEN phase' = "relinquish" /\ pc' = "relValidate"
       ELSE phase' = "launched" /\ pc' = "caller"
    /\ OnlyLaunch

Relinquished ==
    /\ At("caller") /\ phase = "relinquish"
    /\ IF ret THEN phase' = "launched" /\ UNCHANGED pc ELSE Stop
    /\ OnlyLaunch

-----------------------------------------------------------------------------
(* The device.  It lets go of a command it is told to abandon at any point *)
(* of it; a CRB becomes ready only when it is not executing.               *)

ServeLocality ==
    /\ asked # "none"
    /\ holds' = (asked = "use") /\ asked' = "none"
    /\ UNCHANGED <<driver, engine, history>>

ServeReady ==
    /\ "ready" \in req
    /\ crb => dev # "executing" /\ "idle" \notin req
    /\ dev' = "ready" /\ req' = req \ {"ready"}
    /\ UNCHANGED <<driver, locality, running, content, fifo, history>>

ServeIdle ==
    /\ "idle" \in req
    /\ dev' = "idle" /\ req' = req \ {"idle"}
    /\ UNCHANGED <<driver, locality, running, content, fifo, history>>

Complete ==
    /\ dev = "executing"
    /\ dev' = "completion" /\ content' = running /\ fifo' = 0
    /\ UNCHANGED <<driver, locality, req, running, history>>

-----------------------------------------------------------------------------
(* What the BIOS leaves: a locality it still holds, a command under way.   *)
Init ==
    /\ crb \in BOOLEAN
    /\ phase = "detect" /\ pc = "caller" /\ ret = TRUE
    /\ cmd = 0 /\ out_size = 0 /\ offset = 0 /\ out = <<>>
    /\ holds \in BOOLEAN /\ asked = "none"
    /\ dev \in {"idle", "ready", "executing", "completion"}
    /\ req = {} /\ running = 0 /\ content = 0 /\ fifo = 0
    /\ use = "none" /\ lateIdle = FALSE /\ missed = FALSE

FifoStep ==
    \/ RequestUse \/ ActiveLocality \/ PollCmdReady \/ WriteBurst \/ CheckExpect
    \/ ExecuteCmd \/ CheckDataAvail \/ ReadBurst \/ Finish \/ LetGo
CrbStep == ReadStatus \/ GoIdle \/ CheckCmdReady \/ StartCmd \/ CheckStart \/ CopyOut
LaunchStep ==
    \/ Detect \/ Requested \/ Submit \/ CommandsEnd \/ Prepared \/ Relinquished
    \/ ReleaseValidate \/ Released
Driver == Validate \/ FifoStep \/ CrbStep \/ LaunchStep
Device == ServeLocality \/ ServeReady \/ ServeIdle \/ Complete

Next == Driver \/ Device
Spec == Init /\ [][Next]_vars

(* The driver runs on.  Nothing is asked of the device.                    *)
FairSpec == Spec /\ WF_vars(Driver)

-----------------------------------------------------------------------------
(* Properties *)

HasOwnAnswer ==
    \A k \in 1..Lesser(RspSize, out_size) : k \in DOMAIN out /\ out[k] = <<cmd, k>>
Answered == At("caller") /\ phase = "commands" /\ cmd > 0 /\ ret

\* A call that succeeds has the answer to its own command and all of it there
\* is room for, however late the device was with this command or those before
\* it; except that, with a CRB, the device must not be late to go idle in this
\* very call: line 383 does not look whether it was.
OwnAnswer == Answered /\ ~lateIdle => HasOwnAnswer

\* The same without the exception; violated.
OwnAnswerAlways == Answered => HasOwnAnswer

\* tpm_submit_cmd does not keep the locality: once a call has got it (line 326),
\* it has been told to let go of it on every path out of that call and stays so
\* until the next request.
LocalityLetGo ==
    At("caller") /\ phase = "commands" /\ ~crb /\ use = "granted"
    => ~holds \/ asked = "leave"

\* The same of a call that gave up its request (line 333): the request is left
\* standing and may be granted afterwards; violated.
NoLateGrant == At("caller") /\ ~crb /\ use = "standing" => ~holds

\* "must ensure TPM_ACCESS_0.activeLocality bit is clear": when the launch goes
\* ahead, the locality is not active and does not become so, provided that the
\* release could validate a locality that was active (else lines 673 and 708
\* take it for inactive) and no request given up at line 333 is still standing.
LaunchClear == phase = "launched" /\ ~missed /\ use # "standing" => ~holds

\* The same without the first proviso; violated.
LaunchClearAlways == phase = "launched" /\ use # "standing" => ~holds

\* Whatever the device does or fails to do, the launch goes ahead or stops.
LaunchEnds == <>(phase \in {"launched", "stopped"})
=============================================================================
