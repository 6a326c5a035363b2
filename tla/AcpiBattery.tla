----------------------------- MODULE AcpiBattery -----------------------------
(***************************************************************************)
(* How a guest reads what xcpmd wrote about the batteries.                 *)
(*   qemu         (hw/xen_acpi_pm.c) keeps a buffer per battery, fills it  *)
(*                from the nodes /pm/bst* and /pm/bif* when the guest asks *)
(*                and hands it out a byte at a time on ports 0xb4 and 0x86;*)
(*                ports 0x88 and 0x90 tell of a battery and of a change of *)
(*                its information;                                         *)
(*   the guest    runs the AML methods of ssdt_pm.asl, which share BUF0,   *)
(*                BUFA and BUFB and the device, under the mutex SYNC.      *)
(* The nodes change as Xcpmd makes them: those of the status in one        *)
(* transaction, those of the information in another.                       *)
(*                                                                         *)
(* An AML interpreter may switch methods only where they block; with       *)
(* Preemptive it may do so before every command.  What is shown rests on   *)
(* it in one place, the package BIFP, which _BIF returns after it has let  *)
(* SYNC go.  One WPRT, a data byte and a command, is one step.             *)
(***************************************************************************)
EXTENDS PmStrings

CONSTANTS
    Threads,      \* of the guest, running AML methods
    Calls,        \* what each calls: pairs of "STA", "BST" or "BIF" and a
                  \* battery
    NoThread,
    Preemptive,   \* methods may be switched before every command
    Size,         \* of BUF0
    Statuses,     \* what /pm/bst and /pm/bst1 may hold together: each a
                  \* tuple of statuses, one for each battery present
    Infos,        \* and /pm/bif and /pm/bif1: tuples of [id, texts]
    NTexts,       \* how many text attributes there are (4)
    MaxWrites     \* bound on the transactions of xcpmd

\* What sysfs may say of the batteries that come and go.
Cells == UNION {ToSet(s) : s \in Infos}

ASSUME BatteryAssumption ==
    /\ NoThread \notin Threads /\ Preemptive \in BOOLEAN
    /\ DOMAIN Calls = Threads
    /\ \A t \in Threads : Calls[t] \subseteq {"STA", "BST", "BIF"} \X Batteries
    /\ Size \in Nat /\ Size > 3 /\ NTexts \in Nat /\ MaxWrites \in Nat
    /\ \A s \in Statuses : s \in Seq((0..255) \X (0..255)) /\ Len(s) <= 2
    /\ \A c \in Cells : /\ c.id \in 0..255 /\ c.texts \in [1..NTexts -> Seq(Nat)]
                       \* the attributes are of 32 characters at most, the
                       \* string so of 2 + 72 + 4 * 34 and BUF0 of 256
                       /\ Total(c.texts) + NTexts + 3 <= 255
                       /\ Total(c.texts) + 2 <= Size

VARIABLES
    bst, bif,    \* the nodes of xenstore
    writes,
    qbst, qbif,  \* _bst, _bif
    changed,     \* bif_changed
    selector, qindex, \* _selector and index of each battery
    index,       \* the battery selected
    owner,       \* of SYNC
    buf, bufa, bufb, \* BUF0, BUFA, BUFB
    bifp,        \* BIFP, the package every _BIF returns; by, who filled
                 \* it last, is no part of it
    pc, method, bat, k, \* each thread; k is Local0 of its loop
    result,      \* of a method that is returning
    held         \* values its node had since the method was called

nodeVars == <<bst, bif, writes>>
qemuVars == <<qbst, qbif, changed, selector, qindex, index>>
amlVars == <<owner, buf, bufa, bufb, bifp>>
threadVars == <<pc, method, bat, k, result>>
vars == <<nodeVars, qemuVars, amlVars, threadVars, held>>

-----------------------------------------------------------------------------
(* xenstore *)

StatusNodes(s) == Nodes([i \in DOMAIN s |-> StatusString(s[i])])
InfoNodes(s) == Nodes([i \in DOMAIN s |-> InfoString(s[i].id, s[i].texts)])

\* What the methods that are running see of their node.
Seen(m, nodes) == held' = [t \in Threads |->
    IF pc[t] \in {"idle", "return"} \/ (method[t] = "BST") # (m = "BST")
    THEN held[t] ELSE held[t] \cup {nodes[bat[t]]}]

WriteStatus ==
    /\ writes < MaxWrites /\ writes' = writes + 1
    /\ \E s \in Statuses : bst' = StatusNodes(s) /\ Seen("BST", StatusNodes(s))
    /\ UNCHANGED <<bif, qemuVars, amlVars, threadVars>>

WriteInfo ==
    /\ writes < MaxWrites /\ writes' = writes + 1
    /\ \E s \in Infos : bif' = InfoNodes(s) /\ Seen("BIF", InfoNodes(s))
    /\ UNCHANGED <<bst, qemuVars, amlVars, threadVars>>

-----------------------------------------------------------------------------
(* qemu, as the guest's port accesses drive it *)

\* xen_battery_update_bif: a node that is not there leaves the old string.
UpdateBif(b) == qbif' = [qbif EXCEPT ![b] = IF bif[b] = Absent THEN @ ELSE bif[b]]
InfoChanges(b) ==
    \/ changed[b]
    \/ qbif[b] # Absent /\ bif[b] # Absent /\ ~SameInfo(qbif[b], bif[b])

\* xen_battery_update_bst
UpdateBst(b) == qbst' = [qbst EXCEPT ![b] = IF bst[b] = Absent THEN @ ELSE bst[b]]

\* battery_port_3_read, battery_port_4_read: a change is told once.
ReadStatusPort(b) ==
    /\ UpdateBif(b)
    /\ changed' = [changed EXCEPT ![b] = FALSE]
    /\ UNCHANGED <<qbst, selector, qindex, index>>

\* battery_port_1_write_op_init
OpInit ==
    /\ qbif' = [qbif EXCEPT ![index] = Absent]
    /\ qbst' = [qbst EXCEPT ![index] = Absent]
    /\ selector' = [selector EXCEPT ![index] = "none"]
    /\ qindex' = [qindex EXCEPT ![index] = 0]
    /\ UNCHANGED <<changed, index>>

\* battery_port_1_write_op_set_type: only the first valid type counts.
OpSetType(type) ==
    LET valid == selector[index] = "none" IN
    \/ /\ valid /\ type = 1
       /\ selector' = [selector EXCEPT ![index] = "bif"]
       /\ UpdateBif(index)
       /\ changed' = [changed EXCEPT ![index] = InfoChanges(index)]
       /\ UNCHANGED <<qbst, qindex, index>>
    \/ /\ valid /\ type = 2
       /\ selector' = [selector EXCEPT ![index] = "bst"]
       /\ UpdateBst(index)
       /\ UNCHANGED <<qbif, changed, qindex, index>>
    \/ /\ ~valid \/ type \notin {1, 2}
       /\ UNCHANGED qemuVars

\* Mutant: what is handed out is the node itself.
DataOfNode(b) == IF selector[b] = "bst" THEN bst[b] ELSE bif[b]

\* What OP_GET_DATA and OP_GET_DATA_LENGTH leave in the data port; without
\* a selector that is the 0 the guest wrote there.
DataOf(b) == IF selector[b] = "bst" THEN qbst[b] ELSE qbif[b]
OpByte == IF selector[index] = "none" THEN 0
          ELSE GetData(DataOf(index), qindex[index]).byte
\* index is a uint8_t.
OpGetData ==
    /\ qindex' = [qindex EXCEPT ![index] =
                    IF selector[index] = "none" THEN @
                    ELSE GetData(DataOf(index), @).next % 256]
    /\ UNCHANGED <<qbst, qbif, changed, selector, index>>

-----------------------------------------------------------------------------
(* The guest's AML methods *)

\* Whether t may go on: an interpreter that does not switch lets it do so
\* only while every other method is finished or waits for SYNC.
Running(t) ==
    \/ Preemptive
    \/ \A u \in Threads \ {t} : pc[u] \in {"idle", "acquire", "return"}

At(t, l) == pc[t] = l /\ Running(t)
Goto(t, l) == pc' = [pc EXCEPT ![t] = l]

Call(t) ==
    /\ At(t, "idle")
    /\ \E m \in {"STA", "BST", "BIF"}, b \in Batteries :
        /\ <<m, b>> \in Calls[t]
        /\ method' = [method EXCEPT ![t] = m]
        /\ bat' = [bat EXCEPT ![t] = b]
        /\ held' = [held EXCEPT ![t] = {IF m = "BST" THEN bst[b] ELSE bif[b]}]
        /\ Goto(t, IF m = "BIF" THEN "acquire" ELSE "status")
    /\ UNCHANGED <<nodeVars, qemuVars, amlVars, k, result>>

\* _STA is no more than this; _BST does it before it takes SYNC (STA1, STA2).
ReadStatus(t) ==
    /\ At(t, "status")
    /\ ReadStatusPort(bat[t])
    /\ Goto(t, IF method[t] = "BST" THEN "acquire" ELSE "return")
    /\ UNCHANGED <<nodeVars, amlVars, method, bat, k, result, held>>

\* ACQR (a method may take again a mutex it has), then INIT puts the type
\* and the battery's number into BUF0.
Acquire(t) ==
    /\ At(t, "acquire")
    /\ owner \in {NoThread, t} /\ owner' = t
    /\ buf' = [buf EXCEPT ![0] = IF method[t] = "BST" THEN 2 ELSE 1, ![1] = bat[t] + 1]
    /\ bufa' = 2
    /\ Goto(t, "select")
    /\ UNCHANGED <<nodeVars, qemuVars, bufb, bifp, method, bat, k,
                   result, held>>

\* PB5: the battery is selected.
Select(t) ==
    /\ At(t, "select")
    /\ index' = bat[t]
    /\ Goto(t, "init")
    /\ UNCHANGED <<nodeVars, qbst, qbif, changed, selector, qindex,
                   amlVars, method, bat, k, result, held>>

\* HLP2: operation init, then the bytes of BUF0 below BUFA as types.
Init7B(t) ==
    /\ At(t, "init")
    /\ OpInit
    /\ k' = [k EXCEPT ![t] = 0]
    /\ Goto(t, "type")
    /\ UNCHANGED <<nodeVars, amlVars, method, bat, result, held>>

Type7C(t) ==
    /\ At(t, "type")
    /\ IF k[t] < bufa
       THEN OpSetType(buf[k[t]]) /\ k' = [k EXCEPT ![t] = @ + 1] /\ UNCHANGED pc
       ELSE Goto(t, "length") /\ UNCHANGED <<qemuVars, k>>
    /\ UNCHANGED <<nodeVars, amlVars, method, bat, result, held>>

\* HLP5: the length is what is read first, at most what BUF0 has room for.
Length79(t) ==
    /\ At(t, "length")
    /\ bufb' = IF bufa + OpByte > Size THEN Size - bufa ELSE OpByte
    /\ OpGetData
    /\ k' = [k EXCEPT ![t] = 0]
    /\ Goto(t, "data")
    /\ UNCHANGED <<nodeVars, owner, buf, bufa, bifp, method, bat,
                   result, held>>

\* HLP4
Data7D(t) ==
    /\ At(t, "data") /\ k[t] < bufb
    /\ buf' = IF bufa + k[t] < Size THEN [buf EXCEPT ![bufa + k[t]] = OpByte] ELSE buf
    /\ OpGetData
    /\ k' = [k EXCEPT ![t] = @ + 1]
    /\ UNCHANGED <<nodeVars, owner, bufa, bufb, bifp, pc, method, bat,
                   result, held>>

\* HLP6: the next byte of BUF0; HLPA: a string of it after its length, and
\* where those of the package are.
ByteAt(p) == IF p < Size THEN buf[p] ELSE 0
StringsFrom(p) ==
    LET at[i \in 1..NTexts + 1] == IF i = 1 THEN p ELSE at[i - 1] + 1 + ByteAt(at[i - 1])
    IN  at
StringAt(p) == [j \in 1..ByteAt(p) |-> ByteAt(p + j)]

\* What a _BST and a _BIF make of BUF0.
StatusAt(p) == <<ByteAt(p), ByteAt(p + 1)>>
InfoAt(t, p) ==
    [by |-> t, block |-> ByteAt(p),
     texts |-> [i \in 1..NTexts |-> StringAt(StringsFrom(p + 1)[i])]]

\* The package is filled from BUF0, BUFA moving on.  That of a _BST is the
\* method's own, that of a _BIF is BIFP.
Fill(t) ==
    IF method[t] = "BST"
    THEN /\ result' = [result EXCEPT ![t] = StatusAt(bufa)]
         /\ bufa' = bufa + 2
         /\ Goto(t, "return")
         /\ UNCHANGED bifp
    ELSE /\ bifp' = InfoAt(t, bufa)
         /\ bufa' = StringsFrom(bufa + 1)[NTexts + 1]
         /\ Goto(t, "fetch")
         /\ UNCHANGED result

\* Mutant: SYNC is kept.
ReleaseNothing(t) ==
    /\ At(t, "data") /\ k[t] >= bufb
    /\ Fill(t)
    /\ UNCHANGED <<nodeVars, qemuVars, owner, buf, bufb, method, bat, k, held>>

\* The package, then REL.
Release(t) ==
    /\ At(t, "data") /\ k[t] >= bufb
    /\ Fill(t)
    /\ owner' = NoThread
    /\ UNCHANGED <<nodeVars, qemuVars, buf, bufb, method, bat, k, held>>

\* Only now is BIFP read, and copied to _BIF's own Local0.
Fetch(t) ==
    /\ At(t, "fetch")
    /\ result' = [result EXCEPT ![t] = bifp]
    /\ Goto(t, "return")
    /\ UNCHANGED <<nodeVars, qemuVars, amlVars, method, bat, k, held>>

Return(t) ==
    /\ pc[t] = "return"
    /\ Goto(t, "idle")
    /\ result' = [result EXCEPT ![t] = << >>]
    /\ held' = [held EXCEPT ![t] = {}]
    /\ k' = [k EXCEPT ![t] = 0]
    /\ method' = [method EXCEPT ![t] = "none"] /\ bat' = [bat EXCEPT ![t] = 0]
    /\ UNCHANGED <<nodeVars, qemuVars, amlVars>>

-----------------------------------------------------------------------------
\* xen_acpi_pm_initfn: xcpmd has written the nodes, qemu reads them.
Init ==
    /\ \E s \in Statuses : bst = StatusNodes(s)
    /\ \E s \in Infos : bif = InfoNodes(s)
    /\ writes = 0
    /\ qbst = bst /\ qbif = bif
    /\ changed = [b \in Batteries |-> TRUE]
    /\ selector = [b \in Batteries |-> "none"]
    /\ qindex = [b \in Batteries |-> 0] /\ index = 0
    /\ owner = NoThread
    /\ buf = [i \in 0..Size - 1 |-> 0] /\ bufa = 0 /\ bufb = 0
    /\ bifp = [by |-> NoThread, block |-> 0, texts |-> << >>]
    /\ pc = [t \in Threads |-> "idle"]
    /\ method = [t \in Threads |-> "none"] /\ bat = [t \in Threads |-> 0]
    /\ k = [t \in Threads |-> 0] /\ result = [t \in Threads |-> << >>]
    /\ held = [t \in Threads |-> {}]

MethodStep(t) ==
    \/ ReadStatus(t) \/ Select(t) \/ Init7B(t) \/ Type7C(t) \/ Length79(t)
    \/ Data7D(t) \/ Release(t) \/ Fetch(t) \/ Return(t)

Next ==
    \/ WriteStatus \/ WriteInfo
    \/ \E t \in Threads : Call(t) \/ Acquire(t) \/ MethodStep(t)

Spec == Init /\ [][Next]_vars

\* The interpreter goes on with its methods, and SYNC is not kept for ever
\* from one that waits for it while others take it in turn.
Fairness ==
    \A t \in Threads : WF_vars(MethodStep(t)) /\ SF_vars(Acquire(t))

FairSpec == Spec /\ Fairness

-----------------------------------------------------------------------------
(* Properties *)

TypeOK ==
    /\ \A s \in {bst, qbst} : s \in [Batteries -> Seq(0..15)]
    /\ \A s \in {bif, qbif} : s \in [Batteries -> Seq(Nat)]
    /\ writes \in 0..MaxWrites
    /\ changed \in [Batteries -> BOOLEAN]
    /\ selector \in [Batteries -> {"none", "bst", "bif"}]
    /\ qindex \in [Batteries -> 0..255] /\ index \in Batteries
    /\ owner \in Threads \cup {NoThread}
    /\ buf \in [0..Size - 1 -> 0..255] /\ bufa \in Nat /\ bufb \in 0..Size
    /\ pc \in [Threads -> {"idle", "status", "acquire", "select", "init",
                           "type", "length", "data", "fetch", "return"}]
    /\ bifp.by \in Threads \cup {NoThread} /\ bifp.block \in 0..255
    /\ method \in [Threads -> {"STA", "BST", "BIF", "none"}]
    /\ bat \in [Threads -> Batteries] /\ k \in [Threads -> 0..Size]

Returned(t, m) == pc[t] = "return" /\ method[t] = m

\* A _BST of a battery that was there all the while returns one status that
\* was its own during the call, never another method's or battery's bytes
\* nor parts of two, though each byte is a command of its own (SYNC, PB5 and
\* the private copy in _bst).
BstSnapshot ==
    \A t \in Threads :
        Returned(t, "BST") /\ Absent \notin held[t] =>
            \E s \in held[t] : result[t] = <<PairAt(s, 2), PairAt(s, 4)>>

\* Each attribute is a line, as sysfs gives it, its only end at the end.
\* xcpmd does not see to this: an attribute sysfs does not have is empty.
Lines(c) ==
    \A i \in 1..NTexts :
        /\ c.texts[i] # << >>
        /\ \A m \in DOMAIN c.texts[i] : c.texts[i][m] = NL <=> m = Len(c.texts[i])

\* What a _BIF should return of a battery.
Tells(r, c) ==
    /\ r.block = c.id
    /\ r.texts = [i \in 1..NTexts |-> AsRead(c.texts[i])]

\* A _BIF during which the information did not change returns it as sysfs
\* had it, each attribute whole ("each starting with a length byte pair
\* then the string then a trailing \n", xen_acpi_pm.c), if every attribute
\* is such a string and, should the interpreter switch methods where none
\* blocks, if no other _BIF has filled BIFP before it is read.
BifWhole ==
    \A t \in Threads, c \in Cells :
        /\ Returned(t, "BIF") /\ held[t] = {InfoString(c.id, c.texts)}
        /\ Lines(c)
        /\ Preemptive => result[t].by = t
        => Tells(result[t], c)

\* The same without the conditions: not so for a battery of which sysfs has
\* not every attribute (AcpiMissing), nor if methods are switched between
\* REL and the return of BIFP (AcpiShared).
BifWholeAlways ==
    \A t \in Threads, c \in Cells :
        Returned(t, "BIF") /\ held[t] = {InfoString(c.id, c.texts)}
        => Tells(result[t], c)

(* Why BstSnapshot holds: the invariant that carries it *)

\* What xcpmd makes of statuses, and a node of no battery.
StatusBlocks == {Absent} \cup {StatusString(s) : s \in (0..255) \X (0..255)}

\* SYNC belongs to the method that is between ACQR and REL.
HasSync(t) == pc[t] \in {"select", "init", "type", "length", "data"}
MutexInv == \A t \in Threads : HasSync(t) <=> owner = t

\* A _BST has seen its node as it is now.
Watches(t) ==
    /\ bat[t] \in Batteries
    /\ held[t] \subseteq StatusBlocks
    /\ pc[t] # "return" => bst[bat[t]] \in held[t]

\* BUF0 holds the request, and the battery selected is the method's.
Requested(t) ==
    /\ HasSync(t) => bufa = 2 /\ buf[0] = 2 /\ buf[1] = bat[t] + 1
    /\ pc[t] \in {"init", "type", "length", "data"} => index = bat[t]

\* qemu's copy of the status is one of those seen.
Copied(t) == selector[bat[t]] = "bst" /\ qbst[bat[t]] \in held[t]

\* How far the bytes have come.
Progress(t) ==
    /\ pc[t] = "type" =>
         /\ qindex[bat[t]] = 0
         /\ \/ k[t] = 0 /\ selector[bat[t]] = "none" /\ qbst[bat[t]] = Absent
            \/ k[t] \in {1, 2} /\ Copied(t)
    /\ pc[t] = "length" => qindex[bat[t]] = 0 /\ Copied(t)
    /\ pc[t] = "data" => Copied(t)
    /\ pc[t] = "data" /\ Absent \notin held[t] =>
         /\ bufb = 2 /\ k[t] \in 0..2 /\ qindex[bat[t]] = 2 + 2 * k[t]
         /\ k[t] > 0 => buf[2] = PairAt(qbst[bat[t]], 2)
         /\ k[t] > 1 => buf[3] = PairAt(qbst[bat[t]], 4)
    /\ pc[t] = "return" /\ Absent \notin held[t] =>
         \E s \in held[t] : result[t] = <<PairAt(s, 2), PairAt(s, 4)>>

StatusTypes ==
    /\ bst \in [Batteries -> StatusBlocks]
    /\ DOMAIN qbst = Batteries /\ DOMAIN selector = Batteries
    /\ DOMAIN qindex = Batteries /\ index \in Batteries
    /\ DOMAIN buf = 0..Size - 1
    /\ DOMAIN pc = Threads /\ DOMAIN method = Threads /\ DOMAIN bat = Threads
    /\ k \in [Threads -> Nat] /\ DOMAIN result = Threads /\ DOMAIN held = Threads
    /\ \A t \in Threads : pc[t] # "idle" => bat[t] \in Batteries

StatusInv ==
    /\ StatusTypes /\ MutexInv
    /\ \A t \in Threads :
         method[t] = "BST" /\ pc[t] # "idle" =>
             pc[t] # "fetch" /\ Watches(t) /\ Requested(t) /\ Progress(t)

(* Why BifWhole holds: the invariant that carries it *)

InfoBlocks == {Absent} \cup {InfoString(c.id, c.texts) : c \in Cells}

\* A _BIF has seen its node as it is now.
InfoWatches(t) ==
    /\ held[t] \subseteq InfoBlocks
    /\ pc[t] # "return" => bif[bat[t]] \in held[t]

InfoRequested(t) ==
    /\ HasSync(t) => bufa = 2 /\ buf[0] = 1
    /\ pc[t] \in {"init", "type", "length", "data"} => index = bat[t]

\* qemu's copy of the information is one of those seen.  Unlike that of the
\* status it may be renewed by a method without SYNC that reads a status port.
InfoCopied(t) == selector[bat[t]] = "bif" /\ qbif[bat[t]] \in held[t]

\* Byte m of an attribute: its length, then what it says.
AttributeByte(s, m) == IF m = 0 THEN Len(s) ELSE AsRead(s)[m]

\* The first n bytes after the total are in BUF0.
Received(c, n) ==
    /\ n > 0 => buf[2] = c.id
    /\ \A i \in 1..NTexts : \A m \in 0..Len(c.texts[i]) :
         Starts(c.texts)[i] + m < n =>
             buf[2 + Starts(c.texts)[i] + m] = AttributeByte(c.texts[i], m)

\* Where in the string the byte after them is: every length takes a
\* character more than it counts for.
Follows(c, n, q) ==
    \/ n = 0 /\ q = 2
    \/ \E i \in 1..NTexts : \E m \in 0..Len(c.texts[i]) :
         /\ n = Starts(c.texts)[i] + m
         /\ q = Starts(c.texts)[i] + i + 2 + (IF m = 0 THEN 0 ELSE m + 1)
    \/ n = Total(c.texts)

\* How far the bytes have come, if the information was c's all the while.
InfoProgress(t, c) ==
    /\ pc[t] = "data" =>
         /\ bufb = Total(c.texts) /\ k[t] <= bufb
         /\ Received(c, k[t]) /\ Follows(c, k[t], qindex[bat[t]])
    /\ pc[t] = "fetch" /\ (Preemptive => bifp.by = t) => Tells(bifp, c)
    /\ pc[t] = "return" /\ (Preemptive => result[t].by = t) => Tells(result[t], c)

InfoSteps(t) ==
    /\ pc[t] # "status"
    /\ pc[t] = "type" =>
         /\ qindex[bat[t]] = 0
         /\ \/ /\ k[t] = 0 /\ selector[bat[t]] = "none"
               /\ qbif[bat[t]] \in held[t] \cup {Absent}
            \/ k[t] \in {1, 2} /\ InfoCopied(t)
    /\ pc[t] = "length" => qindex[bat[t]] = 0 /\ InfoCopied(t)
    /\ pc[t] = "data" => InfoCopied(t)
    /\ \A c \in Cells :
         Lines(c) /\ held[t] = {InfoString(c.id, c.texts)} => InfoProgress(t, c)

InfoInv ==
    /\ bif \in [Batteries -> InfoBlocks] /\ DOMAIN qbif = Batteries
    /\ \A t \in Threads :
         method[t] = "BIF" /\ pc[t] # "idle" =>
             InfoWatches(t) /\ InfoRequested(t) /\ InfoSteps(t)

\* Every method that is called returns.
MethodReturns == \A t \in Threads : pc[t] # "idle" ~> pc[t] = "return"
=============================================================================
