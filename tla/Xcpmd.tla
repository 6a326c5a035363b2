-------------------------------- MODULE Xcpmd --------------------------------
(***************************************************************************)
(* The power management daemon of dom0 (xcpmd.c) as far as batteries go:   *)
(* once a minute, and when it is asked to, it scans sysfs, writes the      *)
(* status of each battery that is present to /pm/bst and /pm/bst1 in one   *)
(* xenstore transaction and, after another scan, its information to        *)
(* /pm/bif and /pm/bif1 in a second one; it also works out whether the     *)
(* batteries are running low.  AcpiBattery is what becomes of the nodes.   *)
(*                                                                         *)
(* A scan reads some files of each bay; it is one step here.  Of the       *)
(* MAX_BATTERY_SCANNED (5) bays it looks at, those after Bays are empty.   *)
(***************************************************************************)
EXTENDS PmStrings, FiniteSets

CONSTANTS
    Bays,         \* BAT0, BAT1, ... of sysfs: 0..n
    Cells,        \* the batteries there are: numbers 1..15
    InitBays,     \* what the bays may hold at first
    Text,         \* the text attributes of each: a tuple of strings
    MaxChanges,   \* bound on what happens to batteries and adapter
    MaxFaults     \* bound on transactions that fail and on queries

ASSUME XcpmdAssumption ==
    /\ Bays = 0..Cardinality(Bays) - 1 /\ Cardinality(Bays) < 5
    /\ Cells \subseteq 1..15
    /\ DOMAIN Text = Cells
    /\ \A f \in InitBays :
        /\ DOMAIN f = Bays
        /\ \A n \in Bays : f[n] \in Cells \cup {0}
        /\ \A m, n \in Bays : f[m] = f[n] /\ f[m] # 0 => m = n
    /\ MaxChanges \in Nat /\ MaxFaults \in Nat

NoCell == 0
Full == 10               \* a battery's capacity, charged,
Some == 1                \* and when a tenth is left

VARIABLES
    bay,         \* sysfs: the cell in each bay
    charge,      \* and what each cell has left
    onAC,        \* AC/online
    changes, faults,
    xpc,         \* where xcpmd is in update_battery_status
    status,      \* the statuses it has scanned
    lastFull,    \* last_full_capacity
    current,     \* current_battery_level
    bst, bif,    \* the nodes of xenstore
    level        \* /pm/currentbatterylevel

hwVars == <<bay, charge, onAC, changes>>
vars == <<hwVars, faults, xpc, status, lastFull, current, bst, bif, level>>

-----------------------------------------------------------------------------
(* The hardware *)

PutIn(n, c) ==
    /\ bay[n] = NoCell /\ \A m \in Bays : bay[m] # c
    /\ bay' = [bay EXCEPT ![n] = c]
    /\ UNCHANGED <<charge, onAC>>

TakeOut(n) ==
    /\ bay[n] # NoCell
    /\ bay' = [bay EXCEPT ![n] = NoCell]
    /\ UNCHANGED <<charge, onAC>>

Drain(c) ==
    /\ charge[c] > 0
    /\ charge' = [charge EXCEPT ![c] = IF @ = Full THEN Some ELSE 0]
    /\ UNCHANGED <<bay, onAC>>

Hardware ==
    /\ changes < MaxChanges
    /\ changes' = changes + 1
    /\ \/ \E n \in Bays : TakeOut(n) \/ \E c \in Cells : PutIn(n, c)
       \/ \E c \in Cells : Drain(c)
       \/ onAC' = ~onAC /\ UNCHANGED <<bay, charge>>
    /\ UNCHANGED <<faults, xpc, status, lastFull, current, bst, bif, level>>

\* The cells present in the order of their bays, at most as many as are
\* supported: empty bays are passed over.
Present ==
    LET all == SelectSeq([i \in 1..Cardinality(Bays) |-> bay[i - 1]],
                         LAMBDA c : c # NoCell)
    IN  SubSeq(all, 1, IF Len(all) < 2 THEN Len(all) ELSE 2)

-----------------------------------------------------------------------------
(* xcpmd *)

\* BATTERY_WARNING_PERCENT, BATTERY_LOW_PERCENT, BATTERY_CRITICAL_PERCENT
LevelOf(percent) ==
    IF percent > 8 THEN "normal"
    ELSE IF percent <= 2 THEN "critical"
    ELSE IF percent <= 4 THEN "low" ELSE "warning"

\* adjust_guest_battery_level; the capacity is what the last pass added up.
LevelFor(charges, capacity) ==
    IF onAC \/ capacity = 0 THEN "normal"
    ELSE LevelOf((FoldLeft(+, 0, charges) * 100) \div capacity)
Charges == [i \in DOMAIN Present |-> charge[Present[i]]]

\* update_battery_status, which runs every minute and whenever it is asked
\* to: nothing is done when there is no battery.
ScanStatus ==
    /\ xpc = "idle" /\ Present # << >>
    /\ status' = [i \in DOMAIN Present |-> <<Present[i], charge[Present[i]]>>]
    /\ current' = LevelFor(Charges, lastFull)
    /\ xpc' = "bst"
    /\ UNCHANGED <<hwVars, lastFull, bst, bif, level, faults>>

\* write_battery_status_to_xenstore; write_battery_info starts the sum anew.
CommitStatus ==
    /\ xpc = "bst"
    /\ bst' = Nodes([i \in DOMAIN status |-> StatusString(status[i])])
    /\ level' = current
    /\ xpc' = "bif" /\ lastFull' = 0
    /\ UNCHANGED <<hwVars, faults, status, current, bif>>

\* When its transaction ends in EAGAIN the loop is run again with the
\* status pointer beyond the array: what is there is written, if it looks
\* present.
RetryStatus ==
    /\ xpc = "bst" /\ faults < MaxFaults
    /\ faults' = faults + 1
    /\ bst' \in [Batteries -> {Absent, StatusString(<<0, 0>>)}]
    /\ level' = current
    /\ xpc' = "bif" /\ lastFull' = 0
    /\ UNCHANGED <<hwVars, status, current, bif>>

\* fix_battery_info adds to last_full_capacity whatever is scanned.
AddCapacities == lastFull' = lastFull + Full * Len(Present)

\* Mutant: the old nodes are not removed first.
CommitInfoOver ==
    /\ xpc = "bif"
    /\ AddCapacities
    /\ bif' = [b \in Batteries |->
                IF b + 1 \in DOMAIN Present
                THEN InfoString(Present[b + 1], Text[Present[b + 1]]) ELSE bif[b]]
    /\ xpc' = "idle" /\ status' = << >>
    /\ UNCHANGED <<hwVars, faults, current, bst, level>>

\* write_battery_info: sysfs is scanned again in the transaction.
Infos == Nodes([i \in DOMAIN Present |-> InfoString(Present[i], Text[Present[i]])])
CommitInfo ==
    /\ xpc = "bif"
    /\ AddCapacities
    /\ bif' = Infos
    /\ xpc' = "idle" /\ status' = << >>
    /\ UNCHANGED <<hwVars, faults, current, bst, level>>

\* EAGAIN: it is all done again, without the sum being reset.
RetryInfo ==
    /\ xpc = "bif" /\ faults < MaxFaults
    /\ faults' = faults + 1
    /\ AddCapacities
    /\ UNCHANGED <<hwVars, xpc, status, current, bst, bif, level>>

\* Either transaction cannot be started or ends in another error.
LoseStatus ==
    /\ xpc = "bst" /\ faults < MaxFaults
    /\ faults' = faults + 1
    /\ xpc' = "bif" /\ lastFull' = 0
    /\ UNCHANGED <<hwVars, status, current, bst, bif, level>>

LoseInfo ==
    /\ xpc = "bif" /\ faults < MaxFaults
    /\ faults' = faults + 1
    /\ AddCapacities \/ UNCHANGED lastFull
    /\ xpc' = "idle" /\ status' = << >>
    /\ UNCHANGED <<hwVars, current, bst, bif, level>>

\* get_battery_info, for whoever asks: it counts the batteries.
GetBatteryInfo ==
    /\ xpc = "idle" /\ faults < MaxFaults
    /\ faults' = faults + 1
    /\ AddCapacities
    /\ UNCHANGED <<hwVars, xpc, status, current, bst, bif, level>>

-----------------------------------------------------------------------------
\* main removes what was in /pm; the first pass follows.
Init ==
    /\ bay \in InitBays
    /\ charge = [c \in Cells |-> Full] /\ onAC = FALSE
    /\ changes = 0 /\ faults = 0
    /\ xpc = "idle" /\ status = << >> /\ lastFull = 0
    /\ current = "normal" /\ level = "normal"
    /\ bst = Nodes(<< >>) /\ bif = Nodes(<< >>)

Pass == ScanStatus \/ CommitStatus \/ CommitInfo

Next == \/ Hardware \/ Pass \/ RetryStatus \/ RetryInfo \/ LoseStatus \/ LoseInfo
        \/ GetBatteryInfo

Spec == Init /\ [][Next]_vars

\* The timer is set again whenever it has run, and xcpmd goes on.
FairSpec == Spec /\ WF_vars(Pass)
-----------------------------------------------------------------------------
(* Properties *)

TypeOK ==
    /\ bay \in [Bays -> Cells \cup {NoCell}]
    /\ charge \in [Cells -> {0, Some, Full}] /\ onAC \in BOOLEAN
    /\ changes \in 0..MaxChanges /\ faults \in 0..MaxFaults
    /\ xpc \in {"idle", "bst", "bif"}
    /\ Len(status) <= 2 /\ ToSet(status) \subseteq Cells \X {0, Some, Full}
    /\ lastFull \in 0..2 * Full * (MaxFaults + 1)
    /\ {current, level} \subseteq {"normal", "warning", "low", "critical"}
    /\ bst \in [Batteries -> Seq(0..15)] /\ bif \in [Batteries -> Seq(Nat)]

\* When batteries have stopped coming and going, every node is in the end
\* that of a battery in its place among those present, none is left of one
\* that was taken out, and the level is that of the charge there is: what a
\* failed transaction, a retried one or a sum out of date got wrong, a
\* later pass puts right.  Without any battery the nodes stay as they are.
NodesFollow ==
    <>[](Present # << >> =>
            /\ bst = Nodes([i \in DOMAIN Present |->
                              StatusString(<<Present[i], charge[Present[i]]>>)])
            /\ bif = Infos
            /\ level = LevelFor(Charges, Full * Len(Present)))

\* "Battery level below normal" (xcpmd.c) is said only when no more than
\* BATTERY_WARNING_PERCENT of what the batteries hold is left.
AlarmJustified ==
    [][level' # "normal" /\ level' # level =>
        LevelOf((FoldLeft(LAMBDA n, s : n + s[2], 0, status) * 100)
                  \div (Full * Len(status))) # "normal"]_vars
=============================================================================
