----------------------------- MODULE AcpiReport -----------------------------
(***************************************************************************)
(* AcpiBattery with a record of what the status ports told: whether a      *)
(* change of the information of a battery is reported.                     *)
(***************************************************************************)
EXTENDS MCAcpiBattery

VARIABLES
    last,     \* the information at the last read of each battery's port
    missed    \* batteries whose last read kept silent about a change

ReportInit == Init /\ last = bif /\ missed = {}

\* The port is read by ReadStatus alone; the bit is set if InfoChanges.
Told(b) ==
    IF /\ last[b] # Absent /\ bif[b] # Absent
       /\ ~SameInfo(last[b], bif[b]) /\ ~InfoChanges(b)
    THEN missed' = missed \cup {b} ELSE missed' = missed \ {b}

ReportNext ==
    \/ \E t \in Threads : /\ ReadStatus(t) /\ Told(bat[t])
                          /\ last' = [last EXCEPT ![bat[t]] = bif[bat[t]]]
    \/ /\ Next /\ \A t \in Threads : ~ReadStatus(t)
       /\ UNCHANGED <<last, missed>>

ReportSpec == ReportInit /\ [][ReportNext]_<<vars, last, missed>>

\* "BATTERY_INFO_UPDATE (0x80) if battery information is updated"
\* (xen_acpi_pm.c): a status port of a battery whose information is another
\* than when the port was read before says so.
ChangeReported == missed = {}
=============================================================================
