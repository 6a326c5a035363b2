------------------------------ MODULE PmStrings ------------------------------
(***************************************************************************)
(* The nodes /pm/bst* and /pm/bif* as strings: how xcpmd writes them and   *)
(* how qemu gives them to the guest a byte at a time (xcpmd.c,             *)
(* hw/xen_acpi_pm.c).                                                      *)
(*                                                                         *)
(* A string is a sequence of characters: 0..15 are the hexadecimal digits, *)
(* NL is the end of line of a sysfs attribute, greater numbers are text.   *)
(* The block of DWORDs is 9 for _BIF and 4 for _BST, of four bytes each;    *)
(* here it is one byte for _BIF and two for _BST, a pair each.  As in the  *)
(* code, each pair is a read of its own and those of a status all stand    *)
(* before BIF_DATA_BOUNDARY or at it.                                      *)
(***************************************************************************)
EXTENDS Integers, Sequences, SequencesExt

NL == 16
Absent == << >>         \* of a node; of a buffer: NULL
Batteries == 0..1       \* MAX_BATTERIES, MAX_BATTERY_SUPPORTED

Pair(v) == <<v \div 16, v % 16>>

\* write_battery_status_to_xenstore: the length, then the block, which is
\* all there is to a status.
StatusString(s) == Pair(2) \o Pair(s[1]) \o Pair(s[2])

\* Where each text attribute's length stands among the bytes that follow the
\* total: after the block's byte and the attributes before it, each with its
\* length.  The last place is the end, and so the total.
Starts(texts) ==
    LET start[i \in 1..Len(texts) + 1] ==
          IF i = 1 THEN 1 ELSE start[i - 1] + 1 + Len(texts[i - 1])
    IN  start
Total(texts) == Starts(texts)[Len(texts) + 1]

\* write_battery_info_to_xenstore: the length of all that follows, the
\* block, then each text attribute after its length.
InfoString(v, texts) ==
    Pair(Total(texts)) \o Pair(v)
    \o FlattenSeq([i \in DOMAIN texts |-> Pair(Len(texts[i])) \o texts[i]])

\* Both write node b for the battery at place b + 1 of those present.
Nodes(strings) ==
    [b \in Batteries |-> IF b + 1 \in DOMAIN strings THEN strings[b + 1] ELSE Absent]

\* BIF_DATA_BOUNDARY: where the length of the first attribute is.
Boundary == 4

\* strncmp of the first 70 characters: the length and the block.
SameInfo(x, y) == SubSeq(x, 1, Boundary) = SubSeq(y, 1, Boundary)

\* snprintf of at most two characters at position i, then strtoull in base
\* 16; a NULL string prints as "(null)", which counts 0.
PairAt(s, i) ==
    LET at(j) == IF j < Len(s) THEN s[j + 1] ELSE NL
    IN  IF at(i) >= NL THEN 0
        ELSE IF at(i + 1) >= NL THEN at(i) ELSE 16 * at(i) + at(i + 1)

\* Mutant: the length of the first attribute is taken for text.
GetDataEarly(s, i) ==
    IF i < Boundary \/ (i <= Len(s) /\ s[i] = NL)
    THEN [byte |-> PairAt(s, i), next |-> i + 2]
    ELSE [byte |-> IF i < Len(s) /\ s[i + 1] # NL THEN s[i + 1] ELSE 0,
          next |-> i + 1]

\* battery_port_1_op_get_data: the byte at position i, and the next one.
GetData(s, i) ==
    IF i <= Boundary \/ (i <= Len(s) /\ s[i] = NL)
    THEN [byte |-> PairAt(s, i), next |-> i + 2]
    ELSE [byte |-> IF i < Len(s) /\ s[i + 1] # NL THEN s[i + 1] ELSE 0,
          next |-> i + 1]

\* What the guest should read of an attribute: its characters, and 0 for
\* the end of line.
AsRead(s) == [i \in DOMAIN s |-> IF s[i] = NL THEN 0 ELSE s[i]]
=============================================================================
