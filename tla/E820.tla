-------------------------------- MODULE E820 --------------------------------
(***************************************************************************)
(* The e820 memory map of slboot, from the loader's table to the launch    *)
(* (slboot/common/e820.c, replace_e820_map in loader.c, the boot_params of *)
(* linux.c and the PMRs of txt.c).                                         *)
(*                                                                         *)
(* copy_e820_map builds a private table out of the loader's, one region    *)
(* after the other, with protect_region; the memory log is then reserved,  *)
(* the table replaces the loader's own and the kernel gets that, and at    *)
(* last get_ram_ranges works out what the VT-d PMRs shall protect, and     *)
(* reserves in the table the low RAM that they leave out.                  *)
(*                                                                         *)
(* Addresses are 0..Top-1, Top standing for 2^64: a sum that reaches Top   *)
(* wraps.  memory and lowestFirst are history variables: the type the      *)
(* calls so far give each address, whatever the table holds, and whether   *)
(* every region came in above the table's first entry.                     *)
(***************************************************************************)
EXTENDS Integers, Sequences, SequencesExt, FiniteSetsExt

CONSTANTS
    Top,          \* 2^64
    OneM,         \* 0x100000
    FourG,        \* 0x100000000
    MaxEntries,   \* MAX_E820_ENTRIES, the room of the table
    MaxRaw,       \* bound: regions in the loader's own map
    Sizes,        \* the sizes regions come in
    LogRegions,   \* where the memory log may be, below 1 MB: records base, len
    MinRams       \* values of g_min_ram, the min_ram= of the command line

ASSUME E820Assumption ==
    /\ {OneM, FourG, Top} \subseteq Nat
    /\ 0 < OneM /\ OneM < FourG /\ FourG < Top
    /\ MaxEntries \in Nat \ {0} /\ MaxRaw \in Nat
    /\ Sizes \subseteq 0..(Top - 1) /\ MinRams \subseteq Nat
    /\ \A r \in LogRegions : r.base \in Nat /\ r.len \in Nat /\ r.base + r.len <= OneM

VARIABLES
    stage,    \* how far begin_launch has come
    loader,   \* 1 or 2: the multiboot version
    min_ram,  \* g_min_ram
    raw,      \* the loader's memory map, as far as it has been read
    e820,     \* g_copy_e820_map[0 .. g_nr_map - 1]
    handed,   \* boot_params->e820_map, the kernel's
    lo, hi,   \* [min_lo_ram, max_lo_ram) and [min_hi_ram, max_hi_ram)
    memory,   \* history: the type each address should have
    lowestFirst \* history: no region was put at or below the table's first

vars == <<stage, loader, min_ram, raw, e820, handed, lo, hi, memory, lowestFirst>>

Addresses == 0..(Top - 1)
Types == {"RAM", "RESERVED"}
Region(b, l, t) == [base |-> b, len |-> l, type |-> t]
NoRange == [min |-> 0, max |-> 0]
(* What lies in the table's memory past its last entry.                    *)
Leftover == Region(0, 0, "leftover")

End(e) == e.base + e.len
Covers(e, a) == e.base <= a /\ a < End(e)
IsRam(e) == e.type = "RAM"

(***************************************************************************)
(* insert_after_region puts e after entry pos, and protect_region asks for *)
(* i - 1 to have it before entry i.  For the first entry that is -1, which *)
(* as an unsigned int is above every index: nothing is shifted, the new    *)
(* entry overwrites the first, and what was left past the end joins the    *)
(* table.                                                                  *)
(***************************************************************************)
InsertAfter(m, pos, e) ==
    IF pos > 0 THEN InsertAt(m, pos + 1, e)
    ELSE IF m = <<>> THEN <<e>>
    ELSE <<e>> \o Tail(m) \o <<Leftover>>

Room(m, n) == Len(m) + n <= MaxEntries

(* Mutant: the entry that overlaps is moved, not shortened.              *)
UncoveredMoved(m, j, end) ==
    LET left == {k \in j..Len(m) : end < End(m[k])}
        k    == Min(left)
    IN  IF left = {} THEN <<>>
        ELSE <<IF end > m[k].base THEN [m[k] EXCEPT !.base = end] ELSE m[k]>>
             \o SubSeq(m, k + 1, Len(m))

(* What remains of the entries from position j on once a region that ends  *)
(* at end has been put before them: those it covers are removed, the next  *)
(* is cut if it overlaps.                                                  *)
Uncovered(m, j, end) ==
    LET left == {k \in j..Len(m) : end < End(m[k])}
        k    == Min(left)
        cut  == IF end > m[k].base
                THEN Region(end, End(m[k]) - end, m[k].type) ELSE m[k]
    IN  IF left = {} THEN <<>> ELSE <<cut>> \o SubSeq(m, k + 1, Len(m))

Answer(ok, m) == [ok |-> ok, map |-> m]

(* The entries that reach the region's base or start after it.             *)
Hits(m, new) ==
    {i \in DOMAIN m : new.base <= m[i].base \/ Covers(m[i], new.base)}

(* protect_region: the region is put before the first of those, or into    *)
(* the middle of it.                                                       *)
ProtectRegion(m, new) ==
    LET i      == Min(Hits(m, new))
        inside == m[i].base < new.base
        short  == [m EXCEPT ![i].len = new.base - m[i].base]
        split  == InsertAt(InsertAt(short, i + 1, new), i + 2, m[i])
        put    == IF inside THEN split ELSE InsertAfter(m, i - 1, new)
        mine   == IF inside THEN i + 1 ELSE i
    IN  IF new.len = 0 THEN Answer(TRUE, m)
        ELSE IF (new.base + new.len) % Top < new.base \/ ~Room(m, 1)
             THEN Answer(FALSE, m)
        ELSE IF Hits(m, new) = {} THEN Answer(TRUE, Append(m, new))
        ELSE IF inside /\ ~Room(m, 2) THEN Answer(FALSE, InsertAt(short, i + 1, new))
        ELSE Answer(TRUE, SubSeq(put, 1, mine) \o Uncovered(put, mine + 1, End(new)))

(* What the region asks of memory.                                         *)
Paint(mem, new) ==
    [a \in Addresses |-> IF Covers(new, a) THEN new.type ELSE mem[a]]

----------------------------------------------------------------------------
Init ==
    /\ stage = "copy"
    /\ loader \in {1, 2}
    /\ min_ram \in MinRams
    /\ raw = <<>>
    /\ e820 = <<>>
    /\ handed = <<>>
    /\ lo = NoRange
    /\ hi = NoRange
    /\ memory = [a \in Addresses |-> "GAP"]
    /\ lowestFirst = TRUE

(* A call that answers false stops the boot.                               *)
Protect(new, next) ==
    LET done == ProtectRegion(e820, new)
    IN  /\ e820' = done.map
        /\ memory' = Paint(memory, new)
        /\ lowestFirst' =
             (lowestFirst /\ (e820 # <<>> /\ new.len > 0 => new.base > e820[1].base))
        /\ stage' = IF done.ok THEN next ELSE "failed"

(* One round of copy_e820_map's loop, for the next region of the loader.   *)
CopyEntry(new) ==
    /\ stage = "copy"
    /\ Len(raw) < MaxRaw
    /\ Len(e820) < MaxEntries
    /\ Protect(new, "copy")
    /\ raw' = Append(raw, new)
    /\ UNCHANGED <<loader, min_ram, handed, lo, hi>>

CopyEnds ==
    /\ stage = "copy"
    /\ raw # <<>>
    /\ stage' = IF Len(e820) = MaxEntries THEN "failed" ELSE "copied"
    /\ UNCHANGED <<loader, min_ram, raw, e820, handed, lo, hi, memory, lowestFirst>>

(* Without a memory map the loader's two limits stand for one.             *)
CopyLimits(lower, upper) ==
    LET low  == Region(0, lower, "RAM")
        high == Region(OneM, upper, "RAM")
    IN  /\ stage = "copy"
        /\ raw = <<>>
        /\ e820' = <<low, high>>
        /\ memory' = Paint(Paint(memory, low), high)
        /\ stage' = "copied"
        /\ UNCHANGED <<loader, min_ram, raw, handed, lo, hi, lowestFirst>>

(* prepare_intermediate_loader: the memory log, when there is one.         *)
ReserveLog(r) ==
    /\ stage = "copied"
    /\ Protect(Region(r.base, r.len, "RESERVED"), "logged")
    /\ UNCHANGED <<loader, min_ram, raw, handed, lo, hi>>

NoLog ==
    /\ stage = "copied"
    /\ stage' = "logged"
    /\ UNCHANGED <<loader, min_ram, raw, e820, handed, lo, hi, memory, lowestFirst>>

(* replace_e820_map.  Multiboot 1 is pointed at the table.  For multiboot  *)
(* 2 the table is copied over the loader's, whose tag can grow (unless the *)
(* growing fails) but is never made shorter.                               *)
Replaced(grown) ==
    IF loader = 1 THEN e820
    ELSE IF Len(raw) < Len(e820) /\ ~grown THEN raw
    ELSE e820 \o SubSeq(raw, Len(e820) + 1, Len(raw))

(* The rest of prepare_intermediate_loader: the kernel's boot_params.  A   *)
(* multiboot 2 loader that had no map still has none.                      *)
HandOver ==
    /\ stage = "logged"
    /\ \E grown \in BOOLEAN :
         handed' = IF loader = 2 /\ raw = <<>> THEN <<>> ELSE Replaced(grown)
    /\ stage' = "handed"
    /\ UNCHANGED <<loader, min_ram, raw, e820, lo, hi, memory, lowestFirst>>

----------------------------------------------------------------------------
(* get_highest_sized_ram: the base of the last RAM region of that size, in *)
(* front of the first that reaches over the limit; 0 when there is none.   *)
HighestSizedRam(m, size, limit) ==
    LET fits == {i \in DOMAIN m :
                   /\ IsRam(m[i]) /\ size <= m[i].len
                   /\ \A j \in 1..i : IsRam(m[j]) => End(m[j]) <= limit}
    IN  IF fits = {} THEN 0 ELSE m[Max(fits)].base

LastMinRam(m) == IF min_ram > 0 THEN HighestSizedRam(m, min_ram, FourG) ELSE 0

LowRam(m) == {i \in DOMAIN m : IsRam(m[i]) /\ m[i].base < FourG}
HighRam(m) == {i \in DOMAIN m : IsRam(m[i]) /\ End(m[i]) > FourG}

(* Mutant: only what starts above 1 MB counts as reserved.               *)
FoundReservedAbove(m, i) ==
    \E j \in 1..(i - 1) :
        /\ ~IsRam(m[j]) /\ m[j].base > OneM
        /\ \E k \in 1..(j - 1) : k \in LowRam(m)

(* found_reserved_region when the loop comes to entry i.                   *)
FoundReserved(m, i) ==
    \E j \in 1..(i - 1) :
        /\ ~IsRam(m[j]) /\ End(m[j]) > OneM
        /\ \E k \in 1..(j - 1) : k \in LowRam(m)

Discarded(m) ==
    {i \in LowRam(m) : FoundReserved(m, i) /\ m[i].base > LastMinRam(m)}

(* e820_reserve_ram, on the range of one entry of the table.               *)
ReserveEntries(m, S) ==
    [i \in DOMAIN m |-> IF i \in S THEN [m[i] EXCEPT !.type = "RESERVED"] ELSE m[i]]

RangeOf(m, S) ==
    IF S = {} THEN NoRange
    ELSE [min |-> Min({m[i].base : i \in S}), max |-> Max({End(m[i]) : i \in S})]

Straddles(e) == IsRam(e) /\ e.base < FourG /\ End(e) > FourG

(* get_ram_ranges, called by init_txt_heap when the kernel has its map.    *)
GetRamRanges ==
    LET low == RangeOf(e820, LowRam(e820) \ Discarded(e820))
        ok  == /\ \A i \in DOMAIN e820 : ~Straddles(e820[i])
               /\ low.min < low.max
    IN  /\ stage = "handed"
        /\ IF ok THEN /\ e820' = ReserveEntries(e820, Discarded(e820))
                      /\ lo' = low
                      /\ hi' = RangeOf(e820, HighRam(e820))
                      /\ memory' = [a \in Addresses |->
                           IF /\ memory[a] = "RAM" /\ a < FourG
                              /\ ~(low.min <= a /\ a < low.max)
                           THEN "RESERVED" ELSE memory[a]]
                      /\ stage' = "launched"
           ELSE /\ stage' = "failed"
                /\ UNCHANGED <<e820, lo, hi, memory>>
        /\ UNCHANGED <<loader, min_ram, raw, handed, lowestFirst>>

Next ==
    \/ \E b \in Addresses, l \in Sizes, t \in Types : CopyEntry(Region(b, l, t))
    \/ CopyEnds
    \/ \E lower \in 0..OneM, upper \in Sizes :
          OneM + upper < Top /\ CopyLimits(lower, upper)
    \/ \E r \in LogRegions : ReserveLog(r)
    \/ NoLog
    \/ HandOver
    \/ GetRamRanges

Spec == Init /\ [][Next]_vars

----------------------------------------------------------------------------
TypeAt(m, a) ==
    IF \E i \in DOMAIN m : Covers(m[i], a)
    THEN m[CHOOSE i \in DOMAIN m : Covers(m[i], a)].type ELSE "GAP"

(* The entries are in order and apart.                                     *)
Ordered(m) == \A i, j \in DOMAIN m : i < j => End(m[i]) <= m[j].base

(* The table says of every address what the regions put into it say, the   *)
(* later ones over the earlier, however they overlap, and is in order      *)
(* without overlaps; and what get_ram_ranges reserved is the low RAM       *)
(* outside of the range it returns, no more and no less.                   *)
Follows ==
    /\ Ordered(e820)
    /\ \A a \in Addresses : TypeAt(e820, a) = memory[a]

(* As long as no call has failed, and every region was put in above the    *)
(* table's first entry, the table follows the regions.  Nothing in the     *)
(* code ensures that condition.                                            *)
MapFollows == stage # "failed" /\ lowestFirst => Follows

(* The same without that condition, as the comment at e820.c:308 has it    *)
(* ("we want to support unordered and/or overlapping entries ...           *)
(* protect_region() ... handles these cases").                             *)
UnorderedMapFollows == stage # "failed" => Follows

(* Under the same condition the ranges for the PMRs have all the RAM the   *)
(* table still lists, and the low one has no reserved address of 1 MB or   *)
(* more ("make sure that we don't overlap any of these"), except below the *)
(* last region of min_ram bytes.  This is about the ranges get_ram_ranges  *)
(* returns; set_vtd_pmrs rounds them to 2 MB afterwards.                   *)
RangesGuardRam ==
    stage = "launched" /\ lowestFirst =>
        /\ \A a \in Addresses : TypeAt(e820, a) = "RAM" =>
             LET r == IF a < FourG THEN lo ELSE hi IN r.min <= a /\ a < r.max
        /\ \A a \in OneM..(lo.max - 1) :
             lo.min <= a /\ TypeAt(e820, a) = "RESERVED" => a < LastMinRam(e820)

(* The kernel's map is the table, unless grow_mb2_tag failed.              *)
KernelHasTable == Len(e820) <= Len(handed)

(* Low RAM that get_ram_ranges reserves ("need to reserve low RAM above    *)
(* reserved regions", e820.c:626) is kept from the kernel too: no entry of *)
(* the table that is reserved at launch was handed over as RAM.            *)
KernelRamProtected ==
    stage = "launched" /\ lowestFirst /\ KernelHasTable =>
        \A i \in DOMAIN e820 : IsRam(handed[i]) => IsRam(e820[i])

=============================================================================
