----------------------------- MODULE E820Proofs -----------------------------
(***************************************************************************)
(* That the memory map of E820 follows the calls made on it, and that the  *)
(* ranges of get_ram_ranges have its RAM, for all tables, sizes and limits.*)
(*                                                                         *)
(* The argument: Uncovered keeps what lies behind a region (UncoveredKeeps),*)
(* so that a region spliced into a table ends up in it with all that lies  *)
(* outside of it (SpliceIs), whichever way protect_region puts it there    *)
(* (ProtectFollows); get_ram_ranges reserves a suffix of the low RAM, which *)
(* is what its range leaves out (KeptFirst, ReserveFollows); so each step  *)
(* keeps the table in agreement with memory (MapInv).  A reserved region   *)
(* inside the low range would have had the RAM behind it given up, were    *)
(* that not below the region of min_ram bytes (RangesGuard).  All of this  *)
(* until a region is put at or below the table's first entry.              *)
(***************************************************************************)
EXTENDS E820, SequenceTheorems, FiniteSetTheorems, WellFoundedInduction, TLAPS

\* What a table is made of.
Entry == [base : Nat, len : Nat, type : Types]

\* A non-empty set of numbers has a smallest one: the intervals up to its
\* elements are finite sets, and inclusion of those is well founded.
LEMMA MinIsLeast ==
    ASSUME NEW S \in SUBSET Nat, S # {}
    PROVE  Min(S) \in S /\ \A n \in S : Min(S) <= n
<1> DEFINE T == {1..n : n \in S}
<1>1. \A n \in S : 1..n \in FiniteSubsetsOf(Nat)
    BY FS_Interval DEF FiniteSubsetsOf
<1>2. T \subseteq FiniteSubsetsOf(Nat) /\ T # {}
    BY <1>1
<1> HIDE DEF T
<1>3. PICK I \in T : \A J \in T : ~(<<J, I>> \in StrictSubsetOrdering(Nat))
    BY <1>2, FS_StrictSubsetOrderingWellFounded, WFMin
<1>4. PICK x \in S : I = 1..x
    BY DEF T
<1>5. ASSUME NEW y \in S, y < x
      PROVE  FALSE
    <2>1. 1..y \in T
        BY DEF T
    <2>2. 1..y \subseteq 1..x /\ 1..x \subseteq Nat /\ x \in 1..x /\ x \notin 1..y
        BY <1>5
    <2> QED BY <2>1, <2>2, <1>3, <1>4 DEF StrictSubsetOrdering
<1>6. \A y \in S : x <= y
    BY <1>5
<1> QED BY <1>6 DEF Min

\* A non-empty set of numbers up to k has a largest one.
LEMMA MaxIsGreatest ==
    ASSUME NEW k \in Nat, NEW S \in SUBSET (0..k), S # {}
    PROVE  Max(S) \in S /\ \A n \in S : n <= Max(S)
<1> DEFINE T == {k - n : n \in S}
<1>1. \A n \in S : n \in 0..k /\ k - n \in Nat
    OBVIOUS
<1>2. T \in SUBSET Nat /\ T # {}
    BY <1>1
<1>3. Min(T) \in T /\ \A n \in T : Min(T) <= n
    BY <1>2, MinIsLeast
<1>4. PICK x \in S : Min(T) = k - x
    BY <1>3
<1>5. ASSUME NEW y \in S
      PROVE  y <= x
    <2>1. k - x <= k - y
        BY <1>3, <1>4
    <2> QED BY <1>1, <2>1
<1> QED BY <1>5 DEF Max

\* r is the table s with the entry e put in at position i.
PutIn(s, i, e, r) ==
    /\ r \in Seq(Entry) /\ Len(r) = Len(s) + 1
    /\ \A j \in 1..Len(s) + 1 :
         r[j] = IF j < i THEN s[j] ELSE IF j = i THEN e ELSE s[j - 1]

\* That is what InsertAt returns.
LEMMA InsertAtIs ==
    ASSUME NEW s \in Seq(Entry), NEW e \in Entry, NEW i \in 1..Len(s) + 1
    PROVE  PutIn(s, i, e, InsertAt(s, i, e))
<1> DEFINE l == SubSeq(s, 1, i - 1)
           r == SubSeq(s, i, Len(s))
<1>1. /\ l \in Seq(Entry) /\ Len(l) = i - 1
      /\ \A j \in 1..i - 1 : l[j] = s[j]
    BY SubSeqProperties
<1>2. /\ r \in Seq(Entry) /\ Len(r) = Len(s) - i + 1
      /\ \A j \in 1..Len(s) - i + 1 : r[j] = s[j + i - 1]
    BY SubSeqProperties
<1>3. /\ l \o <<e>> \in Seq(Entry) /\ Len(l \o <<e>>) = i
      /\ \A j \in 1..i : (l \o <<e>>)[j] = IF j < i THEN s[j] ELSE e
    <2>1. <<e>> \in Seq(Entry) /\ Len(<<e>>) = 1 /\ <<e>>[1] = e
        OBVIOUS
    <2> HIDE DEF l
    <2>2. /\ l \o <<e>> \in Seq(Entry) /\ Len(l \o <<e>>) = Len(l) + Len(<<e>>)
          /\ \A j \in 1..Len(l) + Len(<<e>>) :
               (l \o <<e>>)[j] = IF j <= Len(l) THEN l[j] ELSE <<e>>[j - Len(l)]
        BY <1>1, <2>1, ConcatProperties
    <2>3. Len(l) + Len(<<e>>) = i
        BY <1>1, <2>1
    <2>4. \A j \in 1..i : IF j < i THEN j <= Len(l) /\ j \in 1..i - 1 ELSE j - Len(l) = 1
        BY <1>1
    <2>5. \A j \in 1..i : ~(j < i) => ~(j <= Len(l))
        BY <1>1
    <2> QED BY <1>1, <2>1, <2>2, <2>3, <2>4, <2>5
<1>4. InsertAt(s, i, e) = (l \o <<e>>) \o r
    BY DEF InsertAt
<1> HIDE DEF l, r
<1>5. /\ InsertAt(s, i, e) \in Seq(Entry)
      /\ Len(InsertAt(s, i, e)) = Len(s) + 1
      /\ \A j \in 1..Len(s) + 1 :
           InsertAt(s, i, e)[j] = IF j < i THEN s[j]
                                  ELSE IF j = i THEN e ELSE s[j - 1]
    <2> DEFINE f == l \o <<e>>
    <2>1. f \in Seq(Entry) /\ Len(f) = i /\ \A j \in 1..i : f[j] = IF j < i THEN s[j] ELSE e
        BY <1>3
    <2> HIDE DEF f
    <2>2. /\ f \o r \in Seq(Entry) /\ Len(f \o r) = Len(f) + Len(r)
          /\ \A j \in 1..Len(f) + Len(r) :
               (f \o r)[j] = IF j <= Len(f) THEN f[j] ELSE r[j - Len(f)]
        BY <1>2, <2>1, ConcatProperties
    <2>3. Len(s) \in Nat /\ i \in Nat /\ Len(f) + Len(r) = Len(s) + 1
        BY <1>2, <2>1, LenProperties
    <2>4. ASSUME NEW j \in 1..Len(s) + 1
          PROVE  (f \o r)[j] = IF j < i THEN s[j] ELSE IF j = i THEN e ELSE s[j - 1]
        <3>1. CASE j <= i
            <4>1. j \in 1..i
                BY <2>3, <3>1
            <4> QED BY <2>1, <2>2, <2>3, <3>1, <4>1
        <3>2. CASE ~(j <= i)
            <4>1. /\ j - i \in 1..Len(s) - i + 1 /\ (j - i) + i - 1 = j - 1
                  /\ ~(j < i) /\ j # i
                BY <2>3, <3>2
            <4> QED BY <1>2, <2>1, <2>2, <2>3, <3>2, <4>1
        <3> QED BY <3>1, <3>2
    <2>5. InsertAt(s, i, e) = f \o r
        BY <1>4 DEF f
    <2> QED BY <2>2, <2>3, <2>4, <2>5
<1> QED BY <1>5 DEF PutIn

-----------------------------------------------------------------------------
(* Tables *)

Has(m, a, t) == \E i \in DOMAIN m : Covers(m[i], a) /\ m[i].type = t
Fits(m) == \A i \in DOMAIN m : End(m[i]) < Top
Table(m) == m \in Seq(Entry) /\ Ordered(m) /\ Fits(m)

\* In an ordered table no two entries cover an address.
LEMMA CoversOnce ==
    ASSUME NEW m \in Seq(Entry), Ordered(m), NEW a \in Nat,
           NEW i \in DOMAIN m, NEW j \in DOMAIN m,
           Covers(m[i], a), Covers(m[j], a)
    PROVE  i = j
<1>1. i \in 1..Len(m) /\ j \in 1..Len(m) /\ m[i] \in Entry /\ m[j] \in Entry
    BY LenProperties, ElementOfSeq
<1>2. ~(i < j)
    BY <1>1 DEF Ordered, Covers, End, Entry
<1>3. ~(j < i)
    BY <1>1 DEF Ordered, Covers, End, Entry
<1> QED BY <1>1, <1>2, <1>3

\* TypeAt is the type of whatever entry covers the address.
LEMMA TypeAtHas ==
    ASSUME NEW m \in Seq(Entry), Ordered(m), NEW a \in Nat
    PROVE  /\ \A t : Has(m, a, t) => TypeAt(m, a) = t
           /\ (\A t : ~Has(m, a, t)) => TypeAt(m, a) = "GAP"
           /\ TypeAt(m, a) \in Types => Has(m, a, TypeAt(m, a))
<1>1. ASSUME NEW t, Has(m, a, t)
      PROVE  TypeAt(m, a) = t
    <2>1. PICK i \in DOMAIN m : Covers(m[i], a) /\ m[i].type = t
        BY <1>1 DEF Has
    <2>2. (CHOOSE j \in DOMAIN m : Covers(m[j], a)) = i
        BY <2>1, CoversOnce
    <2> QED BY <2>1, <2>2 DEF TypeAt
<1>2. (\A t : ~Has(m, a, t)) => ~\E i \in DOMAIN m : Covers(m[i], a)
    BY DEF Has
<1>3. (\A t : ~Has(m, a, t)) => TypeAt(m, a) = "GAP"
    BY <1>2 DEF TypeAt
<1>4. "GAP" \notin Types
    BY DEF Types
<1> QED BY <1>1, <1>3, <1>4

\* Uncovered keeps of the entries from j on what lies at or after end.
LEMMA UncoveredKeeps ==
    ASSUME NEW m \in Seq(Entry), Fits(m), NEW j \in 1..Len(m) + 1, NEW end \in Nat,
           \A x, y \in j..Len(m) : x < y => End(m[x]) <= m[y].base
    PROVE  LET u == Uncovered(m, j, end)
           IN  /\ Table(u)
               /\ \A x \in DOMAIN u : end <= u[x].base
               /\ \A a \in Nat, t \in Types :
                    Has(u, a, t) <=>
                        /\ end <= a
                        /\ \E x \in j..Len(m) : Covers(m[x], a) /\ m[x].type = t
<1> DEFINE left == {k \in j..Len(m) : end < End(m[k])}
           k == Min(left)
           cut == IF end > m[k].base
                  THEN Region(end, End(m[k]) - end, m[k].type) ELSE m[k]
           rest == SubSeq(m, k + 1, Len(m))
           u == Uncovered(m, j, end)
<1>1. /\ Len(m) \in Nat /\ DOMAIN m = 1..Len(m)
      /\ \A i \in 1..Len(m) :
           /\ m[i] \in Entry /\ End(m[i]) \in Nat
           /\ m[i].base \in Nat /\ m[i].len \in Nat /\ m[i].type \in Types
    <2>1. Len(m) \in Nat /\ DOMAIN m = 1..Len(m)
        BY LenProperties
    <2>2. \A i \in 1..Len(m) : m[i] \in Entry
        BY ElementOfSeq
    <2> QED BY <2>1, <2>2 DEF Entry, End
<1>2. CASE left = {}
    <2>1. u = << >>
        BY <1>2 DEF Uncovered
    <2>2. \A x \in j..Len(m) : End(m[x]) <= end
        <3>1. \A x \in j..Len(m) : ~(end < End(m[x])) /\ x \in 1..Len(m)
            BY <1>1, <1>2
        <3> QED BY <1>1, <3>1
    <2>3. \A x \in j..Len(m), a \in Nat : end <= a => ~Covers(m[x], a)
        BY <1>1, <2>2 DEF Covers, End, Entry
    <2>4. << >> \in Seq(Entry) /\ DOMAIN << >> = {}
        OBVIOUS
    <2> QED BY <2>1, <2>3, <2>4 DEF Table, Ordered, Fits, Has
<1>3. CASE left # {}
    <2>1. left \in SUBSET Nat
        BY <1>1
    <2>2. /\ k \in j..Len(m) /\ end < End(m[k])
          /\ \A x \in j..Len(m) : x < k => End(m[x]) <= end
        <3>1. k \in left /\ \A x \in left : k <= x
            BY <1>3, <2>1, MinIsLeast
        <3>2. \A x \in j..Len(m) : x < k => End(m[x]) <= end
            <4> SUFFICES ASSUME NEW x \in j..Len(m), x < k
                         PROVE  End(m[x]) <= end
                OBVIOUS
            <4> HIDE DEF k, left
            <4>1. x \in 1..Len(m) /\ k \in Nat
                BY <1>1, <2>1, <3>1
            <4>2. x \notin left
                BY <2>1, <3>1, <4>1
            <4>3. ~(end < End(m[x]))
                BY <4>2 DEF left
            <4> QED BY <1>1, <4>1, <4>3
        <3> QED BY <3>1, <3>2
    <2>3. u = <<cut>> \o rest
        BY <1>3 DEF Uncovered
    <2> HIDE DEF k, left
    <2>4. /\ k \in 1..Len(m) /\ m[k] \in Entry
        BY <1>1, <2>2
    <2>5. /\ cut \in Entry /\ End(cut) = End(m[k]) /\ end <= cut.base
          /\ m[k].base <= cut.base /\ cut.type = m[k].type
        BY <2>2, <2>4 DEF Region, End, Entry
    <2>6. \A a \in Nat : Covers(cut, a) <=> end <= a /\ Covers(m[k], a)
        BY <2>2, <2>4 DEF Region, End, Entry, Covers
    <2> HIDE DEF cut
    <2>7. /\ rest \in Seq(Entry) /\ Len(rest) = Len(m) - k
          /\ \A x \in 1..Len(m) - k : rest[x] = m[x + k]
        <3>1. k + 1 \in Int /\ Len(m) \in Int /\ \A i \in k + 1..Len(m) : m[i] \in Entry
            BY <1>1, <2>4
        <3>2. /\ rest \in Seq(Entry)
              /\ Len(rest) = IF k + 1 <= Len(m) THEN Len(m) - (k + 1) + 1 ELSE 0
              /\ \A x \in 1..Len(m) - (k + 1) + 1 : rest[x] = m[(k + 1) + x - 1]
            BY <3>1, SubSeqProperties
        <3>3. Len(m) \in Nat /\ k \in Nat /\ k <= Len(m)
            BY <1>1, <2>4
        <3>4. Len(m) - (k + 1) + 1 = Len(m) - k
            BY <3>3
        <3>5. Len(rest) = Len(m) - k
            BY <3>2, <3>3
        <3>6. ASSUME NEW x \in 1..Len(m) - k
              PROVE  rest[x] = m[x + k]
            <4>1. rest[x] = m[(k + 1) + x - 1]
                BY <3>2, <3>4
            <4>2. (k + 1) + x - 1 = x + k
                BY <3>3
            <4> QED BY <4>1, <4>2
        <3> QED BY <3>2, <3>5, <3>6
    <2> HIDE DEF rest
    <2>8. /\ u \in Seq(Entry) /\ Len(u) = Len(m) - k + 1
          /\ u[1] = cut /\ \A x \in 2..Len(u) : u[x] = m[x + k - 1]
        <3>1. <<cut>> \in Seq(Entry) /\ Len(<<cut>>) = 1 /\ <<cut>>[1] = cut
            BY <2>5
        <3>2. /\ u \in Seq(Entry) /\ Len(u) = 1 + Len(rest)
              /\ \A x \in 1..1 + Len(rest) :
                   u[x] = IF x <= 1 THEN <<cut>>[x] ELSE rest[x - 1]
            BY <2>3, <2>7, <3>1, ConcatProperties
        <3>3. Len(m) \in Nat /\ k \in Nat /\ k <= Len(m)
            BY <1>1, <2>4
        <3>4. Len(u) = Len(m) - k + 1 /\ u[1] = cut
            <4>1. Len(rest) \in Nat /\ Len(u) = 1 + (Len(m) - k)
                BY <2>7, <3>2, <3>3
            <4>2. 1 \in 1..1 + Len(rest) /\ 1 <= 1
                BY <4>1
            <4>3. u[1] = <<cut>>[1]
                BY <3>2, <4>2
            <4> QED BY <3>1, <3>3, <4>1, <4>3
        <3>5. ASSUME NEW x \in 2..Len(u)
              PROVE  u[x] = m[x + k - 1]
            <4>1. u[x] = rest[x - 1] /\ x - 1 \in 1..Len(m) - k
                BY <2>7, <3>2, <3>3, <3>4
            <4>2. rest[x - 1] = m[(x - 1) + k] /\ (x - 1) + k = x + k - 1
                BY <2>7, <3>3, <4>1
            <4> QED BY <4>1, <4>2
        <3> QED BY <3>2, <3>4, <3>5
    <2> HIDE DEF u
    <2>9. DOMAIN u = 1..Len(u)
        BY <2>8
    <2>10. \A x \in 2..Len(u) : End(m[k]) <= u[x].base /\ u[x] \in Entry
        <3>1. \A x \in 2..Len(u) : x + k - 1 \in j..Len(m) /\ k < x + k - 1
            BY <1>1, <2>2, <2>4, <2>8
        <3> QED BY <1>1, <2>2, <2>8, <3>1
    <2>11. Ordered(u)
        <3>1. ASSUME NEW x \in 1..Len(u), NEW y \in 1..Len(u), x < y
              PROVE  End(u[x]) <= u[y].base
            <4>1. CASE x = 1
                BY <2>5, <2>8, <2>10, <3>1, <4>1
            <4>2. CASE x # 1
                <5>1. x \in 2..Len(u) /\ y \in 2..Len(u)
                    BY <2>8, <3>1, <4>2
                <5>2. u[x] = m[x + k - 1] /\ u[y] = m[y + k - 1]
                    BY <2>8, <5>1
                <5>3. /\ x + k - 1 \in j..Len(m) /\ y + k - 1 \in j..Len(m)
                      /\ x + k - 1 < y + k - 1
                    BY <1>1, <2>2, <2>4, <2>8, <3>1, <5>1
                <5> QED BY <5>2, <5>3
            <4> QED BY <4>1, <4>2
        <3> QED BY <2>9, <3>1 DEF Ordered
    <2>12. Fits(u)
        <3>1. \A x \in 1..Len(u) : u[x] = cut \/ \E y \in 1..Len(m) : u[x] = m[y]
            <4>1. \A x \in 2..Len(u) : x + k - 1 \in 1..Len(m)
                BY <1>1, <2>4, <2>8
            <4>2. \A x \in 1..Len(u) : x = 1 \/ x \in 2..Len(u)
                BY <2>8
            <4> QED BY <2>8, <4>1, <4>2
        <3> QED BY <1>1, <2>4, <2>5, <2>9, <3>1 DEF Fits
    <2>13. \A x \in DOMAIN u : end <= u[x].base
        <3>1. \A x \in 2..Len(u) : end <= u[x].base
            BY <2>2, <2>4, <2>10 DEF Entry, End
        <3> QED BY <2>5, <2>8, <2>9, <3>1
    <2>14. ASSUME NEW a \in Nat, NEW t \in Types
           PROVE  Has(u, a, t) <=>
                    /\ end <= a
                    /\ \E x \in j..Len(m) : Covers(m[x], a) /\ m[x].type = t
        <3>1. ASSUME Has(u, a, t)
              PROVE  /\ end <= a
                     /\ \E x \in j..Len(m) : Covers(m[x], a) /\ m[x].type = t
            <4>1. PICK x \in 1..Len(u) : Covers(u[x], a) /\ u[x].type = t
                BY <2>9, <3>1 DEF Has
            <4>2. end <= a
                <5>1. u[x] \in Entry /\ end <= u[x].base
                    BY <2>8, <2>9, <2>13, ElementOfSeq
                <5> QED BY <4>1, <5>1 DEF Covers, Entry
            <4>3. CASE x = 1
                BY <2>2, <2>5, <2>6, <2>8, <4>1, <4>2, <4>3
            <4>4. CASE x # 1
                <5>1. u[x] = m[x + k - 1] /\ x + k - 1 \in j..Len(m)
                    BY <1>1, <2>2, <2>4, <2>8, <4>4
                <5> QED BY <4>1, <4>2, <5>1
            <4> QED BY <4>3, <4>4
        <3>2. ASSUME end <= a,
                     NEW x \in j..Len(m), Covers(m[x], a), m[x].type = t
              PROVE  Has(u, a, t)
            <4>1. ~(x < k)
                BY <1>1, <2>2, <2>4, <3>2 DEF Covers, End, Entry
            <4>2. CASE x = k
                <5>1. 1 \in DOMAIN u /\ u[1] = cut
                    BY <1>1, <2>4, <2>8, <2>9
                <5>2. Covers(cut, a) /\ cut.type = t
                    BY <2>5, <2>6, <3>2, <4>2
                <5> QED BY <5>1, <5>2 DEF Has
            <4>3. CASE x > k
                <5>1. /\ x - k + 1 \in 2..Len(u) /\ x - k + 1 \in DOMAIN u
                      /\ (x - k + 1) + k - 1 = x
                    BY <1>1, <2>2, <2>4, <2>8, <2>9, <4>3
                <5>2. u[x - k + 1] = m[x]
                    BY <2>8, <5>1
                <5> QED BY <3>2, <5>1, <5>2 DEF Has
            <4> QED BY <1>1, <2>4, <4>1, <4>2, <4>3
        <3> QED BY <3>1, <3>2
    <2> QED BY <2>8, <2>11, <2>12, <2>13, <2>14 DEF Table, u
<1> QED BY <1>2, <1>3

\* A region put in the place of what it covers, entry n of p: the table has
\* the entries up to it and what Uncovered keeps of the others.
Apart(p, i, j) == \A x, y \in i..j : x < y => End(p[x]) <= p[y].base
Splice(p, n) == SubSeq(p, 1, n) \o Uncovered(p, n + 1, End(p[n]))
Spliced(p, n, r) ==
    /\ Table(r)
    /\ \A a \in Nat, t \in Types :
         Has(r, a, t) <=>
             \/ \E x \in 1..n : Covers(p[x], a) /\ p[x].type = t
             \/ /\ End(p[n]) <= a
                /\ \E x \in n + 1..Len(p) : Covers(p[x], a) /\ p[x].type = t

LEMMA SpliceIs ==
    ASSUME NEW p \in Seq(Entry), Fits(p), NEW n \in 1..Len(p),
           Apart(p, 1, n), Apart(p, n + 1, Len(p))
    PROVE  Spliced(p, n, Splice(p, n))
<1>0. /\ \A x, y \in 1..n : x < y => End(p[x]) <= p[y].base
      /\ \A x, y \in n + 1..Len(p) : x < y => End(p[x]) <= p[y].base
    BY DEF Apart
<1> DEFINE f == SubSeq(p, 1, n)
           u == Uncovered(p, n + 1, End(p[n]))
           r == f \o u
<1>1. /\ Len(p) \in Nat /\ DOMAIN p = 1..Len(p)
      /\ \A x \in 1..Len(p) : p[x] \in Entry
    BY LenProperties, ElementOfSeq
<1>2. /\ n + 1 \in 1..Len(p) + 1 /\ End(p[n]) \in Nat /\ p[n].base <= End(p[n])
      /\ p[n].base \in Nat
    BY <1>1 DEF End, Entry
<1>3. /\ Table(u)
      /\ \A x \in DOMAIN u : End(p[n]) <= u[x].base
      /\ \A a \in Nat, t \in Types :
           Has(u, a, t) <=>
               /\ End(p[n]) <= a
               /\ \E x \in n + 1..Len(p) : Covers(p[x], a) /\ p[x].type = t
    BY <1>0, <1>2, UncoveredKeeps
<1> HIDE DEF u
<1>4. /\ u \in Seq(Entry) /\ Len(u) \in Nat /\ DOMAIN u = 1..Len(u)
      /\ \A x \in 1..Len(u) : u[x] \in Entry
    BY <1>3, LenProperties, ElementOfSeq DEF Table
<1>5. f \in Seq(Entry) /\ Len(f) = n /\ \A x \in 1..n : f[x] = p[x]
    <2>1. \A i \in 1..n : p[i] \in Entry
        BY <1>1
    <2> QED BY <2>1, SubSeqProperties
<1> HIDE DEF f
<1>6. /\ r \in Seq(Entry) /\ Len(r) = n + Len(u)
      /\ \A x \in 1..n + Len(u) : r[x] = IF x <= n THEN f[x] ELSE u[x - n]
    BY <1>4, <1>5, ConcatProperties
<1> HIDE DEF r
<1>7. DOMAIN r = 1..n + Len(u)
    BY <1>6, LenProperties
<1>8. \A x \in 1..n : r[x] = p[x] /\ x \in DOMAIN r
    BY <1>4, <1>5, <1>6, <1>7
<1>9. ASSUME NEW x \in DOMAIN r, ~(x <= n)
      PROVE  x - n \in 1..Len(u) /\ r[x] = u[x - n]
    BY <1>4, <1>6, <1>7, <1>9
<1>10. \A x \in 1..Len(u) : n + x \in DOMAIN r /\ r[n + x] = u[x]
    <2> SUFFICES ASSUME NEW x \in 1..Len(u)
                 PROVE  n + x \in DOMAIN r /\ r[n + x] = u[x]
        OBVIOUS
    <2>1. n + x \in 1..n + Len(u) /\ ~(n + x <= n) /\ (n + x) - n = x
        BY <1>4
    <2> QED BY <1>6, <1>7, <2>1
<1>11. Ordered(r)
    <2>1. ASSUME NEW x \in DOMAIN r, NEW y \in DOMAIN r, x < y
          PROVE  End(r[x]) <= r[y].base
        <3>1. CASE y <= n
            <4>1. x \in 1..n /\ y \in 1..n
                BY <1>4, <1>7, <2>1, <3>1
            <4> QED BY <1>0, <1>8, <2>1, <4>1
        <3>2. CASE x <= n /\ ~(y <= n)
            <4>1. x \in 1..n /\ y - n \in DOMAIN u
                BY <1>4, <1>7, <1>9, <3>2
            <4>2. r[x] = p[x] /\ r[y] = u[y - n]
                BY <1>8, <1>9, <3>2, <4>1
            <4>3. End(p[x]) <= End(p[n]) /\ End(p[x]) \in Nat
                <5>1. x = n \/ End(p[x]) <= p[n].base
                    BY <1>0, <4>1
                <5>2. End(p[x]) \in Nat
                    BY <1>1, <4>1 DEF End, Entry
                <5> QED BY <1>2, <5>1, <5>2
            <4>4. End(p[n]) <= u[y - n].base /\ u[y - n].base \in Nat
                BY <1>3, <1>4, <4>1 DEF Entry
            <4> QED BY <1>2, <4>2, <4>3, <4>4
        <3>3. CASE ~(x <= n)
            <4>1. /\ x - n \in 1..Len(u) /\ y - n \in 1..Len(u) /\ x - n < y - n
                BY <1>4, <1>7, <2>1, <3>3
            <4>2. ~(y <= n)
                BY <1>4, <1>7, <2>1, <3>3
            <4>3. r[x] = u[x - n] /\ r[y] = u[y - n]
                BY <1>9, <3>3, <4>2
            <4> QED BY <1>3, <1>4, <4>1, <4>3 DEF Table, Ordered
        <3> QED BY <3>1, <3>2, <3>3
    <2> QED BY <2>1 DEF Ordered
<1>12. Fits(r)
    <2>1. ASSUME NEW x \in DOMAIN r
          PROVE  End(r[x]) < Top
        <3>1. CASE x <= n
            <4>1. x \in 1..n /\ x \in 1..Len(p)
                BY <1>1, <1>4, <1>7, <3>1
            <4> QED BY <1>1, <1>8, <4>1 DEF Fits
        <3>2. CASE ~(x <= n)
            BY <1>3, <1>4, <1>9, <3>2 DEF Table, Fits
        <3> QED BY <3>1, <3>2
    <2> QED BY <2>1 DEF Fits
<1>13. ASSUME NEW a \in Nat, NEW t \in Types
       PROVE  Has(r, a, t) <=>
                (\E x \in 1..n : Covers(p[x], a) /\ p[x].type = t) \/ Has(u, a, t)
    <2>1. ASSUME Has(r, a, t)
          PROVE  (\E x \in 1..n : Covers(p[x], a) /\ p[x].type = t) \/ Has(u, a, t)
        <3>1. PICK x \in DOMAIN r : Covers(r[x], a) /\ r[x].type = t
            BY <2>1 DEF Has
        <3>2. CASE x <= n
            <4>1. x \in 1..n
                BY <1>4, <1>7, <3>2
            <4> QED BY <1>8, <3>1, <4>1
        <3>3. CASE ~(x <= n)
            <4>1. x - n \in DOMAIN u /\ r[x] = u[x - n]
                BY <1>4, <1>9, <3>3
            <4> QED BY <3>1, <4>1 DEF Has
        <3> QED BY <3>2, <3>3
    <2>2. ASSUME NEW x \in 1..n, Covers(p[x], a), p[x].type = t
          PROVE  Has(r, a, t)
        BY <1>8, <2>2 DEF Has
    <2>3. ASSUME Has(u, a, t)
          PROVE  Has(r, a, t)
        BY <1>4, <1>10, <2>3 DEF Has
    <2> QED BY <2>1, <2>2, <2>3
<1>14. r = Splice(p, n)
    BY DEF Splice, r, f, u
<1> QED BY <1>3, <1>6, <1>11, <1>12, <1>13, <1>14 DEF Spliced, Table

\* A sum that reaches Top comes out below what was added to.
LEMMA SumWraps ==
    ASSUME NEW b \in Nat, NEW l \in Nat, b < Top, l < Top, b + l >= Top
    PROVE  (b + l) % Top < b
<1>1. Top \in Nat /\ Top > 0
    BY E820Assumption
<1> DEFINE s == b + l
           q == s \div Top
<1>2. s \in Nat /\ Top <= s /\ s < Top + Top
    BY <1>1
<1> HIDE DEF s
<1>3. q \in Int /\ s = Top * q + (s % Top) /\ s % Top \in 0..Top - 1
    BY <1>1, <1>2
<1>4. q = 1
    <2> HIDE DEF q
    <2>1. ~(q <= 0)
        BY <1>1, <1>2, <1>3
    <2>2. ~(q >= 2)
        BY <1>1, <1>2, <1>3
    <2> QED BY <1>3, <2>1, <2>2
<1>5. s % Top = s - Top
    <2> HIDE DEF q
    <2> QED BY <1>1, <1>2, <1>3, <1>4
<1> QED BY <1>1, <1>5 DEF s

\* Of an answer.
LEMMA AnswerMap ==
    ASSUME NEW x
    PROVE  Answer(TRUE, x).map = x
BY DEF Answer

\* What protect_region does to a table that is in order: it stays in order
\* and says of every address what it said, or the type of the new region.
LEMMA ProtectFollows ==
    ASSUME NEW m, Table(m), NEW new \in Entry, new.base < Top, new.len < Top,
           m # << >> /\ new.len > 0 => new.base > m[1].base,
           ProtectRegion(m, new).ok
    PROVE  LET r == ProtectRegion(m, new).map
           IN  /\ Table(r)
               /\ \A a \in Nat, t \in Types :
                    Has(r, a, t) <=>
                        IF Covers(new, a) THEN t = new.type ELSE Has(m, a, t)
<1> DEFINE hits == Hits(m, new)
           r == ProtectRegion(m, new).map
<1>1. /\ m \in Seq(Entry) /\ Len(m) \in Nat /\ DOMAIN m = 1..Len(m)
      /\ \A x \in 1..Len(m) : m[x] \in Entry
    BY LenProperties, ElementOfSeq DEF Table
<1>2. \A x \in 1..Len(m) : /\ m[x].base \in Nat /\ m[x].len \in Nat /\ m[x].type \in Types
                           /\ End(m[x]) \in Nat /\ m[x].base <= End(m[x])
    BY <1>1 DEF Entry, End
<1>3. /\ new.base \in Nat /\ new.len \in Nat /\ new.type \in Types
      /\ End(new) = new.base + new.len /\ End(new) \in Nat
    BY DEF Entry, End
<1>4. CASE new.len = 0
    <2>1. r = m
        BY <1>4 DEF ProtectRegion, Answer
    <2>2. \A a \in Nat : ~Covers(new, a)
        BY <1>3, <1>4 DEF Covers
    <2> QED BY <2>1, <2>2
<1>5. CASE new.len > 0 /\ hits = {}
    <2>1. ~((new.base + new.len) % Top < new.base)
        BY <1>5 DEF ProtectRegion, Answer
    <2>2. End(new) < Top
        BY <1>3, <2>1, SumWraps, E820Assumption
    <2>3. r = Append(m, new)
        <3>1. Room(m, 1)
            BY <1>3, <1>5, <2>1 DEF ProtectRegion, Answer
        <3>2. ProtectRegion(m, new) = Answer(TRUE, Append(m, new))
            BY <1>3, <1>5, <2>1, <3>1 DEF ProtectRegion, Answer
        <3> QED BY <3>2 DEF Answer
    <2>4. /\ r \in Seq(Entry) /\ Len(r) = Len(m) + 1 /\ r[Len(m) + 1] = new
          /\ \A x \in 1..Len(m) : r[x] = m[x]
        BY <1>1, <2>3, AppendProperties
    <2> HIDE DEF r
    <2>5. DOMAIN r = 1..Len(m) + 1
        BY <1>1, <2>4, LenProperties
    <2>6. \A x \in 1..Len(m) : End(m[x]) <= new.base
        <3>1. \A x \in 1..Len(m) : ~(new.base <= m[x].base) /\ ~Covers(m[x], new.base)
            BY <1>1, <1>5 DEF Hits
        <3> QED BY <1>2, <1>3, <3>1 DEF Covers
    <2>7. \A x \in DOMAIN r : x \in 1..Len(m) \/ (x = Len(m) + 1 /\ r[x] = new)
        BY <1>1, <2>4, <2>5
    <2>8. Ordered(r)
        <3>1. ASSUME NEW x \in DOMAIN r, NEW y \in DOMAIN r, x < y
              PROVE  End(r[x]) <= r[y].base
            <4>1. x \in 1..Len(m)
                BY <1>1, <2>5, <2>7, <3>1
            <4> QED BY <1>1, <2>4, <2>6, <2>7, <3>1, <4>1 DEF Table, Ordered
        <3> QED BY <3>1 DEF Ordered
    <2>9. Fits(r)
        BY <1>1, <2>2, <2>4, <2>7 DEF Table, Fits
    <2>10. ASSUME NEW a \in Nat, NEW t \in Types
           PROVE  Has(r, a, t) <=> (Covers(new, a) /\ t = new.type) \/ Has(m, a, t)
        <3>1. Has(r, a, t) => (Covers(new, a) /\ t = new.type) \/ Has(m, a, t)
            BY <1>1, <2>4, <2>7 DEF Has
        <3>2. Has(m, a, t) => Has(r, a, t)
            <4>1. \A x \in 1..Len(m) : x \in DOMAIN r
                BY <1>1, <2>5
            <4> QED BY <1>1, <2>4, <4>1 DEF Has
        <3>3. Len(m) + 1 \in DOMAIN r
            BY <1>1, <2>5
        <3>4. Covers(new, a) /\ t = new.type => Has(r, a, t)
            BY <2>4, <3>3 DEF Has
        <3> QED BY <3>1, <3>2, <3>4
    <2>11. \A a \in Nat, t \in Types : Covers(new, a) => ~Has(m, a, t)
        <3>1. \A a \in Nat : \A x \in 1..Len(m) : Covers(new, a) => ~Covers(m[x], a)
            BY <1>2, <1>3, <2>6 DEF Covers
        <3> QED BY <1>1, <3>1 DEF Has
    <2> QED BY <2>4, <2>8, <2>9, <2>10, <2>11 DEF Table, r
<1>6. CASE new.len > 0 /\ hits # {}
    <2> DEFINE i == Min(hits)
               inside == m[i].base < new.base
               short == [m EXCEPT ![i].len = new.base - m[i].base]
    <2>1. /\ ~((new.base + new.len) % Top < new.base)
          /\ Room(m, 1) /\ ~(inside /\ ~Room(m, 2))
        BY <1>3, <1>6 DEF ProtectRegion, Answer
    <2>2. End(new) < Top
        BY <1>3, <2>1, SumWraps, E820Assumption
    <2>3. /\ i \in 1..Len(m)
          /\ new.base <= m[i].base \/ Covers(m[i], new.base)
          /\ \A x \in 1..Len(m) : x < i => End(m[x]) <= new.base
        <3>1. hits \in SUBSET Nat
            BY <1>1 DEF Hits
        <3>2. i \in hits /\ \A x \in hits : i <= x
            BY <1>6, <3>1, MinIsLeast
        <3> HIDE DEF i
        <3>3. ASSUME NEW x \in 1..Len(m), x < i
              PROVE  x \notin hits
            <4>1. i \in Nat
                BY <3>1, <3>2
            <4> HIDE DEF hits
            <4> QED BY <1>1, <3>2, <3>3, <4>1
        <3>4. ASSUME NEW x \in 1..Len(m), x < i
              PROVE  End(m[x]) <= new.base
            <4>1. ~(new.base <= m[x].base) /\ ~Covers(m[x], new.base)
                BY <1>1, <3>3, <3>4 DEF Hits
            <4> QED BY <1>2, <1>3, <4>1 DEF Covers
        <3> QED BY <1>1, <3>2, <3>4 DEF Hits
    <2>4. /\ m[i].base \in Nat /\ End(m[i]) \in Nat /\ m[i] \in Entry
          /\ i \in Nat /\ Len(m) \in Nat /\ 1 <= i /\ i <= Len(m)
          /\ \A x \in 1..Len(m) : i < x => End(m[i]) <= m[x].base
        BY <1>1, <1>2, <2>3 DEF Table, Ordered
    <2>5. CASE inside
        <3> DEFINE one == InsertAt(short, i + 1, new)
                   put == InsertAt(one, i + 2, m[i])
        <3>1. r = SubSeq(put, 1, i + 1) \o Uncovered(put, i + 2, End(new))
            <4>1. ProtectRegion(m, new) =
                    Answer(TRUE, SubSeq(put, 1, i + 1) \o Uncovered(put, (i + 1) + 1, End(new)))
                BY <1>3, <1>6, <2>1, <2>5 DEF ProtectRegion, Answer
            <4>2. (i + 1) + 1 = i + 2
                BY <2>4
            <4> HIDE DEF put, i
            <4>3. ProtectRegion(m, new) =
                    Answer(TRUE, SubSeq(put, 1, i + 1) \o Uncovered(put, i + 2, End(new)))
                BY <4>1, <4>2, Zenon
            <4> QED BY <4>3, AnswerMap, Zenon
        <3>2. /\ m[i].base < new.base /\ new.base < End(m[i])
            BY <2>3, <2>4, <2>5, <1>3 DEF Covers
        <3> HIDE DEF r, i, inside
        <3>3. /\ short \in Seq(Entry) /\ Len(short) = Len(m)
              /\ \A x \in 1..Len(m) : x # i => short[x] = m[x]
              /\ short[i].base = m[i].base /\ short[i].type = m[i].type
              /\ End(short[i]) = new.base /\ short[i] \in Entry
            <4> DEFINE e == [m[i] EXCEPT !.len = new.base - m[i].base]
            <4>1. new.base - m[i].base \in Nat
                BY <1>3, <2>4, <3>2
            <4>2. e \in Entry /\ e.base = m[i].base /\ e.type = m[i].type /\ End(e) = new.base
                BY <1>3, <2>4, <4>1 DEF Entry, End
            <4>3. short = [m EXCEPT ![i] = e]
                OBVIOUS
            <4> HIDE DEF e, short
            <4> QED BY <1>1, <2>3, <4>2, <4>3, ExceptSeq
        <3> HIDE DEF short
        <3>4. /\ put \in Seq(Entry) /\ Len(put) = Len(m) + 2
              /\ \A x \in 1..Len(m) + 1 :
                   one[x] = IF x < i + 1 THEN short[x]
                            ELSE IF x = i + 1 THEN new ELSE short[x - 1]
              /\ \A x \in 1..Len(m) + 2 :
                   put[x] = IF x < i + 2 THEN one[x]
                            ELSE IF x = i + 2 THEN m[i] ELSE one[x - 1]
            <4> HIDE DEF one, put
            <4>1. PutIn(short, i + 1, new, one)
                <5>1. short \in Seq(Entry) /\ i + 1 \in 1..Len(short) + 1
                    BY <2>4, <3>3
                <5> QED BY <5>1, InsertAtIs DEF one
            <4>2. /\ one \in Seq(Entry) /\ Len(one) = Len(m) + 1
                  /\ \A x \in 1..Len(m) + 1 :
                       one[x] = IF x < i + 1 THEN short[x]
                                ELSE IF x = i + 1 THEN new ELSE short[x - 1]
                BY <3>3, <4>1 DEF PutIn
            <4>3. PutIn(one, i + 2, m[i], put)
                <5>1. /\ one \in Seq(Entry) /\ m[i] \in Entry
                      /\ i + 2 \in 1..Len(one) + 1
                    BY <2>4, <4>2
                <5> QED BY <5>1, InsertAtIs DEF put
            <4>4. /\ put \in Seq(Entry) /\ Len(put) = (Len(m) + 1) + 1
                  /\ \A x \in 1..(Len(m) + 1) + 1 :
                       put[x] = IF x < i + 2 THEN one[x]
                                ELSE IF x = i + 2 THEN m[i] ELSE one[x - 1]
                BY <4>2, <4>3 DEF PutIn
            <4>5. (Len(m) + 1) + 1 = Len(m) + 2
                BY <2>4
            <4> QED BY <4>2, <4>4, <4>5
        <3>5. /\ put \in Seq(Entry) /\ Len(put) = Len(m) + 2
              /\ \A x \in 1..Len(m) + 2 :
                   put[x] = IF x < i + 2 THEN one[x]
                            ELSE IF x = i + 2 THEN m[i] ELSE one[x - 1]
            BY <3>4
        <3> HIDE DEF one
        <3> HIDE DEF put
        <3>6. \A x \in 1..i - 1 : put[x] = m[x] /\ x \in 1..Len(m)
            <4> SUFFICES ASSUME NEW x \in 1..i - 1
                         PROVE  put[x] = m[x] /\ x \in 1..Len(m)
                OBVIOUS
            <4>1. /\ x \in 1..Len(m) /\ x \in 1..Len(m) + 1 /\ x \in 1..Len(m) + 2
                  /\ x < i + 2 /\ x < i + 1 /\ x # i
                BY <2>4
            <4> QED BY <3>3, <3>4, <3>5, <4>1
        <3>7. put[i] = short[i] /\ put[i + 1] = new
            <4>1. /\ i \in 1..Len(m) + 1 /\ i \in 1..Len(m) + 2 /\ i < i + 1 /\ i < i + 2
                  /\ i + 1 \in 1..Len(m) + 1 /\ i + 1 \in 1..Len(m) + 2
                  /\ i + 1 < i + 2 /\ ~(i + 1 < i + 1)
                BY <2>4
            <4> QED BY <3>4, <3>5, <4>1
        <3>8. \A x \in i + 2..Len(m) + 2 : put[x] = m[x - 2] /\ x - 2 \in i..Len(m)
            <4> SUFFICES ASSUME NEW x \in i + 2..Len(m) + 2
                         PROVE  put[x] = m[x - 2] /\ x - 2 \in i..Len(m)
                OBVIOUS
            <4>1. x - 2 \in i..Len(m) /\ x \in 1..Len(m) + 2 /\ ~(x < i + 2)
                BY <2>4
            <4>2. CASE x = i + 2
                <5>1. x - 2 = i
                    BY <2>4, <4>2
                <5> QED BY <3>5, <4>1, <4>2, <5>1
            <4>3. CASE x # i + 2
                <5>1. /\ x - 1 \in 1..Len(m) + 1 /\ ~(x - 1 < i + 1) /\ x - 1 # i + 1
                      /\ (x - 1) - 1 = x - 2 /\ x - 2 \in 1..Len(m) /\ x - 2 # i
                    BY <2>4, <4>1, <4>3
                <5> QED BY <3>3, <3>4, <3>5, <4>1, <4>3, <5>1
            <4> QED BY <4>2, <4>3
        <3> DEFINE n == i + 1
        <3>9. /\ n \in 1..Len(put) /\ n + 1 = i + 2 /\ put[n] = new
              /\ DOMAIN put = 1..Len(m) + 2 /\ Len(put) = Len(m) + 2
              /\ \A x \in 1..Len(m) + 2 : x \in 1..i - 1 \/ x = i \/ x = n \/ x \in i + 2..Len(m) + 2
            <4>1. n \in 1..Len(m) + 2 /\ n + 1 = i + 2
                BY <2>4
            <4>2. \A x \in 1..Len(m) + 2 : x \in 1..i - 1 \/ x = i \/ x = n \/ x \in i + 2..Len(m) + 2
                BY <2>4
            <4> QED BY <3>5, <3>7, <4>1, <4>2, LenProperties
        <3>10. Fits(put)
            <4>1. \A x \in 1..Len(m) : End(m[x]) < Top
                BY <1>1 DEF Table, Fits
            <4>2. \A x \in i..Len(m) : x \in 1..Len(m)
                BY <2>4
            <4>3. End(short[i]) < Top
                BY <3>3
            <4> QED BY <2>2, <3>6, <3>7, <3>8, <3>9, <4>1, <4>2, <4>3 DEF Fits
        <3>11. ASSUME NEW x \in 1..n, NEW y \in 1..n, x < y
               PROVE  End(put[x]) <= put[y].base
            <4>1. /\ x \in 1..i - 1 \/ x = i
                  /\ y \in 1..i - 1 \/ y = i \/ y = n
                  /\ x = i => y = n
                BY <2>4, <3>11
            <4>2. \A z \in 1..i - 1 : End(m[z]) <= new.base /\ End(m[z]) <= m[i].base
                BY <1>1, <2>3, <2>4 DEF Table, Ordered
            <4>3. CASE y = n
                BY <1>3, <3>3, <3>6, <3>7, <4>1, <4>2, <4>3
            <4>4. CASE y = i
                BY <2>4, <3>3, <3>6, <3>7, <4>1, <4>2, <4>4
            <4>5. CASE y \in 1..i - 1 /\ x \in 1..i - 1
                BY <1>1, <3>6, <3>11, <4>5 DEF Table, Ordered
            <4> QED BY <2>4, <4>1, <4>3, <4>4, <4>5
        <3>12. ASSUME NEW x \in i + 2..Len(m) + 2, NEW y \in i + 2..Len(m) + 2, x < y
               PROVE  End(put[x]) <= put[y].base
            <4>1. x - 2 \in 1..Len(m) /\ y - 2 \in 1..Len(m) /\ x - 2 < y - 2
                BY <2>4, <3>12
            <4> QED BY <1>1, <3>8, <4>1 DEF Table, Ordered
        <3>13. /\ Table(r)
               /\ \A a \in Nat, t \in Types :
                    Has(r, a, t) <=>
                        \/ \E x \in 1..n : Covers(put[x], a) /\ put[x].type = t
                        \/ /\ End(new) <= a
                           /\ \E x \in i + 2..Len(m) + 2 : Covers(put[x], a) /\ put[x].type = t
            <4>1. \A x, y \in n + 1..Len(put) : x < y => End(put[x]) <= put[y].base
                BY <3>9, <3>12
            <4>2. \A x, y \in 1..n : x < y => End(put[x]) <= put[y].base
                BY <3>11
            <4>3. Spliced(put, n, Splice(put, n))
                <5> HIDE DEF n
                <5>1. put \in Seq(Entry) /\ n \in 1..Len(put)
                    BY <3>5, <3>9
                <5>2. Apart(put, 1, n) /\ Apart(put, n + 1, Len(put))
                    BY <4>1, <4>2 DEF Apart
                <5> QED BY <3>10, <5>1, <5>2, SpliceIs
            <4>4. Splice(put, n) = r
                BY <3>1, <3>9 DEF Splice
            <4> QED BY <3>9, <4>3, <4>4 DEF Spliced
        <3> HIDE DEF n
        <3>14. ASSUME NEW a \in Nat, NEW t \in Types
               PROVE  Has(r, a, t) <=> IF Covers(new, a) THEN t = new.type ELSE Has(m, a, t)
            <4>1. \A x \in 1..i - 1 : Covers(m[x], a) => a < new.base
                <5>1. \A x \in 1..i - 1 : x \in 1..Len(m) /\ x < i
                    BY <2>4
                <5>2. \A x \in 1..i - 1 : End(m[x]) <= new.base /\ End(m[x]) \in Nat
                    BY <1>2, <2>3, <5>1
                <5> QED BY <1>3, <5>2 DEF Covers
            <4>2. Covers(put[i], a) <=> Covers(m[i], a) /\ a < new.base
                BY <1>3, <2>4, <3>2, <3>3, <3>7 DEF Covers
            <4>3. \A x \in i + 1..Len(m) : Covers(m[x], a) => new.base <= a
                <5>1. \A x \in i + 1..Len(m) : x \in 1..Len(m) /\ i < x
                    BY <2>4
                <5> QED BY <1>2, <1>3, <2>4, <3>2, <5>1 DEF Covers
            <4>4. (\E x \in 1..n : Covers(put[x], a) /\ put[x].type = t) <=>
                    \/ \E x \in 1..i : Covers(m[x], a) /\ m[x].type = t /\ a < new.base
                    \/ Covers(new, a) /\ t = new.type
                <5>1. \A x \in 1..n : x \in 1..i - 1 \/ x = i \/ x = n
                    BY <2>4 DEF n
                <5>2. /\ n \in 1..n /\ i \in 1..n /\ i \in 1..i /\ \A x \in 1..i - 1 : x \in 1..n /\ x \in 1..i
                    BY <2>4 DEF n
                <5>3. \A x \in 1..i : x = i \/ x \in 1..i - 1
                    BY <2>4
                <5> QED BY <3>3, <3>6, <3>7, <3>9, <4>1, <4>2, <5>1, <5>2, <5>3
            <4>5. (\E x \in i + 2..Len(m) + 2 : Covers(put[x], a) /\ put[x].type = t) <=>
                    \E x \in i..Len(m) : Covers(m[x], a) /\ m[x].type = t
                <5>1. \A x \in i..Len(m) : x + 2 \in i + 2..Len(m) + 2 /\ (x + 2) - 2 = x
                    BY <2>4
                <5> QED BY <3>8, <5>1
            <4>6. Has(m, a, t) <=>
                    \/ \E x \in 1..i : Covers(m[x], a) /\ m[x].type = t
                    \/ \E x \in i..Len(m) : Covers(m[x], a) /\ m[x].type = t
                <5>1. 1..Len(m) = (1..i) \cup (i..Len(m))
                    BY <2>4
                <5> QED BY <1>1, <5>1 DEF Has
            <4>7. Covers(new, a) <=> new.base <= a /\ a < End(new)
                BY DEF Covers
            <4>8. \A x \in 1..i : x \in 1..i - 1 \/ x = i
                BY <2>4
            <4>9. \A x \in i..Len(m) : x \in i + 1..Len(m) \/ x = i
                BY <2>4
            <4>10. /\ i \in 1..i /\ i \in i..Len(m)
                BY <2>4
            <4>11. CASE a < new.base
                <5>1. ~Covers(new, a) /\ ~(End(new) <= a)
                    BY <1>3, <4>7, <4>11
                <5>2. \A x \in i..Len(m) : Covers(m[x], a) => x \in 1..i
                    BY <1>3, <4>3, <4>9, <4>10, <4>11
                <5> QED BY <3>13, <4>4, <4>6, <4>11, <5>1, <5>2
            <4>12. CASE Covers(new, a)
                <5>1. ~(a < new.base) /\ ~(End(new) <= a)
                    BY <1>3, <4>7, <4>12
                <5> QED BY <3>13, <4>4, <4>12, <5>1
            <4>13. CASE End(new) <= a
                <5>1. ~Covers(new, a) /\ ~(a < new.base)
                    BY <1>3, <4>7, <4>13
                <5>2. \A x \in 1..i : Covers(m[x], a) => x \in i..Len(m)
                    BY <4>1, <4>8, <4>10, <5>1
                <5> QED BY <3>13, <4>4, <4>5, <4>6, <4>13, <5>1, <5>2
            <4> QED BY <1>3, <4>7, <4>11, <4>12, <4>13
        <3> QED BY <3>13, <3>14 DEF r
    <2>6. CASE ~inside
        <3> DEFINE put == InsertAt(m, i, new)
        <3>1. new.base <= m[i].base /\ i > 1
            <4>1. new.base <= m[i].base
                BY <1>3, <2>4, <2>6
            <4>2. m # << >> /\ new.base > m[1].base
                BY <1>1, <1>6, <2>4
            <4>3. m[1].base \in Nat
                BY <1>2, <2>4
            <4>4. i # 1
                BY <1>3, <4>1, <4>2, <4>3
            <4> HIDE DEF i
            <4> QED BY <2>4, <4>1, <4>4
        <3>2. r = SubSeq(put, 1, i) \o Uncovered(put, i + 1, End(new))
            <4>1. ProtectRegion(m, new) =
                    Answer(TRUE, SubSeq(InsertAfter(m, i - 1, new), 1, i)
                                 \o Uncovered(InsertAfter(m, i - 1, new), i + 1, End(new)))
                BY <1>3, <1>6, <2>1, <2>6 DEF ProtectRegion, Answer
            <4>2. i - 1 > 0 /\ (i - 1) + 1 = i
                BY <2>4, <3>1
            <4>3. InsertAfter(m, i - 1, new) = put
                BY <4>2 DEF InsertAfter
            <4> HIDE DEF put, i
            <4>4. ProtectRegion(m, new) =
                    Answer(TRUE, SubSeq(put, 1, i) \o Uncovered(put, i + 1, End(new)))
                BY <4>1, <4>3, Zenon
            <4> QED BY <4>4, AnswerMap, Zenon
        <3> HIDE DEF r, i, inside
        <3>3. /\ put \in Seq(Entry) /\ Len(put) = Len(m) + 1
              /\ \A x \in 1..Len(m) + 1 :
                   put[x] = IF x < i THEN m[x]
                            ELSE IF x = i THEN new ELSE m[x - 1]
            <4>1. i \in 1..Len(m) + 1
                BY <2>4
            <4>2. PutIn(m, i, new, put)
                BY <1>1, <4>1, InsertAtIs
            <4> QED BY <4>2 DEF PutIn
        <3> HIDE DEF put
        <3>4. /\ \A x \in 1..i - 1 : put[x] = m[x] /\ x \in 1..Len(m)
              /\ put[i] = new /\ i \in 1..Len(put) /\ DOMAIN put = 1..Len(m) + 1
            <4>1. /\ \A x \in 1..i - 1 : x \in 1..Len(m) /\ x \in 1..Len(m) + 1 /\ x < i
                  /\ i \in 1..Len(m) + 1 /\ ~(i < i)
                BY <2>4
            <4> QED BY <3>3, <4>1, LenProperties
        <3>5. \A x \in i + 1..Len(m) + 1 : put[x] = m[x - 1] /\ x - 1 \in i..Len(m)
            <4>1. \A x \in i + 1..Len(m) + 1 :
                    x \in 1..Len(m) + 1 /\ ~(x < i) /\ x # i /\ x - 1 \in i..Len(m)
                BY <2>4
            <4> QED BY <3>3, <4>1
        <3>6. \A x \in 1..Len(m) + 1 : x \in 1..i - 1 \/ x = i \/ x \in i + 1..Len(m) + 1
            BY <2>4
        <3>7. Fits(put)
            <4>1. \A x \in 1..Len(m) : End(m[x]) < Top
                BY <1>1 DEF Table, Fits
            <4>2. \A x \in i..Len(m) : x \in 1..Len(m)
                BY <2>4
            <4> QED BY <2>2, <3>4, <3>5, <3>6, <4>1, <4>2 DEF Fits
        <3>8. ASSUME NEW x \in 1..i, NEW y \in 1..i, x < y
              PROVE  End(put[x]) <= put[y].base
            <4>1. x \in 1..i - 1 /\ (y \in 1..i - 1 \/ y = i)
                BY <2>4, <3>8
            <4>2. \A z \in 1..i - 1 : End(m[z]) <= new.base
                BY <2>3, <2>4
            <4> QED BY <1>1, <3>4, <3>8, <4>1, <4>2 DEF Table, Ordered
        <3>9. ASSUME NEW x \in i + 1..Len(m) + 1, NEW y \in i + 1..Len(m) + 1, x < y
              PROVE  End(put[x]) <= put[y].base
            <4>1. x - 1 \in 1..Len(m) /\ y - 1 \in 1..Len(m) /\ x - 1 < y - 1
                BY <2>4, <3>9
            <4> QED BY <1>1, <3>5, <4>1 DEF Table, Ordered
        <3>10. /\ Table(r)
               /\ \A a \in Nat, t \in Types :
                    Has(r, a, t) <=>
                        \/ \E x \in 1..i : Covers(put[x], a) /\ put[x].type = t
                        \/ /\ End(new) <= a
                           /\ \E x \in i + 1..Len(m) + 1 : Covers(put[x], a) /\ put[x].type = t
            <4>1. \A x, y \in i + 1..Len(put) : x < y => End(put[x]) <= put[y].base
                BY <3>3, <3>9
            <4>2. \A x, y \in 1..i : x < y => End(put[x]) <= put[y].base
                BY <3>8
            <4>3. Spliced(put, i, Splice(put, i))
                <5>1. put \in Seq(Entry) /\ i \in 1..Len(put)
                    BY <3>3, <3>4
                <5>2. Apart(put, 1, i) /\ Apart(put, i + 1, Len(put))
                    BY <4>1, <4>2 DEF Apart
                <5> QED BY <3>7, <5>1, <5>2, SpliceIs
            <4>4. Splice(put, i) = r
                BY <3>2, <3>4 DEF Splice
            <4> QED BY <3>3, <3>4, <4>3, <4>4 DEF Spliced
        <3>11. ASSUME NEW a \in Nat, NEW t \in Types
               PROVE  Has(r, a, t) <=> IF Covers(new, a) THEN t = new.type ELSE Has(m, a, t)
            <4>1. \A x \in 1..i - 1 : Covers(m[x], a) => a < new.base
                <5>1. \A x \in 1..i - 1 : x \in 1..Len(m) /\ x < i
                    BY <2>4
                <5>2. \A x \in 1..i - 1 : End(m[x]) <= new.base /\ End(m[x]) \in Nat
                    BY <1>2, <2>3, <5>1
                <5> QED BY <1>3, <5>2 DEF Covers
            <4>2. \A x \in i..Len(m) : Covers(m[x], a) => new.base <= a
                <5>1. \A x \in i..Len(m) : x \in 1..Len(m) /\ (x = i \/ i < x)
                    BY <2>4
                <5>2. \A x \in i..Len(m) : new.base <= m[x].base
                    BY <1>2, <1>3, <2>4, <3>1, <5>1
                <5> QED BY <1>2, <1>3, <5>1, <5>2 DEF Covers
            <4>3. (\E x \in 1..i : Covers(put[x], a) /\ put[x].type = t) <=>
                    \/ \E x \in 1..i - 1 : Covers(m[x], a) /\ m[x].type = t
                    \/ Covers(new, a) /\ t = new.type
                <5>1. /\ \A x \in 1..i : x \in 1..i - 1 \/ x = i
                      /\ \A x \in 1..i - 1 : x \in 1..i
                      /\ i \in 1..i
                    BY <2>4
                <5> QED BY <3>4, <5>1
            <4>4. (\E x \in i + 1..Len(m) + 1 : Covers(put[x], a) /\ put[x].type = t) <=>
                    \E x \in i..Len(m) : Covers(m[x], a) /\ m[x].type = t
                <5>1. \A x \in i..Len(m) : x + 1 \in i + 1..Len(m) + 1 /\ (x + 1) - 1 = x
                    BY <2>4
                <5> QED BY <3>5, <5>1
            <4>5. Has(m, a, t) <=>
                    \/ \E x \in 1..i - 1 : Covers(m[x], a) /\ m[x].type = t
                    \/ \E x \in i..Len(m) : Covers(m[x], a) /\ m[x].type = t
                <5>1. 1..Len(m) = (1..i - 1) \cup (i..Len(m))
                    BY <2>4
                <5> QED BY <1>1, <5>1 DEF Has
            <4>6. Covers(new, a) <=> new.base <= a /\ a < End(new)
                BY DEF Covers
            <4>7. CASE a < new.base
                <5>1. ~Covers(new, a) /\ ~(End(new) <= a) /\ ~(new.base <= a)
                    BY <1>3, <4>6, <4>7
                <5> QED BY <3>10, <4>2, <4>3, <4>5, <5>1
            <4>8. CASE Covers(new, a)
                <5>1. ~(a < new.base) /\ ~(End(new) <= a)
                    BY <1>3, <4>6, <4>8
                <5> QED BY <3>10, <4>1, <4>3, <4>8, <5>1
            <4>9. CASE End(new) <= a
                <5>1. ~Covers(new, a) /\ ~(a < new.base)
                    BY <1>3, <4>6, <4>9
                <5> QED BY <3>10, <4>3, <4>4, <4>5, <4>9, <5>1
            <4> QED BY <1>3, <4>6, <4>7, <4>8, <4>9
        <3> QED BY <3>10, <3>11 DEF r
    <2> QED BY <2>5, <2>6
<1> QED BY <1>3, <1>4, <1>5, <1>6

-----------------------------------------------------------------------------
(* get_ram_ranges *)

\* The region that min_ram= asks for, or 0, is an address.
LEMMA LastMinRamNat ==
    ASSUME NEW m \in Seq(Entry)
    PROVE  LastMinRam(m) \in Nat
<1> DEFINE fits == {i \in DOMAIN m :
                     /\ IsRam(m[i]) /\ min_ram <= m[i].len
                     /\ \A j \in 1..i : IsRam(m[j]) => End(m[j]) <= FourG}
<1>1. CASE min_ram > 0 /\ fits # {}
    <2>1. DOMAIN m = 1..Len(m) /\ Len(m) \in Nat
        BY LenProperties
    <2>2. fits \in SUBSET (0..Len(m))
        BY <2>1
    <2>3. Max(fits) \in fits
        BY <1>1, <2>1, <2>2, MaxIsGreatest
    <2>4. LastMinRam(m) = m[Max(fits)].base
        BY <1>1 DEF LastMinRam, HighestSizedRam
    <2> HIDE DEF fits
    <2>5. fits \subseteq DOMAIN m
        BY DEF fits
    <2>6. m[Max(fits)] \in Entry
        BY <2>1, <2>3, <2>5, ElementOfSeq
    <2> QED BY <2>4, <2>6 DEF Entry
<1>2. CASE min_ram > 0 /\ fits = {}
    BY <1>2 DEF LastMinRam, HighestSizedRam
<1>3. CASE ~(min_ram > 0)
    BY <1>3 DEF LastMinRam
<1> QED BY <1>1, <1>2, <1>3

\* The low RAM that is given up lies behind all that is kept.
LEMMA KeptFirst ==
    ASSUME NEW m, Table(m),
           NEW i \in Discarded(m), NEW k \in LowRam(m) \ Discarded(m)
    PROVE  End(m[k]) <= m[i].base
<1>1. /\ DOMAIN m = 1..Len(m) /\ Len(m) \in Nat
      /\ i \in 1..Len(m) /\ k \in 1..Len(m) /\ i \in LowRam(m) /\ i # k
    BY LenProperties DEF Table, Discarded, LowRam
<1>2. m[i] \in Entry /\ m[k] \in Entry
    BY <1>1, ElementOfSeq DEF Table
<1>3. ~(i < k)
    <2> SUFFICES ASSUME i < k
                 PROVE  k \in Discarded(m)
        OBVIOUS
    <2>1. End(m[i]) <= m[k].base
        BY <1>1 DEF Table, Ordered
    <2>2. m[i].base <= m[k].base
        BY <1>2, <2>1 DEF End, Entry
    <2>3. LastMinRam(m) \in Nat
        BY LastMinRamNat DEF Table
    <2>4. FoundReserved(m, i) /\ m[i].base > LastMinRam(m)
        BY DEF Discarded
    <2>5. m[k].base > LastMinRam(m)
        BY <1>2, <2>2, <2>3, <2>4 DEF Entry
    <2>6. FoundReserved(m, k)
        <3>1. \A j \in 1..(i - 1) : j \in 1..(k - 1)
            BY <1>1
        <3> QED BY <2>4, <3>1 DEF FoundReserved
    <2> QED BY <2>5, <2>6 DEF Discarded
<1> QED BY <1>1, <1>3 DEF Table, Ordered

\* The range of a set of entries has all of them, and starts and ends with
\* one of them.
LEMMA RangeHolds ==
    ASSUME NEW m, Table(m), NEW S \in SUBSET (DOMAIN m), S # {}
    PROVE  /\ \A i \in S : /\ RangeOf(m, S).min <= m[i].base
                           /\ End(m[i]) <= RangeOf(m, S).max
           /\ \E i \in S : RangeOf(m, S).min = m[i].base
           /\ \E i \in S : RangeOf(m, S).max = End(m[i])
           /\ RangeOf(m, S).min \in Nat /\ RangeOf(m, S).max \in Nat
<1> DEFINE bases == {m[i].base : i \in S}
           ends == {End(m[i]) : i \in S}
<1>1. \A i \in S : m[i] \in Entry /\ End(m[i]) < Top
    <2>1. DOMAIN m = 1..Len(m)
        BY LenProperties DEF Table
    <2> QED BY <2>1, ElementOfSeq DEF Table, Fits
<1>2. \A i \in S : m[i].base \in Nat /\ End(m[i]) \in 0..Top
    BY <1>1, E820Assumption DEF Entry, End
<1>3. bases \in SUBSET Nat /\ bases # {} /\ ends \in SUBSET (0..Top) /\ ends # {}
    BY <1>2
<1>4. Min(bases) \in bases /\ \A n \in bases : Min(bases) <= n
    BY <1>3, MinIsLeast
<1>5. Max(ends) \in ends /\ \A n \in ends : n <= Max(ends)
    BY <1>3, E820Assumption, MaxIsGreatest
<1>6. RangeOf(m, S) = [min |-> Min(bases), max |-> Max(ends)]
    BY DEF RangeOf
<1>7. \A i \in S : m[i].base \in bases /\ End(m[i]) \in ends
    OBVIOUS
<1>8. /\ \A n \in bases : \E i \in S : n = m[i].base
      /\ \A n \in ends : \E i \in S : n = End(m[i])
    OBVIOUS
<1> HIDE DEF bases, ends
<1>9. RangeOf(m, S).min = Min(bases) /\ RangeOf(m, S).max = Max(ends)
    BY <1>6
<1>10. Min(bases) \in Nat /\ Max(ends) \in Nat
    <2>1. Min(bases) \in Nat
        BY <1>3, <1>4
    <2>2. Max(ends) \in 0..Top
        BY <1>3, <1>5
    <2> QED BY <2>1, <2>2
<1> QED BY <1>4, <1>5, <1>7, <1>8, <1>9, <1>10

\* r is the table m with the entries of D reserved and nothing else changed.
Reserves(m, D, r) ==
    /\ r \in Seq(Entry) /\ DOMAIN r = 1..Len(m) /\ Table(r)
    /\ \A x \in 1..Len(m) :
         /\ r[x].base = m[x].base /\ r[x].len = m[x].len
         /\ r[x].type = IF x \in D THEN "RESERVED" ELSE m[x].type
         /\ End(r[x]) = End(m[x]) /\ \A a : Covers(r[x], a) <=> Covers(m[x], a)

\* That is what e820_reserve_ram makes of the table.
LEMMA ReserveIs ==
    ASSUME NEW m, Table(m), NEW D
    PROVE  Reserves(m, D, ReserveEntries(m, D))
<1> DEFINE r == ReserveEntries(m, D)
<1>1. /\ DOMAIN m = 1..Len(m) /\ Len(m) \in Nat
      /\ \A x \in 1..Len(m) : m[x] \in Entry
    BY LenProperties, ElementOfSeq DEF Table
<1>2. \A x \in 1..Len(m) :
        /\ r[x] \in Entry /\ r[x].base = m[x].base /\ r[x].len = m[x].len
        /\ r[x].type = IF x \in D THEN "RESERVED" ELSE m[x].type
        /\ End(r[x]) = End(m[x]) /\ \A a : Covers(r[x], a) <=> Covers(m[x], a)
    <2> TAKE x \in 1..Len(m)
    <2>1. r[x] = IF x \in D THEN [m[x] EXCEPT !.type = "RESERVED"] ELSE m[x]
        BY <1>1 DEF ReserveEntries
    <2> HIDE DEF r
    <2>2. m[x] \in Entry
        BY <1>1
    <2>3. /\ r[x] \in Entry /\ r[x].base = m[x].base /\ r[x].len = m[x].len
          /\ r[x].type = IF x \in D THEN "RESERVED" ELSE m[x].type
        BY <2>1, <2>2 DEF Entry, Types
    <2> QED BY <2>3 DEF End, Covers
<1>3. r \in Seq(Entry) /\ DOMAIN r = 1..Len(m)
    <2>1. r \in [1..Len(m) -> Entry]
        <3>1. DOMAIN r = 1..Len(m) /\ r = [x \in DOMAIN r |-> r[x]]
            BY <1>1 DEF ReserveEntries
        <3> HIDE DEF r
        <3> QED BY <1>2, <3>1
    <2> HIDE DEF r
    <2> QED BY <1>1, <2>1, SeqDef
<1> HIDE DEF r
<1>4. Table(r)
    BY <1>1, <1>2, <1>3 DEF Table, Ordered, Fits
<1> QED BY <1>2, <1>3, <1>4 DEF r, Reserves

\* The low range has the low RAM that is kept and none that is given up.
LEMMA LowRange ==
    ASSUME NEW m, Table(m),
           NEW low, low = RangeOf(m, LowRam(m) \ Discarded(m)), low.min < low.max
    PROVE  /\ low.min \in Nat /\ low.max \in Nat
           /\ \A x \in LowRam(m) \ Discarded(m) :
                low.min <= m[x].base /\ End(m[x]) <= low.max
           /\ \E x \in LowRam(m) \ Discarded(m) : low.min = m[x].base
           /\ \E x \in LowRam(m) \ Discarded(m) : low.max = End(m[x])
           /\ \A x \in Discarded(m) : low.max <= m[x].base
<1> DEFINE K == LowRam(m) \ Discarded(m)
<1>1. K # {} /\ K \subseteq DOMAIN m
    <2>1. RangeOf(m, {}).min = RangeOf(m, {}).max /\ RangeOf(m, {}).min \in Nat
        BY DEF RangeOf, NoRange
    <2> QED BY <2>1 DEF LowRam
<1>2. /\ low.min \in Nat /\ low.max \in Nat
      /\ \A x \in K : low.min <= m[x].base /\ End(m[x]) <= low.max
      /\ \E x \in K : low.min = m[x].base
      /\ \E x \in K : low.max = End(m[x])
    BY <1>1, RangeHolds
<1> QED BY <1>2, KeptFirst

\* Low RAM ends at or below 4 GB when no region straddles that.
LEMMA LowRamIsLow ==
    ASSUME NEW m, Table(m), \A i \in DOMAIN m : ~Straddles(m[i]),
           NEW x \in LowRam(m)
    PROVE  m[x].type = "RAM" /\ End(m[x]) <= FourG
<1>1. /\ IsRam(m[x]) /\ m[x].base < FourG /\ ~Straddles(m[x]) /\ x \in DOMAIN m
    BY DEF LowRam
<1>2. m[x] \in Entry
    BY <1>1, LenProperties, ElementOfSeq DEF Table
<1>3. ~(End(m[x]) > FourG)
    BY <1>1 DEF Straddles
<1> QED BY <1>1, <1>2, <1>3, E820Assumption DEF IsRam, Entry, End

\* What get_ram_ranges makes of the table: the RAM below 4 GB that is not in
\* the low range becomes reserved, and nothing else changes.
LEMMA ReserveFollows ==
    ASSUME NEW m, Table(m),
           \A i \in DOMAIN m : ~Straddles(m[i]),
           NEW low, low = RangeOf(m, LowRam(m) \ Discarded(m)), low.min < low.max
    PROVE  LET r == ReserveEntries(m, Discarded(m))
           IN  /\ Table(r)
               /\ \A a \in Nat, t \in Types :
                    Has(r, a, t) <=>
                        IF /\ Has(m, a, "RAM") /\ a < FourG
                           /\ ~(low.min <= a /\ a < low.max)
                        THEN t = "RESERVED" ELSE Has(m, a, t)
<1> DEFINE D == Discarded(m)
           K == LowRam(m) \ Discarded(m)
           r == ReserveEntries(m, D)
<1>1. /\ DOMAIN m = 1..Len(m) /\ Len(m) \in Nat
      /\ \A x \in 1..Len(m) : m[x] \in Entry
    BY LenProperties, ElementOfSeq DEF Table
<1>2. D \subseteq LowRam(m) /\ LowRam(m) \subseteq DOMAIN m
    BY DEF Discarded, LowRam
<1>3. \A x \in 1..Len(m) :
        /\ r[x].type = IF x \in D THEN "RESERVED" ELSE m[x].type
        /\ \A a : Covers(r[x], a) <=> Covers(m[x], a)
    <2>1. Reserves(m, D, r)
        BY ReserveIs
    <2> QED BY <2>1 DEF Reserves
<1>4. DOMAIN r = 1..Len(m) /\ Table(r)
    <2>1. Reserves(m, D, r)
        BY ReserveIs
    <2> QED BY <2>1 DEF Reserves
<1>5. Table(r)
    BY <1>4
<1> HIDE DEF r
<1>7. /\ low.min \in Nat /\ low.max \in Nat
      /\ \A x \in K : low.min <= m[x].base /\ End(m[x]) <= low.max
      /\ \A x \in D : low.max <= m[x].base
    BY LowRange
<1>8. \A x \in LowRam(m) : m[x].type = "RAM" /\ End(m[x]) <= FourG
    BY LowRamIsLow
<1>9. ASSUME NEW a \in Nat, NEW t \in Types
      PROVE  Has(r, a, t) <=>
                 IF /\ Has(m, a, "RAM") /\ a < FourG
                    /\ ~(low.min <= a /\ a < low.max)
                 THEN t = "RESERVED" ELSE Has(m, a, t)
    <2>1. CASE \A x \in 1..Len(m) : ~Covers(m[x], a)
        BY <1>1, <1>3, <1>4, <2>1 DEF Has
    <2>2. ASSUME NEW x \in 1..Len(m), Covers(m[x], a)
          PROVE  Has(r, a, t) <=>
                     IF /\ Has(m, a, "RAM") /\ a < FourG
                        /\ ~(low.min <= a /\ a < low.max)
                     THEN t = "RESERVED" ELSE Has(m, a, t)
        <3>1. \A y \in 1..Len(m) : Covers(m[y], a) => y = x
            BY <1>1, <2>2, CoversOnce DEF Table
        <3>2. \A u : Has(m, a, u) <=> m[x].type = u
            BY <1>1, <2>2, <3>1 DEF Has
        <3>3. Has(r, a, t) <=> r[x].type = t
            BY <1>3, <1>4, <2>2, <3>1 DEF Has
        <3>4. /\ m[x].base \in Nat /\ End(m[x]) \in Nat
              /\ m[x].base <= a /\ a < End(m[x])
            BY <1>1, <2>2 DEF Entry, End, Covers
        <3>5. CASE x \in D
            <4>1. m[x].type = "RAM" /\ End(m[x]) <= FourG /\ low.max <= m[x].base
                BY <1>2, <1>7, <1>8, <3>5
            <4>2. a < FourG /\ ~(a < low.max)
                BY <1>7, <3>4, <4>1, E820Assumption
            <4> QED BY <1>3, <3>2, <3>3, <3>5, <4>1, <4>2
        <3>6. CASE x \notin D /\ m[x].type = "RAM" /\ a < FourG
            <4>1. m[x].base < FourG
                BY <3>4, <3>6, E820Assumption
            <4>2. x \in K
                BY <1>1, <3>6, <4>1 DEF LowRam, IsRam
            <4>3. low.min <= a /\ a < low.max
                <5>1. low.min <= m[x].base /\ End(m[x]) <= low.max
                    BY <1>7, <4>2
                <5> QED BY <1>7, <3>4, <5>1
            <4> QED BY <1>3, <3>2, <3>3, <3>6, <4>3
        <3>7. CASE x \notin D /\ ~(m[x].type = "RAM" /\ a < FourG)
            BY <1>3, <3>2, <3>3, <3>7
        <3> QED BY <3>5, <3>6, <3>7
    <2> QED BY <2>1, <2>2
<1> QED BY <1>5, <1>9 DEF r

-----------------------------------------------------------------------------
(* The specification *)

\* The table is in order and says of every address what memory says.
Agrees(m, mem) ==
    /\ Table(m)
    /\ \A a \in Addresses, t \in Types : Has(m, a, t) <=> mem[a] = t

\* The inductive invariant.
MapInv ==
    /\ raw \in Seq(Entry)
    /\ memory \in [Addresses -> Types \cup {"GAP"}]
    /\ stage = "copy" /\ raw = << >> => e820 = << >>
    /\ lowestFirst \in BOOLEAN
    /\ stage # "failed" /\ lowestFirst => Agrees(e820, memory)

\* A region of the loader or the log is an entry whose sums can only wrap
\* in protect_region.
LEMMA RegionIs ==
    ASSUME NEW b \in Addresses, NEW l \in 0..(Top - 1), NEW t \in Types
    PROVE  /\ Region(b, l, t) \in Entry
           /\ Region(b, l, t).base = b /\ Region(b, l, t).len = l
           /\ Region(b, l, t).type = t
           /\ b < Top /\ l < Top
BY E820Assumption DEF Region, Entry, Addresses

\* Painting a region keeps memory a map of types.
LEMMA PaintIs ==
    ASSUME NEW mem \in [Addresses -> Types \cup {"GAP"}], NEW new \in Entry
    PROVE  /\ Paint(mem, new) \in [Addresses -> Types \cup {"GAP"}]
           /\ \A a \in Addresses :
                Paint(mem, new)[a] = IF Covers(new, a) THEN new.type ELSE mem[a]
BY DEF Paint, Entry

\* A call of protect_region that succeeds keeps table and memory in agreement.
LEMMA ProtectAgrees ==
    ASSUME NEW m, NEW mem \in [Addresses -> Types \cup {"GAP"}], Agrees(m, mem),
           NEW new \in Entry, new.base < Top, new.len < Top,
           m # << >> /\ new.len > 0 => new.base > m[1].base,
           ProtectRegion(m, new).ok
    PROVE  Agrees(ProtectRegion(m, new).map, Paint(mem, new))
<1> DEFINE r == ProtectRegion(m, new).map
<1>1. Table(m)
    BY DEF Agrees
<1>2. /\ Table(r)
      /\ \A a \in Nat, t \in Types :
           Has(r, a, t) <=> IF Covers(new, a) THEN t = new.type ELSE Has(m, a, t)
    BY <1>1, ProtectFollows
<1> HIDE DEF r
<1>3. ASSUME NEW a \in Addresses, NEW t \in Types
      PROVE  Has(r, a, t) <=> Paint(mem, new)[a] = t
    <2>1. a \in Nat
        BY E820Assumption DEF Addresses
    <2>2. Paint(mem, new)[a] = IF Covers(new, a) THEN new.type ELSE mem[a]
        BY PaintIs
    <2>3. Has(m, a, t) <=> mem[a] = t
        BY DEF Agrees
    <2> QED BY <1>2, <2>1, <2>2, <2>3
<1> QED BY <1>2, <1>3 DEF Agrees, r

\* The same of the step that makes the call.
LEMMA ProtectStep ==
    ASSUME MapInv, stage # "failed", NEW new \in Entry, new.base < Top, new.len < Top,
           NEW next, Protect(new, next)
    PROVE  /\ memory' \in [Addresses -> Types \cup {"GAP"}]
           /\ lowestFirst' \in BOOLEAN
           /\ stage' # "failed" /\ lowestFirst' => Agrees(e820', memory')
           /\ stage' \in {next, "failed"}
<1>1. /\ e820' = ProtectRegion(e820, new).map
      /\ memory' = Paint(memory, new)
      /\ stage' = IF ProtectRegion(e820, new).ok THEN next ELSE "failed"
      /\ lowestFirst' =
           (lowestFirst /\ (e820 # << >> /\ new.len > 0 => new.base > e820[1].base))
    BY DEF Protect
<1>2. /\ memory \in [Addresses -> Types \cup {"GAP"}]
      /\ lowestFirst => Agrees(e820, memory)
    BY DEF MapInv
<1>3. ProtectRegion(e820, new).ok /\ lowestFirst' => Agrees(e820', memory')
    BY <1>1, <1>2, ProtectAgrees
<1>4. lowestFirst' \in BOOLEAN
    BY <1>1
<1> QED BY <1>1, <1>2, <1>3, <1>4, PaintIs

\* Painting the loader's two limits keeps memory a map of types.
LEMMA LimitsPaint ==
    ASSUME NEW lower \in 0..OneM, NEW upper \in 0..(Top - 1),
           NEW mem \in [Addresses -> Types \cup {"GAP"}]
    PROVE  Paint(Paint(mem, Region(0, lower, "RAM")), Region(OneM, upper, "RAM"))
               \in [Addresses -> Types \cup {"GAP"}]
<1>1. /\ 0 \in Addresses /\ OneM \in Addresses /\ "RAM" \in Types
      /\ lower \in 0..(Top - 1)
    BY E820Assumption DEF Addresses, Types
<1>2. Region(0, lower, "RAM") \in Entry /\ Region(OneM, upper, "RAM") \in Entry
    BY <1>1, RegionIs
<1> QED BY <1>2, PaintIs

\* The map that stands for the loader's two limits.
LEMMA LimitsAgree ==
    ASSUME NEW lower \in 0..OneM, NEW upper \in 0..(Top - 1), OneM + upper < Top,
           NEW mem \in [Addresses -> Types \cup {"GAP"}], Agrees(<< >>, mem)
    PROVE  LET low == Region(0, lower, "RAM")
               high == Region(OneM, upper, "RAM")
           IN  /\ Paint(Paint(mem, low), high) \in [Addresses -> Types \cup {"GAP"}]
               /\ Agrees(<<low, high>>, Paint(Paint(mem, low), high))
<1> DEFINE low == Region(0, lower, "RAM")
           high == Region(OneM, upper, "RAM")
           m == <<low, high>>
           one == Paint(mem, low)
           two == Paint(one, high)
<1>1. /\ OneM \in Nat /\ Top \in Nat /\ OneM < Top /\ lower \in Nat /\ upper \in Nat
      /\ lower <= OneM
    BY E820Assumption
<1>2. /\ low \in Entry /\ low.base = 0 /\ End(low) = lower /\ low.type = "RAM"
      /\ high \in Entry /\ high.base = OneM /\ End(high) = OneM + upper
      /\ high.type = "RAM"
    BY <1>1 DEF Region, Entry, Types, End
<1> HIDE DEF low, high
<1>3. /\ m \in Seq(Entry) /\ DOMAIN m = 1..2 /\ m[1] = low /\ m[2] = high
    BY <1>2
<1> HIDE DEF m
<1>4. \A x \in 1..2 : x = 1 \/ x = 2
    OBVIOUS
<1>5. Table(m)
    <2>1. Ordered(m)
        BY <1>1, <1>2, <1>3, <1>4 DEF Ordered
    <2>2. Fits(m)
        BY <1>1, <1>2, <1>3, <1>4 DEF Fits
    <2> QED BY <1>3, <2>1, <2>2 DEF Table
<1>6. /\ one \in [Addresses -> Types \cup {"GAP"}]
      /\ \A a \in Addresses : one[a] = IF Covers(low, a) THEN low.type ELSE mem[a]
    BY <1>2, PaintIs
<1> HIDE DEF one
<1>7. /\ two \in [Addresses -> Types \cup {"GAP"}]
      /\ \A a \in Addresses : two[a] = IF Covers(high, a) THEN high.type ELSE one[a]
    BY <1>2, <1>6, PaintIs
<1> HIDE DEF two
<1>8. ASSUME NEW a \in Addresses, NEW t \in Types
      PROVE  Has(m, a, t) <=> two[a] = t
    <2>1. mem[a] # t
        <3>1. ~Has(<< >>, a, t)
            BY DEF Has
        <3> QED BY <3>1 DEF Agrees
    <2>2. Has(m, a, t) <=> (Covers(low, a) \/ Covers(high, a)) /\ t = "RAM"
        <3>1. 1 \in DOMAIN m /\ 2 \in DOMAIN m
            BY <1>3
        <3> QED BY <1>2, <1>3, <1>4, <3>1 DEF Has
    <2> QED BY <1>2, <1>6, <1>7, <2>1, <2>2
<1> QED BY <1>5, <1>7, <1>8 DEF Agrees, m, one, two, low, high

\* get_ram_ranges keeps table and memory in agreement.
LEMMA RangesAgree ==
    ASSUME MapInv, stage # "failed", lowestFirst, GetRamRanges
    PROVE  /\ memory' \in [Addresses -> Types \cup {"GAP"}]
           /\ stage' # "failed" => Agrees(e820', memory')
           /\ stage' # "copy"
<1> DEFINE low == RangeOf(e820, LowRam(e820) \ Discarded(e820))
           ok == /\ \A i \in DOMAIN e820 : ~Straddles(e820[i])
                 /\ low.min < low.max
<1>1. memory \in [Addresses -> Types \cup {"GAP"}] /\ Agrees(e820, memory)
    BY DEF MapInv
<1>2. CASE ok
    <2>1. /\ e820' = ReserveEntries(e820, Discarded(e820))
          /\ memory' = [a \in Addresses |->
                IF memory[a] = "RAM" /\ a < FourG /\ ~(low.min <= a /\ a < low.max)
                THEN "RESERVED" ELSE memory[a]]
          /\ stage' = "launched"
        BY <1>2 DEF GetRamRanges
    <2>2. /\ Table(e820')
          /\ \A a \in Nat, t \in Types :
               Has(e820', a, t) <=>
                   IF /\ Has(e820, a, "RAM") /\ a < FourG
                      /\ ~(low.min <= a /\ a < low.max)
                   THEN t = "RESERVED" ELSE Has(e820, a, t)
        <3>1. Table(e820) /\ (\A i \in DOMAIN e820 : ~Straddles(e820[i])) /\ low.min < low.max
            BY <1>1, <1>2 DEF Agrees
        <3>2. low = RangeOf(e820, LowRam(e820) \ Discarded(e820))
            OBVIOUS
        <3> HIDE DEF low
        <3> QED BY <2>1, <3>1, <3>2, ReserveFollows
    <2> HIDE DEF low
    <2>3. ASSUME NEW a \in Addresses, NEW t \in Types
          PROVE  Has(e820', a, t) <=> memory'[a] = t
        <3>1. a \in Nat /\ "RAM" \in Types
            BY E820Assumption DEF Addresses, Types
        <3>2. /\ Has(e820, a, "RAM") <=> memory[a] = "RAM"
              /\ Has(e820, a, t) <=> memory[a] = t
            BY <1>1, <3>1 DEF Agrees
        <3>3. memory'[a] =
                IF memory[a] = "RAM" /\ a < FourG /\ ~(low.min <= a /\ a < low.max)
                THEN "RESERVED" ELSE memory[a]
            BY <2>1
        <3> QED BY <2>2, <3>1, <3>2, <3>3
    <2>4. memory' \in [Addresses -> Types \cup {"GAP"}]
        BY <1>1, <2>1 DEF Types
    <2> QED BY <2>1, <2>2, <2>3, <2>4 DEF Agrees
<1>3. CASE ~ok
    <2>1. stage' = "failed" /\ memory' = memory
        BY <1>3 DEF GetRamRanges
    <2> QED BY <1>1, <2>1
<1> QED BY <1>2, <1>3

\* Agreement is what MapFollows says.
LEMMA AgreesFollows ==
    ASSUME MapInv
    PROVE  MapFollows
<1> SUFFICES ASSUME stage # "failed", lowestFirst
             PROVE  Ordered(e820) /\ \A a \in Addresses : TypeAt(e820, a) = memory[a]
    BY DEF MapFollows, Follows
<1>1. Agrees(e820, memory) /\ memory \in [Addresses -> Types \cup {"GAP"}]
    BY DEF MapInv
<1>2. e820 \in Seq(Entry) /\ Ordered(e820)
    BY <1>1 DEF Agrees, Table
<1>3. ASSUME NEW a \in Addresses
      PROVE  TypeAt(e820, a) = memory[a]
    <2>1. a \in Nat
        BY E820Assumption DEF Addresses
    <2>2. CASE memory[a] \in Types
        <3>1. Has(e820, a, memory[a])
            BY <1>1, <2>2 DEF Agrees
        <3> QED BY <1>2, <2>1, <3>1, TypeAtHas
    <2>3. CASE memory[a] = "GAP"
        <3>1. \A t \in Types : ~Has(e820, a, t)
            BY <1>1, <2>3 DEF Agrees, Types
        <3>2. \A t : Has(e820, a, t) => t \in Types
            <4>1. \A i \in DOMAIN e820 : e820[i].type \in Types
                <5>1. \A i \in DOMAIN e820 : i \in 1..Len(e820) /\ e820[i] \in Entry
                    BY <1>2, LenProperties, ElementOfSeq
                <5> QED BY <5>1 DEF Entry
            <4> QED BY <4>1 DEF Has
        <3>3. \A t : ~Has(e820, a, t)
            BY <3>1, <3>2
        <3> QED BY <1>2, <2>1, <2>3, <3>3, TypeAtHas
    <2> QED BY <1>1, <2>2, <2>3
<1> QED BY <1>2, <1>3

LEMMA MapInvInit == Init => MapInv
<1> SUFFICES ASSUME Init
             PROVE  MapInv
    OBVIOUS
<1>1. /\ raw = << >> /\ e820 = << >> /\ memory = [a \in Addresses |-> "GAP"]
      /\ lowestFirst = TRUE
    BY DEF Init
<1>2. << >> \in Seq(Entry) /\ DOMAIN << >> = {}
    OBVIOUS
<1>3. Table(<< >>)
    BY <1>2 DEF Table, Ordered, Fits
<1>4. \A a \in Addresses, t \in Types : ~Has(<< >>, a, t) /\ memory[a] # t
    BY <1>1, <1>2 DEF Has, Types
<1>5. memory \in [Addresses -> Types \cup {"GAP"}]
    BY <1>1
<1> QED BY <1>1, <1>2, <1>3, <1>4, <1>5 DEF MapInv, Agrees

LEMMA MapInvStep ==
    ASSUME MapInv, [Next]_vars
    PROVE  MapInv'
<1>1. raw \in Seq(Entry) /\ memory \in [Addresses -> Types \cup {"GAP"}]
    BY DEF MapInv
<1>2. ASSUME NEW b \in Addresses, NEW l \in Sizes, NEW t \in Types,
             CopyEntry(Region(b, l, t))
      PROVE  MapInv'
    <2> DEFINE new == Region(b, l, t)
    <2>1. new \in Entry /\ new.base < Top /\ new.len < Top
        <3>1. l \in 0..(Top - 1)
            BY E820Assumption
        <3> QED BY <3>1, RegionIs
    <2> HIDE DEF new
    <2>2. stage = "copy" /\ Protect(new, "copy") /\ raw' = Append(raw, new)
        BY <1>2 DEF CopyEntry, new
    <2>3. /\ memory' \in [Addresses -> Types \cup {"GAP"}]
          /\ lowestFirst' \in BOOLEAN
          /\ stage' # "failed" /\ lowestFirst' => Agrees(e820', memory')
        BY <2>1, <2>2, ProtectStep
    <2>4. raw' \in Seq(Entry) /\ raw' # << >>
        BY <1>1, <2>1, <2>2, AppendProperties
    <2> QED BY <2>3, <2>4 DEF MapInv
<1>3. CASE CopyEnds
    BY <1>3 DEF CopyEnds, MapInv
<1>4. ASSUME NEW lower \in 0..OneM, NEW upper \in Sizes, OneM + upper < Top,
             CopyLimits(lower, upper)
      PROVE  MapInv'
    <2>1. upper \in 0..(Top - 1)
        BY E820Assumption
    <2>2. /\ stage = "copy" /\ raw = << >> /\ raw' = raw /\ stage' = "copied"
          /\ lowestFirst' = lowestFirst /\ lowestFirst \in BOOLEAN
          /\ e820' = <<Region(0, lower, "RAM"), Region(OneM, upper, "RAM")>>
          /\ memory' = Paint(Paint(memory, Region(0, lower, "RAM")), Region(OneM, upper, "RAM"))
        BY <1>4 DEF CopyLimits, MapInv
    <2>3. lowestFirst => Agrees(<< >>, memory)
        BY <2>2 DEF MapInv
    <2>4. /\ memory' \in [Addresses -> Types \cup {"GAP"}]
          /\ lowestFirst => Agrees(e820', memory')
        <3>1. CASE lowestFirst
            BY <1>1, <1>4, <2>1, <2>2, <2>3, <3>1, LimitsAgree
        <3>2. CASE ~lowestFirst
            BY <1>1, <2>1, <2>2, <3>2, LimitsPaint
        <3> QED BY <3>1, <3>2
    <2> QED BY <1>1, <2>2, <2>4 DEF MapInv
<1>5. ASSUME NEW r \in LogRegions, ReserveLog(r)
      PROVE  MapInv'
    <2> DEFINE new == Region(r.base, r.len, "RESERVED")
    <2>1. new \in Entry /\ new.base < Top /\ new.len < Top /\ new.base = r.base
        <3>1. r.base \in Addresses /\ r.len \in 0..(Top - 1) /\ "RESERVED" \in Types
            BY E820Assumption DEF Addresses, Types
        <3> QED BY <3>1, RegionIs
    <2> HIDE DEF new
    <2>2. stage = "copied" /\ Protect(new, "logged") /\ raw' = raw
        BY <1>5 DEF ReserveLog, new
    <2>3. /\ memory' \in [Addresses -> Types \cup {"GAP"}]
          /\ lowestFirst' \in BOOLEAN
          /\ stage' # "failed" /\ lowestFirst' => Agrees(e820', memory')
          /\ stage' \in {"logged", "failed"}
        BY <2>1, <2>2, ProtectStep
    <2> QED BY <1>1, <2>2, <2>3 DEF MapInv
<1>6. CASE NoLog
    BY <1>6 DEF NoLog, MapInv
<1>7. CASE HandOver
    BY <1>7 DEF HandOver, MapInv
<1>8. CASE GetRamRanges
    <2>1. /\ stage = "handed" /\ raw' = raw
          /\ lowestFirst' = lowestFirst /\ lowestFirst \in BOOLEAN
        BY <1>8 DEF GetRamRanges, MapInv
    <2>2. stage' # "copy"
        BY <1>8 DEF GetRamRanges
    <2>3. CASE lowestFirst
        <3>1. /\ memory' \in [Addresses -> Types \cup {"GAP"}]
              /\ stage' # "failed" => Agrees(e820', memory')
            BY <1>8, <2>1, <2>3, RangesAgree
        <3> QED BY <1>1, <2>1, <2>2, <3>1 DEF MapInv
    <2>4. CASE ~lowestFirst
        <3>1. memory' \in [Addresses -> Types \cup {"GAP"}]
            BY <1>1, <1>8 DEF GetRamRanges, Types
        <3> QED BY <1>1, <2>1, <2>2, <2>4, <3>1 DEF MapInv
    <2> QED BY <2>3, <2>4
<1>9. CASE UNCHANGED vars
    BY <1>9 DEF vars, MapInv
<1> QED BY <1>2, <1>3, <1>4, <1>5, <1>6, <1>7, <1>8, <1>9 DEF Next

\* Until a call fails or a region is put at or below the table's first entry,
\* the table of copy_e820_map, protect_region and e820_reserve_ram is in order
\* and says of every address what the calls so far ask of it, for any number
\* of regions, however they overlap.
THEOREM MapAlwaysFollows == Spec => []MapFollows
<1>1. Init => MapInv
    BY MapInvInit
<1>2. MapInv /\ [Next]_vars => MapInv'
    BY MapInvStep
<1>3. MapInv => MapFollows
    BY AgreesFollows
<1> QED BY <1>1, <1>2, <1>3, PTL DEF Spec

-----------------------------------------------------------------------------
(* The ranges *)

\* The RAM regions of min_ram bytes, in front of the first over 4 GB.
MinRamFits(m) ==
    {i \in DOMAIN m : /\ IsRam(m[i]) /\ min_ram <= m[i].len
                      /\ \A j \in 1..i : IsRam(m[j]) => End(m[j]) <= FourG}

\* LastMinRam is the base of the last of them.
LEMMA LastMinRamIs ==
    ASSUME NEW m \in Seq(Entry)
    PROVE  /\ min_ram > 0 /\ MinRamFits(m) # {} =>
                 /\ Max(MinRamFits(m)) \in MinRamFits(m)
                 /\ \A i \in MinRamFits(m) : i <= Max(MinRamFits(m))
                 /\ LastMinRam(m) = m[Max(MinRamFits(m))].base
           /\ ~(min_ram > 0 /\ MinRamFits(m) # {}) => LastMinRam(m) = 0
<1> DEFINE fits == MinRamFits(m)
<1>1. DOMAIN m = 1..Len(m) /\ Len(m) \in Nat
    BY LenProperties
<1>2. fits \in SUBSET (0..Len(m))
    BY <1>1 DEF MinRamFits
<1>3. CASE min_ram > 0 /\ fits # {}
    <2>1. Max(fits) \in fits /\ \A i \in fits : i <= Max(fits)
        BY <1>1, <1>2, <1>3, MaxIsGreatest
    <2>2. LastMinRam(m) = m[Max(fits)].base
        BY <1>3 DEF LastMinRam, HighestSizedRam, MinRamFits
    <2> QED BY <1>3, <2>1, <2>2
<1>4. CASE ~(min_ram > 0 /\ fits # {})
    BY <1>4 DEF LastMinRam, HighestSizedRam, MinRamFits
<1> QED BY <1>3, <1>4

\* What get_ram_ranges reserves does not change which region that is.
LEMMA SameMinRam ==
    ASSUME NEW m, Table(m), \A i \in DOMAIN m : ~Straddles(m[i])
    PROVE  LastMinRam(ReserveEntries(m, Discarded(m))) = LastMinRam(m)
<1> DEFINE D == Discarded(m)
           r == ReserveEntries(m, D)
<1>1. /\ m \in Seq(Entry) /\ DOMAIN m = 1..Len(m) /\ Len(m) \in Nat
      /\ \A x \in 1..Len(m) : m[x] \in Entry
    BY LenProperties, ElementOfSeq DEF Table
<1>2. Reserves(m, D, r)
    BY ReserveIs
<1>3. D \subseteq LowRam(m) /\ LowRam(m) \subseteq 1..Len(m)
    BY <1>1 DEF Discarded, LowRam
<1>4. \A x \in D : m[x].type = "RAM" /\ End(m[x]) <= FourG
    BY <1>3, LowRamIsLow
<1>5. \A x \in D : m[x].base > LastMinRam(m)
    BY DEF Discarded
<1> HIDE DEF r, D
<1>6. \A x \in 1..Len(m) : IsRam(r[x]) <=> IsRam(m[x]) /\ x \notin D
    BY <1>2, <1>4 DEF Reserves, IsRam
<1>7. /\ r \in Seq(Entry) /\ DOMAIN r = 1..Len(m)
      /\ \A x \in 1..Len(m) :
           r[x].base = m[x].base /\ r[x].len = m[x].len /\ End(r[x]) = End(m[x])
    BY <1>2 DEF Reserves
<1>8. ASSUME NEW i \in MinRamFits(r)
      PROVE  i \in MinRamFits(m)
    <2>1. /\ i \in 1..Len(m) /\ IsRam(r[i]) /\ min_ram <= r[i].len
          /\ \A j \in 1..i : IsRam(r[j]) => End(r[j]) <= FourG
        BY <1>7 DEF MinRamFits
    <2>2. \A j \in 1..i : j \in 1..Len(m)
        BY <1>1, <2>1
    <2>3. \A j \in 1..i : IsRam(m[j]) => End(m[j]) <= FourG
        BY <1>4, <1>6, <1>7, <2>1, <2>2
    <2>4. IsRam(m[i]) /\ min_ram <= m[i].len
        BY <1>6, <1>7, <2>1
    <2> QED BY <1>1, <2>1, <2>3, <2>4 DEF MinRamFits
<1>9. ASSUME NEW i \in MinRamFits(m), i \notin D
      PROVE  i \in MinRamFits(r)
    <2>1. /\ i \in 1..Len(m) /\ IsRam(m[i]) /\ min_ram <= m[i].len
          /\ \A j \in 1..i : IsRam(m[j]) => End(m[j]) <= FourG
        BY <1>1 DEF MinRamFits
    <2>2. \A j \in 1..i : j \in 1..Len(m)
        BY <1>1, <2>1
    <2>3. \A j \in 1..i : IsRam(r[j]) => End(r[j]) <= FourG
        BY <1>6, <1>7, <2>1, <2>2
    <2>4. IsRam(r[i]) /\ min_ram <= r[i].len
        BY <1>6, <1>7, <1>9, <2>1
    <2> QED BY <1>7, <2>1, <2>3, <2>4 DEF MinRamFits
<1>10. CASE min_ram > 0 /\ MinRamFits(m) # {}
    <2> DEFINE k == Max(MinRamFits(m))
               l == Max(MinRamFits(r))
    <2>1. /\ k \in MinRamFits(m) /\ LastMinRam(m) = m[k].base
          /\ \A i \in MinRamFits(m) : i <= k
        BY <1>1, <1>10, LastMinRamIs
    <2> HIDE DEF k
    <2>2. k \in 1..Len(m) /\ m[k].base \in Nat
        BY <1>1, <2>1 DEF MinRamFits, Entry
    <2>3. k \in MinRamFits(r)
        <3>1. k \notin D
            BY <1>5, <2>1, <2>2
        <3> QED BY <1>9, <2>1, <3>1
    <2>4. /\ l \in MinRamFits(r) /\ LastMinRam(r) = r[l].base
          /\ \A i \in MinRamFits(r) : i <= l
        BY <1>7, <1>10, <2>3, LastMinRamIs
    <2> HIDE DEF l
    <2>5. l \in 1..Len(m) /\ l <= k /\ k <= l
        BY <1>7, <1>8, <2>1, <2>3, <2>4 DEF MinRamFits
    <2>6. l = k
        BY <2>2, <2>5
    <2> QED BY <1>7, <2>1, <2>2, <2>4, <2>6 DEF r, D
<1>11. CASE ~(min_ram > 0 /\ MinRamFits(m) # {})
    <2>1. ~(min_ram > 0 /\ MinRamFits(r) # {})
        BY <1>8, <1>11
    <2>2. LastMinRam(m) = 0 /\ LastMinRam(r) = 0
        BY <1>1, <1>7, <1>11, <2>1, LastMinRamIs
    <2> QED BY <2>2 DEF r, D
<1> QED BY <1>10, <1>11

\* RAM that the table still lists is in one of the two ranges, and a reserved
\* address in the low one is below the region of min_ram bytes.
LEMMA RangesGuard ==
    ASSUME NEW m, Table(m), \A i \in DOMAIN m : ~Straddles(m[i]),
           NEW low, low = RangeOf(m, LowRam(m) \ Discarded(m)), low.min < low.max,
           NEW high, high = RangeOf(m, HighRam(m)),
           NEW a \in Nat
    PROVE  LET r == ReserveEntries(m, Discarded(m))
           IN  /\ Has(r, a, "RAM") =>
                    IF a < FourG THEN low.min <= a /\ a < low.max
                                 ELSE high.min <= a /\ a < high.max
               /\ OneM <= a /\ low.min <= a /\ a < low.max /\ Has(r, a, "RESERVED") =>
                    a < LastMinRam(r)
<1> DEFINE D == Discarded(m)
           K == LowRam(m) \ Discarded(m)
           r == ReserveEntries(m, D)
<1>1. /\ m \in Seq(Entry) /\ DOMAIN m = 1..Len(m) /\ Len(m) \in Nat
      /\ \A x \in 1..Len(m) : m[x] \in Entry
    BY LenProperties, ElementOfSeq DEF Table
<1>2. /\ D \subseteq LowRam(m) /\ LowRam(m) \subseteq 1..Len(m)
      /\ HighRam(m) \subseteq 1..Len(m)
    BY <1>1 DEF Discarded, LowRam, HighRam
<1>3. Reserves(m, D, r)
    BY ReserveIs
<1>4. LastMinRam(r) = LastMinRam(m) /\ LastMinRam(m) \in Nat
    BY <1>1, SameMinRam, LastMinRamNat
<1>5. /\ low.min \in Nat /\ low.max \in Nat
      /\ \A x \in K : low.min <= m[x].base /\ End(m[x]) <= low.max
      /\ \E x \in K : low.min = m[x].base
      /\ \E x \in K : low.max = End(m[x])
      /\ \A x \in D : low.max <= m[x].base
    BY LowRange
<1> HIDE DEF r
<1>6. ASSUME Has(r, a, "RAM")
      PROVE  IF a < FourG THEN low.min <= a /\ a < low.max
                          ELSE high.min <= a /\ a < high.max
    <2>1. PICK x \in 1..Len(m) : Covers(r[x], a) /\ r[x].type = "RAM"
        BY <1>3, <1>6 DEF Has, Reserves
    <2>2. Covers(m[x], a) /\ m[x].type = "RAM" /\ x \notin D
        BY <1>3, <2>1 DEF Reserves
    <2>3. /\ m[x].base \in Nat /\ End(m[x]) \in Nat
          /\ m[x].base <= a /\ a < End(m[x])
        BY <1>1, <2>2 DEF Entry, End, Covers
    <2>4. CASE a < FourG
        <3>1. m[x].base < FourG
            BY <2>3, <2>4, E820Assumption
        <3>2. x \in K
            BY <1>1, <2>2, <3>1 DEF LowRam, IsRam
        <3>3. low.min <= m[x].base /\ End(m[x]) <= low.max
            BY <1>5, <3>2
        <3> QED BY <1>5, <2>3, <2>4, <3>3
    <2>5. CASE ~(a < FourG)
        <3>1. End(m[x]) > FourG
            BY <2>3, <2>5, E820Assumption
        <3>2. x \in HighRam(m)
            BY <1>1, <2>2, <3>1 DEF HighRam, IsRam
        <3>3. /\ high.min <= m[x].base /\ End(m[x]) <= high.max
              /\ high.min \in Nat /\ high.max \in Nat
            <4>1. HighRam(m) \in SUBSET (DOMAIN m) /\ HighRam(m) # {}
                BY <1>1, <1>2, <3>2
            <4> QED BY <3>2, <4>1, RangeHolds
        <3> QED BY <2>3, <2>5, <3>3
    <2> QED BY <2>4, <2>5
<1>7. ASSUME OneM <= a, low.min <= a, a < low.max, Has(r, a, "RESERVED")
      PROVE  a < LastMinRam(r)
    <2>1. PICK x \in 1..Len(m) : Covers(r[x], a) /\ r[x].type = "RESERVED"
        BY <1>3, <1>7 DEF Has, Reserves
    <2>2. Covers(m[x], a) /\ (x \in D \/ m[x].type = "RESERVED")
        BY <1>3, <2>1 DEF Reserves
    <2>3. /\ m[x].base \in Nat /\ End(m[x]) \in Nat
          /\ m[x].base <= a /\ a < End(m[x])
        BY <1>1, <2>2 DEF Entry, End, Covers
    <2>4. m[x].type = "RESERVED" /\ ~IsRam(m[x])
        <3>1. x \notin D
            <4>1. x \in D => low.max <= m[x].base
                BY <1>5
            <4> QED BY <1>5, <1>7, <2>3, <4>1
        <3> QED BY <2>2, <3>1 DEF IsRam
    <2>5. PICK k \in K : low.max = End(m[k])
        BY <1>5
    <2>6. PICK j \in K : low.min = m[j].base
        BY <1>5
    <2>7. /\ k \in 1..Len(m) /\ j \in 1..Len(m) /\ k \in LowRam(m) /\ j \in LowRam(m)
          /\ k # x /\ j # x /\ m[k] \in Entry /\ m[j] \in Entry
        BY <1>1, <1>2, <2>4 DEF LowRam
    <2>8. x < k
        <3>1. ~(k < x)
            <4>1. k < x => End(m[k]) <= m[x].base
                BY <1>1, <2>7 DEF Table, Ordered
            <4> QED BY <1>5, <1>7, <2>3, <2>5, <4>1
        <3> QED BY <2>7, <3>1
    <2>9. j < x
        <3>1. ~(x < j)
            <4>1. x < j => End(m[x]) <= m[j].base
                BY <1>1, <2>7 DEF Table, Ordered
            <4> QED BY <1>5, <1>7, <2>3, <2>6, <4>1
        <3> QED BY <2>7, <3>1
    <2>10. FoundReserved(m, k)
        <3>1. x \in 1..(k - 1) /\ j \in 1..(x - 1)
            BY <2>7, <2>8, <2>9
        <3>2. End(m[x]) > OneM
            BY <1>7, <2>3, E820Assumption
        <3> QED BY <2>4, <2>7, <3>1, <3>2 DEF FoundReserved
    <2>11. ~(m[k].base > LastMinRam(m))
        BY <2>7, <2>10 DEF Discarded
    <2>12. End(m[x]) <= m[k].base /\ m[k].base \in Nat
        BY <1>1, <2>7, <2>8 DEF Table, Ordered, Entry
    <2> QED BY <1>4, <2>3, <2>11, <2>12
<1> QED BY <1>6, <1>7 DEF r

\* The step that works out the ranges.
LEMMA RangesStep ==
    ASSUME MapInv, stage # "failed", GetRamRanges
    PROVE  RangesGuardRam'
<1> SUFFICES ASSUME stage' = "launched", lowestFirst
             PROVE  RangesGuardRam'
    BY DEF RangesGuardRam, GetRamRanges
<1> DEFINE low == RangeOf(e820, LowRam(e820) \ Discarded(e820))
           high == RangeOf(e820, HighRam(e820))
           r == ReserveEntries(e820, Discarded(e820))
<1>1. /\ \A i \in DOMAIN e820 : ~Straddles(e820[i])
      /\ low.min < low.max
      /\ e820' = r /\ lo' = low /\ hi' = high /\ min_ram' = min_ram
    BY DEF GetRamRanges
<1>2. Table(e820)
    BY DEF MapInv, Agrees
<1>3. Table(r)
    <2>1. Reserves(e820, Discarded(e820), r)
        BY <1>2, ReserveIs
    <2> QED BY <2>1 DEF Reserves
<1>4. \A a \in Nat :
        /\ Has(r, a, "RAM") =>
             IF a < FourG THEN low.min <= a /\ a < low.max
                          ELSE high.min <= a /\ a < high.max
        /\ OneM <= a /\ low.min <= a /\ a < low.max /\ Has(r, a, "RESERVED") =>
             a < LastMinRam(r)
    BY <1>1, <1>2, RangesGuard
<1> HIDE DEF low, high, r
<1>5. \A a \in Nat, t \in Types : TypeAt(r, a) = t => Has(r, a, t)
    BY <1>3, TypeAtHas DEF Table
<1>6. LastMinRam(e820)' = LastMinRam(r)
    BY <1>1 DEF LastMinRam, HighestSizedRam
<1>7. ASSUME NEW a \in Addresses, TypeAt(r, a) = "RAM"
      PROVE  IF a < FourG THEN low.min <= a /\ a < low.max
                          ELSE high.min <= a /\ a < high.max
    <2>1. a \in Nat /\ "RAM" \in Types
        BY E820Assumption DEF Addresses, Types
    <2> QED BY <1>4, <1>5, <1>7, <2>1
<1>8. ASSUME NEW a \in OneM..(low.max - 1), low.min <= a, TypeAt(r, a) = "RESERVED"
      PROVE  a < LastMinRam(r)
    <2>1. low.max \in Nat
        <3>1. low.max \in Nat
            BY <1>1, <1>2, LowRange DEF low
        <3> QED BY <3>1
    <2>2. a \in Nat /\ OneM <= a /\ a < low.max /\ "RESERVED" \in Types
        BY <2>1, E820Assumption DEF Types
    <2> QED BY <1>4, <1>5, <1>8, <2>2
<1> QED BY <1>1, <1>6, <1>7, <1>8 DEF RangesGuardRam, TypeAt

\* If no region was put at or below the table's first entry, the ranges that
\* get_ram_ranges returns have all the RAM that the table lists, and no
\* reserved address above 1 MB but below the min_ram region.
THEOREM RangesAlwaysGuardRam == Spec => []RangesGuardRam
<1>1. Init => MapInv /\ RangesGuardRam
    BY MapInvInit DEF Init, RangesGuardRam
<1>2. MapInv /\ RangesGuardRam /\ [Next]_vars => MapInv' /\ RangesGuardRam'
    <2> SUFFICES ASSUME MapInv, RangesGuardRam, [Next]_vars
                 PROVE  MapInv' /\ RangesGuardRam'
        OBVIOUS
    <2>1. MapInv'
        BY MapInvStep
    <2>2. CASE GetRamRanges
        <3>1. stage # "failed"
            BY <2>2 DEF GetRamRanges
        <3> QED BY <2>1, <2>2, <3>1, RangesStep
    <2>3. CASE Next /\ ~GetRamRanges
        <3>1. stage' # "launched"
            BY <2>3 DEF Next, CopyEntry, CopyEnds, CopyLimits, ReserveLog, NoLog,
                        HandOver, Protect
        <3> QED BY <2>1, <3>1 DEF RangesGuardRam
    <2>4. CASE UNCHANGED vars
        BY <2>1, <2>4 DEF vars, RangesGuardRam, LastMinRam, HighestSizedRam
    <2> QED BY <2>2, <2>3, <2>4
<1> QED BY <1>1, <1>2, PTL DEF Spec

=============================================================================
