------------------------- MODULE AcpiBatteryProofs -------------------------
(***************************************************************************)
(* Proofs about AcpiBattery: whatever xcpmd writes meanwhile and whatever  *)
(* other methods run, a _BST returns a status its battery had during the   *)
(* call, and a _BIF the whole information if that stayed as it was.        *)
(*                                                                         *)
(* The strings of the information are of any number of attributes of any   *)
(* length: what the model's operators make of them is shown by induction   *)
(* over numbers, from the least number principle of WellFoundedInduction.  *)
(***************************************************************************)
EXTENDS AcpiBattery, TLAPS, WellFoundedInduction

-----------------------------------------------------------------------------
(* Induction *)

\* A set of natural numbers that is not empty has a least one.
LEMMA LeastNatural ==
    ASSUME NEW T \in SUBSET Nat, T # {}
    PROVE  \E x \in T : \A y \in T : ~(y < x)
<1> DEFINE R == OpToRel(<, Nat)
<1>1. IsWellFoundedOn(R, Nat)
  BY NatLessThanWellFounded
<1>2. \E x \in T : \A y \in T : <<y, x>> \notin R
  <2> HIDE DEF R
  <2> QED BY <1>1, WFMin
<1>3. \A x, y \in Nat : y < x => <<y, x>> \in R
  BY DEF OpToRel
<1> QED BY <1>2, <1>3

LEMMA Induction ==
    ASSUME NEW T, 0 \in T, \A n \in Nat : n \in T => n + 1 \in T
    PROVE  Nat \subseteq T
<1> SUFFICES ASSUME Nat \ T # {} PROVE FALSE
  OBVIOUS
<1>1. PICK x \in Nat \ T : \A y \in Nat \ T : ~(y < x)
  BY LeastNatural
<1>2. x # 0 /\ x - 1 \in Nat /\ x - 1 < x
  BY <1>1
<1>3. x - 1 \in T
  BY <1>1, <1>2
<1> QED BY <1>2, <1>3

\* Functions on the same set that agree on it are the same.
FunctionOn(f, S) == f = [x \in S |-> f[x]]
AgreeOn(f, g, S) == \A x \in S : f[x] = g[x]
Same(f, g) == f = g

LEMMA SameFunction ==
    ASSUME NEW S, NEW f, NEW g, FunctionOn(f, S), FunctionOn(g, S), AgreeOn(f, g, S)
    PROVE  Same(f, g)
BY SMT DEF FunctionOn, AgreeOn, Same

\* What stands where when one sequence follows another.
Joined(c, a, b) ==
    /\ c \in Seq(Nat) /\ Len(a) \in Nat /\ Len(b) \in Nat
    /\ Len(c) = Len(a) + Len(b)
    /\ \A q \in 1..Len(a) : c[q] = a[q]
    /\ \A q \in 1..Len(b) : c[Len(a) + q] = b[q]

LEMMA ConcatJoins ==
    ASSUME NEW a \in Seq(Nat), NEW b \in Seq(Nat)
    PROVE  Joined(a \o b, a, b)
BY DEF Joined

LEMMA PairIs ==
    ASSUME NEW x \in Nat
    PROVE  /\ Pair(x) \in Seq(Nat) /\ Len(Pair(x)) = 2
           /\ Pair(x)[1] = x \div 16 /\ Pair(x)[2] = x % 16
<1>1. x \div 16 \in Nat /\ x % 16 \in Nat
  OBVIOUS
<1> QED BY <1>1 DEF Pair

\* What steps one after the other make of a first value: that there is such
\* a function is what a recursive definition needs.
StepsIn(n, A) == [(1..n) \X A -> A]
IsIteration(f, A, n, base, step) ==
    /\ f \in [1..n + 1 -> A] /\ f[1] = base
    /\ \A i \in 1..n : f[i + 1] = step[<<i, f[i]>>]

LEMMA Iterated ==
    ASSUME NEW A, NEW n \in Nat, NEW base \in A, NEW step \in StepsIn(n, A)
    PROVE  \E f : IsIteration(f, A, n, base, step)
<1> USE DEF StepsIn
<1> DEFINE Goes(f, m) == f[1] = base /\ \A i \in 1..m : f[i + 1] = step[<<i, f[i]>>]
           T == {m \in Nat : m <= n => \E f \in [1..m + 1 -> A] : Goes(f, m)}
<1>1. 0 \in T
  <2> [i \in 1..0 + 1 |-> base] \in [1..0 + 1 -> A] /\ Goes([i \in 1..0 + 1 |-> base], 0)
    OBVIOUS
  <2> QED OBVIOUS
<1>2. ASSUME NEW m \in Nat, m \in T PROVE m + 1 \in T
  <2> SUFFICES ASSUME m + 1 <= n PROVE \E f \in [1..(m + 1) + 1 -> A] : Goes(f, m + 1)
    OBVIOUS
  <2>1. PICK f \in [1..m + 1 -> A] : Goes(f, m)
    BY <1>2
  <2> DEFINE x == step[<<m + 1, f[m + 1]>>]
             g == [i \in 1..(m + 1) + 1 |-> IF i <= m + 1 THEN f[i] ELSE x]
  <2>2. x \in A
    <3> m + 1 \in 1..n /\ f[m + 1] \in A
      OBVIOUS
    <3> QED OBVIOUS
  <2>3. g \in [1..(m + 1) + 1 -> A]
    BY <2>2
  <2>4. ASSUME NEW i \in 1..m + 1 PROVE g[i + 1] = step[<<i, g[i]>>]
    <3>1. CASE i = m + 1
      BY <3>1
    <3>2. CASE i # m + 1
      BY <2>1, <3>2
    <3> QED BY <3>1, <3>2
  <2>5. g[1] = base
    BY <2>1
  <2> QED BY <2>3, <2>4, <2>5
<1>3. n \in T
  <2> HIDE DEF T
  <2> QED BY <1>1, <1>2, Induction
<1> QED BY <1>3 DEF IsIteration

LEMMA StartsAre ==
    ASSUME NEW n \in Nat, NEW texts \in [1..n -> Seq(Nat)]
    PROVE  /\ Len(texts) = n
           /\ Starts(texts) \in [1..n + 1 -> Nat]
           /\ Starts(texts)[1] = 1
           /\ \A i \in 1..n : Starts(texts)[i + 1] = Starts(texts)[i] + 1 + Len(texts[i])
<1> DEFINE Is(f) == f = [i \in 1..Len(texts) + 1 |->
                           IF i = 1 THEN 1 ELSE f[i - 1] + 1 + Len(texts[i - 1])]
           s == Starts(texts)
<1>1. Len(texts) = n /\ \A i \in 1..n : Len(texts[i]) \in Nat
  OBVIOUS
<1>2. \E f : Is(f)
  <2> DEFINE step == [x \in (1..n) \X Nat |-> x[2] + 1 + Len(texts[x[1]])]
  <2>1. step \in [(1..n) \X Nat -> Nat]
    BY <1>1
  <2>2. PICK f : IsIteration(f, Nat, n, 1, step)
    <3>1. step \in StepsIn(n, Nat) /\ 1 \in Nat
      BY <2>1 DEF StepsIn
    <3> HIDE DEF step
    <3> QED BY <3>1, Iterated
  <2>3. /\ f \in [1..n + 1 -> Nat] /\ f[1] = 1
        /\ \A i \in 1..n : f[i + 1] = f[i] + 1 + Len(texts[i])
    <3>1. /\ f \in [1..n + 1 -> Nat] /\ f[1] = 1
          /\ \A i \in 1..n : f[i + 1] = step[<<i, f[i]>>]
      <4> HIDE DEF step
      <4> QED BY <2>2 DEF IsIteration
    <3>2. \A i \in 1..n : <<i, f[i]>> \in (1..n) \X Nat
      BY <3>1
    <3> QED BY <3>1, <3>2
  <2>4. f = [i \in 1..n + 1 |-> IF i = 1 THEN 1 ELSE f[i - 1] + 1 + Len(texts[i - 1])]
    <3>1. \A i \in 1..n + 1 : i # 1 => i - 1 \in 1..n /\ (i - 1) + 1 = i
      OBVIOUS
    <3> HIDE DEF step
    <3> QED BY <2>3, <3>1
  <2> QED BY <1>1, <2>4
<1>3. s = CHOOSE f : Is(f)
  BY DEF Starts
<1>4. Is(s)
  <2> HIDE DEF Is, s
  <2> QED BY <1>2, <1>3
<1>5. /\ DOMAIN s = 1..n + 1 /\ s[1] = 1
      /\ \A i \in 1..n : s[i + 1] = s[i] + 1 + Len(texts[i])
  <2> HIDE DEF s
  <2>1. DOMAIN s = 1..n + 1
    BY <1>1, <1>4
  <2>2. \A i \in 1..n + 1 : s[i] = IF i = 1 THEN 1 ELSE s[i - 1] + 1 + Len(texts[i - 1])
    BY <1>1, <1>4
  <2>3. s[1] = 1
    BY <2>2
  <2>4. \A i \in 1..n : i + 1 \in 1..n + 1 /\ i + 1 # 1 /\ (i + 1) - 1 = i
    OBVIOUS
  <2> QED BY <2>1, <2>2, <2>3, <2>4
<1>6. \A i \in 1..n + 1 : s[i] \in Nat
  <2> DEFINE T == {j \in Nat : j + 1 \in 1..n + 1 => s[j + 1] \in Nat}
  <2> HIDE DEF s
  <2>1. 0 \in T
    BY <1>5
  <2>2. ASSUME NEW j \in Nat, j \in T PROVE j + 1 \in T
    <3> SUFFICES ASSUME (j + 1) + 1 \in 1..n + 1 PROVE s[(j + 1) + 1] \in Nat
      OBVIOUS
    <3>1. j + 1 \in 1..n /\ s[j + 1] \in Nat
      BY <2>2
    <3> QED BY <1>1, <1>5, <3>1
  <2>3. Nat \subseteq T
    <3> HIDE DEF T
    <3> QED BY <2>1, <2>2, Induction
  <2>4. ASSUME NEW i \in 1..n + 1 PROVE s[i] \in Nat
    <3>1. i - 1 \in Nat /\ (i - 1) + 1 = i
      OBVIOUS
    <3>2. i - 1 \in T
      <4> HIDE DEF T
      <4> QED BY <2>3, <3>1
    <3> QED BY <3>1, <3>2
  <2> QED BY <2>4
<1>7. s = [i \in 1..n + 1 |-> s[i]]
  <2> HIDE DEF s
  <2> QED BY <1>1, <1>4
<1> QED BY <1>1, <1>5, <1>6, <1>7

LEMMA StartsGrow ==
    ASSUME NEW n \in Nat, NEW texts \in [1..n -> Seq(Nat)],
           NEW i \in 1..n, NEW j \in 1..n + 1, i < j
    PROVE  Starts(texts)[i] + 1 + Len(texts[i]) <= Starts(texts)[j]
<1> DEFINE s == Starts(texts)
           T == {d \in Nat : i + 1 + d <= n + 1 => s[i] + 1 + Len(texts[i]) <= s[i + 1 + d]}
<1>1. s \in [1..n + 1 -> Nat] /\ \A h \in 1..n : s[h + 1] = s[h] + 1 + Len(texts[h])
  BY StartsAre
<1>0. \A h \in 1..n : Len(texts[h]) \in Nat
  OBVIOUS
<1> HIDE DEF s
<1>2. 0 \in T
  BY <1>1, <1>0
<1>3. ASSUME NEW d \in Nat, d \in T PROVE d + 1 \in T
  <2> SUFFICES ASSUME i + 1 + (d + 1) <= n + 1
               PROVE  s[i] + 1 + Len(texts[i]) <= s[i + 1 + (d + 1)]
    OBVIOUS
  <2>1. i + 1 + d \in 1..n /\ i + 1 + (d + 1) = (i + 1 + d) + 1
    OBVIOUS
  <2>2. s[i] + 1 + Len(texts[i]) <= s[i + 1 + d]
    BY <1>3, <2>1
  <2>3. s[(i + 1 + d) + 1] = s[i + 1 + d] + 1 + Len(texts[i + 1 + d])
    BY <1>1, <2>1
  <2>4. s[i + 1 + d] \in Nat /\ Len(texts[i + 1 + d]) \in Nat /\ s[i] \in Nat
        /\ Len(texts[i]) \in Nat
    <3>1. i + 1 + d \in 1..n + 1 /\ i \in 1..n + 1
      BY <2>1
    <3> QED BY <1>1, <1>0, <2>1, <3>1
  <2> QED BY <2>1, <2>2, <2>3, <2>4
<1>4. Nat \subseteq T
  <2> HIDE DEF T
  <2> QED BY <1>2, <1>3, Induction
<1>5. j - i - 1 \in Nat /\ i + 1 + (j - i - 1) = j
  OBVIOUS
<1>6. j - i - 1 \in T
  <2> HIDE DEF T
  <2> QED BY <1>4, <1>5
<1> QED BY <1>5, <1>6 DEF s

LEMMA FlattenIs ==
    ASSUME NEW n \in Nat, n > 0, NEW p \in [1..n -> Seq(Nat)]
    PROVE  \E f \in [1..n -> Seq(Nat)] :
             /\ f[1] = p[1] /\ \A i \in 1..n : i < n => f[i + 1] = f[i] \o p[i + 1]
             /\ FlattenSeq(p) = f[n]
<1> DEFINE Is(f) == f = [i \in 1..Len(p) |-> IF i = 1 THEN p[i] ELSE f[i - 1] \o p[i]]
<1>1. Len(p) = n /\ n - 1 \in Nat /\ (n - 1) + 1 = n
  OBVIOUS
<1>2. PICK g \in [1..n -> Seq(Nat)] : Is(g)
  <2> DEFINE A == Seq(Nat)
             step == [x \in (1..n - 1) \X A |-> x[2] \o p[x[1] + 1]]
  <2>1. step \in [(1..n - 1) \X A -> A] /\ p[1] \in A
    <3>1. \A i \in 1..n - 1 : p[i + 1] \in A
      OBVIOUS
    <3>2. \A x, y \in A : x \o y \in A
      OBVIOUS
    <3>3. p[1] \in A
      OBVIOUS
    <3> HIDE DEF A
    <3> QED BY <3>1, <3>2, <3>3
  <2>2. PICK f : IsIteration(f, A, n - 1, p[1], step)
    <3>1. step \in StepsIn(n - 1, A)
      BY <2>1 DEF StepsIn
    <3> HIDE DEF A, step
    <3> QED BY <1>1, <2>1, <3>1, Iterated
  <2>3. /\ f \in [1..n -> A] /\ f[1] = p[1]
        /\ \A i \in 1..n - 1 : f[i + 1] = step[<<i, f[i]>>]
    <3> HIDE DEF A, step
    <3> QED BY <1>1, <2>2 DEF IsIteration
  <2>4. \A i \in 1..n - 1 : f[i + 1] = f[i] \o p[i + 1]
    <3>1. \A i \in 1..n - 1 : i \in 1..n
      OBVIOUS
    <3> HIDE DEF A
    <3> QED BY <2>3, <3>1
  <2>6. f = [i \in 1..n |-> IF i = 1 THEN p[i] ELSE f[i - 1] \o p[i]]
    <3> HIDE DEF A, step
    <3>1. \A i \in 1..n : f[i] = IF i = 1 THEN p[i] ELSE f[i - 1] \o p[i]
      <4> TAKE i \in 1..n
      <4>1. CASE i = 1
        BY <2>3, <4>1
      <4>2. CASE i # 1
        <5>1. i - 1 \in 1..n - 1 /\ (i - 1) + 1 = i
          BY <4>2
        <5>2. f[(i - 1) + 1] = f[i - 1] \o p[(i - 1) + 1]
          BY <2>4, <5>1
        <5> QED BY <4>2, <5>1, <5>2
      <4> QED BY <4>1, <4>2
    <3> DEFINE r == [i \in 1..n |-> IF i = 1 THEN p[i] ELSE f[i - 1] \o p[i]]
               D == 1..n
    <3>2. AgreeOn(f, r, D)
      BY <3>1, Zenon DEF AgreeOn
    <3>3. FunctionOn(f, D)
      BY <2>3 DEF FunctionOn
    <3>4. FunctionOn(r, D)
      BY Zenon DEF FunctionOn
    <3> HIDE DEF r, D
    <3>5. Same(f, r)
      BY <3>2, <3>3, <3>4, SameFunction, Zenon
    <3> QED BY <3>5, Zenon DEF r, Same
  <2>7. f \in [1..n -> Seq(Nat)]
    BY <2>3
  <2>8. Is(f)
    BY <1>1, <2>6, Zenon
  <2> HIDE DEF Is, A, step
  <2> QED BY <2>7, <2>8, Zenon
<1> DEFINE h == CHOOSE f : Is(f)
<1>3. FlattenSeq(p) = h[n]
  BY <1>1 DEF FlattenSeq
<1>4. Is(h)
  <2> HIDE DEF Is
  <2> QED BY <1>2
<1> HIDE DEF h
<1>5. /\ DOMAIN h = 1..n
      /\ \A i \in 1..n : h[i] = IF i = 1 THEN p[i] ELSE h[i - 1] \o p[i]
  BY <1>1, <1>4
<1>6. h[1] = p[1] /\ \A i \in 1..n : i < n => h[i + 1] = h[i] \o p[i + 1]
  <2>1. h[1] = p[1]
    BY <1>5
  <2>2. \A i \in 1..n : i < n => i + 1 \in 1..n /\ i + 1 # 1 /\ (i + 1) - 1 = i
    OBVIOUS
  <2> QED BY <1>5, <2>1, <2>2
<1>7. \A i \in 1..n : h[i] \in Seq(Nat)
  <2> DEFINE T == {d \in Nat : d < n => h[d + 1] \in Seq(Nat)}
  <2>1. 0 \in T
    BY <1>6
  <2>2. ASSUME NEW d \in Nat, d \in T PROVE d + 1 \in T
    <3> SUFFICES ASSUME d + 1 < n PROVE h[(d + 1) + 1] \in Seq(Nat)
      OBVIOUS
    <3>1. d + 1 \in 1..n /\ (d + 1) + 1 \in 1..n /\ h[d + 1] \in Seq(Nat)
      BY <2>2
    <3>2. p[(d + 1) + 1] \in Seq(Nat)
      BY <3>1
    <3>3. h[(d + 1) + 1] = h[d + 1] \o p[(d + 1) + 1]
      BY <1>6, <3>1
    <3> QED BY <3>1, <3>2, <3>3
  <2>3. Nat \subseteq T
    <3> HIDE DEF T
    <3> QED BY <2>1, <2>2, Induction
  <2>4. ASSUME NEW i \in 1..n PROVE h[i] \in Seq(Nat)
    <3>1. i - 1 \in Nat /\ (i - 1) + 1 = i /\ i - 1 < n
      OBVIOUS
    <3>2. i - 1 \in T
      <4> HIDE DEF T
      <4> QED BY <2>3, <3>1
    <3> QED BY <3>1, <3>2
  <2> QED BY <2>4
<1>8. h \in [1..n -> Seq(Nat)]
  <2>1. h = [i \in 1..n |-> h[i]]
    BY <1>1, <1>4, <1>5
  <2> QED BY <1>7, <2>1
<1> QED BY <1>3, <1>6, <1>8

-----------------------------------------------------------------------------
(* Strings *)

\* What a status block says: one byte follows, and it is the value.
LEMMA StatusBytes ==
    ASSUME NEW v \in (0..255) \X (0..255)
    PROVE  /\ StatusString(v) # Absent
           /\ PairAt(StatusString(v), 0) = 2
<1> DEFINE s == StatusString(v)
<1>1. /\ 2 \div 16 = 0 /\ 2 % 16 = 2
  BY SMT
<1>2. s = (<<0, 2>> \o <<v[1] \div 16, v[1] % 16>>) \o <<v[2] \div 16, v[2] % 16>>
  BY <1>1 DEF StatusString, Pair
<1>3. /\ Len(s) = 6 /\ s[1] = 0 /\ s[2] = 2
  BY <1>2
<1> QED BY <1>3 DEF PairAt, Absent, NL

\* Reading the length moves on to the first byte.
LEMMA LengthFirst ==
    ASSUME NEW s \in StatusBlocks, s # Absent
    PROVE  GetData(s, 0) = [byte |-> 2, next |-> 2]
BY StatusBytes DEF StatusBlocks, GetData, Boundary

\* Then the two bytes are read.
LEMMA ValueNext ==
    ASSUME NEW s
    PROVE  /\ GetData(s, 2) = [byte |-> PairAt(s, 2), next |-> 4]
           /\ GetData(s, 4) = [byte |-> PairAt(s, 4), next |-> 6]
BY DEF GetData, Boundary

\* The sums that InfoLayout needs.
LEMMA ShiftOne ==
    ASSUME NEW x \in Nat, NEW i \in Nat, NEW m \in Nat
    PROVE  x + i + 2 + m = 4 + (x + i - 2 + m)
OBVIOUS

LEMMA ShiftTwo ==
    ASSUME NEW x \in Nat, NEW i \in Nat, NEW m \in Nat
    PROVE  x + i + 2 + (m + 2) = x + i + 4 + m
OBVIOUS

LEMMA Shifts ==
    ASSUME NEW x \in Nat, NEW i \in Nat
    PROVE  x + i + 2 + 1 = x + i + 3 /\ x + i + 2 + 2 = x + i + 4
OBVIOUS

LEMMA Fits ==
    ASSUME NEW x \in Nat, NEW i \in Nat, NEW m \in Nat, NEW l \in Nat, NEW e \in Nat,
           NEW c \in Nat, x >= 1, i >= 1, m >= 1, m <= l + 2, x + 1 + l <= e, i <= c
    PROVE  x + i - 2 + m \in 1..e + c - 1
OBVIOUS

LEMMA Longer ==
    ASSUME NEW e \in Nat, NEW j \in Nat, NEW l \in Nat
    PROVE  (e + j - 1) + (l + 2) = (e + 1 + l) + (j + 1) - 1
OBVIOUS

\* What stands where in the string of a battery's information.
LaidOut(s, v, texts, n) ==
    LET st == Starts(texts)
    IN  /\ s \in Seq(Nat) /\ Len(s) = st[n + 1] + n + 3
        /\ s[1] = Total(texts) \div 16 /\ s[2] = Total(texts) % 16
        /\ s[3] = v \div 16 /\ s[4] = v % 16
        /\ \A i \in 1..n :
             /\ s[st[i] + i + 3] = Len(texts[i]) \div 16
             /\ s[st[i] + i + 4] = Len(texts[i]) % 16
             /\ \A m \in 1..Len(texts[i]) : s[st[i] + i + 4 + m] = texts[i][m]

LEMMA InfoLayout ==
    ASSUME NEW n \in Nat, NEW texts \in [1..n -> Seq(Nat)], NEW v \in Nat
    PROVE  LaidOut(InfoString(v, texts), v, texts, n)
<1> DEFINE s == InfoString(v, texts)
           st == Starts(texts)
           p == [i \in 1..n |-> Pair(Len(texts[i])) \o texts[i]]
           hd == Pair(Total(texts)) \o Pair(v)
<1>1. /\ st \in [1..n + 1 -> Nat] /\ st[1] = 1 /\ DOMAIN texts = 1..n /\ Len(texts) = n
      /\ \A i \in 1..n : st[i + 1] = st[i] + 1 + Len(texts[i])
  BY StartsAre
<1>14. st \in [1..n + 1 -> Nat]
  BY <1>1
<1>2. \A i \in 1..n : texts[i] \in Seq(Nat) /\ Len(texts[i]) \in Nat
  OBVIOUS
<1>3. ASSUME NEW i \in 1..n
      PROVE  /\ st[i] \in Nat /\ st[i + 1] \in Nat /\ st[i] >= 1 /\ Len(texts[i]) \in Nat
             /\ st[i + 1] = st[i] + 1 + Len(texts[i])
  <2>1. i \in 1..n + 1 /\ i + 1 \in 1..n + 1 /\ 1 \in 1..n
    OBVIOUS
  <2>2. CASE i = 1
    BY <1>1, <1>2, <2>1, <2>2
  <2>3. CASE i # 1
    <3>1. 1 < i
      BY <2>3
    <3>2. st[1] + 1 + Len(texts[1]) <= st[i]
      BY <2>1, <3>1, StartsGrow
    <3>3. st[1] = 1 /\ Len(texts[1]) \in Nat /\ st[i] \in Nat /\ st[i + 1] \in Nat
          /\ Len(texts[i]) \in Nat /\ st[i + 1] = st[i] + 1 + Len(texts[i])
      BY <1>1, <1>2, <2>1
    <3> HIDE DEF st
    <3> QED BY <3>2, <3>3
  <2> QED BY <2>2, <2>3
<1>11. ASSUME NEW i \in 1..n, NEW j \in 1..n + 1, i < j
       PROVE  st[i] + 1 + Len(texts[i]) <= st[j]
  BY <1>11, StartsGrow
<1>4. Total(texts) \in Nat /\ v \in Nat /\ Total(texts) = st[n + 1] /\ st[n + 1] \in Nat
  BY <1>1 DEF Total
<1>5. /\ hd \in Seq(Nat) /\ Len(hd) = 4
      /\ hd[1] = Total(texts) \div 16 /\ hd[2] = Total(texts) % 16
      /\ hd[3] = v \div 16 /\ hd[4] = v % 16
  <2> DEFINE a == Pair(Total(texts))
             c == Pair(v)
  <2>1. /\ a \in Seq(Nat) /\ Len(a) = 2
        /\ a[1] = Total(texts) \div 16 /\ a[2] = Total(texts) % 16
    BY <1>4, PairIs
  <2>2. c \in Seq(Nat) /\ Len(c) = 2 /\ c[1] = v \div 16 /\ c[2] = v % 16
    BY <1>4, PairIs
  <2>3. hd = a \o c
    OBVIOUS
  <2> HIDE DEF a, c, hd
  <2>4. Joined(hd, a, c)
    BY <2>1, <2>2, <2>3, ConcatJoins
  <2>5. /\ hd \in Seq(Nat) /\ Len(hd) = 4 /\ hd[1] = a[1] /\ hd[2] = a[2]
        /\ hd[2 + 1] = c[1] /\ hd[2 + 2] = c[2]
    BY <2>1, <2>2, <2>4 DEF Joined
  <2> QED BY <2>1, <2>2, <2>5
<1>6. ASSUME NEW i \in 1..n
      PROVE  /\ p[i] \in Seq(Nat) /\ Len(p[i]) = Len(texts[i]) + 2
             /\ p[i][1] = Len(texts[i]) \div 16 /\ p[i][2] = Len(texts[i]) % 16
             /\ \A m \in 1..Len(texts[i]) : p[i][m + 2] = texts[i][m]
  <2> DEFINE x == Len(texts[i])
             h == Pair(x)
             w == texts[i]
  <2>1. x \in Nat /\ w \in Seq(Nat) /\ p[i] = h \o w /\ Len(w) = x
    BY <1>2
  <2>2. h \in Seq(Nat) /\ Len(h) = 2 /\ h[1] = x \div 16 /\ h[2] = x % 16
    BY <2>1, PairIs
  <2> HIDE DEF h, p, x, w
  <2>3. Joined(p[i], h, w)
    BY <2>1, <2>2, ConcatJoins
  <2>4. /\ p[i] \in Seq(Nat) /\ Len(p[i]) = x + 2 /\ p[i][1] = h[1] /\ p[i][2] = h[2]
    BY <2>1, <2>2, <2>3 DEF Joined
  <2>5. \A q \in 1..x : p[i][q + 2] = w[q]
    <3>1. \A q \in 1..x : 2 + q = q + 2
      BY <2>1
    <3> QED BY <2>1, <2>2, <2>3, <3>1 DEF Joined
  <2> QED BY <2>2, <2>4, <2>5 DEF x, w
<1>7. s = hd \o FlattenSeq(p)
  BY <1>1 DEF InfoString, Total
<1> HIDE DEF s, st, hd
<1>8. CASE n = 0
  <2>1. p = << >>
    BY <1>8
  <2>2. FlattenSeq(p) = << >>
    <3> HIDE DEF p
    <3> QED BY <2>1 DEF FlattenSeq
  <2>3. s = hd
    <3> HIDE DEF p
    <3> QED BY <1>5, <1>7, <2>2
  <2>4. Len(s) = st[n + 1] + n + 3
    BY <1>1, <1>5, <1>8, <2>3
  <2> QED BY <1>5, <1>8, <2>3, <2>4 DEF s, st, LaidOut
<1>9. CASE n > 0
  <2> p \in [1..n -> Seq(Nat)]
    <3>1. \A i \in 1..n : p[i] \in Seq(Nat)
      BY <1>6
    <3> QED BY <3>1
  <2> HIDE DEF p
  <2>1. PICK f \in [1..n -> Seq(Nat)] :
          /\ f[1] = p[1] /\ \A i \in 1..n : i < n => f[i + 1] = f[i] \o p[i + 1]
          /\ FlattenSeq(p) = f[n]
    BY <1>9, FlattenIs
  <2> DEFINE Laid(j) ==
        /\ Len(f[j]) = st[j + 1] + j - 1
        /\ \A i \in 1..j : \A m \in 1..Len(texts[i]) + 2 : f[j][st[i] + i - 2 + m] = p[i][m]
             T == {d \in Nat : d < n => Laid(d + 1)}
  <2>2. 0 \in T
    <3> SUFFICES Laid(0 + 1)
      OBVIOUS
    <3>1. /\ 1 \in 1..n /\ st[1] = 1 /\ st[1 + 1] = st[1] + 1 + Len(texts[1])
          /\ Len(texts[1]) \in Nat
      BY <1>1, <1>3, <1>9
    <3>2. Len(f[1]) = Len(texts[1]) + 2
      BY <1>6, <2>1, <3>1
    <3>3. \A m \in 1..Len(texts[1]) + 2 : st[1] + 1 - 2 + m = m
      BY <3>1
    <3>4. Len(f[1]) = st[1 + 1] + 1 - 1
      BY <3>1, <3>2
    <3>5. \A m \in 1..Len(texts[1]) + 2 : f[1][st[1] + 1 - 2 + m] = p[1][m]
      BY <2>1, <3>3
    <3> HIDE DEF T
    <3> QED BY <3>4, <3>5
  <2>3. ASSUME NEW d \in Nat, d \in T PROVE d + 1 \in T
    <3> DEFINE j == d + 1
    <3> SUFFICES ASSUME j < n PROVE Laid(j + 1)
      <4> HIDE DEF Laid
      <4> QED OBVIOUS
    <3>1. /\ j \in 1..n /\ j + 1 \in 1..n /\ Laid(j) /\ j \in Nat
          /\ j + 1 \in 1..n + 1 /\ (j + 1) + 1 \in 1..n + 1
      BY <2>3
    <3> HIDE DEF j
    <3>2. f[j + 1] = f[j] \o p[j + 1] /\ f[j] \in Seq(Nat) /\ p[j + 1] \in Seq(Nat)
      BY <2>1, <3>1
    <3>3. Len(p[j + 1]) = Len(texts[j + 1]) + 2 /\ Len(texts[j + 1]) \in Nat
          /\ st[(j + 1) + 1] = st[j + 1] + 1 + Len(texts[j + 1])
          /\ st[j + 1] \in Nat
      BY <1>3, <1>6, <3>1
    <3>12. Joined(f[j + 1], f[j], p[j + 1])
      BY <3>2, ConcatJoins
    <3>4. Len(f[j]) = st[j + 1] + j - 1 /\ Len(f[j]) \in Nat
      BY <3>1, <3>12 DEF Joined
    <3>5. /\ Len(f[j + 1]) = Len(f[j]) + Len(p[j + 1])
          /\ \A q \in 1..Len(f[j]) : f[j + 1][q] = f[j][q]
          /\ \A q \in 1..Len(p[j + 1]) : f[j + 1][Len(f[j]) + q] = p[j + 1][q]
      BY <3>12 DEF Joined
    <3>10. Len(f[j + 1]) = st[(j + 1) + 1] + (j + 1) - 1
      <4>1. Len(f[j + 1]) = (st[j + 1] + j - 1) + (Len(texts[j + 1]) + 2)
        BY <3>3, <3>4, <3>5, Zenon
      <4>2. (st[j + 1] + j - 1) + (Len(texts[j + 1]) + 2)
            = (st[j + 1] + 1 + Len(texts[j + 1])) + (j + 1) - 1
        BY <3>1, <3>3, Longer, Zenon
      <4> QED BY <3>3, <4>1, <4>2, Zenon
    <3>6. ASSUME NEW i \in 1..j + 1, NEW m \in 1..Len(texts[i]) + 2
          PROVE  f[j + 1][st[i] + i - 2 + m] = p[i][m]
      <4>1. i \in 1..n
        BY <3>1
      <4>2. st[i] \in Nat /\ st[i] >= 1 /\ Len(texts[i]) \in Nat
        BY <1>3, <4>1
      <4>3. CASE i = j + 1
        <5>1. st[i] + i - 2 + m = Len(f[j]) + m
          BY <3>1, <3>4, <4>2, <4>3
        <5>2. m \in 1..Len(p[j + 1])
          BY <3>3, <4>3
        <5> QED BY <3>5, <4>3, <5>1, <5>2
      <4>4. CASE i # j + 1
        <5>1. i \in 1..j /\ i < j + 1
          BY <3>1, <4>4
        <5>2. f[j][st[i] + i - 2 + m] = p[i][m]
          BY <3>1, <5>1
        <5>3. st[i] + 1 + Len(texts[i]) <= st[j + 1]
          BY <1>11, <3>1, <4>1, <5>1
        <5>4. st[i] + i - 2 + m \in 1..Len(f[j])
          <6>1. j \in Nat /\ st[j + 1] \in Nat
            BY <3>1, <3>3
          <6>2. /\ i \in Nat /\ m \in Nat /\ i >= 1 /\ m >= 1 /\ i <= j
                /\ m <= Len(texts[i]) + 2
            BY <4>2, <5>1
          <6>3. st[i] + i - 2 + m \in 1..st[j + 1] + j - 1
            BY <4>2, <5>3, <6>1, <6>2, Fits, Zenon
          <6> QED BY <3>4, <6>3, Zenon
        <5> QED BY <3>5, <5>2, <5>4
      <4> QED BY <4>3, <4>4
    <3> QED BY <3>6, <3>10
  <2>4. Nat \subseteq T
    <3> HIDE DEF T
    <3> QED BY <2>2, <2>3, Induction
  <2>5. Laid(n)
    <3>1. n - 1 \in Nat /\ (n - 1) + 1 = n /\ n - 1 < n
      BY <1>9
    <3>2. n - 1 \in T
      <4> HIDE DEF T
      <4> QED BY <2>4, <3>1
    <3> QED BY <3>1, <3>2
  <2>6. s = hd \o f[n] /\ f[n] \in Seq(Nat) /\ Len(f[n]) = st[n + 1] + n - 1
    BY <1>7, <1>9, <2>1, <2>5
  <2>11. Joined(s, hd, f[n])
    BY <1>5, <2>6, ConcatJoins
  <2>7. /\ s \in Seq(Nat) /\ Len(s) = 4 + Len(f[n])
        /\ \A q \in 1..4 : s[q] = hd[q]
        /\ \A q \in 1..Len(f[n]) : s[4 + q] = f[n][q]
    BY <1>5, <2>11 DEF Joined
  <2>12. Len(f[n]) = st[n + 1] + n - 1
    BY <2>6
  <2>8. Len(s) = st[n + 1] + n + 3
    BY <1>4, <2>7, <2>12
  <2>9. ASSUME NEW i \in 1..n, NEW m \in 1..Len(texts[i]) + 2
        PROVE  s[st[i] + i + 2 + m] = p[i][m]
    <3> DEFINE q == st[i] + i - 2 + m
    <3>1. f[n][q] = p[i][m]
      BY <2>5
    <3>2. st[i] \in Nat /\ st[i] >= 1 /\ Len(texts[i]) \in Nat
      BY <1>3
    <3>3. st[i] + 1 + Len(texts[i]) <= st[n + 1]
      <4>1. n + 1 \in 1..n + 1 /\ i < n + 1
        OBVIOUS
      <4> QED BY <1>11, <4>1
    <3>6. i \in Nat /\ m \in Nat /\ i >= 1 /\ m >= 1 /\ i <= n /\ m <= Len(texts[i]) + 2
      BY <3>2
    <3>4. q \in 1..Len(f[n])
      <4>1. q \in 1..st[n + 1] + n - 1
        BY <1>4, <3>2, <3>3, <3>6, Fits, Zenon
      <4> QED BY <2>12, <4>1, Zenon
    <3>5. st[i] + i + 2 + m = 4 + q
      BY <3>2, <3>6, ShiftOne, Zenon
    <3> HIDE DEF q
    <3> QED BY <2>7, <3>1, <3>4, <3>5
  <2>10. ASSUME NEW i \in 1..n
         PROVE  /\ s[st[i] + i + 3] = Len(texts[i]) \div 16
                /\ s[st[i] + i + 4] = Len(texts[i]) % 16
                /\ \A m \in 1..Len(texts[i]) : s[st[i] + i + 4 + m] = texts[i][m]
    <3>1. /\ 1 \in 1..Len(texts[i]) + 2 /\ 2 \in 1..Len(texts[i]) + 2
          /\ st[i] \in Nat /\ Len(texts[i]) \in Nat /\ i \in Nat
      BY <1>3
    <3>2. st[i] + i + 2 + 1 = st[i] + i + 3 /\ st[i] + i + 2 + 2 = st[i] + i + 4
      BY <3>1, Shifts, Zenon
    <3>3. s[st[i] + i + 3] = p[i][1] /\ s[st[i] + i + 4] = p[i][2]
      BY <2>9, <3>1, <3>2
    <3>4. ASSUME NEW m \in 1..Len(texts[i]) PROVE s[st[i] + i + 4 + m] = texts[i][m]
      <4>3. m \in Nat /\ i \in Nat /\ m + 2 \in 1..Len(texts[i]) + 2
        BY <3>1
      <4>1. m + 2 \in 1..Len(texts[i]) + 2 /\ st[i] + i + 2 + (m + 2) = st[i] + i + 4 + m
        BY <3>1, <4>3, ShiftTwo, Zenon
      <4>2. s[st[i] + i + 2 + (m + 2)] = p[i][m + 2]
        BY <2>9, <4>1
      <4> QED BY <1>6, <4>1, <4>2
    <3> QED BY <1>6, <3>3, <3>4
  <2>13. s[1] = hd[1] /\ s[2] = hd[2] /\ s[3] = hd[3] /\ s[4] = hd[4]
    BY <2>7
  <2>14. s \in Seq(Nat)
    BY <2>7
  <2> QED BY <1>5, <2>8, <2>10, <2>13, <2>14 DEF s, st, LaidOut
<1> QED BY <1>8, <1>9

\* What BatteryAssumption says of one battery.
LEMMA CellIs ==
    ASSUME NEW c \in Cells
    PROVE  /\ c.id \in Nat /\ c.id <= 255 /\ NTexts \in Nat /\ Size \in Nat
           /\ c.texts \in [1..NTexts -> Seq(Nat)]
           /\ Total(c.texts) <= 255 /\ Total(c.texts) + NTexts + 3 <= 255
           /\ Total(c.texts) + 2 <= Size
<1>1. c.id \in 0..255
  BY BatteryAssumption
<1>2. c.id \in Nat /\ c.id <= 255
  BY <1>1
<1>3. /\ NTexts \in Nat /\ Size \in Nat /\ c.texts \in [1..NTexts -> Seq(Nat)]
      /\ Total(c.texts) + NTexts + 3 <= 255 /\ Total(c.texts) + 2 <= Size
  BY BatteryAssumption
<1>4. Total(c.texts) \in Nat
  <2> DEFINE x == c.texts
  <2>1. NTexts \in Nat /\ x \in [1..NTexts -> Seq(Nat)]
    BY <1>3
  <2> HIDE DEF x
  <2>2. Len(x) = NTexts /\ Starts(x) \in [1..NTexts + 1 -> Nat] /\ NTexts + 1 \in 1..NTexts + 1
    BY <2>1, StartsAre
  <2>3. Total(x) \in Nat
    BY <2>2 DEF Total
  <2> QED BY <2>3 DEF x
<1> QED BY <1>2, <1>3, <1>4

\* Where the bytes of its attributes go.
LEMMA CellPlaces ==
    ASSUME NEW c \in Cells
    PROVE  LET st == Starts(c.texts) IN
           /\ st \in [1..NTexts + 1 -> Nat] /\ st[1] = 1
           /\ st[NTexts + 1] = Total(c.texts) /\ Total(c.texts) \in Nat
           /\ \A i \in 1..NTexts :
                /\ st[i] \in Nat /\ st[i] >= 1 /\ Len(c.texts[i]) \in Nat
                /\ c.texts[i] \in Seq(Nat)
                /\ st[i + 1] = st[i] + 1 + Len(c.texts[i])
                /\ st[i] + 1 + Len(c.texts[i]) <= Total(c.texts)
<1> DEFINE st == Starts(c.texts)
           x == c.texts
<1>1. NTexts \in Nat /\ x \in [1..NTexts -> Seq(Nat)]
  BY CellIs
<1>2. /\ Len(x) = NTexts /\ st \in [1..NTexts + 1 -> Nat] /\ st[1] = 1
      /\ \A i \in 1..NTexts : st[i + 1] = st[i] + 1 + Len(x[i])
  <2> HIDE DEF x
  <2> QED BY <1>1, StartsAre DEF x
<1>3. st[NTexts + 1] = Total(x) /\ Total(x) \in Nat
  <2> HIDE DEF x
  <2> NTexts + 1 \in 1..NTexts + 1
    BY <1>1
  <2> QED BY <1>1, <1>2 DEF Total, x
<1>4. ASSUME NEW i \in 1..NTexts
      PROVE  /\ st[i] \in Nat /\ st[i] >= 1 /\ Len(x[i]) \in Nat /\ x[i] \in Seq(Nat)
             /\ st[i] + 1 + Len(x[i]) <= Total(x)
  <2>1. x[i] \in Seq(Nat) /\ Len(x[i]) \in Nat /\ x[1] \in Seq(Nat) /\ Len(x[1]) \in Nat
    <3> HIDE DEF x
    <3> QED BY <1>1
  <2>2. st[i] \in Nat
    <3>1. i \in 1..NTexts + 1
      BY <1>1
    <3> HIDE DEF st
    <3> QED BY <1>2, <3>1
  <2>3. st[i] + 1 + Len(x[i]) <= Total(x)
    <3>1. i < NTexts + 1 /\ NTexts + 1 \in 1..NTexts + 1
      BY <1>1
    <3>2. st[i] + 1 + Len(x[i]) <= st[NTexts + 1]
      <4> HIDE DEF x
      <4> QED BY <1>1, <3>1, StartsGrow DEF x
    <3> HIDE DEF st, x
    <3> QED BY <1>3, <3>2
  <2>4. st[i] >= 1
    <3>1. CASE i = 1
      <4> HIDE DEF st
      <4> QED BY <1>2, <3>1
    <3>2. CASE i # 1
      <4>1. 1 < i /\ 1 \in 1..NTexts /\ i \in 1..NTexts + 1
        BY <1>1, <3>2
      <4>2. st[1] + 1 + Len(x[1]) <= st[i]
        <5> HIDE DEF x
        <5> QED BY <1>1, <4>1, StartsGrow DEF x
      <4> HIDE DEF st, x
      <4> QED BY <1>2, <2>1, <2>2, <4>2
    <3> QED BY <3>1, <3>2
  <2> HIDE DEF st, x
  <2> QED BY <2>1, <2>2, <2>3, <2>4
<1> HIDE DEF st, x
<1> QED BY <1>2, <1>3, <1>4 DEF st, x

\* No two bytes go to the same place.
LEMMA OnePlace ==
    ASSUME NEW c \in Cells, NEW i \in 1..NTexts, NEW j \in 1..NTexts,
           NEW m \in 0..Len(c.texts[i]), NEW h \in 0..Len(c.texts[j]),
           Starts(c.texts)[i] + m = Starts(c.texts)[j] + h
    PROVE  i = j /\ m = h
<1>1. /\ NTexts \in Nat /\ c.texts \in [1..NTexts -> Seq(Nat)]
  BY CellIs
<1>2. PICK x \in Nat, y \in Nat, l \in Nat, g \in Nat :
        /\ x = Starts(c.texts)[i] /\ y = Starts(c.texts)[j]
        /\ l = Len(c.texts[i]) /\ g = Len(c.texts[j])
  BY CellPlaces
<1>3. i < j => x + 1 + l <= y
  <2>1. j \in 1..NTexts + 1
    BY <1>1
  <2> QED BY <1>1, <1>2, <2>1, StartsGrow
<1>4. j < i => y + 1 + g <= x
  <2>1. i \in 1..NTexts + 1
    BY <1>1
  <2> QED BY <1>1, <1>2, <2>1, StartsGrow
<1>5. m \in 0..l /\ h \in 0..g /\ x + m = y + h
  BY <1>2
<1>6. i = j
  BY <1>1, <1>3, <1>4, <1>5
<1> QED BY <1>2, <1>5, <1>6

\* Two hexadecimal digits give the byte they were made from.
LEMMA PairReads ==
    ASSUME NEW s, NEW i \in Nat, NEW x \in Nat, x <= 255, Len(s) \in Nat, i + 1 < Len(s),
           s[i + 1] = x \div 16, s[i + 2] = x % 16
    PROVE  PairAt(s, i) = x
<1>1. PICK a \in Nat, e \in Nat : a = x \div 16 /\ e = x % 16
  OBVIOUS
<1>2. a < 16 /\ e < 16 /\ 16 * a + e = x
  BY <1>1
<1>3. i < Len(s) /\ (i + 1) + 1 = i + 2
  OBVIOUS
<1>4. s[i + 1] = a /\ s[(i + 1) + 1] = e
  BY <1>1, <1>3
<1>5. ~(a >= NL) /\ ~(e >= NL)
  BY <1>2 DEF NL
<1> QED BY <1>2, <1>3, <1>4, <1>5 DEF PairAt

\* The string of a battery's information is as InfoLayout says.
LEMMA CellString ==
    ASSUME NEW c \in Cells
    PROVE  LET s == InfoString(c.id, c.texts)
               st == Starts(c.texts)
           IN  /\ s \in Seq(Nat) /\ Len(s) = Total(c.texts) + NTexts + 3
               /\ s[1] = Total(c.texts) \div 16 /\ s[2] = Total(c.texts) % 16
               /\ s[3] = c.id \div 16 /\ s[4] = c.id % 16
               /\ \A i \in 1..NTexts :
                    /\ s[st[i] + i + 3] = Len(c.texts[i]) \div 16
                    /\ s[st[i] + i + 4] = Len(c.texts[i]) % 16
                    /\ \A m \in 1..Len(c.texts[i]) : s[st[i] + i + 4 + m] = c.texts[i][m]
<1>1. NTexts \in Nat /\ c.texts \in [1..NTexts -> Seq(Nat)] /\ c.id \in Nat
      /\ Starts(c.texts)[NTexts + 1] = Total(c.texts)
  BY CellIs, CellPlaces
<1>2. LaidOut(InfoString(c.id, c.texts), c.id, c.texts, NTexts)
  <2> DEFINE w == c.texts
             x == c.id
  <2> HIDE DEF w, x
  <2>1. LaidOut(InfoString(x, w), x, w, NTexts)
    BY <1>1, InfoLayout DEF w, x
  <2> QED BY <2>1 DEF w, x
<1> QED BY <1>1, <1>2, Zenon DEF LaidOut

\* The total is read first, and then the block.
LEMMA TotalFirst ==
    ASSUME NEW c \in Cells
    PROVE  /\ InfoString(c.id, c.texts) # Absent
           /\ GetData(InfoString(c.id, c.texts), 0) = [byte |-> Total(c.texts), next |-> 2]
           /\ GetData(InfoString(c.id, c.texts), 2) = [byte |-> c.id, next |-> 4]
<1> DEFINE s == InfoString(c.id, c.texts)
           T == Total(c.texts)
<1>1. /\ s \in Seq(Nat) /\ Len(s) = T + NTexts + 3 /\ NTexts \in Nat
      /\ s[1] = T \div 16 /\ s[2] = T % 16
      /\ s[3] = c.id \div 16 /\ s[4] = c.id % 16
  BY CellString, CellIs
<1>2. T \in Nat /\ T <= 255 /\ c.id \in Nat /\ c.id <= 255 /\ T >= 1
  <2>1. Starts(c.texts)[NTexts + 1] = T
    BY CellPlaces
  <2>2. T \in Nat /\ T <= 255 /\ c.id \in Nat /\ c.id <= 255
    BY CellPlaces, CellIs
  <2>3. T >= 1
    <3>1. CASE NTexts = 0
      <4>1. Starts(c.texts)[1] = T
        BY <2>1, <3>1
      <4> QED BY <2>2, <4>1, CellPlaces
    <3>2. CASE NTexts # 0
      <4>1. 1 \in 1..NTexts
        BY <1>1, <3>2
      <4>2. PICK x \in Nat, l \in Nat : x >= 1 /\ x + 1 + l <= T
        BY <4>1, CellPlaces
      <4> QED BY <2>2, <4>2
    <3> QED BY <3>1, <3>2
  <2> QED BY <2>2, <2>3
<1> HIDE DEF s, T
<1>3. Len(s) \in Nat /\ 2 + 1 < Len(s) /\ 0 + 1 < Len(s)
  BY <1>1, <1>2
<1>4. PairAt(s, 0) = T
  <2>1. s[0 + 1] = T \div 16 /\ s[0 + 2] = T % 16
    BY <1>1
  <2> QED BY <1>2, <1>3, <2>1, PairReads
<1>5. PairAt(s, 2) = c.id
  <2>1. s[2 + 1] = c.id \div 16 /\ s[2 + 2] = c.id % 16
    BY <1>1
  <2> QED BY <1>2, <1>3, <2>1, PairReads
<1>6. s # << >>
  BY <1>3
<1>7. GetData(s, 0) = [byte |-> T, next |-> 2]
  BY <1>4 DEF GetData, Boundary
<1>8. GetData(s, 2) = [byte |-> c.id, next |-> 4]
  BY <1>5 DEF GetData, Boundary
<1> QED BY <1>6, <1>7, <1>8 DEF s, T, Absent

\* The length of an attribute is read where it is: the attribute before has
\* ended with its end of line, and only there.
LEMMA LengthByte ==
    ASSUME NEW c \in Cells, Lines(c), NEW i \in 1..NTexts
    PROVE  GetData(InfoString(c.id, c.texts), Starts(c.texts)[i] + i + 2)
             = [byte |-> Len(c.texts[i]), next |-> Starts(c.texts)[i] + i + 4]
<1> DEFINE s == InfoString(c.id, c.texts)
           st == Starts(c.texts)
<1>1. PICK x \in Nat, l \in Nat, T \in Nat :
        /\ x = st[i] /\ l = Len(c.texts[i]) /\ T = Total(c.texts)
        /\ x >= 1 /\ x + 1 + l <= T
  BY CellPlaces
<1>2. /\ s \in Seq(Nat) /\ Len(s) = T + NTexts + 3 /\ NTexts \in Nat
      /\ s[x + i + 3] = l \div 16 /\ s[x + i + 4] = l % 16
  BY <1>1, CellString, CellIs
<1>3. T <= 255
  BY <1>1, CellIs
<1> DEFINE q == x + i + 2
<1>8. i \in Nat /\ i >= 1 /\ i <= NTexts
  BY <1>2
<1>9. /\ q \in Nat /\ Len(s) \in Nat /\ q + 1 < Len(s)
      /\ q + 1 = x + i + 3 /\ q + 2 = x + i + 4 /\ l <= 255
  <2> HIDE DEF s, st
  <2>1. /\ q \in Nat /\ T + NTexts + 3 \in Nat /\ q + 1 < T + NTexts + 3
        /\ q + 1 = x + i + 3 /\ q + 2 = x + i + 4 /\ l <= 255
    <3>1. x >= 1 /\ x + 1 + l <= T /\ NTexts \in Nat /\ i \in Nat /\ T <= 255
      BY <1>1, <1>2, <1>3
    <3> QED BY <1>8, <3>1
  <2> QED BY <1>2, <2>1, Zenon
<1>4. /\ q \in Nat /\ Len(s) \in Nat /\ q + 1 < Len(s) /\ q <= Len(s)
      /\ q + 1 = x + i + 3 /\ q + 2 = x + i + 4 /\ l <= 255
  <2> HIDE DEF s, st, q
  <2> QED BY <1>9
<1>5. PairAt(s, q) = l
  <2> HIDE DEF s, q
  <2> QED BY <1>2, <1>4, PairReads
<1>6. q <= Boundary \/ s[q] = NL
  <2>1. CASE i = 1
    <3>1. x = 1
      <4> HIDE DEF s
      <4> QED BY <1>1, <2>1, CellPlaces
    <3> QED BY <2>1, <3>1 DEF Boundary
  <2>2. CASE i # 1
    <3>1. i - 1 \in 1..NTexts /\ (i - 1) + 1 = i
      BY <1>2, <2>2
    <3>2. PICK y \in Nat, g \in Nat :
            /\ y = st[i - 1] /\ g = Len(c.texts[i - 1]) /\ x = y + 1 + g
      <4>1. /\ st[i - 1] \in Nat /\ Len(c.texts[i - 1]) \in Nat
            /\ st[(i - 1) + 1] = st[i - 1] + 1 + Len(c.texts[i - 1])
        BY <3>1, CellPlaces
      <4> HIDE DEF st
      <4> QED BY <1>1, <3>1, <4>1
    <3>3. g \in 1..g /\ c.texts[i - 1][g] = NL
      <4>1. c.texts[i - 1] \in Seq(Nat) /\ c.texts[i - 1] # << >>
        BY <3>1, CellPlaces DEF Lines
      <4>2. g # 0
        BY <3>2, <4>1
      <4>3. g \in DOMAIN c.texts[i - 1]
        BY <3>2, <4>1, <4>2
      <4>4. c.texts[i - 1][g] = NL
        BY <3>1, <3>2, <4>3 DEF Lines
      <4> QED BY <4>2, <4>4
    <3>4. s[y + (i - 1) + 4 + g] = c.texts[i - 1][g]
      <4>1. \A h \in 1..NTexts : \A d \in 1..Len(c.texts[h]) :
              s[st[h] + h + 4 + d] = c.texts[h][d]
        BY CellString, Zenon
      <4> HIDE DEF s, st
      <4> QED BY <3>1, <3>2, <3>3, <4>1, Zenon
    <3>5. y + (i - 1) + 4 + g = q
      <4> HIDE DEF s, st
      <4>1. y + (i - 1) + 4 + g = (y + 1 + g) + i + 2
        BY <1>8
      <4> QED BY <3>2, <4>1, Zenon
    <3> HIDE DEF s, q
    <3> QED BY <3>3, <3>4, <3>5
  <2> QED BY <2>1, <2>2
<1>7. GetData(s, q) = [byte |-> l, next |-> q + 2]
  <2> HIDE DEF s, q
  <2> QED BY <1>4, <1>5, <1>6 DEF GetData
<1> HIDE DEF s, st
<1> QED BY <1>1, <1>4, <1>7 DEF s, st

\* The characters of an attribute are read one by one, its end of line as 0.
LEMMA TextByte ==
    ASSUME NEW c \in Cells, Lines(c), NEW i \in 1..NTexts,
           NEW m \in 1..Len(c.texts[i])
    PROVE  GetData(InfoString(c.id, c.texts), Starts(c.texts)[i] + i + 3 + m)
             = [byte |-> AsRead(c.texts[i])[m], next |-> Starts(c.texts)[i] + i + 4 + m]
<1> DEFINE s == InfoString(c.id, c.texts)
           st == Starts(c.texts)
           w == c.texts[i]
<1>1. PICK x \in Nat, l \in Nat, T \in Nat :
        /\ x = st[i] /\ l = Len(w) /\ T = Total(c.texts)
        /\ x >= 1 /\ x + 1 + l <= T
  BY CellPlaces
<1>2. /\ s \in Seq(Nat) /\ Len(s) = T + NTexts + 3 /\ NTexts \in Nat
      /\ s[x + i + 4] = l % 16
      /\ \A h \in 1..l : s[x + i + 4 + h] = w[h]
  BY <1>1, CellString, CellIs
<1>3. /\ w \in Seq(Nat)
      /\ \A h \in DOMAIN w : w[h] = NL <=> h = Len(w)
  BY CellPlaces DEF Lines
<1> DEFINE q == x + i + 3 + m
<1>9. /\ i \in Nat /\ i >= 1 /\ i <= NTexts /\ m \in Nat /\ m >= 1 /\ m <= l
      /\ m \in 1..l
  <2>1. l = Len(w) /\ m \in 1..Len(w)
    BY <1>1
  <2>2. NTexts \in Nat
    BY <1>2
  <2> HIDE DEF s, st, w
  <2> QED BY <2>1, <2>2
<1>4. /\ q \in Nat /\ Len(s) \in Nat /\ q < Len(s) /\ ~(q <= 4) /\ m \in 1..l
      /\ q + 1 = x + i + 4 + m
  <2> HIDE DEF s, st, w
  <2>1. /\ q \in Nat /\ T + NTexts + 3 \in Nat /\ q < T + NTexts + 3 /\ ~(q <= 4)
        /\ q + 1 = x + i + 4 + m
    <3>1. x >= 1 /\ x + 1 + l <= T /\ NTexts \in Nat
      BY <1>1, <1>2
    <3> QED BY <1>9, <3>1
  <2> QED BY <1>2, <1>9, <2>1, Zenon
<1>5. s[q] # NL
  <2>1. CASE m = 1
    <3>1. l % 16 < 16 /\ l % 16 \in Nat
      OBVIOUS
    <3>2. q = x + i + 4
      BY <2>1
    <3> HIDE DEF s, q
    <3> QED BY <1>2, <3>1, <3>2 DEF NL
  <2>2. CASE m # 1
    <3>1. m - 1 \in 1..l /\ m - 1 # l /\ x + i + 4 + (m - 1) = q
      BY <1>4, <2>2
    <3>2. s[q] = w[m - 1]
      <4> HIDE DEF s, q, w
      <4> QED BY <1>2, <3>1
    <3>3. m - 1 \in DOMAIN w
      <4> HIDE DEF s, q, w
      <4> QED BY <1>1, <1>3, <3>1
    <3> HIDE DEF s, q, w
    <3> QED BY <1>1, <1>3, <3>1, <3>2, <3>3
  <2> QED BY <2>1, <2>2
<1>6. s[q + 1] = w[m]
  <2> HIDE DEF s, q, w
  <2> QED BY <1>2, <1>4
<1>7. AsRead(w)[m] = IF w[m] = NL THEN 0 ELSE w[m]
  <2>1. m \in DOMAIN w
    <3> HIDE DEF s, q, w
    <3> QED BY <1>1, <1>3, <1>4
  <2> HIDE DEF w
  <2> QED BY <2>1 DEF AsRead
<1>8. GetData(s, q) = [byte |-> AsRead(w)[m], next |-> q + 1]
  <2> HIDE DEF s, q, w
  <2> QED BY <1>4, <1>5, <1>6, <1>7 DEF GetData, Boundary
<1> HIDE DEF s, st, w
<1> QED BY <1>1, <1>4, <1>8 DEF s, st, w

\* One byte is read after the other: the next one is what the guest should
\* have next.
LEMMA NextByte ==
    ASSUME NEW c \in Cells, Lines(c), NEW n \in Nat, NEW q, Follows(c, n, q),
           n < Total(c.texts)
    PROVE  LET d == GetData(InfoString(c.id, c.texts), q) IN
           /\ Follows(c, n + 1, d.next)
           /\ n = 0 => d.byte = c.id
           /\ \A i \in 1..NTexts : \A m \in 0..Len(c.texts[i]) :
                Starts(c.texts)[i] + m = n => d.byte = AttributeByte(c.texts[i], m)
<1> DEFINE st == Starts(c.texts)
           d == GetData(InfoString(c.id, c.texts), q)
<1>1. /\ NTexts \in Nat /\ st[1] = 1 /\ st[NTexts + 1] = Total(c.texts)
      /\ \A i \in 1..NTexts :
           /\ st[i] \in Nat /\ st[i] >= 1 /\ Len(c.texts[i]) \in Nat
           /\ c.texts[i] \in Seq(Nat)
           /\ st[i + 1] = st[i] + 1 + Len(c.texts[i])
  BY CellPlaces, CellIs
<1>2. CASE n = 0
  <2>1. \A i \in 1..NTexts : \A m \in 0..Len(c.texts[i]) : st[i] + m # n
    <3> SUFFICES ASSUME NEW i \in 1..NTexts, NEW m \in 0..Len(c.texts[i]) PROVE st[i] + m # n
      OBVIOUS
    <3>1. PICK x \in Nat, l \in Nat : x = st[i] /\ l = Len(c.texts[i]) /\ x >= 1
      BY <1>1
    <3>2. m \in Nat
      BY <3>1
    <3> HIDE DEF st
    <3> QED BY <1>2, <3>1, <3>2
  <2>2. q = 2
    <3>1. n # Total(c.texts)
      <4>1. Total(c.texts) \in Nat
        BY CellPlaces
      <4> QED BY <4>1
    <3> QED BY <1>2, <2>1, <3>1, Zenon DEF Follows
  <2>3. d = [byte |-> c.id, next |-> 4]
    BY <2>2, TotalFirst
  <2>4. Follows(c, 1, 4)
    <3>1. CASE NTexts = 0
      <4>1. 1 = Total(c.texts)
        BY <1>1, <3>1
      <4> QED BY <4>1 DEF Follows
    <3>2. CASE NTexts # 0
      <4>1. 1 \in 1..NTexts
        BY <1>1, <3>2
      <4>2. 0 \in 0..Len(c.texts[1]) /\ 1 = st[1] + 0 /\ 4 = st[1] + 1 + 2 + 0
        BY <1>1, <4>1
      <4> QED BY <4>1, <4>2 DEF Follows
    <3> QED BY <3>1, <3>2
  <2>5. n + 1 = 1
    BY <1>2
  <2>6. d.byte = c.id /\ d.next = 4
    BY <2>3
  <2> HIDE DEF d, st
  <2> QED BY <2>1, <2>4, <2>5, <2>6, Zenon DEF d, st
<1>3. CASE n # 0
  <2>7. PICK i \in 1..NTexts : \E m \in 0..Len(c.texts[i]) :
          /\ n = st[i] + m
          /\ q = st[i] + i + 2 + (IF m = 0 THEN 0 ELSE m + 1)
    <3>1. n # Total(c.texts)
      <4>1. Total(c.texts) \in Nat
        BY CellPlaces
      <4> QED BY <4>1
    <3> QED BY <1>3, <3>1, Zenon DEF Follows
  <2>1. PICK m \in 0..Len(c.texts[i]) :
          /\ n = st[i] + m
          /\ q = st[i] + i + 2 + (IF m = 0 THEN 0 ELSE m + 1)
    BY <2>7
  <2>2. PICK x \in Nat, l \in Nat :
          /\ x = st[i] /\ l = Len(c.texts[i]) /\ x >= 1 /\ st[i + 1] = x + 1 + l
          /\ c.texts[i] \in Seq(Nat)
    BY <1>1
  <2>3. m \in Nat /\ m <= l /\ n = x + m /\ i \in Nat
    BY <2>1, <2>2
  <2>4. d.byte = AttributeByte(c.texts[i], m) /\ d.next = x + i + 4 + m
    <3>1. CASE m = 0
      <4>1. q = x + i + 2
        BY <2>1, <2>2, <3>1
      <4>2. d = [byte |-> l, next |-> x + i + 4]
        BY <2>2, <4>1, LengthByte
      <4>3. x + i + 4 + m = x + i + 4
        BY <2>3, <3>1
      <4>4. d.byte = l /\ d.next = x + i + 4
        BY <4>2
      <4> HIDE DEF d, st
      <4> QED BY <2>2, <3>1, <4>3, <4>4 DEF AttributeByte
    <3>2. CASE m # 0
      <4>1. q = x + i + 3 + m /\ m \in 1..l
        <5>1. q = x + i + 2 + (m + 1)
          BY <2>1, <2>2, <3>2
        <5> HIDE DEF d, st
        <5> QED BY <2>3, <3>2, <5>1
      <4>2. d = [byte |-> AsRead(c.texts[i])[m], next |-> x + i + 4 + m]
        BY <2>2, <4>1, TextByte
      <4>4. d.byte = AsRead(c.texts[i])[m] /\ d.next = x + i + 4 + m
        BY <4>2
      <4> HIDE DEF d, st
      <4> QED BY <3>2, <4>4 DEF AttributeByte
    <3> QED BY <3>1, <3>2
  <2>5. Follows(c, n + 1, d.next)
    <3>1. CASE m < l
      <4>1. m + 1 \in 0..Len(c.texts[i]) /\ n + 1 = st[i] + (m + 1) /\ m + 1 # 0
        <5>1. m + 1 \in 0..l /\ n + 1 = x + (m + 1) /\ m + 1 # 0
          BY <2>3, <3>1
        <5> HIDE DEF st
        <5> QED BY <2>2, <5>1, Zenon
      <4>2. d.next = st[i] + i + 2 + ((m + 1) + 1)
        <5>1. x + i + 4 + m = x + i + 2 + ((m + 1) + 1)
          BY <2>3
        <5> HIDE DEF st, d
        <5> QED BY <2>2, <2>4, <5>1, Zenon
      <4> HIDE DEF d
      <4> QED BY <4>1, <4>2, Zenon DEF Follows
    <3>2. CASE m = l
      <4>1. n + 1 = st[i + 1]
        <5>1. n + 1 = x + 1 + l
          BY <2>3, <3>2
        <5> HIDE DEF st, d
        <5> QED BY <2>2, <5>1, Zenon
      <4>2. CASE i = NTexts
        <5>1. n + 1 = Total(c.texts)
          BY <1>1, <4>1, <4>2
        <5> QED BY <5>1, Zenon DEF Follows
      <4>3. CASE i # NTexts
        <5>1. i + 1 \in 1..NTexts /\ 0 \in 0..Len(c.texts[i + 1])
          <6>1. i + 1 \in 1..NTexts
            BY <1>1, <4>3
          <6> QED BY <1>1, <6>1
        <5>2. n + 1 = st[i + 1] + 0
          <6>1. n + 1 \in Nat
            OBVIOUS
          <6> HIDE DEF st, d
          <6> QED BY <4>1, <6>1
        <5>3. d.next = st[i + 1] + (i + 1) + 2 + 0
          <6>1. x + i + 4 + m = (x + 1 + l) + (i + 1) + 2 + 0
            BY <2>3, <3>2
          <6> HIDE DEF st, d
          <6> QED BY <2>2, <2>4, <6>1, Zenon
        <5> HIDE DEF d
        <5> QED BY <5>1, <5>2, <5>3, Zenon DEF Follows
      <4> QED BY <4>2, <4>3
    <3> QED BY <2>3, <3>1, <3>2
  <2>6. ASSUME NEW j \in 1..NTexts, NEW h \in 0..Len(c.texts[j]), st[j] + h = n
        PROVE  d.byte = AttributeByte(c.texts[j], h)
    <3>1. j = i /\ h = m
      <4>1. st[j] + h = st[i] + m
        BY <2>1, <2>6
      <4> QED BY <4>1, OnePlace
    <3> HIDE DEF d
    <3> QED BY <2>4, <3>1, Zenon
  <2> HIDE DEF d, st
  <2> QED BY <1>3, <2>5, <2>6, Zenon DEF d, st
<1> QED BY <1>2, <1>3

\* It goes into BUF0 after those that are there.
\* The index is a uint8_t, and no string is so long that it wraps.
LEMMA NoWrap ==
    ASSUME NEW c \in Cells, NEW n \in Nat, NEW q, Follows(c, n + 1, q)
    PROVE  Follows(c, n + 1, q % 256)
<1>1. CASE n + 1 = Total(c.texts)
  BY <1>1 DEF Follows
<1>2. CASE n + 1 # Total(c.texts)
  <2>0. PICK i \in 1..NTexts : \E m \in 0..Len(c.texts[i]) :
          /\ n + 1 = Starts(c.texts)[i] + m
          /\ q = Starts(c.texts)[i] + i + 2 + (IF m = 0 THEN 0 ELSE m + 1)
    <3>1. n + 1 # 0
      OBVIOUS
    <3> QED BY <1>2, <3>1, Zenon DEF Follows
  <2>1. PICK m \in 0..Len(c.texts[i]) :
          /\ n + 1 = Starts(c.texts)[i] + m
          /\ q = Starts(c.texts)[i] + i + 2 + (IF m = 0 THEN 0 ELSE m + 1)
    BY <2>0
  <2>2. PICK x \in Nat, l \in Nat, T \in Nat :
          /\ x = Starts(c.texts)[i] /\ l = Len(c.texts[i]) /\ T = Total(c.texts)
          /\ x + 1 + l <= T /\ T + NTexts + 3 <= 255 /\ NTexts \in Nat
    BY CellPlaces, CellIs
  <2>3. /\ q = x + i + 2 + (IF m = 0 THEN 0 ELSE m + 1)
        /\ m \in Nat /\ m <= l /\ i \in Nat /\ i <= NTexts
    BY <2>1, <2>2
  <2>4. q \in Nat /\ q < 256
    <3>1. /\ x + 1 + l <= T /\ T + NTexts + 3 <= 255 /\ NTexts \in Nat
          /\ m \in Nat /\ m <= l /\ i \in Nat /\ i <= NTexts
      BY <2>2, <2>3
    <3>2. q = x + i + 2 \/ q = x + i + 2 + (m + 1)
      BY <2>3
    <3> QED BY <3>1, <3>2
  <2>5. q % 256 = q
    BY <2>4
  <2> QED BY <2>5
<1> QED BY <1>1, <1>2

LEMMA ReceivedNext ==
    ASSUME NEW c \in Cells, Lines(c), NEW n \in Nat, NEW q, Follows(c, n, q),
           n < Total(c.texts), Received(c, n), DOMAIN buf = 0..Size - 1,
           buf' = [buf EXCEPT ![2 + n] = GetData(InfoString(c.id, c.texts), q).byte]
    PROVE  Received(c, n + 1)'
<1> DEFINE d == GetData(InfoString(c.id, c.texts), q)
           st == Starts(c.texts)
<1>1. /\ n = 0 => d.byte = c.id
      /\ \A i \in 1..NTexts : \A m \in 0..Len(c.texts[i]) :
           st[i] + m = n => d.byte = AttributeByte(c.texts[i], m)
  BY NextByte, Zenon
<1>2. 2 + n \in DOMAIN buf
  <2>1. Total(c.texts) + 2 <= Size /\ Total(c.texts) \in Nat /\ Size \in Nat
    BY CellIs, CellPlaces
  <2> QED BY <2>1
<1> HIDE DEF d
<1>3. buf' = [buf EXCEPT ![2 + n] = d.byte]
  BY DEF d
<1>4. buf'[2 + n] = d.byte
  BY <1>2, <1>3
<1>5. \A p \in DOMAIN buf : p # 2 + n => buf'[p] = buf[p]
  BY <1>3
<1>6. buf'[2] = c.id
  <2>1. CASE n = 0
    <3>1. 2 + n = 2
      BY <2>1
    <3> QED BY <1>1, <1>4, <2>1, <3>1
  <2>2. CASE n # 0
    <3>1. n > 0 /\ 2 # 2 + n /\ 2 \in 0..2 + n
      BY <2>2
    <3>2. 2 \in DOMAIN buf
      <4>1. 2 + n < Size /\ Size \in Nat
        BY <1>2, CellIs
      <4> QED BY <4>1
    <3> QED BY <1>5, <3>1, <3>2 DEF Received
  <2> QED BY <2>1, <2>2
<1>7. ASSUME NEW i \in 1..NTexts, NEW m \in 0..Len(c.texts[i]), st[i] + m < n + 1
      PROVE  buf'[2 + st[i] + m] = AttributeByte(c.texts[i], m)
  <2>1. PICK x \in Nat, l \in Nat : x = st[i] /\ l = Len(c.texts[i]) /\ x >= 1
    BY CellPlaces
  <2>2. m \in Nat
    BY <2>1
  <2> HIDE DEF st
  <2>3. CASE x + m = n
    <3>1. 2 + st[i] + m = 2 + n
      <4>1. 2 + x + m = 2 + n
        <5> HIDE <2>1
        <5> QED BY <2>2, <2>3
      <4> QED BY <2>1, <4>1, Zenon
    <3>2. d.byte = AttributeByte(c.texts[i], m)
      BY <1>1, <2>1, <2>3, Zenon
    <3> QED BY <1>4, <3>1, <3>2, Zenon
  <2>4. CASE x + m # n
    <3>1. /\ st[i] + m < n /\ 2 + st[i] + m # 2 + n
          /\ 2 + st[i] + m \in 0..2 + n
      BY <1>7, <2>1, <2>2, <2>4
    <3>2. 2 + st[i] + m \in DOMAIN buf
      <4>1. 2 + n \in 0..Size - 1 /\ Size \in Nat /\ 2 + x + m \in 0..2 + n
        BY <1>2, <2>1, <3>1, CellIs
      <4>2. 2 + x + m \in 0..Size - 1
        BY <4>1, <2>2
      <4> QED BY <2>1, <4>2
    <3>3. buf[2 + st[i] + m] = AttributeByte(c.texts[i], m)
      BY <3>1, Zenon DEF Received, st
    <3> QED BY <1>5, <3>1, <3>2, <3>3, Zenon
  <2> QED BY <2>3, <2>4
<1> HIDE DEF st
<1> QED BY <1>6, <1>7, Zenon DEF Received, st

\* What is in BUF0 when all has come is the package.
LEMMA BytesThere ==
    ASSUME NEW c \in Cells, Received(c, Total(c.texts))
    PROVE  /\ ByteAt(2) = c.id
           /\ \A i \in 1..NTexts : \A m \in 0..Len(c.texts[i]) :
                ByteAt(2 + Starts(c.texts)[i] + m) = AttributeByte(c.texts[i], m)
<1> DEFINE st == Starts(c.texts)
<1>1. PICK T \in Nat : T = Total(c.texts) /\ T + 2 <= Size /\ Size \in Nat
  BY CellIs, CellPlaces
<1>2. ByteAt(2) = c.id
  <2>1. T >= 1
    <3>1. CASE NTexts = 0
      <4>1. T = st[1] /\ st[1] = 1
        BY <1>1, <3>1, CellPlaces
      <4> HIDE DEF st
      <4> QED BY <1>1, <4>1
    <3>2. CASE NTexts # 0
      <4>1. 1 \in 1..NTexts
        BY <3>2, CellIs
      <4>2. PICK x \in Nat, l \in Nat : x >= 1 /\ x + 1 + l <= T
        BY <1>1, <4>1, CellPlaces
      <4> QED BY <4>2
    <3> QED BY <3>1, <3>2
  <2>2. T > 0 /\ 2 < Size
    BY <1>1, <2>1
  <2> QED BY <1>1, <2>2 DEF Received, ByteAt
<1>3. ASSUME NEW i \in 1..NTexts, NEW m \in 0..Len(c.texts[i])
      PROVE  ByteAt(2 + st[i] + m) = AttributeByte(c.texts[i], m)
  <2>1. PICK x \in Nat, l \in Nat : x = st[i] /\ l = Len(c.texts[i]) /\ x + 1 + l <= T
    BY <1>1, CellPlaces
  <2>2. x + m < T /\ 2 + x + m < Size
    <3>1. m \in Nat /\ m <= l
      BY <2>1
    <3>2. x + 1 + l <= T /\ T + 2 <= Size /\ Size \in Nat
      BY <1>1, <2>1
    <3>3. x + m < T
      BY <3>1, <3>2
    <3>4. 2 + x + m < Size
      BY <3>1, <3>2
    <3> QED BY <3>3, <3>4
  <2>3. buf[2 + st[i] + m] = AttributeByte(c.texts[i], m)
    <3>1. st[i] + m < Total(c.texts)
      BY <1>1, <2>1, <2>2, Zenon
    <3> QED BY <3>1, Zenon DEF Received
  <2>4. 2 + st[i] + m < Size
    <3> HIDE DEF st
    <3> QED BY <2>1, <2>2, Zenon
  <2> QED BY <2>3, <2>4, Zenon DEF ByteAt
<1> QED BY <1>2, <1>3, Zenon

LEMMA PlacesFound ==
    ASSUME NEW c \in Cells, Received(c, Total(c.texts)), NEW i \in 1..NTexts
    PROVE  StringsFrom(3)[i] = 2 + Starts(c.texts)[i]
<1> DEFINE st == Starts(c.texts)
           n == NTexts
           Is(f) == f = [h \in 1..n + 1 |-> IF h = 1 THEN 3 ELSE f[h - 1] + 1 + ByteAt(f[h - 1])]
           g == [h \in 1..n + 1 |-> 2 + st[h]]
           at == StringsFrom(3)
<1>1. /\ n \in Nat /\ st \in [1..n + 1 -> Nat] /\ st[1] = 1
      /\ \A h \in 1..n : st[h] \in Nat /\ Len(c.texts[h]) \in Nat
                         /\ st[h + 1] = st[h] + 1 + Len(c.texts[h])
  BY CellPlaces, CellIs
<1>2. ASSUME NEW h \in 1..n PROVE ByteAt(2 + st[h]) = Len(c.texts[h])
  <2>1. 0 \in 0..Len(c.texts[h])
    BY <1>1
  <2>2. ByteAt(2 + st[h] + 0) = AttributeByte(c.texts[h], 0)
    BY <2>1, BytesThere, Zenon
  <2>3. 2 + st[h] + 0 = 2 + st[h]
    <3> HIDE DEF st
    <3> QED BY <1>1
  <2> QED BY <2>2, <2>3, Zenon DEF AttributeByte
<1> HIDE DEF st
<1>3. \E f : Is(f)
  <2>1. ASSUME NEW h \in 1..n + 1
        PROVE  g[h] = IF h = 1 THEN 3 ELSE g[h - 1] + 1 + ByteAt(g[h - 1])
    <3>1. g[h] = 2 + st[h]
      OBVIOUS
    <3>2. CASE h = 1
      BY <1>1, <3>1, <3>2
    <3>3. CASE h # 1
      <4>1. h - 1 \in 1..n /\ h - 1 \in 1..n + 1 /\ (h - 1) + 1 = h
        BY <1>1, <3>3
      <4>2. g[h - 1] = 2 + st[h - 1]
        BY <4>1
      <4>3. ByteAt(g[h - 1]) = Len(c.texts[h - 1])
        BY <1>2, <4>1, <4>2, Zenon
      <4>4. PICK x \in Nat, l \in Nat :
              x = st[h - 1] /\ l = Len(c.texts[h - 1]) /\ st[h] = x + 1 + l
        BY <1>1, <4>1
      <4>5. 2 + (x + 1 + l) = (2 + x) + 1 + l
        OBVIOUS
      <4> HIDE DEF g
      <4> QED BY <3>1, <3>3, <4>2, <4>3, <4>4, <4>5, Zenon
    <3> QED BY <3>2, <3>3
  <2> DEFINE r == [h \in 1..n + 1 |-> IF h = 1 THEN 3 ELSE g[h - 1] + 1 + ByteAt(g[h - 1])]
             D == 1..n + 1
  <2>2. AgreeOn(g, r, D)
    <3> HIDE DEF g
    <3> QED BY <2>1, Zenon DEF AgreeOn
  <2>3. FunctionOn(g, D)
    BY Zenon DEF FunctionOn
  <2>4. FunctionOn(r, D)
    <3> HIDE DEF g
    <3> QED BY Zenon DEF FunctionOn
  <2>5. Same(g, r)
    <3> HIDE DEF g, r, D
    <3> QED BY <2>2, <2>3, <2>4, SameFunction, Zenon
  <2>6. Is(g)
    <3> HIDE DEF g
    <3> QED BY <2>5, Zenon DEF Same
  <2> HIDE DEF Is, g
  <2> QED BY <2>6, Zenon
<1>4. Is(at)
  <2>1. at = CHOOSE f : Is(f)
    BY DEF StringsFrom
  <2> HIDE DEF Is, at
  <2> QED BY <1>3, <2>1, Zenon
<1> HIDE DEF at
<1>5. /\ at[1] = 3
      /\ \A h \in 1..n : at[h + 1] = at[h] + 1 + ByteAt(at[h])
  <2>1. \A h \in 1..n + 1 : at[h] = IF h = 1 THEN 3 ELSE at[h - 1] + 1 + ByteAt(at[h - 1])
    BY <1>4, Zenon
  <2>2. 1 \in 1..n + 1 /\ \A h \in 1..n : h + 1 \in 1..n + 1 /\ h + 1 # 1 /\ (h + 1) - 1 = h
    BY <1>1
  <2> HIDE DEF Is
  <2> QED BY <2>1, <2>2, Zenon
<1> DEFINE U == {d \in Nat : d + 1 \in 1..n + 1 => at[d + 1] = 2 + st[d + 1]}
<1>6. 0 \in U
  BY <1>1, <1>5
<1>7. ASSUME NEW d \in Nat, d \in U PROVE d + 1 \in U
  <2> SUFFICES ASSUME (d + 1) + 1 \in 1..n + 1 PROVE at[(d + 1) + 1] = 2 + st[(d + 1) + 1]
    OBVIOUS
  <2>1. d + 1 \in 1..n /\ at[d + 1] = 2 + st[d + 1]
    BY <1>1, <1>7
  <2>2. at[(d + 1) + 1] = (2 + st[d + 1]) + 1 + Len(c.texts[d + 1])
    BY <1>2, <1>5, <2>1, Zenon
  <2>3. PICK x \in Nat, l \in Nat :
          x = st[d + 1] /\ l = Len(c.texts[d + 1]) /\ st[(d + 1) + 1] = x + 1 + l
    BY <1>1, <2>1
  <2>4. (2 + x) + 1 + l = 2 + (x + 1 + l)
    OBVIOUS
  <2> HIDE DEF U, Is, g
  <2> QED BY <2>2, <2>3, <2>4, Zenon
<1>8. Nat \subseteq U
  <2> HIDE DEF U
  <2> QED BY <1>6, <1>7, Induction
<1>9. i - 1 \in Nat /\ (i - 1) + 1 = i /\ i \in 1..n + 1
  BY <1>1
<1>10. i - 1 \in U
  <2> HIDE DEF U
  <2> QED BY <1>8, <1>9
<1> HIDE DEF Is, g
<1> QED BY <1>9, <1>10, Zenon DEF st, at

LEMMA PackageIs ==
    ASSUME NEW c \in Cells, Received(c, Total(c.texts))
    PROVE  /\ ByteAt(2) = c.id
           /\ [i \in 1..NTexts |-> StringAt(StringsFrom(3)[i])]
                = [i \in 1..NTexts |-> AsRead(c.texts[i])]
<1>1. ASSUME NEW i \in 1..NTexts PROVE StringAt(StringsFrom(3)[i]) = AsRead(c.texts[i])
  <2> DEFINE p == 2 + Starts(c.texts)[i]
             w == c.texts[i]
             L == Len(w)
  <2>1. StringsFrom(3)[i] = p
    BY PlacesFound
  <2>2. w \in Seq(Nat) /\ L \in Nat /\ Starts(c.texts)[i] \in Nat
    BY CellPlaces
  <2>3. \A m \in 0..L : ByteAt(p + m) = AttributeByte(w, m)
    BY BytesThere, Zenon
  <2>4. p + 0 = p
    BY <2>2
  <2>5. DOMAIN w = 1..L
    BY <2>2
  <2>6. ByteAt(p) = L
    <3>1. 0 \in 0..L
      <4> HIDE DEF p, L
      <4> QED BY <2>2
    <3> HIDE DEF p, w, L
    <3> QED BY <2>3, <2>4, <3>1, Zenon DEF AttributeByte, L
  <2>7. StringAt(p) = [j \in 1..L |-> ByteAt(p + j)]
    <3> HIDE DEF p, w, L
    <3> QED BY <2>6, Zenon DEF StringAt
  <2>8. AsRead(w) = [j \in 1..L |-> AsRead(w)[j]]
    <3> HIDE DEF p, w, L
    <3> QED BY <2>5, Zenon DEF AsRead
  <2>9. \A j \in 1..L : ByteAt(p + j) = AsRead(w)[j]
    <3>1. \A j \in 1..L : j \in 0..L /\ j # 0
      <4> HIDE DEF p, w, L
      <4> QED BY <2>2
    <3> HIDE DEF p, w, L
    <3> QED BY <2>3, <3>1, Zenon DEF AttributeByte
  <2>10. [j \in 1..L |-> ByteAt(p + j)] = [j \in 1..L |-> AsRead(w)[j]]
    <3> HIDE DEF p, w, L
    <3> QED BY <2>9, Zenon
  <2> HIDE DEF p, w, L
  <2> QED BY <2>1, <2>7, <2>8, <2>10, Zenon DEF w
<1>2. [i \in 1..NTexts |-> StringAt(StringsFrom(3)[i])]
        = [i \in 1..NTexts |-> AsRead(c.texts[i])]
  BY <1>1, Zenon
<1> QED BY <1>2, BytesThere, Zenon

-----------------------------------------------------------------------------
(* The invariant of a _BST *)

\* What a thread's part of StatusInv looks at apart from its own state.
Watched(t) ==
    method[t] = "BST" /\ pc[t] # "idle" =>
        pc[t] # "fetch" /\ Watches(t) /\ Requested(t) /\ Progress(t)

\* A thread that does not hold SYNC does not mind what the others do to the
\* device and the buffer.
LEMMA OthersHarmless ==
    ASSUME StatusInv, NEW t \in Threads, ~HasSync(t),
           UNCHANGED <<bst, pc[t], method[t], bat[t], k[t], result[t], held[t]>>
    PROVE  Watched(t)'
<1> SUFFICES ASSUME (method[t] = "BST" /\ pc[t] # "idle")'
             PROVE  (pc[t] # "fetch" /\ Watches(t) /\ Requested(t) /\ Progress(t))'
  BY DEF Watched
<1>1. pc[t] # "fetch" /\ Watches(t) /\ Progress(t)
  BY DEF StatusInv
<1>2. Watches(t)'
  BY <1>1 DEF Watches
<1>3. Requested(t)'
  BY DEF Requested, HasSync
<1>4. Progress(t)'
  BY <1>1 DEF Progress, Copied, HasSync
<1> QED BY <1>1, <1>2, <1>3, <1>4

\* All reads of ports and nodes but those of another's copy.
LEMMA SameCopy ==
    ASSUME StatusInv, NEW t \in Threads,
           UNCHANGED <<bst, pc[t], method[t], bat[t], k[t], result[t], held[t],
                       bufa, bufb, buf, index, qbst, selector, qindex>>
    PROVE  Watched(t)'
<1> SUFFICES ASSUME (method[t] = "BST" /\ pc[t] # "idle")'
             PROVE  (pc[t] # "fetch" /\ Watches(t) /\ Requested(t) /\ Progress(t))'
  BY DEF Watched
<1>1. pc[t] # "fetch" /\ Watches(t) /\ Requested(t) /\ Progress(t)
  BY DEF StatusInv
<1>2. Watches(t)'
  BY <1>1 DEF Watches
<1>3. Requested(t)'
  BY <1>1 DEF Requested, HasSync
<1>4. Progress(t)'
  BY <1>1 DEF Progress, Copied
<1> QED BY <1>1, <1>2, <1>3, <1>4

\* The initial state.
LEMMA InitStatus == Init => StatusInv
<1> SUFFICES ASSUME Init PROVE StatusInv
  OBVIOUS
<1>1. bst \in [Batteries -> StatusBlocks]
  <2>1. PICK s \in Statuses : bst = StatusNodes(s)
    BY DEF Init
  <2>2. \A i \in DOMAIN s : s[i] \in (0..255) \X (0..255)
    BY <2>1, BatteryAssumption
  <2> QED BY <2>1, <2>2 DEF StatusNodes, Nodes, StatusBlocks
<1>2. StatusTypes
  BY <1>1 DEF Init, StatusTypes, Batteries
<1>3. MutexInv
  BY BatteryAssumption DEF Init, MutexInv, HasSync
<1> QED BY <1>2, <1>3 DEF Init, StatusInv

\* xcpmd writes: the methods that watch the node see it.
LEMMA WriteStatusStep ==
    ASSUME StatusInv, WriteStatus
    PROVE  StatusInv'
<1> USE DEF StatusInv
<1>1. PICK s \in Statuses : bst' = StatusNodes(s) /\ Seen("BST", StatusNodes(s))
  BY DEF WriteStatus
<1>2. UNCHANGED <<bif, qemuVars, amlVars, threadVars>>
  BY DEF WriteStatus
<1>3. bst' \in [Batteries -> StatusBlocks]
  <2>1. \A i \in DOMAIN s : s[i] \in (0..255) \X (0..255)
    BY BatteryAssumption
  <2> QED BY <1>1, <2>1 DEF StatusNodes, Nodes, StatusBlocks
<1>4. StatusTypes'
  BY <1>1, <1>2, <1>3 DEF StatusTypes, Seen, qemuVars, amlVars, threadVars
<1>5. MutexInv'
  BY <1>2 DEF MutexInv, HasSync, amlVars, threadVars
<1>6. ASSUME NEW t \in Threads, (method[t] = "BST" /\ pc[t] # "idle")'
      PROVE  (pc[t] # "fetch" /\ Watches(t) /\ Requested(t) /\ Progress(t))'
  <2>1. method[t] = "BST" /\ pc[t] \notin {"idle", "fetch"} /\ Watches(t) /\ Requested(t) /\ Progress(t)
    BY <1>2, <1>6 DEF threadVars
  <2>2. CASE pc[t] = "return"
    <3>1. held'[t] = held[t]
      BY <1>1, <2>2 DEF Seen
    <3> QED BY <1>2, <2>1, <2>2, <3>1 DEF Watches, Requested, Progress, HasSync, qemuVars,
                                          amlVars, threadVars
  <2>3. CASE pc[t] # "return"
    <3>1. held'[t] = held[t] \cup {bst'[bat[t]]}
      BY <1>1, <2>1, <2>3 DEF Seen
    <3>2. Watches(t)'
      BY <1>2, <1>3, <2>1, <3>1 DEF Watches, threadVars
    <3>3. Requested(t)'
      BY <1>2, <2>1 DEF Requested, HasSync, qemuVars, amlVars, threadVars
    <3>4. Progress(t)'
      BY <1>2, <2>1, <2>3, <3>1 DEF Progress, Copied, qemuVars, amlVars, threadVars
    <3> QED BY <1>2, <2>1, <3>2, <3>3, <3>4 DEF threadVars
  <2> QED BY <2>2, <2>3
<1> QED BY <1>4, <1>5, <1>6

\* The information nodes are not what a _BST watches.
LEMMA WriteInfoStep ==
    ASSUME StatusInv, WriteInfo
    PROVE  StatusInv'
<1> USE DEF StatusInv
<1>1. PICK s \in Infos : Seen("BIF", InfoNodes(s))
  BY DEF WriteInfo
<1>2. UNCHANGED <<bst, qemuVars, amlVars, threadVars>>
  BY DEF WriteInfo
<1>3. StatusTypes' /\ MutexInv'
  BY <1>1, <1>2 DEF StatusTypes, MutexInv, HasSync, Seen, qemuVars, amlVars, threadVars
<1>4. ASSUME NEW t \in Threads, (method[t] = "BST" /\ pc[t] # "idle")'
      PROVE  (pc[t] # "fetch" /\ Watches(t) /\ Requested(t) /\ Progress(t))'
  <2>1. method[t] = "BST" /\ held'[t] = held[t]
    BY <1>1, <1>2, <1>4 DEF Seen, threadVars
  <2>2. Watched(t)'
    BY <1>2, <2>1, SameCopy DEF qemuVars, amlVars, threadVars
  <2> QED BY <1>4, <2>2 DEF Watched
<1> QED BY <1>3, <1>4

\* The steps that touch neither the copies nor the buffer.
LEMMA CallStep ==
    ASSUME StatusInv, NEW t \in Threads, Call(t)
    PROVE  StatusInv'
<1> USE DEF StatusInv
<1>1. PICK m \in {"STA", "BST", "BIF"}, b \in Batteries :
        /\ method' = [method EXCEPT ![t] = m]
        /\ bat' = [bat EXCEPT ![t] = b]
        /\ held' = [held EXCEPT ![t] = {IF m = "BST" THEN bst[b] ELSE bif[b]}]
        /\ pc' = [pc EXCEPT ![t] = IF m = "BIF" THEN "acquire" ELSE "status"]
  BY DEF Call, Goto
<1>2. /\ pc[t] = "idle"
      /\ UNCHANGED <<nodeVars, qemuVars, amlVars, k, result>>
  BY DEF Call, At
<1>3. StatusTypes'
  BY <1>1, <1>2 DEF StatusTypes, nodeVars, qemuVars, amlVars
<1>4. MutexInv'
  BY <1>1, <1>2 DEF StatusTypes, MutexInv, HasSync, amlVars
<1>5. ASSUME NEW u \in Threads PROVE Watched(u)'
  <2>1. CASE u = t
    <3>1. /\ pc'[t] \in {"acquire", "status"} /\ bat'[t] = b /\ method'[t] = m
          /\ m = "BST" => held'[t] = {bst[b]}
      BY <1>1 DEF StatusTypes
    <3>2. bst[b] \in StatusBlocks /\ bst' = bst
      BY <1>2 DEF StatusTypes, nodeVars
    <3> QED BY <2>1, <3>1, <3>2 DEF Watched, Watches, Requested, Progress, HasSync
  <2>2. CASE u # t
    BY <1>1, <1>2, <2>2, SameCopy DEF nodeVars, qemuVars, amlVars, StatusTypes
  <2> QED BY <2>1, <2>2
<1> QED BY <1>3, <1>4, <1>5 DEF Watched

LEMMA ReadStatusStep ==
    ASSUME StatusInv, NEW t \in Threads, ReadStatus(t)
    PROVE  StatusInv'
<1> USE DEF StatusInv
<1>1. /\ pc[t] = "status"
      /\ pc' = [pc EXCEPT ![t] = IF method[t] = "BST" THEN "acquire" ELSE "return"]
      /\ UNCHANGED <<nodeVars, amlVars, method, bat, k, result, held,
                     qbst, selector, qindex, index>>
  BY DEF ReadStatus, At, Goto, ReadStatusPort
<1>2. StatusTypes'
  BY <1>1 DEF StatusTypes, nodeVars, amlVars
<1>3. MutexInv'
  BY <1>1 DEF StatusTypes, MutexInv, HasSync, amlVars
<1>4. ASSUME NEW u \in Threads PROVE Watched(u)'
  <2>1. CASE u = t
    <3>1. pc'[t] = IF method[t] = "BST" THEN "acquire" ELSE "return"
      BY <1>1 DEF StatusTypes
    <3>2. method[t] = "BST" => Watches(t)
      BY <1>1
    <3> QED BY <1>1, <2>1, <3>1, <3>2 DEF Watched, Watches, Requested, Progress, HasSync, nodeVars
  <2>2. CASE u # t
    <3>1. pc'[u] = pc[u]
      BY <1>1, <2>2 DEF StatusTypes
    <3> QED BY <1>1, <3>1, SameCopy DEF nodeVars, amlVars
  <2> QED BY <2>1, <2>2
<1> QED BY <1>2, <1>3, <1>4 DEF Watched

LEMMA ReturnStep ==
    ASSUME StatusInv, NEW t \in Threads, Return(t)
    PROVE  StatusInv'
<1> USE DEF StatusInv
<1>1. /\ pc[t] = "return"
      /\ pc' = [pc EXCEPT ![t] = "idle"]
      /\ result' = [result EXCEPT ![t] = << >>]
      /\ held' = [held EXCEPT ![t] = {}]
      /\ k' = [k EXCEPT ![t] = 0]
      /\ method' = [method EXCEPT ![t] = "none"] /\ bat' = [bat EXCEPT ![t] = 0]
      /\ UNCHANGED <<nodeVars, qemuVars, amlVars>>
  BY DEF Return, Goto
<1>2. StatusTypes'
  BY <1>1 DEF StatusTypes, nodeVars, qemuVars, amlVars
<1>3. MutexInv'
  BY <1>1 DEF StatusTypes, MutexInv, HasSync, amlVars
<1>4. ASSUME NEW u \in Threads PROVE Watched(u)'
  <2>1. CASE u = t
    <3>1. pc'[t] = "idle"
      BY <1>1 DEF StatusTypes
    <3> QED BY <2>1, <3>1 DEF Watched
  <2>2. CASE u # t
    BY <1>1, <2>2, SameCopy DEF nodeVars, qemuVars, amlVars, StatusTypes
  <2> QED BY <2>1, <2>2
<1> QED BY <1>2, <1>3, <1>4 DEF Watched

\* A step of the owner of SYNC, for all but the owner.
LEMMA OwnerStep ==
    ASSUME StatusInv, NEW t \in Threads, owner \in {NoThread, t},
           NEW u \in Threads, u # t, bst' = bst,
           UNCHANGED <<pc[u], method[u], bat[u], k[u], result[u], held[u]>>
    PROVE  Watched(u)'
<1>1. ~HasSync(u)
  BY BatteryAssumption DEF StatusInv, MutexInv
<1> QED BY <1>1, OthersHarmless

\* SYNC is taken and BUF0 filled.
LEMMA AcquireStep ==
    ASSUME StatusInv, NEW t \in Threads, Acquire(t)
    PROVE  StatusInv'
<1> USE DEF StatusInv
<1>1. /\ pc[t] = "acquire" /\ owner \in {NoThread, t} /\ owner' = t
      /\ buf' = [buf EXCEPT ![0] = IF method[t] = "BST" THEN 2 ELSE 1, ![1] = bat[t] + 1]
      /\ bufa' = 2
      /\ pc' = [pc EXCEPT ![t] = "select"]
      /\ UNCHANGED <<nodeVars, qemuVars, bufb, bifp, method, bat, k, result, held>>
  BY DEF Acquire, At, Goto
<1>2. StatusTypes'
  BY <1>1 DEF StatusTypes, nodeVars, qemuVars
<1>3. MutexInv'
  BY <1>1, BatteryAssumption DEF StatusTypes, MutexInv, HasSync
<1>4. ASSUME NEW u \in Threads PROVE Watched(u)'
  <2>1. CASE u = t
    <3>1. pc'[t] = "select"
      BY <1>1 DEF StatusTypes
    <3>2. method[t] = "BST" => buf'[0] = 2 /\ buf'[1] = bat[t] + 1
      BY <1>1, BatteryAssumption DEF StatusTypes
    <3>3. method[t] = "BST" => Watches(t)
      BY <1>1
    <3> QED BY <1>1, <2>1, <3>1, <3>2, <3>3
            DEF Watched, Watches, Requested, Progress, HasSync, nodeVars
  <2>2. CASE u # t
    BY <1>1, <2>2, OwnerStep DEF nodeVars, StatusTypes
  <2> QED BY <2>1, <2>2
<1> QED BY <1>2, <1>3, <1>4 DEF Watched

\* The owner goes on to another state in which it has SYNC.
LEMMA StillOwner ==
    ASSUME StatusInv, NEW t \in Threads, HasSync(t), owner' = owner,
           NEW l \in {"select", "init", "type", "length", "data"},
           pc' = [pc EXCEPT ![t] = l]
    PROVE  MutexInv'
BY DEF StatusInv, StatusTypes, MutexInv, HasSync

\* PB5 selects the battery.
LEMMA SelectStep ==
    ASSUME StatusInv, NEW t \in Threads, Select(t)
    PROVE  StatusInv'
<1> USE DEF StatusInv
<1>1. /\ pc[t] = "select" /\ index' = bat[t]
      /\ pc' = [pc EXCEPT ![t] = "init"]
      /\ UNCHANGED <<nodeVars, qbst, qbif, changed, selector, qindex,
                     amlVars, method, bat, k, result, held>>
  BY DEF Select, At, Goto
<1>2. HasSync(t) /\ owner = t
  BY <1>1 DEF MutexInv, HasSync
<1>3. StatusTypes'
  BY <1>1 DEF StatusTypes, nodeVars, amlVars
<1>4. MutexInv'
  BY <1>1, <1>2, StillOwner DEF amlVars
<1>5. ASSUME NEW u \in Threads PROVE Watched(u)'
  <2>1. CASE u = t
    <3>1. pc'[t] = "init"
      BY <1>1 DEF StatusTypes
    <3>2. method[t] = "BST" => Watches(t) /\ Requested(t)
      BY <1>1
    <3> QED BY <1>1, <1>2, <2>1, <3>1, <3>2
            DEF Watched, Watches, Requested, Progress, HasSync, nodeVars, amlVars
  <2>2. CASE u # t
    BY <1>1, <1>2, <2>2, OwnerStep DEF nodeVars, StatusTypes
  <2> QED BY <2>1, <2>2
<1> QED BY <1>3, <1>4, <1>5 DEF Watched

\* Operation init throws the copies away.
LEMMA Init7BStep ==
    ASSUME StatusInv, NEW t \in Threads, Init7B(t)
    PROVE  StatusInv'
<1> USE DEF StatusInv
<1>1. /\ pc[t] = "init"
      /\ qbst' = [qbst EXCEPT ![index] = Absent]
      /\ selector' = [selector EXCEPT ![index] = "none"]
      /\ qindex' = [qindex EXCEPT ![index] = 0]
      /\ k' = [k EXCEPT ![t] = 0]
      /\ pc' = [pc EXCEPT ![t] = "type"]
      /\ UNCHANGED <<index, nodeVars, amlVars, method, bat, result, held>>
  BY DEF Init7B, At, Goto, OpInit
<1>2. HasSync(t) /\ owner = t
  BY <1>1 DEF MutexInv, HasSync
<1>3. StatusTypes'
  BY <1>1 DEF StatusTypes, nodeVars, amlVars
<1>4. MutexInv'
  BY <1>1, <1>2, StillOwner DEF amlVars
<1>5. ASSUME NEW u \in Threads PROVE Watched(u)'
  <2>1. CASE u = t
    <3>1. pc'[t] = "type" /\ k'[t] = 0
      BY <1>1 DEF StatusTypes
    <3>2. method[t] = "BST" => Watches(t) /\ Requested(t) /\ index = bat[t]
      BY <1>1 DEF Requested
    <3>3. qbst'[index] = Absent /\ selector'[index] = "none" /\ qindex'[index] = 0
      BY <1>1 DEF StatusTypes
    <3> QED BY <1>1, <1>2, <2>1, <3>1, <3>2, <3>3
            DEF Watched, Watches, Requested, Progress, HasSync, nodeVars, amlVars
  <2>2. CASE u # t
    BY <1>1, <1>2, <2>2, OwnerStep DEF nodeVars, StatusTypes
  <2> QED BY <2>1, <2>2
<1> QED BY <1>3, <1>4, <1>5 DEF Watched

\* A byte of BUF0 goes out as a type: the first makes the copy.
LEMMA Type7CStep ==
    ASSUME StatusInv, NEW t \in Threads, Type7C(t)
    PROVE  StatusInv'
<1> USE DEF StatusInv
<1>1. /\ pc[t] = "type"
      /\ UNCHANGED <<nodeVars, amlVars, method, bat, result, held>>
  BY DEF Type7C, At
<1>2. HasSync(t) /\ owner = t
  BY <1>1 DEF MutexInv, HasSync
<1>3. CASE k[t] < bufa
  <2>1. /\ OpSetType(buf[k[t]]) /\ k' = [k EXCEPT ![t] = @ + 1] /\ pc' = pc
    BY <1>3 DEF Type7C
  <2>2. /\ UNCHANGED <<qindex, index>>
        /\ \/ UNCHANGED <<qbst, selector>>
           \/ /\ selector' = [selector EXCEPT ![index] = "bif"] /\ qbst' = qbst
           \/ /\ selector' = [selector EXCEPT ![index] = "bst"] /\ UpdateBst(index)
    BY <2>1 DEF OpSetType, qemuVars, UpdateBif
  <2>3. StatusTypes'
    BY <1>1, <2>1, <2>2 DEF StatusTypes, nodeVars, amlVars, UpdateBst
  <2>4. MutexInv'
    BY <1>1, <2>1 DEF MutexInv, HasSync, amlVars
  <2>5. ASSUME method[t] = "BST" PROVE Progress(t)'
    <3>1. /\ Watches(t) /\ Requested(t) /\ Progress(t) /\ index = bat[t]
          /\ buf[0] = 2 /\ buf[1] = bat[t] + 1 /\ bufa = 2 /\ bat[t] \in {0, 1}
      BY <1>1, <1>2, <2>5 DEF Requested, Watches, Batteries
    <3>2. k'[t] = k[t] + 1 /\ pc'[t] = "type" /\ bat' = bat /\ held' = held
      BY <1>1, <2>1 DEF StatusTypes
    <3>3. qindex'[bat[t]] = 0
      BY <1>1, <2>2, <3>1 DEF Progress
    <3>4. CASE k[t] = 0
      <4>1. selector[index] = "none" /\ qbst[index] = Absent
        BY <1>1, <3>1, <3>4 DEF Progress, Copied
      <4>2. /\ selector' = [selector EXCEPT ![index] = "bst"]
            /\ qbst' = [qbst EXCEPT ![index] = IF bst[index] = Absent THEN @ ELSE bst[index]]
        BY <2>1, <3>1, <3>4, <4>1 DEF OpSetType, UpdateBst
      <4>3. selector'[index] = "bst" /\ qbst'[index] = bst[index]
        BY <4>1, <4>2 DEF StatusTypes
      <4>4. Copied(t)'
        BY <1>1, <3>1, <3>2, <4>3 DEF Watches, Copied
      <4> QED BY <3>2, <3>3, <3>4, <4>4 DEF Progress
    <3>5. CASE k[t] # 0
      <4>1. k[t] = 1 /\ Copied(t)
        BY <1>1, <1>3, <3>1, <3>5 DEF Progress
      <4>2. selector[index] = "bst"
        BY <3>1, <4>1 DEF Copied
      <4>3. UNCHANGED <<qbst, selector>>
        BY <2>1, <4>2 DEF OpSetType, qemuVars
      <4>4. Copied(t)'
        BY <3>2, <4>1, <4>3 DEF Copied
      <4> QED BY <3>2, <3>3, <4>1, <4>4 DEF Progress
    <3> QED BY <3>4, <3>5
  <2>6. ASSUME NEW u \in Threads PROVE Watched(u)'
    <3>1. CASE u = t
      <4>1. method[t] = "BST" => Watches(t)' /\ Requested(t)'
        BY <1>1, <2>1, <2>2 DEF Watches, Requested, HasSync, nodeVars, amlVars
      <4> QED BY <1>1, <2>1, <2>5, <3>1, <4>1 DEF Watched
    <3>2. CASE u # t
      BY <1>1, <1>2, <2>1, <3>2, OwnerStep DEF nodeVars, StatusTypes
    <3> QED BY <3>1, <3>2
  <2> QED BY <2>3, <2>4, <2>6 DEF Watched
<1>4. CASE ~(k[t] < bufa)
  <2>1. /\ pc' = [pc EXCEPT ![t] = "length"] /\ UNCHANGED <<qemuVars, k>>
    BY <1>4 DEF Type7C, Goto
  <2>2. StatusTypes'
    BY <1>1, <2>1 DEF StatusTypes, nodeVars, amlVars, qemuVars
  <2>3. MutexInv'
    BY <1>1, <1>2, <2>1, StillOwner DEF amlVars
  <2>4. ASSUME NEW u \in Threads PROVE Watched(u)'
    <3>1. CASE u = t
      <4>1. pc'[t] = "length"
        BY <2>1 DEF StatusTypes
      <4>2. ASSUME method[t] = "BST"
            PROVE  Watches(t) /\ Requested(t) /\ qindex[bat[t]] = 0 /\ Copied(t)
        <5>1. Watches(t) /\ Requested(t) /\ Progress(t) /\ bufa = 2
          BY <1>1, <1>2, <4>2 DEF Requested
        <5>2. k[t] # 0
          BY <1>4, <5>1
        <5> QED BY <1>1, <5>1, <5>2 DEF Progress
      <4> QED BY <1>1, <1>2, <2>1, <3>1, <4>1, <4>2
              DEF Watched, Watches, Requested, Progress, Copied, HasSync, nodeVars, amlVars,
                  qemuVars
    <3>2. CASE u # t
      BY <1>1, <1>2, <2>1, <3>2, OwnerStep DEF nodeVars, StatusTypes
    <3> QED BY <3>1, <3>2
  <2> QED BY <2>2, <2>3, <2>4 DEF Watched
<1> QED BY <1>3, <1>4

\* The length is read, which is 2, and then the bytes.
LEMMA Length79Step ==
    ASSUME StatusInv, NEW t \in Threads, Length79(t)
    PROVE  StatusInv'
<1> USE DEF StatusInv
<1>1. /\ pc[t] = "length"
      /\ bufb' = IF bufa + OpByte > Size THEN Size - bufa ELSE OpByte
      /\ qindex' = [qindex EXCEPT ![index] =
                      IF selector[index] = "none" THEN @
                      ELSE GetData(DataOf(index), @).next % 256]
      /\ k' = [k EXCEPT ![t] = 0]
      /\ pc' = [pc EXCEPT ![t] = "data"]
      /\ UNCHANGED <<nodeVars, owner, buf, bufa, bifp, method, bat, result, held,
                     qbst, selector, index>>
  BY DEF Length79, At, Goto, OpGetData
<1>2. HasSync(t) /\ owner = t
  BY <1>1 DEF MutexInv, HasSync
<1>3. StatusTypes'
  BY <1>1 DEF StatusTypes, nodeVars
<1>4. MutexInv'
  BY <1>1, <1>2, StillOwner
<1>5. ASSUME method[t] = "BST" PROVE Progress(t)'
  <2>1. /\ Watches(t) /\ Requested(t) /\ Progress(t) /\ index = bat[t] /\ bufa = 2
        /\ qindex[index] = 0 /\ Copied(t) /\ index \in Batteries
    BY <1>1, <1>2, <1>5 DEF Requested, Progress, StatusTypes
  <2>2. pc'[t] = "data" /\ k'[t] = 0 /\ bat' = bat /\ held' = held /\ Copied(t)'
    BY <1>1, <2>1 DEF StatusTypes, Copied
  <2>3. ASSUME Absent \notin held[t] PROVE bufb' = 2 /\ qindex'[index] = 2
    <3>1. selector[index] = "bst" /\ qbst[index] \in StatusBlocks /\ qbst[index] # Absent
      BY <2>1, <2>3 DEF Copied, Watches
    <3>2. GetData(DataOf(index), qindex[index]) = [byte |-> 2, next |-> 2]
      BY <2>1, <3>1, LengthFirst DEF DataOf
    <3>3. OpByte = 2
      BY <3>1, <3>2 DEF OpByte
    <3>4. bufb' = 2
      BY <1>1, <2>1, <3>3, BatteryAssumption
    <3>5. qindex'[index] = 2
      BY <1>1, <2>1, <3>1, <3>2 DEF StatusTypes
    <3> QED BY <3>4, <3>5
  <2> QED BY <2>1, <2>2, <2>3 DEF Progress
<1>6. ASSUME NEW u \in Threads PROVE Watched(u)'
  <2>1. CASE u = t
    <3>1. method[t] = "BST" => Watches(t) /\ Requested(t) /\ index = bat[t]
      BY <1>1 DEF Requested
    <3>2. method[t] = "BST" => Watches(t)' /\ Requested(t)'
      BY <1>1, <1>2, <3>1 DEF Watches, Requested, HasSync, nodeVars
    <3> QED BY <1>1, <1>5, <2>1, <3>2 DEF Watched
  <2>2. CASE u # t
    BY <1>1, <1>2, <2>2, OwnerStep DEF nodeVars, StatusTypes
  <2> QED BY <2>1, <2>2
<1> QED BY <1>3, <1>4, <1>6 DEF Watched

LEMMA Data7DStep ==
    ASSUME StatusInv, NEW t \in Threads, Data7D(t)
    PROVE  StatusInv'
<1> USE DEF StatusInv
<1>1. /\ pc[t] = "data" /\ k[t] < bufb
      /\ buf' = IF bufa + k[t] < Size THEN [buf EXCEPT ![bufa + k[t]] = OpByte] ELSE buf
      /\ qindex' = [qindex EXCEPT ![index] =
                      IF selector[index] = "none" THEN @
                      ELSE GetData(DataOf(index), @).next % 256]
      /\ k' = [k EXCEPT ![t] = @ + 1]
      /\ UNCHANGED <<nodeVars, owner, bufa, bufb, bifp, pc, method, bat, result, held,
                     qbst, selector, index>>
  BY DEF Data7D, At, OpGetData
<1>2. HasSync(t) /\ owner = t
  BY <1>1 DEF MutexInv, HasSync
<1>3. StatusTypes'
  BY <1>1 DEF StatusTypes, nodeVars
<1>4. MutexInv'
  BY <1>1 DEF MutexInv, HasSync
<1>5. ASSUME method[t] = "BST" PROVE Progress(t)' /\ Requested(t)'
  <2>1. /\ Watches(t) /\ Requested(t) /\ Progress(t) /\ index = bat[t] /\ bufa = 2
        /\ buf[0] = 2 /\ buf[1] = bat[t] + 1 /\ Copied(t) /\ index \in Batteries
    BY <1>1, <1>2, <1>5 DEF Requested, Progress, StatusTypes
  <2>2. Copied(t)'
    BY <1>1, <2>1 DEF Copied
  <2>3. ASSUME Absent \notin held[t]
        PROVE  /\ bufb' = 2 /\ k'[t] \in 0..2
               /\ qindex'[bat'[t]] = 2 + 2 * k'[t]
               /\ k'[t] > 0 => buf'[2] = PairAt(qbst'[bat'[t]], 2)
               /\ k'[t] > 1 => buf'[3] = PairAt(qbst'[bat'[t]], 4)
    <3>1. bufb = 2 /\ k[t] \in {0, 1} /\ qindex[index] = 2 + 2 * k[t]
      BY <1>1, <2>1, <2>3 DEF Progress
    <3>2. selector[index] = "bst"
      BY <2>1 DEF Copied
    <3>3. k'[t] = k[t] + 1
      BY <1>1, <3>1 DEF StatusTypes
    <3>4. CASE k[t] = 0
      <4>1. GetData(qbst[index], qindex[index]) = [byte |-> PairAt(qbst[index], 2), next |-> 4]
        BY <3>1, <3>4, ValueNext
      <4>2. OpByte = PairAt(qbst[index], 2) /\ qindex'[index] = 4
        BY <1>1, <2>1, <3>2, <4>1 DEF OpByte, DataOf, StatusTypes
      <4>3. buf' = [buf EXCEPT ![2] = OpByte]
        BY <1>1, <2>1, <3>4, BatteryAssumption
      <4>4. buf'[2] = OpByte
        BY <4>3, BatteryAssumption DEF StatusTypes
      <4> QED BY <1>1, <2>1, <3>1, <3>3, <3>4, <4>2, <4>4
    <3>5. CASE k[t] = 1
      <4>1. GetData(qbst[index], qindex[index]) = [byte |-> PairAt(qbst[index], 4), next |-> 6]
        BY <3>1, <3>5, ValueNext
      <4>2. OpByte = PairAt(qbst[index], 4) /\ qindex'[index] = 6
        BY <1>1, <2>1, <3>2, <4>1 DEF OpByte, DataOf, StatusTypes
      <4>3. buf' = [buf EXCEPT ![3] = OpByte]
        BY <1>1, <2>1, <3>5, BatteryAssumption
      <4>4. buf'[3] = OpByte /\ buf'[2] = buf[2]
        BY <4>3, BatteryAssumption DEF StatusTypes
      <4>5. buf[2] = PairAt(qbst[index], 2)
        BY <1>1, <2>1, <2>3, <3>5 DEF Progress
      <4> QED BY <1>1, <2>1, <3>1, <3>3, <3>5, <4>2, <4>4, <4>5
    <3> QED BY <3>1, <3>4, <3>5
  <2>4. Progress(t)'
    BY <1>1, <2>1, <2>2, <2>3 DEF Progress
  <2>5. buf'[0] = 2 /\ buf'[1] = bat[t] + 1
    <3>1. k[t] \in Nat /\ bufa + k[t] # 0 /\ bufa + k[t] # 1
      BY <2>1 DEF StatusTypes
    <3> QED BY <1>1, <2>1, <3>1, BatteryAssumption DEF StatusTypes
  <2>6. Requested(t)'
    BY <1>1, <2>1, <2>5 DEF Requested, HasSync
  <2> QED BY <2>4, <2>6
<1>6. ASSUME NEW u \in Threads PROVE Watched(u)'
  <2>1. CASE u = t
    <3>1. method[t] = "BST" => Watches(t)'
      BY <1>1 DEF Watches, nodeVars
    <3> QED BY <1>1, <1>5, <2>1, <3>1 DEF Watched
  <2>2. CASE u # t
    BY <1>1, <1>2, <2>2, OwnerStep DEF nodeVars, StatusTypes
  <2> QED BY <2>1, <2>2
<1> QED BY <1>3, <1>4, <1>6 DEF Watched

\* The package is filled and SYNC released.
LEMMA ReleaseStep ==
    ASSUME StatusInv, NEW t \in Threads, Release(t)
    PROVE  StatusInv'
<1> USE DEF StatusInv
<1> DEFINE l == IF method[t] = "BST" THEN "return" ELSE "fetch"
<1>1. /\ owner' = NoThread
      /\ pc' = [pc EXCEPT ![t] = l]
      /\ UNCHANGED <<nodeVars, qemuVars, buf, bufb, method, bat, k, held>>
  BY DEF Release, Fill, At, Goto
<1>2. pc[t] = "data" /\ k[t] >= bufb
  BY DEF Release, At
<1>3. result' = result \/ \E r : result' = [result EXCEPT ![t] = r]
  BY DEF Release, Fill
<1>4. HasSync(t) /\ owner = t
  BY <1>2 DEF MutexInv, HasSync
<1>5. StatusTypes'
  BY <1>1, <1>2, <1>3 DEF StatusTypes, nodeVars, qemuVars
<1>6. MutexInv'
  BY <1>1, <1>4, BatteryAssumption DEF StatusTypes, MutexInv, HasSync
<1>7. ASSUME method[t] = "BST" PROVE Progress(t)'
  <2>1. /\ Watches(t) /\ Requested(t) /\ Progress(t) /\ bufa = 2 /\ Copied(t)
    BY <1>2, <1>4, <1>7 DEF Requested, Progress
  <2>2. pc'[t] = "return" /\ bat' = bat /\ held' = held
    BY <1>1, <1>7 DEF StatusTypes
  <2>3. ASSUME Absent \notin held[t]
        PROVE  \E s \in held[t] : result'[t] = <<PairAt(s, 2), PairAt(s, 4)>>
    <3>1. /\ k[t] = 2 /\ buf[2] = PairAt(qbst[bat[t]], 2) /\ buf[3] = PairAt(qbst[bat[t]], 4)
      BY <1>2, <2>1, <2>3 DEF Progress
    <3>2. result'[t] = <<ByteAt(2), ByteAt(3)>>
      BY <1>7, <2>1 DEF Release, Fill, StatusAt, StatusTypes
    <3>3. ByteAt(2) = buf[2] /\ ByteAt(3) = buf[3]
      BY BatteryAssumption DEF ByteAt
    <3>4. result'[t] = <<PairAt(qbst[bat[t]], 2), PairAt(qbst[bat[t]], 4)>>
      BY <3>1, <3>2, <3>3
    <3>5. qbst[bat[t]] \in held[t]
      BY <2>1 DEF Copied
    <3> QED BY <3>4, <3>5
  <2> QED BY <2>2, <2>3 DEF Progress
<1>8. ASSUME NEW u \in Threads PROVE Watched(u)'
  <2>1. CASE u = t
    <3>1. method[t] = "BST" => pc'[t] # "fetch" /\ Watches(t)' /\ Requested(t)'
      <4>1. method[t] = "BST" => pc'[t] = "return"
        BY <1>1 DEF StatusTypes
      <4>2. method[t] = "BST" => Watches(t)
        BY <1>2
      <4> QED BY <1>1, <4>1, <4>2 DEF Watches, Requested, HasSync, nodeVars
    <3> QED BY <1>1, <1>2, <1>7, <2>1, <3>1 DEF Watched
  <2>2. CASE u # t
    <3>1. result'[u] = result[u] /\ pc'[u] = pc[u]
      BY <1>1, <1>3, <2>2 DEF StatusTypes
    <3> QED BY <1>1, <1>4, <2>2, <3>1, OwnerStep DEF nodeVars
  <2> QED BY <2>1, <2>2
<1> QED BY <1>5, <1>6, <1>8 DEF Watched

\* BIFP is read, by a _BIF.
LEMMA FetchStep ==
    ASSUME StatusInv, NEW t \in Threads, Fetch(t)
    PROVE  StatusInv'
<1> USE DEF StatusInv
<1>1. /\ pc[t] = "fetch" /\ pc' = [pc EXCEPT ![t] = "return"]
      /\ result' = [result EXCEPT ![t] = bifp]
      /\ UNCHANGED <<nodeVars, qemuVars, amlVars, method, bat, k, held>>
  BY DEF Fetch, At, Goto
<1>2. StatusTypes'
  BY <1>1 DEF StatusTypes, nodeVars, qemuVars, amlVars
<1>3. MutexInv'
  BY <1>1 DEF StatusTypes, MutexInv, HasSync, amlVars
<1>4. ASSUME NEW u \in Threads PROVE Watched(u)'
  <2>1. CASE u = t
    <3>1. method[t] # "BST"
      BY <1>1
    <3> QED BY <1>1, <2>1, <3>1 DEF Watched
  <2>2. CASE u # t
    BY <1>1, <2>2, SameCopy DEF nodeVars, qemuVars, amlVars, StatusTypes
  <2> QED BY <2>1, <2>2
<1> QED BY <1>2, <1>3, <1>4 DEF Watched

-----------------------------------------------------------------------------
(* The invariant of a _BIF *)

\* What a thread's part of InfoInv looks at.
InfoWatched(t) ==
    method[t] = "BIF" /\ pc[t] # "idle" => InfoWatches(t) /\ InfoRequested(t) /\ InfoSteps(t)
InfoTypes == bif \in [Batteries -> InfoBlocks] /\ DOMAIN qbif = Batteries

\* What xcpmd writes for the batteries are strings of information.
LEMMA InfoNodesAre ==
    ASSUME NEW s \in Infos
    PROVE  InfoNodes(s) \in [Batteries -> InfoBlocks]
<1>1. \A i \in DOMAIN s : s[i] \in Cells
  BY DEF Cells, ToSet
<1>2. \A i \in DOMAIN s : InfoString(s[i].id, s[i].texts) \in InfoBlocks
  BY <1>1 DEF InfoBlocks
<1> QED BY <1>2 DEF InfoNodes, Nodes, InfoBlocks

\* A thread that does not hold SYNC does not mind what the others do to the
\* device and the buffer.
LEMMA InfoHarmless ==
    ASSUME InfoInv, NEW t \in Threads, ~HasSync(t),
           UNCHANGED <<bif, pc[t], method[t], bat[t], k[t], result[t], held[t]>>,
           bifp' = bifp \/ pc[t] # "fetch" \/ (Preemptive /\ bifp'.by # t)
    PROVE  InfoWatched(t)'
<1> SUFFICES ASSUME (method[t] = "BIF" /\ pc[t] # "idle")'
             PROVE  (InfoWatches(t) /\ InfoRequested(t) /\ InfoSteps(t))'
  BY DEF InfoWatched
<1>1. InfoWatches(t) /\ InfoSteps(t)
  BY DEF InfoInv
<1>2. InfoWatches(t)'
  BY <1>1 DEF InfoWatches
<1>3. InfoRequested(t)'
  BY DEF InfoRequested, HasSync
<1>4. pc[t] \notin {"select", "init", "type", "length", "data"}
  BY DEF HasSync
<1>5. \A c \in Cells : InfoProgress(t, c) => InfoProgress(t, c)'
  BY <1>4 DEF InfoProgress, Tells
<1>6. InfoSteps(t)'
  BY <1>1, <1>4, <1>5 DEF InfoSteps
<1> QED BY <1>2, <1>3, <1>6

\* Nothing that a _BIF looks at has changed, or qemu has renewed its copy
\* for a status port.
LEMMA InfoRenewed ==
    ASSUME InfoInv, StatusInv, NEW t \in Threads, NEW b \in Batteries,
           qbif' = qbif \/ UpdateBif(b),
           UNCHANGED <<bif, pc[t], method[t], bat[t], k[t], result[t], held[t],
                       bufa, bufb, buf, bifp, index, selector, qindex>>
    PROVE  InfoWatched(t)'
<1> SUFFICES ASSUME (method[t] = "BIF" /\ pc[t] # "idle")'
             PROVE  (InfoWatches(t) /\ InfoRequested(t) /\ InfoSteps(t))'
  BY DEF InfoWatched
<1>1. InfoWatches(t) /\ InfoRequested(t) /\ InfoSteps(t) /\ bat[t] \in Batteries
  BY DEF InfoInv, StatusInv, StatusTypes
<1>2. InfoWatches(t)'
  BY <1>1 DEF InfoWatches
<1>3. InfoRequested(t)'
  BY <1>1 DEF InfoRequested, HasSync
<1>4. pc[t] # "return" =>
        /\ qbif[bat[t]] \in held[t] => qbif'[bat[t]] \in held[t]
        /\ qbif[bat[t]] \in held[t] \cup {Absent} => qbif'[bat[t]] \in held[t] \cup {Absent}
  <2>1. DOMAIN qbif = Batteries
    BY DEF InfoInv
  <2>2. qbif'[bat[t]] \in {qbif[bat[t]], bif[bat[t]]}
    BY <1>1, <2>1 DEF UpdateBif
  <2>3. pc[t] # "return" => bif[bat[t]] \in held[t]
    BY <1>1 DEF InfoWatches
  <2> QED BY <2>2, <2>3
<1>5. pc[t] # "return" /\ InfoCopied(t) => InfoCopied(t)'
  BY <1>4 DEF InfoCopied
<1>6. \A c \in Cells : InfoProgress(t, c) => InfoProgress(t, c)'
  BY DEF InfoProgress, Received, Tells
<1>7. InfoSteps(t)'
  BY <1>1, <1>4, <1>5, <1>6 DEF InfoSteps
<1> QED BY <1>2, <1>3, <1>7

\* The initial state.
LEMMA InitInfo == Init => InfoInv
<1> SUFFICES ASSUME Init PROVE InfoInv
  OBVIOUS
<1>1. PICK s \in Infos : bif = InfoNodes(s)
  BY DEF Init
<1>2. bif \in [Batteries -> InfoBlocks]
  BY <1>1, InfoNodesAre
<1> QED BY <1>2 DEF Init, InfoInv

\* xcpmd writes: the methods that watch the node see it.
LEMMA WriteInfoStepInfo ==
    ASSUME StatusInv, InfoInv, WriteInfo
    PROVE  InfoInv'
<1>1. PICK s \in Infos : bif' = InfoNodes(s) /\ Seen("BIF", InfoNodes(s))
  BY DEF WriteInfo
<1>2. UNCHANGED <<bst, qemuVars, amlVars, threadVars>>
  BY DEF WriteInfo
<1>3. bif' \in [Batteries -> InfoBlocks]
  BY <1>1, InfoNodesAre
<1>4. DOMAIN qbif' = Batteries
  BY <1>2 DEF InfoInv, qemuVars
<1>5. ASSUME NEW t \in Threads, (method[t] = "BIF" /\ pc[t] # "idle")'
      PROVE  (InfoWatches(t) /\ InfoRequested(t) /\ InfoSteps(t))'
  <2>1. /\ method[t] = "BIF" /\ pc[t] # "idle"
        /\ InfoWatches(t) /\ InfoRequested(t) /\ InfoSteps(t)
    BY <1>2, <1>5 DEF threadVars, InfoInv
  <2>2. CASE pc[t] = "return"
    <3>1. held'[t] = held[t]
      BY <1>1, <2>2 DEF Seen
    <3>2. InfoWatches(t)'
      BY <1>2, <2>1, <2>2, <3>1 DEF InfoWatches, threadVars
    <3>3. InfoRequested(t)'
      BY <1>2, <2>2 DEF InfoRequested, HasSync, threadVars
    <3>4. \A c \in Cells : InfoProgress(t, c) => InfoProgress(t, c)'
      BY <1>2, <2>2 DEF InfoProgress, Tells, threadVars
    <3>5. InfoSteps(t)'
      BY <1>2, <2>1, <2>2, <3>1, <3>4 DEF InfoSteps, threadVars
    <3> QED BY <3>2, <3>3, <3>5
  <2>3. CASE pc[t] # "return"
    <3>1. held'[t] = held[t] \cup {bif'[bat[t]]}
      BY <1>1, <2>1, <2>3 DEF Seen
    <3>0. bat[t] \in Batteries
      BY <2>1 DEF StatusInv, StatusTypes
    <3>2. InfoWatches(t)'
      BY <1>2, <1>3, <2>1, <3>0, <3>1 DEF InfoWatches, threadVars
    <3>3. InfoRequested(t)'
      BY <1>2, <2>1 DEF InfoRequested, HasSync, qemuVars, amlVars, threadVars
    <3>4. InfoCopied(t) => InfoCopied(t)'
      BY <1>2, <3>1 DEF InfoCopied, qemuVars, threadVars
    <3>5. \A c \in Cells : InfoProgress(t, c) => InfoProgress(t, c)'
      BY <1>2 DEF InfoProgress, Received, Tells, qemuVars, amlVars, threadVars
    <3>6. ASSUME NEW x, held'[t] = {x} PROVE held[t] = {x}
      <4>1. bif[bat[t]] \in held[t]
        BY <2>1, <2>3 DEF InfoWatches
      <4> QED BY <3>1, <3>6, <4>1
    <3>7. \A c \in Cells :
            Lines(c) /\ held'[t] = {InfoString(c.id, c.texts)} => InfoProgress(t, c)'
      BY <2>1, <3>5, <3>6 DEF InfoSteps
    <3>8. InfoSteps(t)'
      BY <1>2, <2>1, <3>1, <3>4, <3>7 DEF InfoSteps, qemuVars, threadVars
    <3> QED BY <3>2, <3>3, <3>8
  <2> QED BY <2>2, <2>3
<1> QED BY <1>3, <1>4, <1>5 DEF InfoInv

\* The status nodes are not what a _BIF watches.
LEMMA WriteStatusStepInfo ==
    ASSUME StatusInv, InfoInv, WriteStatus
    PROVE  InfoInv'
<1>1. PICK s \in Statuses : Seen("BST", StatusNodes(s))
  BY DEF WriteStatus
<1>2. UNCHANGED <<bif, qemuVars, amlVars, threadVars>>
  BY DEF WriteStatus
<1>3. ASSUME NEW t \in Threads, (method[t] = "BIF" /\ pc[t] # "idle")'
      PROVE  (InfoWatches(t) /\ InfoRequested(t) /\ InfoSteps(t))'
  <2>1. method[t] = "BIF" /\ held'[t] = held[t]
    BY <1>1, <1>2, <1>3 DEF Seen, threadVars
  <2>2. InfoWatched(t)'
    <3>1. 0 \in Batteries
      BY DEF Batteries
    <3> QED BY <1>2, <2>1, <3>1, InfoRenewed DEF qemuVars, amlVars, threadVars
  <2> QED BY <1>3, <2>2 DEF InfoWatched
<1> QED BY <1>2, <1>3 DEF InfoInv, qemuVars

\* A method is called.
LEMMA CallStepInfo ==
    ASSUME StatusInv, InfoInv, NEW t \in Threads, Call(t)
    PROVE  InfoInv'
<1>1. PICK m \in {"STA", "BST", "BIF"}, b \in Batteries :
        /\ method' = [method EXCEPT ![t] = m]
        /\ bat' = [bat EXCEPT ![t] = b]
        /\ held' = [held EXCEPT ![t] = {IF m = "BST" THEN bst[b] ELSE bif[b]}]
        /\ pc' = [pc EXCEPT ![t] = IF m = "BIF" THEN "acquire" ELSE "status"]
  BY DEF Call, Goto
<1>2. UNCHANGED <<nodeVars, qemuVars, amlVars, k, result>>
  BY DEF Call
<1>3. StatusTypes
  BY DEF StatusInv
<1>4. ASSUME NEW u \in Threads PROVE InfoWatched(u)'
  <2>1. CASE u = t
    <3>1. /\ pc'[t] \in {"acquire", "status"} /\ bat'[t] = b /\ method'[t] = m
          /\ m = "BIF" => held'[t] = {bif[b]} /\ pc'[t] = "acquire"
      BY <1>1, <1>3 DEF StatusTypes
    <3>2. bif[b] \in InfoBlocks /\ bif' = bif
      BY <1>2 DEF InfoInv, nodeVars
    <3> QED BY <2>1, <3>1, <3>2
            DEF InfoWatched, InfoWatches, InfoRequested, InfoSteps, InfoProgress, HasSync
  <2>2. CASE u # t
    <3>1. 0 \in Batteries
      BY DEF Batteries
    <3> QED BY <1>1, <1>2, <1>3, <2>2, <3>1, InfoRenewed
            DEF nodeVars, qemuVars, amlVars, StatusTypes
  <2> QED BY <2>1, <2>2
<1> QED BY <1>2, <1>4 DEF InfoInv, InfoWatched, nodeVars, qemuVars

\* A status port is read: qemu renews its copy of the information.
LEMMA ReadStatusStepInfo ==
    ASSUME StatusInv, InfoInv, NEW t \in Threads, ReadStatus(t)
    PROVE  InfoInv'
<1>1. /\ pc[t] = "status" /\ UpdateBif(bat[t])
      /\ pc' = [pc EXCEPT ![t] = IF method[t] = "BST" THEN "acquire" ELSE "return"]
      /\ UNCHANGED <<nodeVars, amlVars, method, bat, k, result, held,
                     qbst, selector, qindex, index>>
  BY DEF ReadStatus, At, Goto, ReadStatusPort
<1>2. StatusTypes /\ bat[t] \in Batteries
  BY <1>1 DEF StatusInv, StatusTypes
<1>3. DOMAIN qbif' = Batteries
  BY <1>1 DEF UpdateBif, InfoInv
<1>4. ASSUME NEW u \in Threads PROVE InfoWatched(u)'
  <2>1. CASE u = t
    <3>1. method[t] # "BIF"
      BY <1>1 DEF InfoInv, InfoSteps
    <3> QED BY <1>1, <2>1, <3>1 DEF InfoWatched
  <2>2. CASE u # t
    <3>1. pc'[u] = pc[u]
      BY <1>1, <1>2, <2>2 DEF StatusTypes
    <3> QED BY <1>1, <1>2, <3>1, InfoRenewed DEF nodeVars, amlVars
  <2> QED BY <2>1, <2>2
<1> QED BY <1>1, <1>3, <1>4 DEF InfoInv, InfoWatched, nodeVars

\* A method returns.
LEMMA ReturnStepInfo ==
    ASSUME StatusInv, InfoInv, NEW t \in Threads, Return(t)
    PROVE  InfoInv'
<1>1. /\ pc' = [pc EXCEPT ![t] = "idle"]
      /\ result' = [result EXCEPT ![t] = << >>]
      /\ held' = [held EXCEPT ![t] = {}]
      /\ k' = [k EXCEPT ![t] = 0]
      /\ method' = [method EXCEPT ![t] = "none"] /\ bat' = [bat EXCEPT ![t] = 0]
      /\ UNCHANGED <<nodeVars, qemuVars, amlVars>>
  BY DEF Return, Goto
<1>2. StatusTypes
  BY DEF StatusInv
<1>3. ASSUME NEW u \in Threads PROVE InfoWatched(u)'
  <2>1. CASE u = t
    <3>1. pc'[t] = "idle"
      BY <1>1, <1>2 DEF StatusTypes
    <3> QED BY <2>1, <3>1 DEF InfoWatched
  <2>2. CASE u # t
    <3>1. 0 \in Batteries
      BY DEF Batteries
    <3> QED BY <1>1, <1>2, <2>2, <3>1, InfoRenewed
            DEF nodeVars, qemuVars, amlVars, StatusTypes
  <2> QED BY <2>1, <2>2
<1> QED BY <1>1, <1>3 DEF InfoInv, InfoWatched, nodeVars, qemuVars

\* A step of the owner of SYNC, for all but the owner.
LEMMA OwnerStepInfo ==
    ASSUME StatusInv, InfoInv, NEW t \in Threads, owner \in {NoThread, t},
           NEW u \in Threads, u # t, bif' = bif,
           UNCHANGED <<pc[u], method[u], bat[u], k[u], result[u], held[u]>>,
           bifp' = bifp \/ pc[u] # "fetch" \/ (Preemptive /\ bifp'.by # u)
    PROVE  InfoWatched(u)'
<1>1. ~HasSync(u)
  BY BatteryAssumption DEF StatusInv, MutexInv
<1> QED BY <1>1, InfoHarmless

\* SYNC is taken and BUF0 filled.
LEMMA AcquireStepInfo ==
    ASSUME StatusInv, InfoInv, NEW t \in Threads, Acquire(t)
    PROVE  InfoInv'
<1>1. /\ pc[t] = "acquire" /\ owner \in {NoThread, t}
      /\ buf' = [buf EXCEPT ![0] = IF method[t] = "BST" THEN 2 ELSE 1, ![1] = bat[t] + 1]
      /\ bufa' = 2
      /\ pc' = [pc EXCEPT ![t] = "select"]
      /\ UNCHANGED <<nodeVars, qemuVars, bufb, bifp, method, bat, k, result, held>>
  BY DEF Acquire, At, Goto
<1>2. StatusTypes
  BY DEF StatusInv
<1>3. ASSUME NEW u \in Threads PROVE InfoWatched(u)'
  <2>1. CASE u = t
    <3>1. pc'[t] = "select"
      BY <1>1, <1>2 DEF StatusTypes
    <3>2. method[t] = "BIF" => buf'[0] = 1
      BY <1>1, <1>2, BatteryAssumption DEF StatusTypes
    <3>3. method[t] = "BIF" => InfoWatches(t)
      BY <1>1 DEF InfoInv
    <3> QED BY <1>1, <2>1, <3>1, <3>2, <3>3
            DEF InfoWatched, InfoWatches, InfoRequested, InfoSteps, InfoProgress, HasSync,
                nodeVars
  <2>2. CASE u # t
    BY <1>1, <1>2, <2>2, OwnerStepInfo DEF nodeVars, StatusTypes
  <2> QED BY <2>1, <2>2
<1> QED BY <1>1, <1>3 DEF InfoInv, InfoWatched, nodeVars, qemuVars

\* PB5 selects the battery.
LEMMA SelectStepInfo ==
    ASSUME StatusInv, InfoInv, NEW t \in Threads, Select(t)
    PROVE  InfoInv'
<1>1. /\ pc[t] = "select" /\ index' = bat[t]
      /\ pc' = [pc EXCEPT ![t] = "init"]
      /\ UNCHANGED <<nodeVars, qbst, qbif, changed, selector, qindex,
                     amlVars, method, bat, k, result, held>>
  BY DEF Select, At, Goto
<1>2. HasSync(t) /\ owner = t /\ StatusTypes
  BY <1>1 DEF StatusInv, MutexInv, HasSync
<1>3. ASSUME NEW u \in Threads PROVE InfoWatched(u)'
  <2>1. CASE u = t
    <3>1. pc'[t] = "init"
      BY <1>1, <1>2 DEF StatusTypes
    <3>2. method[t] = "BIF" => InfoWatches(t) /\ InfoRequested(t)
      BY <1>1 DEF InfoInv
    <3> QED BY <1>1, <1>2, <2>1, <3>1, <3>2
            DEF InfoWatched, InfoWatches, InfoRequested, InfoSteps, InfoProgress, HasSync,
                nodeVars, amlVars
  <2>2. CASE u # t
    BY <1>1, <1>2, <2>2, OwnerStepInfo DEF nodeVars, amlVars, StatusTypes
  <2> QED BY <2>1, <2>2
<1> QED BY <1>1, <1>3 DEF InfoInv, InfoWatched, nodeVars

\* Operation init throws the copies away.
LEMMA Init7BStepInfo ==
    ASSUME StatusInv, InfoInv, NEW t \in Threads, Init7B(t)
    PROVE  InfoInv'
<1>1. /\ pc[t] = "init"
      /\ qbif' = [qbif EXCEPT ![index] = Absent]
      /\ selector' = [selector EXCEPT ![index] = "none"]
      /\ qindex' = [qindex EXCEPT ![index] = 0]
      /\ k' = [k EXCEPT ![t] = 0]
      /\ pc' = [pc EXCEPT ![t] = "type"]
      /\ UNCHANGED <<index, nodeVars, amlVars, method, bat, result, held>>
  BY DEF Init7B, At, Goto, OpInit
<1>2. HasSync(t) /\ owner = t /\ StatusTypes
  BY <1>1 DEF StatusInv, MutexInv, HasSync
<1>3. DOMAIN qbif = Batteries
  BY DEF InfoInv
<1>4. ASSUME NEW u \in Threads PROVE InfoWatched(u)'
  <2>1. CASE u = t
    <3>1. pc'[t] = "type" /\ k'[t] = 0
      BY <1>1, <1>2 DEF StatusTypes
    <3>2. method[t] = "BIF" => InfoWatches(t) /\ InfoRequested(t) /\ index = bat[t]
      BY <1>1 DEF InfoInv, InfoRequested
    <3>3. qbif'[index] = Absent /\ selector'[index] = "none" /\ qindex'[index] = 0
      BY <1>1, <1>2, <1>3 DEF StatusTypes
    <3>4. method[t] = "BIF" => InfoWatches(t)' /\ InfoRequested(t)'
      BY <1>1, <1>2, <3>1, <3>2 DEF InfoWatches, InfoRequested, HasSync, nodeVars, amlVars
    <3>5. method[t] = "BIF" => InfoSteps(t)'
      BY <1>1, <3>1, <3>2, <3>3 DEF InfoSteps, InfoProgress
    <3> QED BY <1>1, <2>1, <3>4, <3>5 DEF InfoWatched
  <2>2. CASE u # t
    BY <1>1, <1>2, <2>2, OwnerStepInfo DEF nodeVars, amlVars, StatusTypes
  <2> QED BY <2>1, <2>2
<1> QED BY <1>1, <1>3, <1>4 DEF InfoInv, InfoWatched, nodeVars

\* A byte of BUF0 goes out as a type: the first makes the copy.
LEMMA Type7CStepInfo ==
    ASSUME StatusInv, InfoInv, NEW t \in Threads, Type7C(t)
    PROVE  InfoInv'
<1>1. /\ pc[t] = "type"
      /\ UNCHANGED <<nodeVars, amlVars, method, bat, result, held>>
  BY DEF Type7C, At
<1>2. HasSync(t) /\ owner = t /\ StatusTypes /\ DOMAIN qbif = Batteries
  BY <1>1 DEF StatusInv, MutexInv, HasSync, InfoInv
<1>3. ASSUME method[t] = "BIF"
      PROVE  /\ InfoWatches(t) /\ InfoRequested(t) /\ InfoSteps(t) /\ index = bat[t]
             /\ buf[0] = 1 /\ bufa = 2 /\ bat[t] \in Batteries
  BY <1>1, <1>2, <1>3 DEF InfoInv, InfoRequested, StatusTypes
<1>4. CASE k[t] < bufa
  <2>1. /\ OpSetType(buf[k[t]]) /\ k' = [k EXCEPT ![t] = @ + 1] /\ pc' = pc
    BY <1>4 DEF Type7C
  <2>2. UNCHANGED <<qindex, index>> /\ (qbif' = qbif \/ UpdateBif(index))
    BY <2>1 DEF OpSetType, qemuVars
  <2>3. DOMAIN qbif' = Batteries
    BY <1>2, <2>2 DEF UpdateBif
  <2>4. ASSUME method[t] = "BIF" PROVE InfoSteps(t)'
    <3>1. k'[t] = k[t] + 1 /\ pc'[t] = "type" /\ bat' = bat /\ held' = held
      BY <1>1, <1>2, <2>1 DEF StatusTypes
    <3>2. qindex'[bat[t]] = 0
      BY <1>1, <1>3, <2>2, <2>4 DEF InfoSteps
    <3>3. k'[t] \in {1, 2} /\ InfoCopied(t)'
      <4>1. CASE k[t] = 0
        <5>1. selector[index] = "none" /\ qbif[index] \in held[t] \cup {Absent}
          BY <1>1, <1>3, <2>4, <4>1 DEF InfoSteps
        <5>2. selector' = [selector EXCEPT ![index] = "bif"] /\ UpdateBif(index)
          BY <1>3, <2>1, <2>4, <4>1, <5>1 DEF OpSetType
        <5>3. selector'[index] = "bif"
          BY <1>2, <5>2 DEF StatusTypes
        <5>4. qbif'[index] = IF bif[index] = Absent THEN qbif[index] ELSE bif[index]
          BY <1>2, <1>3, <2>4, <5>2 DEF UpdateBif
        <5>5. bif[index] \in held[t]
          BY <1>1, <1>3, <2>4 DEF InfoWatches
        <5>6. qbif'[index] \in held[t]
          BY <5>1, <5>4, <5>5
        <5> QED BY <1>3, <2>4, <3>1, <4>1, <5>3, <5>6 DEF InfoCopied
      <4>2. CASE k[t] # 0
        <5>1. k[t] = 1 /\ InfoCopied(t)
          BY <1>1, <1>3, <1>4, <2>4, <4>2 DEF InfoSteps
        <5>2. selector[index] = "bif"
          BY <1>3, <2>4, <5>1 DEF InfoCopied
        <5>3. UNCHANGED <<qbif, selector>>
          BY <2>1, <5>2 DEF OpSetType, qemuVars
        <5> QED BY <3>1, <5>1, <5>3 DEF InfoCopied
      <4> QED BY <4>1, <4>2
    <3>4. \A c \in Cells : InfoProgress(t, c)'
      BY <3>1 DEF InfoProgress
    <3> QED BY <3>1, <3>2, <3>3, <3>4 DEF InfoSteps
  <2>5. ASSUME NEW u \in Threads PROVE InfoWatched(u)'
    <3>1. CASE u = t
      <4>1. method[t] = "BIF" => InfoWatches(t)' /\ InfoRequested(t)'
        BY <1>1, <1>3, <2>1, <2>2 DEF InfoWatches, InfoRequested, HasSync, nodeVars, amlVars
      <4> QED BY <1>1, <2>4, <3>1, <4>1 DEF InfoWatched
    <3>2. CASE u # t
      BY <1>1, <1>2, <2>1, <3>2, OwnerStepInfo DEF nodeVars, amlVars, StatusTypes
    <3> QED BY <3>1, <3>2
  <2> QED BY <1>1, <2>3, <2>5 DEF InfoInv, InfoWatched, nodeVars
<1>5. CASE ~(k[t] < bufa)
  <2>1. /\ pc' = [pc EXCEPT ![t] = "length"] /\ UNCHANGED <<qemuVars, k>>
    BY <1>5 DEF Type7C, Goto
  <2>2. ASSUME NEW u \in Threads PROVE InfoWatched(u)'
    <3>1. CASE u = t
      <4>1. pc'[t] = "length"
        BY <1>2, <2>1 DEF StatusTypes
      <4>2. ASSUME method[t] = "BIF" PROVE qindex[bat[t]] = 0 /\ InfoCopied(t)
        <5>1. k[t] # 0
          BY <1>3, <1>5, <4>2
        <5> QED BY <1>1, <1>3, <4>2, <5>1 DEF InfoSteps
      <4>3. method[t] = "BIF" => InfoWatches(t)' /\ InfoRequested(t)'
        BY <1>1, <1>3, <2>1, <4>1
           DEF InfoWatches, InfoRequested, HasSync, nodeVars, amlVars, qemuVars
      <4>4. method[t] = "BIF" => InfoSteps(t)'
        BY <1>1, <2>1, <4>1, <4>2 DEF InfoSteps, InfoCopied, InfoProgress, qemuVars
      <4> QED BY <1>1, <3>1, <4>3, <4>4 DEF InfoWatched
    <3>2. CASE u # t
      BY <1>1, <1>2, <2>1, <3>2, OwnerStepInfo DEF nodeVars, amlVars, StatusTypes
    <3> QED BY <3>1, <3>2
  <2> QED BY <1>1, <1>2, <2>1, <2>2 DEF InfoInv, InfoWatched, nodeVars, qemuVars
<1> QED BY <1>4, <1>5

\* The length is read, which is that of all that follows.
LEMMA Length79StepInfo ==
    ASSUME StatusInv, InfoInv, NEW t \in Threads, Length79(t)
    PROVE  InfoInv'
<1>1. /\ pc[t] = "length"
      /\ bufb' = IF bufa + OpByte > Size THEN Size - bufa ELSE OpByte
      /\ qindex' = [qindex EXCEPT ![index] =
                      IF selector[index] = "none" THEN @
                      ELSE GetData(DataOf(index), @).next % 256]
      /\ k' = [k EXCEPT ![t] = 0]
      /\ pc' = [pc EXCEPT ![t] = "data"]
      /\ UNCHANGED <<nodeVars, owner, buf, bufa, bifp, method, bat, result, held,
                     qbst, qbif, selector, index>>
  BY DEF Length79, At, Goto, OpGetData
<1>2. HasSync(t) /\ owner = t /\ StatusTypes
  BY <1>1 DEF StatusInv, MutexInv, HasSync
<1>3. ASSUME method[t] = "BIF"
      PROVE  /\ InfoWatches(t) /\ InfoRequested(t) /\ index = bat[t] /\ bufa = 2
             /\ qindex[index] = 0 /\ InfoCopied(t) /\ index \in Batteries
  BY <1>1, <1>2, <1>3 DEF InfoInv, InfoRequested, InfoSteps, StatusTypes
<1>4. pc'[t] = "data" /\ k'[t] = 0
  BY <1>1, <1>2 DEF StatusTypes
<1>5. ASSUME method[t] = "BIF", NEW c \in Cells, Lines(c),
             held[t] = {InfoString(c.id, c.texts)}
      PROVE  InfoProgress(t, c)'
  <2>1. selector[index] = "bif" /\ qbif[index] = InfoString(c.id, c.texts)
    BY <1>3, <1>5 DEF InfoCopied
  <2>2. GetData(DataOf(index), qindex[index]) = [byte |-> Total(c.texts), next |-> 2]
    BY <1>3, <1>5, <2>1, TotalFirst DEF DataOf
  <2>3. OpByte = Total(c.texts)
    BY <2>1, <2>2 DEF OpByte
  <2>4. bufb' = Total(c.texts) /\ Total(c.texts) \in Nat
    <3>1. Total(c.texts) + 2 <= Size /\ Total(c.texts) \in Nat /\ Size \in Nat
      BY CellIs, CellPlaces
    <3> QED BY <1>1, <1>3, <1>5, <2>3, <3>1
  <2>5. qindex'[index] = 2
    BY <1>1, <1>2, <1>3, <2>1, <2>2 DEF StatusTypes
  <2>6. Received(c, 0)'
    <3>1. ~(0 > 0)
      OBVIOUS
    <3>2. ASSUME NEW i \in 1..NTexts, NEW m \in 0..Len(c.texts[i])
          PROVE  ~(Starts(c.texts)[i] + m < 0)
      <4>1. PICK x \in Nat, l \in Nat : x = Starts(c.texts)[i] /\ l = Len(c.texts[i])
        BY CellPlaces
      <4>2. m \in Nat
        BY <4>1
      <4>3. ~(x + m < 0)
        BY <4>2
      <4> QED BY <4>1, <4>3, Zenon
    <3> QED BY <3>1, <3>2, Zenon DEF Received
  <2>7. Follows(c, 0, 2)
    BY DEF Follows
  <2>8. Follows(c, k'[t], qindex'[bat'[t]]) /\ Received(c, k[t])'
    BY <1>1, <1>3, <1>4, <1>5, <2>5, <2>6, <2>7 DEF Received
  <2>9. k'[t] <= bufb'
    BY <1>4, <2>4
  <2> QED BY <1>4, <2>4, <2>8, <2>9 DEF InfoProgress, Follows
<1>6. ASSUME NEW u \in Threads PROVE InfoWatched(u)'
  <2>1. CASE u = t
    <3>1. method[t] = "BIF" => InfoWatches(t)' /\ InfoRequested(t)'
      BY <1>1, <1>2, <1>3 DEF InfoWatches, InfoRequested, HasSync, nodeVars
    <3>2. method[t] = "BIF" => InfoCopied(t)'
      BY <1>1, <1>3 DEF InfoCopied
    <3>3. method[t] = "BIF" => InfoSteps(t)'
      BY <1>1, <1>4, <1>5, <3>2 DEF InfoSteps
    <3> QED BY <1>1, <2>1, <3>1, <3>3 DEF InfoWatched
  <2>2. CASE u # t
    BY <1>1, <1>2, <2>2, OwnerStepInfo DEF nodeVars, StatusTypes
  <2> QED BY <2>1, <2>2
<1> QED BY <1>1, <1>6 DEF InfoInv, InfoWatched, nodeVars

\* A byte is read into BUF0.
LEMMA Data7DStepInfo ==
    ASSUME StatusInv, InfoInv, NEW t \in Threads, Data7D(t)
    PROVE  InfoInv'
<1>1. /\ pc[t] = "data" /\ k[t] < bufb
      /\ buf' = IF bufa + k[t] < Size THEN [buf EXCEPT ![bufa + k[t]] = OpByte] ELSE buf
      /\ qindex' = [qindex EXCEPT ![index] =
                      IF selector[index] = "none" THEN @
                      ELSE GetData(DataOf(index), @).next % 256]
      /\ k' = [k EXCEPT ![t] = @ + 1]
      /\ UNCHANGED <<nodeVars, owner, bufa, bufb, bifp, pc, method, bat, result, held,
                     qbst, qbif, selector, index>>
  BY DEF Data7D, At, OpGetData
<1>2. HasSync(t) /\ owner = t /\ StatusTypes
  BY <1>1 DEF StatusInv, MutexInv, HasSync
<1>3. ASSUME method[t] = "BIF"
      PROVE  /\ InfoWatches(t) /\ InfoRequested(t) /\ index = bat[t] /\ bufa = 2
             /\ buf[0] = 1 /\ InfoCopied(t) /\ index \in Batteries /\ InfoSteps(t)
  BY <1>1, <1>2, <1>3 DEF InfoInv, InfoRequested, InfoSteps, StatusTypes
<1>4. k'[t] = k[t] + 1 /\ k[t] \in Nat
  BY <1>1, <1>2 DEF StatusTypes
<1>5. ASSUME method[t] = "BIF", NEW c \in Cells, Lines(c),
             held[t] = {InfoString(c.id, c.texts)}
      PROVE  InfoProgress(t, c)'
  <2>1. selector[index] = "bif" /\ qbif[index] = InfoString(c.id, c.texts)
    BY <1>3, <1>5 DEF InfoCopied
  <2>2. /\ bufb = Total(c.texts)
        /\ Received(c, k[t]) /\ Follows(c, k[t], qindex[bat[t]])
    BY <1>1, <1>3, <1>5 DEF InfoSteps, InfoProgress
  <2>3. PICK n \in Nat : n = k[t]
    BY <1>4
  <2>4. PICK q : q = qindex[index]
    OBVIOUS
  <2> DEFINE d == GetData(InfoString(c.id, c.texts), q)
  <2>5. Follows(c, n, q) /\ Received(c, n) /\ n < Total(c.texts)
    BY <1>1, <1>3, <1>5, <2>2, <2>3, <2>4
  <2>6. OpByte = d.byte /\ qindex'[index] = d.next % 256
    BY <1>1, <1>2, <1>3, <1>5, <2>1, <2>4 DEF OpByte, DataOf, StatusTypes
  <2> HIDE DEF d
  <2>7. buf' = [buf EXCEPT ![2 + n] = d.byte]
    <3>1. 2 + n < Size
      <4>1. Total(c.texts) + 2 <= Size /\ Total(c.texts) \in Nat /\ Size \in Nat
        BY CellIs, CellPlaces
      <4> QED BY <2>5, <4>1
    <3> QED BY <1>1, <1>3, <1>5, <2>3, <2>6, <3>1
  <2>8. Received(c, n + 1)'
    BY <1>2, <1>5, <2>5, <2>7, ReceivedNext, Zenon DEF StatusTypes, d
  <2>9. Follows(c, n + 1, d.next % 256)
    <3>1. Follows(c, n + 1, d.next)
      BY <1>5, <2>5, NextByte, Zenon DEF d
    <3> HIDE DEF d
    <3> QED BY <3>1, NoWrap
  <2>10. n + 1 <= Total(c.texts)
    <3>1. Total(c.texts) \in Nat
      BY CellPlaces
    <3> QED BY <2>5, <3>1
  <2>11. /\ k'[t] = n + 1 /\ pc'[t] = "data" /\ bufb' = Total(c.texts)
         /\ qindex'[bat'[t]] = d.next % 256
    BY <1>1, <1>3, <1>4, <1>5, <2>2, <2>3, <2>6
  <2> HIDE DEF d
  <2>12. Received(c, k[t])' /\ Follows(c, k[t], qindex[bat[t]])'
    BY <2>8, <2>9, <2>11 DEF Received, Follows
  <2> QED BY <2>10, <2>11, <2>12 DEF InfoProgress
<1>6. ASSUME NEW u \in Threads PROVE InfoWatched(u)'
  <2>1. CASE u = t
    <3>0. method[t] = "BIF" => buf'[0] = 1
      <4>1. method[t] = "BIF" => bufa + k[t] # 0
        BY <1>3, <1>4
      <4> QED BY <1>1, <1>2, <1>3, <4>1, BatteryAssumption DEF StatusTypes
    <3>1. method[t] = "BIF" => InfoWatches(t)' /\ InfoRequested(t)'
      BY <1>1, <1>2, <1>3, <3>0 DEF InfoWatches, InfoRequested, HasSync, nodeVars
    <3>2. method[t] = "BIF" => InfoCopied(t)'
      BY <1>1, <1>3 DEF InfoCopied
    <3>3. method[t] = "BIF" => InfoSteps(t)'
      BY <1>1, <1>5, <3>2 DEF InfoSteps
    <3> QED BY <1>1, <2>1, <3>1, <3>3 DEF InfoWatched
  <2>2. CASE u # t
    BY <1>1, <1>2, <2>2, OwnerStepInfo DEF nodeVars, StatusTypes
  <2> QED BY <2>1, <2>2
<1> QED BY <1>1, <1>6 DEF InfoInv, InfoWatched, nodeVars

\* The package is filled and SYNC released.
LEMMA ReleaseStepInfo ==
    ASSUME StatusInv, InfoInv, NEW t \in Threads, Release(t)
    PROVE  InfoInv'
<1> DEFINE l == IF method[t] = "BST" THEN "return" ELSE "fetch"
<1>1. /\ pc' = [pc EXCEPT ![t] = l]
      /\ UNCHANGED <<nodeVars, qemuVars, buf, bufb, method, bat, k, held>>
  BY DEF Release, Fill, At, Goto
<1>2. pc[t] = "data" /\ k[t] >= bufb
  BY DEF Release, At
<1>3. result' = result \/ \E r : result' = [result EXCEPT ![t] = r]
  BY DEF Release, Fill
<1>4. HasSync(t) /\ owner = t /\ StatusTypes
  BY <1>2 DEF StatusInv, MutexInv, HasSync
<1>5. ASSUME method[t] = "BIF"
      PROVE  InfoWatches(t) /\ InfoSteps(t) /\ bufa = 2 /\ pc'[t] = "fetch"
  BY <1>1, <1>2, <1>4, <1>5 DEF InfoInv, InfoRequested, StatusTypes
<1>7. ASSUME method[t] = "BIF", NEW c \in Cells, Lines(c),
             held[t] = {InfoString(c.id, c.texts)}
      PROVE  Tells(bifp', c)
  <2>1. bufb = Total(c.texts) /\ k[t] <= bufb /\ Received(c, k[t])
    BY <1>2, <1>5, <1>7 DEF InfoSteps, InfoProgress
  <2>2. k[t] = Total(c.texts)
    <3>1. k[t] \in Nat /\ Total(c.texts) \in Nat
      BY <1>4, CellPlaces DEF StatusTypes
    <3> QED BY <1>2, <2>1, <3>1
  <2>3. Received(c, Total(c.texts))
    BY <2>1, <2>2
  <2>4. bufa = 2 /\ bufa + 1 = 3 /\ method[t] # "BST"
    BY <1>5, <1>7
  <2>5. bifp' = InfoAt(t, bufa)
    BY <2>4, Zenon DEF Release, Fill
  <2>6. /\ bifp'.block = ByteAt(2)
        /\ bifp'.texts = [i \in 1..NTexts |-> StringAt(StringsFrom(3)[i])]
    <3>1. /\ bifp'.block = ByteAt(bufa)
          /\ bifp'.texts = [i \in 1..NTexts |-> StringAt(StringsFrom(bufa + 1)[i])]
      BY <2>5, Zenon DEF InfoAt
    <3> QED BY <2>4, <3>1, Zenon
  <2> QED BY <2>3, <2>6, PackageIs, Zenon DEF Tells
<1>8. ASSUME NEW u \in Threads PROVE InfoWatched(u)'
  <2>1. CASE u = t
    <3>1. method[t] = "BIF" => InfoWatches(t)' /\ InfoRequested(t)'
      BY <1>1, <1>2, <1>5 DEF InfoWatches, InfoRequested, HasSync, nodeVars
    <3>2. method[t] = "BIF" => InfoSteps(t)'
      <4>1. method[t] = "BIF" /\ held' = held => \A c \in Cells :
              Lines(c) /\ held'[t] = {InfoString(c.id, c.texts)} => InfoProgress(t, c)'
        BY <1>5, <1>7 DEF InfoProgress, Tells
      <4> QED BY <1>1, <1>5, <4>1 DEF InfoSteps
    <3> QED BY <1>1, <2>1, <3>1, <3>2 DEF InfoWatched
  <2>2. CASE u # t
    <3>1. result'[u] = result[u] /\ pc'[u] = pc[u]
      BY <1>1, <1>3, <1>4, <2>2 DEF StatusTypes
    <3>2. bifp' = bifp \/ pc[u] # "fetch" \/ (Preemptive /\ bifp'.by # u)
      <4>1. Preemptive \/ pc[u] # "fetch"
        BY <2>2 DEF Release, At, Running
      <4>2. bifp' = bifp \/ bifp'.by = t
        BY DEF Release, Fill, InfoAt
      <4> QED BY <2>2, <4>1, <4>2
    <3> QED BY <1>1, <1>4, <2>2, <3>1, <3>2, OwnerStepInfo DEF nodeVars
  <2> QED BY <2>1, <2>2
<1> QED BY <1>1, <1>8 DEF InfoInv, InfoWatched, nodeVars, qemuVars

\* BIFP is read: what is in it is the method's own, unless another method
\* was let in between.
LEMMA FetchStepInfo ==
    ASSUME StatusInv, InfoInv, NEW t \in Threads, Fetch(t)
    PROVE  InfoInv'
<1>1. /\ pc[t] = "fetch" /\ pc' = [pc EXCEPT ![t] = "return"]
      /\ result' = [result EXCEPT ![t] = bifp]
      /\ UNCHANGED <<nodeVars, qemuVars, amlVars, method, bat, k, held>>
  BY DEF Fetch, At, Goto
<1>2. StatusTypes
  BY DEF StatusInv
<1>3. pc'[t] = "return" /\ result'[t] = bifp
  BY <1>1, <1>2 DEF StatusTypes
<1>4. ASSUME NEW u \in Threads PROVE InfoWatched(u)'
  <2>1. CASE u = t
    <3>1. method[t] = "BIF" => InfoWatches(t) /\ InfoSteps(t)
      BY <1>1 DEF InfoInv
    <3>2. method[t] = "BIF" => InfoWatches(t)' /\ InfoRequested(t)'
      BY <1>1, <1>3, <3>1 DEF InfoWatches, InfoRequested, HasSync, nodeVars
    <3>3. ASSUME NEW c \in Cells, InfoProgress(t, c) PROVE InfoProgress(t, c)'
      BY <1>1, <1>3, <3>3 DEF InfoProgress, Tells
    <3>4. method[t] = "BIF" => InfoSteps(t)'
      BY <1>1, <1>3, <3>1, <3>3 DEF InfoSteps
    <3> QED BY <1>1, <2>1, <3>2, <3>4 DEF InfoWatched
  <2>2. CASE u # t
    <3>1. 0 \in Batteries
      BY DEF Batteries
    <3> QED BY <1>1, <1>2, <2>2, <3>1, InfoRenewed
            DEF nodeVars, qemuVars, amlVars, StatusTypes
  <2> QED BY <2>1, <2>2
<1> QED BY <1>1, <1>4 DEF InfoInv, InfoWatched, nodeVars, qemuVars

-----------------------------------------------------------------------------
(* The theorems *)

\* Every step keeps the invariant of a _BST, and that of a _BIF.
LEMMA StatusStep ==
    ASSUME StatusInv, [Next]_vars
    PROVE  StatusInv'
<1>1. CASE WriteStatus
  BY <1>1, WriteStatusStep
<1>2. CASE WriteInfo
  BY <1>2, WriteInfoStep
<1>3. ASSUME NEW t \in Threads, Call(t) \/ Acquire(t) PROVE StatusInv'
  BY <1>3, CallStep, AcquireStep
<1>4. ASSUME NEW t \in Threads, MethodStep(t) PROVE StatusInv'
  BY <1>4, ReadStatusStep, SelectStep, Init7BStep, Type7CStep, Length79Step,
     Data7DStep, ReleaseStep, FetchStep, ReturnStep DEF MethodStep
<1>5. CASE UNCHANGED vars
  <2>1. UNCHANGED <<bst, qemuVars, amlVars, threadVars, held>>
    BY <1>5 DEF vars, nodeVars
  <2>2. StatusTypes' /\ MutexInv'
    BY <2>1 DEF StatusInv, StatusTypes, MutexInv, HasSync, qemuVars, amlVars, threadVars
  <2>3. ASSUME NEW u \in Threads PROVE Watched(u)'
    BY <2>1, SameCopy DEF qemuVars, amlVars, threadVars
  <2> QED BY <2>2, <2>3 DEF StatusInv, Watched
<1> QED BY <1>1, <1>2, <1>3, <1>4, <1>5 DEF Next

LEMMA InfoStep ==
    ASSUME StatusInv, InfoInv, [Next]_vars
    PROVE  InfoInv'
<1>1. CASE WriteStatus
  BY <1>1, WriteStatusStepInfo
<1>2. CASE WriteInfo
  BY <1>2, WriteInfoStepInfo
<1>3. ASSUME NEW t \in Threads, Call(t) \/ Acquire(t) PROVE InfoInv'
  BY <1>3, CallStepInfo, AcquireStepInfo
<1>4. ASSUME NEW t \in Threads, MethodStep(t) PROVE InfoInv'
  BY <1>4, ReadStatusStepInfo, SelectStepInfo, Init7BStepInfo, Type7CStepInfo, Length79StepInfo,
     Data7DStepInfo, ReleaseStepInfo, FetchStepInfo, ReturnStepInfo DEF MethodStep
<1>5. CASE UNCHANGED vars
  <2>1. UNCHANGED <<bif, qemuVars, amlVars, threadVars, held>>
    BY <1>5 DEF vars, nodeVars
  <2>2. 0 \in Batteries
    BY DEF Batteries
  <2>3. ASSUME NEW u \in Threads PROVE InfoWatched(u)'
    BY <2>1, <2>2, InfoRenewed DEF qemuVars, amlVars, threadVars
  <2> QED BY <2>1, <2>3 DEF InfoInv, InfoWatched, qemuVars
<1> QED BY <1>1, <1>2, <1>3, <1>4, <1>5 DEF Next

\* Who has SYNC, what qemu's copy is of and how far its bytes have come: the
\* invariant of a _BST among other methods and writes of xcpmd.
THEOREM StatusInvariant == Spec => []StatusInv
<1>1. Init => StatusInv
  BY InitStatus
<1>2. StatusInv /\ [Next]_vars => StatusInv'
  BY StatusStep
<1> QED BY <1>1, <1>2, PTL DEF Spec

\* A _BST returns one status its battery had during the call, for every
\* number of threads and calls, size of buffer and set of statuses, and
\* also if methods are switched anywhere.
THEOREM StatusIsSnapshot == Spec => []BstSnapshot
<1>1. StatusInv => BstSnapshot
  BY DEF StatusInv, BstSnapshot, Returned, Progress
<1> QED BY <1>1, StatusInvariant, PTL

\* How far the bytes of a _BIF have come and whose package is in BIFP: the
\* invariant of a _BIF among other methods and writes of xcpmd.
THEOREM InfoInvariant == Spec => [](StatusInv /\ InfoInv)
<1>1. Init => StatusInv /\ InfoInv
  BY InitStatus, InitInfo
<1>2. StatusInv /\ InfoInv /\ [Next]_vars => (StatusInv /\ InfoInv)'
  BY StatusStep, InfoStep
<1> QED BY <1>1, <1>2, PTL DEF Spec

\* A _BIF during which the information stayed as it was and has all its
\* attributes returns it whole, for every number of attributes whose string
\* the uint8_t index can follow, of threads and of calls: always if methods
\* are switched only where they block, and else if no other _BIF has filled
\* BIFP before it was read.
THEOREM InformationIsWhole == Spec => []BifWhole
<1>1. StatusInv /\ InfoInv => BifWhole
  <2> SUFFICES ASSUME InfoInv, NEW t \in Threads, NEW c \in Cells,
                      Returned(t, "BIF"), held[t] = {InfoString(c.id, c.texts)}, Lines(c),
                      Preemptive => result[t].by = t
               PROVE  Tells(result[t], c)
    BY DEF BifWhole
  <2>1. InfoSteps(t) /\ pc[t] = "return"
    BY DEF InfoInv, Returned
  <2> QED BY <2>1 DEF InfoSteps, InfoProgress
<1> QED BY <1>1, InfoInvariant, PTL
=============================================================================
