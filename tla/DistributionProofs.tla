------------------------ MODULE DistributionProofs ------------------------
(***************************************************************************)
(* Proofs about Distribution, for every set of records, rows, channels and *)
(* transactions, and for every work they do.                               *)
(***************************************************************************)
EXTENDS Distribution, FiniteSetTheorems, WellFoundedInduction, TLAPS

---------------------------------------------------------------------------
(* Induction.  The library's induction theorem takes a formula; a set of   *)
(* numbers and its least element serve as well.                            *)

\* A set of natural numbers that is not empty has a least element.
LEMMA Least ==
  ASSUME NEW T, T \subseteq Nat, T # {}
  PROVE  \E x \in T : \A y \in T : x <= y
<1> DEFINE R == OpToRel(<, Nat)
<1>1. IsWellFoundedOn(R, Nat)
  BY NatLessThanWellFounded
<1>2. \A x, y \in Nat : y < x => <<y, x>> \in R
  BY DEF OpToRel
<1> HIDE DEF R
<1>3. PICK x \in T : \A y \in T : ~ (<<y, x>> \in R)
  BY <1>1, WFMin
<1>4. \A y \in T : ~ (y < x)
  BY <1>2, <1>3
<1> QED
  BY <1>4, SMT

\* A set with zero, and with the successor of what is in it, has every number.
LEMMA Induct ==
  ASSUME NEW T, 0 \in T, \A n \in Nat : n \in T => n + 1 \in T
  PROVE  \A n \in Nat : n \in T
<1> SUFFICES ASSUME Nat \ T # {} PROVE FALSE
  OBVIOUS
<1>1. PICK x \in Nat \ T : \A y \in Nat \ T : x <= y
  BY Least
<1>2. x # 0 /\ x - 1 \in Nat /\ x - 1 \in T
  BY <1>1
<1> QED
  BY <1>1, <1>2

\* A set of numbers with an upper bound has a greatest element.
LEMMA Greatest ==
  ASSUME NEW T, NEW m \in Nat, T \subseteq Nat, T # {}, \A x \in T : x <= m
  PROVE  \E x \in T : \A y \in T : y <= x
<1> DEFINE D == {n \in Nat : m - n \in T}
<1>1. D # {}
  <2>1. PICK x \in T : TRUE
    OBVIOUS
  <2>2. m - x \in Nat /\ m - (m - x) = x
    BY <2>1
  <2> QED
    BY <2>1, <2>2
<1>2. PICK d \in D : \A e \in D : d <= e
  BY <1>1, Least
<1>3. ASSUME NEW y \in T PROVE y <= m - d
  <2>1. m - y \in Nat /\ m - (m - y) = y
    OBVIOUS
  <2>2. d <= m - y
    BY <1>2, <2>1
  <2> QED
    BY <2>1, <2>2
<1> QED
  BY <1>2, <1>3

---------------------------------------------------------------------------
(* Sequences.                                                              *)

\* An index holds an element.
LEMMA Element ==
  ASSUME NEW S, NEW s \in Seq(S), NEW i \in DOMAIN s
  PROVE  s[i] \in S
  OBVIOUS

\* The sequence that two make.
LEMMA Concat ==
  ASSUME NEW S, NEW s \in Seq(S), NEW r \in Seq(S)
  PROVE  /\ s \o r \in Seq(S) /\ Len(s \o r) = Len(s) + Len(r)
         /\ \A i \in 1..Len(s) : (s \o r)[i] = s[i]
         /\ \A i \in Len(s) + 1 .. Len(s) + Len(r) : (s \o r)[i] = r[i - Len(s)]
  OBVIOUS

\* It has the elements of both.
LEMMA ConcatElements ==
  ASSUME NEW S, NEW s \in Seq(S), NEW r \in Seq(S)
  PROVE  ToSet(s \o r) = ToSet(s) \cup ToSet(r)
<1>1. s \o r \in Seq(S) /\ DOMAIN (s \o r) = 1 .. Len(s) + Len(r)
  BY Concat
<1>2. ASSUME NEW i \in 1 .. Len(s) + Len(r) PROVE (s \o r)[i] \in ToSet(s) \cup ToSet(r)
  <2>1. CASE i <= Len(s)
    BY <2>1, Concat DEF ToSet
  <2>2. CASE i > Len(s)
    <3>1. (s \o r)[i] = r[i - Len(s)] /\ i - Len(s) \in DOMAIN r
      BY <2>2, Concat
    <3> QED
      BY <3>1 DEF ToSet
  <2> QED
    BY <2>1, <2>2
<1>3. ASSUME NEW i \in 1..Len(s) PROVE s[i] \in ToSet(s \o r)
  <2>1. i \in DOMAIN (s \o r) /\ (s \o r)[i] = s[i]
    BY <1>1, Concat
  <2> QED
    BY <2>1 DEF ToSet
<1>4. ASSUME NEW i \in 1..Len(r) PROVE r[i] \in ToSet(s \o r)
  <2>1. Len(s) + i \in DOMAIN (s \o r) /\ (s \o r)[Len(s) + i] = r[Len(s) + i - Len(s)]
    BY <1>1, Concat
  <2>2. Len(s) + i - Len(s) = i
    OBVIOUS
  <2>3. r[i] = (s \o r)[Len(s) + i]
    BY <2>1, <2>2
  <2> QED
    BY <2>1, <2>3 DEF ToSet
<1>5. ToSet(s \o r) \subseteq ToSet(s) \cup ToSet(r)
  BY <1>1, <1>2 DEF ToSet
<1>6. ToSet(s) \subseteq ToSet(s \o r)
  BY <1>3 DEF ToSet
<1>7. ToSet(r) \subseteq ToSet(s \o r)
  BY <1>4 DEF ToSet
<1> QED
  BY <1>5, <1>6, <1>7

\* A sequence has its head and the elements of its tail.
LEMMA TailElements ==
  ASSUME NEW S, NEW s \in Seq(S), s # <<>>
  PROVE  /\ Tail(s) \in Seq(S) /\ Head(s) \in S /\ Head(s) = s[1]
         /\ ToSet(s) = {Head(s)} \cup ToSet(Tail(s))
<1>1. Tail(s) \in Seq(S) /\ Head(s) \in S /\ Head(s) = s[1] /\ Len(Tail(s)) = Len(s) - 1
      /\ \A i \in 1 .. Len(s) - 1 : Tail(s)[i] = s[i + 1]
  OBVIOUS
<1>2. ASSUME NEW i \in 1..Len(s) PROVE s[i] \in {Head(s)} \cup ToSet(Tail(s))
  <2>1. CASE i # 1
    <3>1. i - 1 \in DOMAIN Tail(s) /\ Tail(s)[i - 1] = s[i - 1 + 1] /\ i - 1 + 1 = i
      BY <1>1, <2>1
    <3> QED
      BY <3>1 DEF ToSet
  <2> QED
    BY <1>1, <2>1
<1>3. ASSUME NEW i \in DOMAIN Tail(s) PROVE Tail(s)[i] \in ToSet(s)
  <2>1. i + 1 \in DOMAIN s /\ Tail(s)[i] = s[i + 1]
    BY <1>1
  <2> QED
    BY <2>1 DEF ToSet
<1>4. Head(s) \in ToSet(s)
  BY <1>1 DEF ToSet
<1>5. ToSet(s) \subseteq {Head(s)} \cup ToSet(Tail(s))
  <2>1. DOMAIN s = 1..Len(s)
    OBVIOUS
  <2> QED
    BY <1>2, <2>1 DEF ToSet
<1>6. ToSet(Tail(s)) \subseteq ToSet(s)
  BY <1>3 DEF ToSet
<1> QED
  BY <1>1, <1>4, <1>5, <1>6

\* FlattenSeq joins sequences of elements of a set to one of the same elements.
LEMMA Flatten ==
  ASSUME NEW S, NEW q \in Seq(Seq(S))
  PROVE  /\ FlattenSeq(q) \in Seq(S)
         /\ \A i \in DOMAIN q : ToSet(q[i]) \subseteq ToSet(FlattenSeq(q))
<1> DEFINE F(g, i) == IF i = 1 THEN q[i] ELSE g[i - 1] \o q[i]
           Built(n) == \E g \in [1..n -> Seq(S)] : g = [i \in 1..n |-> F(g, i)]
           T == {n \in Nat : n <= Len(q) => Built(n)}
<1>1. 0 \in T
  <2> DEFINE g == [i \in 1..0 |-> <<>>]
  <2>1. g \in [1..0 -> Seq(S)] /\ g = [i \in 1..0 |-> F(g, i)]
    OBVIOUS
  <2>2. Built(0)
    BY <2>1
  <2> QED
    BY <2>2
<1>2. ASSUME NEW n \in Nat, n \in T PROVE n + 1 \in T
  <2> SUFFICES ASSUME n + 1 <= Len(q) PROVE Built(n + 1)
    <3> HIDE DEF Built
    <3> QED
      OBVIOUS
  <2>0. Built(n)
    <3> HIDE DEF Built
    <3>1. n <= Len(q)
      OBVIOUS
    <3> QED
      BY <1>2, <3>1
  <2>1. PICK g \in [1..n -> Seq(S)] : g = [i \in 1..n |-> F(g, i)]
    BY <2>0
  <2> DEFINE last == IF n = 0 THEN q[1] ELSE g[n] \o q[n + 1]
             h == [i \in 1..(n + 1) |-> IF i \in 1..n THEN g[i] ELSE last]
  <2>2. \A i \in 1..(n + 1) : q[i] \in Seq(S)
    OBVIOUS
  <2>3. last \in Seq(S)
    <3>1. CASE n = 0
      BY <2>2, <3>1
    <3>2. CASE n # 0
      BY <2>1, <2>2, <3>2, Concat
    <3> QED
      BY <3>1, <3>2
  <2> HIDE DEF last
  <2>4. h \in [1..(n + 1) -> Seq(S)]
    BY <2>1, <2>3
  <2>5. ASSUME NEW i \in 1..(n + 1) PROVE h[i] = F(h, i)
    <3>1. CASE i \in 1..n
      <4>1. h[i] = F(g, i)
        BY <2>1, <3>1
      <4>2. i # 1 => h[i - 1] = g[i - 1]
        BY <3>1
      <4> QED
        BY <4>1, <4>2
    <3>2. CASE i = n + 1
      <4>1. h[i] = last
        BY <3>2
      <4>2. n # 0 => h[n] = g[n]
        OBVIOUS
      <4> QED
        BY <3>2, <4>1, <4>2 DEF last
    <3> QED
      BY <3>1, <3>2
  <2> HIDE DEF h, F
  <2>6. h = [i \in 1..(n + 1) |-> F(h, i)]
    BY <2>4, <2>5
  <2> QED
    BY <2>4, <2>6
<1>3. \A n \in Nat : n \in T
  <2> HIDE DEF T
  <2> QED
    BY <1>1, <1>2, Induct
<1>4. CASE Len(q) = 0
  BY <1>4 DEF FlattenSeq
<1>5. CASE Len(q) # 0
  <2> DEFINE Rec(g) == g = [i \in 1..Len(q) |-> IF i = 1 THEN q[i] ELSE g[i - 1] \o q[i]]
             f == CHOOSE g : Rec(g)
             Has(g, i) == \A j \in 1..i : ToSet(q[j]) \subseteq ToSet(g)
             P == {i \in Nat : i + 1 <= Len(q) => f[i + 1] \in Seq(S) /\ Has(f[i + 1], i + 1)}
  <2>1. Built(Len(q))
    <3> HIDE DEF Built
    <3> QED
      BY <1>3
  <2>2. \E g : Rec(g)
    BY <2>1
  <2>3. Rec(f)
    BY <2>2
  <2> HIDE DEF f
  <2>4. \A i \in 1..Len(q) : q[i] \in Seq(S)
    OBVIOUS
  <2>5. 0 \in P
    <3>1. Len(q) >= 1 => f[1] = q[1]
      BY <2>3
    <3> QED
      BY <2>4, <3>1
  <2>6. ASSUME NEW i \in Nat, i \in P PROVE i + 1 \in P
    <3> SUFFICES ASSUME i + 1 + 1 <= Len(q) PROVE f[i + 1 + 1] \in Seq(S) /\ Has(f[i + 1 + 1], i + 1 + 1)
      OBVIOUS
    <3>1. f[i + 1] \in Seq(S) /\ q[i + 2] \in Seq(S)
      BY <2>4, <2>6
    <3>2. i + 2 \in 1..Len(q) /\ i + 2 # 1 /\ i + 2 - 1 = i + 1
      OBVIOUS
    <3>3. f[i + 2] = f[i + 1] \o q[i + 2]
      <4>1. \A j \in 1..Len(q) : f[j] = IF j = 1 THEN q[j] ELSE f[j - 1] \o q[j]
        BY <2>3
      <4> HIDE DEF Rec
      <4>2. \A j \in 1..Len(q) : j # 1 => f[j] = f[j - 1] \o q[j]
        BY <4>1
      <4>3. ASSUME NEW j \in 1..Len(q), j = i + 2 PROVE f[j] = f[i + 1] \o q[j]
        <5>1. j # 1 /\ j - 1 = i + 1
          BY <4>3
        <5> QED
          BY <4>2, <5>1
      <4> QED
        BY <3>2, <4>3
    <3>4. f[i + 2] \in Seq(S) /\ ToSet(f[i + 2]) = ToSet(f[i + 1]) \cup ToSet(q[i + 2])
      BY <3>1, <3>3, Concat, ConcatElements
    <3>5. Has(f[i + 1], i + 1)
      BY <2>6
    <3>6. ASSUME NEW j \in 1..(i + 2) PROVE ToSet(q[j]) \subseteq ToSet(f[i + 2])
      <4>1. CASE j = i + 2
        BY <3>4, <4>1
      <4>2. CASE j # i + 2
        <5>1. j \in 1..(i + 1)
          BY <4>2
        <5>2. ToSet(q[j]) \subseteq ToSet(f[i + 1])
          BY <3>5, <5>1
        <5> QED
          BY <3>4, <5>2
      <4> QED
        BY <4>1, <4>2
    <3>7. i + 1 + 1 = i + 2
      OBVIOUS
    <3> QED
      BY <3>4, <3>6, <3>7
  <2>7. \A i \in Nat : i \in P
    <3> HIDE DEF P
    <3> QED
      BY <2>5, <2>6, Induct
  <2>8. f[Len(q)] \in Seq(S) /\ Has(f[Len(q)], Len(q))
    <3>1. Len(q) - 1 \in Nat /\ Len(q) - 1 + 1 = Len(q)
      BY <1>5
    <3> HIDE DEF Has
    <3>2. \A i \in Nat : i + 1 <= Len(q) => f[i + 1] \in Seq(S) /\ Has(f[i + 1], i + 1)
      BY <2>7
    <3>3. \A i \in Nat : i + 1 = Len(q) => f[Len(q)] \in Seq(S) /\ Has(f[Len(q)], Len(q))
      BY <3>2
    <3> QED
      BY <3>1, <3>3
  <2>9. FlattenSeq(q) = f[Len(q)]
    BY <1>5 DEF FlattenSeq, f
  <2>10. DOMAIN q = 1..Len(q)
    OBVIOUS
  <2> QED
    BY <2>8, <2>9, <2>10
<1> QED
  BY <1>4, <1>5

---------------------------------------------------------------------------
(* The canonical order.                                                    *)

Rising(s) == \A i, j \in DOMAIN s : i < j => s[i] < s[j]

\* Every set of records can be listed in rising order.
LEMMA Listing ==
  ASSUME NEW m \in Nat
  PROVE  \A n \in Nat : \A K \in SUBSET (1..m) :
           Cardinality(K) = n => \E s \in [1..n -> K] : Rising(s)
<1> DEFINE P(n) == \A K \in SUBSET (1..m) :
                     Cardinality(K) = n => \E s \in [1..n -> K] : Rising(s)
           T == {n \in Nat : P(n)}
<1>1. 0 \in T
  <2> SUFFICES ASSUME NEW K \in SUBSET (1..m) PROVE \E s \in [1..0 -> K] : Rising(s)
    OBVIOUS
  <2> DEFINE s == [i \in 1..0 |-> 0]
  <2>1. s \in [1..0 -> K] /\ Rising(s)
    BY DEF Rising
  <2> QED
    BY <2>1
<1>2. ASSUME NEW n \in Nat, n \in T PROVE n + 1 \in T
  <2> SUFFICES ASSUME NEW K \in SUBSET (1..m), Cardinality(K) = n + 1
               PROVE  \E s \in [1..(n + 1) -> K] : Rising(s)
    OBVIOUS
  <2>1. IsFiniteSet(K)
    <3>1. IsFiniteSet(1..m)
      BY FS_Interval
    <3> QED
      BY <3>1, FS_Subset
  <2>2. K # {} /\ K \subseteq Nat /\ \A x \in K : x <= m
    BY <2>1, FS_EmptySet
  <2>3. PICK x \in K : \A y \in K : y <= x
    BY <2>2, Greatest
  <2>4. Cardinality(K \ {x}) = n
    BY <2>1, FS_RemoveElement
  <2>5. PICK r \in [1..n -> K \ {x}] : Rising(r)
    BY <1>2, <2>4
  <2> DEFINE s == [i \in 1..(n + 1) |-> IF i \in 1..n THEN r[i] ELSE x]
  <2>6. s \in [1..(n + 1) -> K]
    BY <2>5
  <2>7. ASSUME NEW i \in 1..(n + 1), NEW j \in 1..(n + 1), i < j PROVE s[i] < s[j]
    <3>1. i \in 1..n /\ s[i] = r[i] /\ r[i] \in K \ {x}
      BY <2>5, <2>7
    <3>2. CASE j \in 1..n
      BY <2>5, <2>7, <3>1, <3>2 DEF Rising
    <3>3. CASE j = n + 1
      <4>1. s[j] = x
        BY <3>3
      <4>2. r[i] <= x /\ r[i] # x /\ r[i] \in Nat /\ x \in Nat
        BY <2>2, <2>3, <3>1
      <4> QED
        BY <3>1, <4>1, <4>2
    <3> QED
      BY <3>2, <3>3
  <2> HIDE DEF s
  <2> QED
    BY <2>6, <2>7 DEF Rising
<1>3. \A n \in Nat : n \in T
  <2> HIDE DEF T
  <2> QED
    BY <1>1, <1>2, Induct
<1> QED
  BY <1>3

\* Canonical lists the elements of a set once each, in order.
LEMMA CanonicalOrder ==
  ASSUME NEW m \in Nat, NEW K \in SUBSET (1..m)
  PROVE  /\ Canonical(K) \in Seq(K)
         /\ Rising(Canonical(K))
         /\ \A k \in K : \E i \in DOMAIN Canonical(K) : Canonical(K)[i] = k
<1>1. IsFiniteSet(K) /\ Cardinality(K) \in Nat
  <2>1. IsFiniteSet(1..m)
    BY FS_Interval
  <2>2. IsFiniteSet(K)
    BY <2>1, FS_Subset
  <2> QED
    BY <2>2, FS_CardinalityType
<1>2. \E s \in [1..Cardinality(K) -> K] : Rising(s)
  BY <1>1, Listing
<1>3. Canonical(K) \in [1..Cardinality(K) -> K] /\ Rising(Canonical(K))
  BY <1>2 DEF Canonical, Rising
<1> DEFINE s == Canonical(K)
           n == Cardinality(K)
<1>4. \A k \in K : \E i \in 1..n : s[i] = k
  <2>1. s \in [1..n -> K] /\ Rising(s) /\ n \in Nat /\ K \subseteq Nat
    BY <1>1, <1>3
  <2>2. IsFiniteSet(1..n) /\ Cardinality(1..n) = n
    BY <2>1, FS_Interval
  <2> HIDE DEF s
  <2>3. ASSUME NEW i \in 1..n, NEW j \in 1..n, s[i] = s[j] PROVE i = j
    <3>1. s[i] \in Nat /\ s[j] \in Nat /\ DOMAIN s = 1..n
      BY <2>1
    <3>2. ~ (i < j) /\ ~ (j < i)
      BY <2>1, <2>3, <3>1 DEF Rising
    <3> QED
      BY <2>1, <3>2
  <2>4. s \in Injection(1..n, K)
    BY <2>1, <2>3 DEF Injection, IsInjective
  <2>5. s \in Surjection(1..n, K)
    BY <1>1, <2>2, <2>4, FS_Injection
  <2> QED
    BY <2>5 DEF Surjection
<1> QED
  BY <1>1, <1>3, <1>4

---------------------------------------------------------------------------
(* The statements of a unit.                                               *)

Stmt == [op : {"write", "advance", "load", "ensure", "publish"},
         row : Row \cup {0}, key : Nat]

\* What a unit of a work may execute.
Legal(w, u, st) ==
  \/ st.op = "write" /\ st.row \in ToSet(u.writes) /\ st.row \in Source
  \/ st.op = "advance" /\ st.key = st.row /\ st.row \in Changed(u) /\ st.row \in Key
  \/ st.op = "load" /\ w.push
  \/ st.op = "ensure" /\ st.key = st.row /\ st.row \in Key \ Changed(u) /\ Names(u, st.row)
  \/ st.op = "publish" /\ st.row \in Channel /\ st.key \in Key

\* Writes come before stamps, stamps in canonical order before the readback,
\* the readback before the publications.
Rank(st) ==
  CASE st.op = "write" -> 0 [] st.op = "advance" -> 1 [] st.op = "load" -> 2 [] OTHER -> 3
Before(a, b) ==
  \/ Rank(a) < Rank(b)
  \/ Rank(a) = Rank(b) /\ a.op # "load" /\ (a.op = "advance" => a.row < b.row)
InOrder(s) == \A i, j \in DOMAIN s : i < j => Before(s[i], s[j])

\* Ordered sequences, one below the other, make an ordered one.
LEMMA ConcatInOrder ==
  ASSUME NEW a \in Seq(Stmt), NEW b \in Seq(Stmt), InOrder(a), InOrder(b),
         \A x \in ToSet(a), y \in ToSet(b) : Before(x, y)
  PROVE  a \o b \in Seq(Stmt) /\ InOrder(a \o b) /\ ToSet(a \o b) = ToSet(a) \cup ToSet(b)
<1>0. ASSUME NEW i \in DOMAIN a, NEW j \in DOMAIN b PROVE Before(a[i], b[j])
  BY DEF ToSet
<1>1. a \o b \in Seq(Stmt) /\ DOMAIN (a \o b) = 1 .. Len(a) + Len(b)
  BY Concat
<1>2. ASSUME NEW i \in 1 .. Len(a) + Len(b), NEW j \in 1 .. Len(a) + Len(b), i < j
      PROVE  Before((a \o b)[i], (a \o b)[j])
  <2>1. CASE j <= Len(a)
    <3>0. i \in 1..Len(a) /\ j \in 1..Len(a)
      BY <1>2, <2>1
    <3>1. i \in DOMAIN a /\ j \in DOMAIN a /\ (a \o b)[i] = a[i] /\ (a \o b)[j] = a[j]
      BY <3>0, Concat
    <3> QED
      BY <1>2, <3>1 DEF InOrder
  <2>2. CASE i <= Len(a) /\ j > Len(a)
    <3>1. i \in DOMAIN a /\ (a \o b)[i] = a[i]
      BY <2>2, Concat
    <3>2. j - Len(a) \in DOMAIN b /\ (a \o b)[j] = b[j - Len(a)]
      BY <2>2, Concat
    <3> QED
      BY <1>0, <3>1, <3>2
  <2>3. CASE i > Len(a)
    <3>1. i - Len(a) \in DOMAIN b /\ (a \o b)[i] = b[i - Len(a)]
      BY <2>3, Concat
    <3>2. j - Len(a) \in DOMAIN b /\ (a \o b)[j] = b[j - Len(a)]
      BY <1>2, <2>3, Concat
    <3>3. i - Len(a) < j - Len(a)
      BY <1>2
    <3> QED
      BY <3>1, <3>2, <3>3 DEF InOrder
  <2> QED
    BY <1>2, <2>1, <2>2, <2>3
<1> QED
  BY <1>1, <1>2, ConcatElements DEF InOrder

\* The tail of an ordered sequence is ordered.
LEMMA TailInOrder ==
  ASSUME NEW s \in Seq(Stmt), s # <<>>, InOrder(s)
  PROVE  /\ InOrder(Tail(s))
         /\ \A st \in ToSet(Tail(s)) : Before(Head(s), st)
<1> DEFINE r == Tail(s)
<1>1. r \in Seq(Stmt) /\ Head(s) = s[1] /\ Len(r) = Len(s) - 1
      /\ \A i \in 1 .. Len(s) - 1 : r[i] = s[i + 1]
  OBVIOUS
<1>2. ASSUME NEW i \in DOMAIN r PROVE i + 1 \in DOMAIN s /\ 1 < i + 1 /\ r[i] = s[i + 1]
  BY <1>1
<1> HIDE DEF r
<1>3. InOrder(r)
  BY <1>1, <1>2 DEF InOrder
<1>4. \A st \in ToSet(r) : Before(Head(s), st)
  <2>1. ASSUME NEW i \in DOMAIN r PROVE Before(Head(s), r[i])
    <3>1. i + 1 \in DOMAIN s /\ 1 \in DOMAIN s /\ 1 < i + 1 /\ r[i] = s[i + 1]
      BY <1>1, <1>2
    <3> QED
      BY <1>1, <3>1 DEF InOrder
  <2> QED
    BY <2>1 DEF ToSet
<1> QED
  BY <1>3, <1>4 DEF r

\* The publications of a unit are statements that ensure and publish.
LEMMA Publications ==
  ASSUME DistributionAssumption, NEW u \in Unit
  PROVE  /\ publish_intents(u) \in Seq(Stmt)
         /\ \A j \in DOMAIN publish_intents(u) :
              LET st == publish_intents(u)[j] IN
              \/ /\ st.op = "ensure" /\ st.key = st.row
                 /\ st.row \in Key \ Changed(u) /\ Names(u, st.row)
              \/ st.op = "publish" /\ st.row \in Channel /\ st.key \in Key
         /\ \A k \in Key : Names(u, k) /\ k \notin Changed(u) =>
              \E st \in ToSet(publish_intents(u)) : st.op = "ensure" /\ st.row = k
<1> DEFINE Allowed(st) == \/ /\ st.op = "ensure" /\ st.key = st.row
                             /\ st.row \in Key \ Changed(u) /\ Names(u, st.row)
                          \/ st.op = "publish" /\ st.row \in Channel /\ st.key \in Key
           S == {st \in Stmt : Allowed(st)}
<1>0. u.publications \in Seq([channel : Channel, records : SUBSET Key])
  BY DEF Unit
<1>p. ASSUME NEW i \in DOMAIN u.publications
      PROVE  u.publications[i] \in [channel : Channel, records : SUBSET Key]
  BY <1>0, Element, Zenon
<1>1. ASSUME NEW i \in DOMAIN u.publications, NEW k \in u.publications[i].records
      PROVE  publish_one(u, u.publications[i].channel, k) \in Seq(S)
  <2>1. k \in Key /\ k \in Nat /\ u.publications[i].channel \in Channel /\ Names(u, k)
    <3>1. u.publications[i] \in [channel : Channel, records : SUBSET Key]
      BY <1>p
    <3>2. u.publications[i] \in ToSet(u.publications)
      BY DEF ToSet
    <3> QED
      BY <3>1, <3>2 DEF Names, Key
  <2> DEFINE c == u.publications[i].channel
  <2>2. Statement("publish", c, k) \in S
    BY <2>1 DEF Statement, Stmt, Row
  <2>3. k \notin Changed(u) => Statement("ensure", k, k) \in S
    BY <2>1 DEF Statement, Stmt, Row
  <2> HIDE DEF S, c
  <2>4. (IF k \in Changed(u) THEN <<>> ELSE <<Statement("ensure", k, k)>>) \in Seq(S)
    BY <2>3
  <2>5. <<Statement("publish", c, k)>> \in Seq(S)
    BY <2>2
  <2> QED
    BY <2>4, <2>5, Concat DEF publish_one, c
<1> DEFINE Of(i) == LET p == u.publications[i]
                        members == Canonical(p.records) IN
                    FlattenSeq([j \in DOMAIN members |-> publish_one(u, p.channel, members[j])])
<1>2. ASSUME NEW i \in DOMAIN u.publications
      PROVE  /\ Of(i) \in Seq(S)
             /\ \A k \in u.publications[i].records :
                  ToSet(publish_one(u, u.publications[i].channel, k)) \subseteq ToSet(Of(i))
  <2> DEFINE p == u.publications[i]
             members == Canonical(p.records)
             q == [j \in DOMAIN members |-> publish_one(u, p.channel, members[j])]
  <2>1. p.records \in SUBSET (1..Keys) /\ Keys \in Nat
    BY <1>p DEF Key, DistributionAssumption
  <2>2. members \in Seq(p.records) /\ \A k \in p.records : \E j \in DOMAIN members : members[j] = k
    BY <2>1, CanonicalOrder
  <2>3. \A j \in DOMAIN members : publish_one(u, p.channel, members[j]) \in Seq(S)
    <3> HIDE DEF members, S
    <3>1. \A j \in DOMAIN members : members[j] \in u.publications[i].records
      BY <2>2
    <3> QED
      BY <1>1, <3>1
  <2>4. q \in Seq(Seq(S))
    <3> HIDE DEF members, S
    <3>1. members \in Seq(p.records)
      BY <2>2
    <3> QED
      BY <3>1, <2>3
  <2>5. FlattenSeq(q) \in Seq(S) /\ \A j \in DOMAIN q : ToSet(q[j]) \subseteq ToSet(FlattenSeq(q))
    <3> HIDE DEF q, S
    <3> QED
      BY <2>4, Flatten
  <2>6. ASSUME NEW k \in p.records
        PROVE  ToSet(publish_one(u, p.channel, k)) \subseteq ToSet(FlattenSeq(q))
    <3>1. PICK j \in DOMAIN members : members[j] = k
      BY <2>2
    <3>2. j \in DOMAIN q /\ q[j] = publish_one(u, p.channel, k)
      BY <3>1
    <3> HIDE DEF q
    <3> QED
      BY <2>5, <3>2
  <2> QED
    BY <2>5, <2>6
<1>3. [i \in DOMAIN u.publications |-> Of(i)] \in Seq(Seq(S))
  <2> HIDE DEF Of, S
  <2> QED
    BY <1>0, <1>2
<1>4. /\ publish_intents(u) \in Seq(S)
      /\ \A i \in DOMAIN u.publications : ToSet(Of(i)) \subseteq ToSet(publish_intents(u))
  <2> DEFINE q == [i \in DOMAIN u.publications |-> Of(i)]
  <2>1. \A i \in DOMAIN u.publications : i \in DOMAIN q /\ q[i] = Of(i)
    OBVIOUS
  <2>2. publish_intents(u) = FlattenSeq(q)
    BY DEF publish_intents
  <2>3. q \in Seq(Seq(S))
    BY <1>3
  <2> HIDE DEF q, S, Of
  <2>4. FlattenSeq(q) \in Seq(S) /\ \A i \in DOMAIN q : ToSet(q[i]) \subseteq ToSet(FlattenSeq(q))
    BY <2>3, Flatten
  <2> QED
    BY <2>1, <2>2, <2>4
<1>5. ASSUME NEW k \in Key, Names(u, k), k \notin Changed(u)
      PROVE  \E st \in ToSet(publish_intents(u)) : st.op = "ensure" /\ st.row = k
  <2>1. PICK i \in DOMAIN u.publications : k \in u.publications[i].records
    BY <1>5 DEF Names, ToSet
  <2> DEFINE c == u.publications[i].channel
             e == Statement("ensure", k, k)
             two == publish_one(u, c, k)
  <2>2. two = <<e>> \o <<Statement("publish", c, k)>>
    BY <1>5 DEF publish_one
  <2> HIDE DEF two
  <2>3. 1 \in DOMAIN two /\ two[1] = e
    BY <2>2
  <2>4. e \in ToSet(two)
    BY <2>3 DEF ToSet
  <2>5. ToSet(two) \subseteq ToSet(Of(i))
    <3> HIDE DEF Of, S
    <3> QED
      BY <1>2, <2>1 DEF two
  <2>6. ToSet(Of(i)) \subseteq ToSet(publish_intents(u))
    <3> HIDE DEF Of, S
    <3> QED
      BY <1>4
  <2>7. e \in ToSet(publish_intents(u))
    BY <2>4, <2>5, <2>6
  <2> QED
    BY <2>7 DEF Statement
<1> QED
  <2> HIDE DEF Allowed
  <2>1. publish_intents(u) \in Seq(Stmt)
    BY <1>4
  <2>2. \A j \in DOMAIN publish_intents(u) : Allowed(publish_intents(u)[j])
    BY <1>4
  <2> QED
    BY <1>5, <2>1, <2>2 DEF Allowed

\* The statements q advance every record the unit u declares, ensure every
\* other one it publishes, and read back for a push.
Covers(q, w, u) ==
  /\ \A k \in Changed(u) : \E st \in ToSet(q) : st.op = "advance" /\ st.row = k
  /\ \A k \in Key : Names(u, k) /\ k \notin Changed(u) =>
       \E st \in ToSet(q) : st.op = "ensure" /\ st.row = k
  /\ w.push => \E st \in ToSet(q) : st.op = "load"

\* What a script is made of, whatever the unit.
LEMMA ScriptShape ==
  ASSUME DistributionAssumption, NEW w \in Work, NEW i \in DOMAIN w.units
  PROVE  LET u == w.units[i] IN
         /\ u \in Unit
         /\ Script(w, i) \in Seq(Stmt) /\ InOrder(Script(w, i))
         /\ \A st \in ToSet(Script(w, i)) : Legal(w, u, st)
         /\ Covers(Script(w, i), w, u)
<1> DEFINE u == w.units[i]
           W == [j \in DOMAIN u.writes |-> Statement("write", u.writes[j], 0)]
           A == allocate_stamps(u)
           R == IF w.push THEN <<Statement("load", 0, 0)>> ELSE <<>>
           P == publish_intents(u)
<1>1. u \in Unit
  <2>1. w.units \in Seq(Unit)
    BY DEF DistributionAssumption, Works
  <2> QED
    BY <2>1, Element
<1> HIDE DEF u
<1>2. W \in Seq(Stmt) /\ InOrder(W) /\ \A st \in ToSet(W) : st.op = "write" /\ Legal(w, u, st)
  <2>1. u.writes \in Seq(Source)
    BY <1>1 DEF Unit
  <2>2. ASSUME NEW j \in DOMAIN u.writes
        PROVE  W[j] \in Stmt /\ W[j].op = "write" /\ Legal(w, u, W[j])
    <3>1. u.writes[j] \in Source /\ u.writes[j] \in ToSet(u.writes)
      BY <2>1, Element DEF ToSet
    <3> QED
      BY <3>1 DEF Statement, Stmt, Row, Legal
  <2>3. W \in Seq(Stmt) /\ DOMAIN W = DOMAIN u.writes
    <3>1. \A j \in DOMAIN u.writes : W[j] \in Stmt
      BY <2>2
    <3>2. DOMAIN W = DOMAIN u.writes
      OBVIOUS
    <3> HIDE DEF W
    <3>3. Len(u.writes) \in Nat /\ DOMAIN u.writes = 1..Len(u.writes)
      BY <2>1
    <3>4. W = [j \in 1..Len(u.writes) |-> W[j]]
      BY <3>3 DEF W
    <3> QED
      BY <3>1, <3>2, <3>3, <3>4
  <2> HIDE DEF W
  <2>4. InOrder(W)
    BY <2>2, <2>3 DEF InOrder, Before, Rank
  <2> QED
    BY <2>2, <2>3, <2>4 DEF ToSet
<1>3. /\ A \in Seq(Stmt) /\ InOrder(A) /\ \A st \in ToSet(A) : st.op = "advance" /\ Legal(w, u, st)
      /\ \A k \in Changed(u) : \E st \in ToSet(A) : st.op = "advance" /\ st.row = k
  <2> DEFINE keys == Canonical(Changed(u))
  <2>1. Changed(u) \in SUBSET (1..Keys) /\ Keys \in Nat
    <3>1. u.changes \in Seq(Key)
      BY <1>1 DEF Unit
    <3> QED
      BY <3>1 DEF Changed, ToSet, Key, DistributionAssumption
  <2>2. /\ keys \in Seq(Changed(u)) /\ Rising(keys)
        /\ \A k \in Changed(u) : \E j \in DOMAIN keys : keys[j] = k
    BY <2>1, CanonicalOrder
  <2>3. A = [j \in DOMAIN keys |-> Statement("advance", keys[j], keys[j])]
    BY DEF allocate_stamps
  <2> HIDE DEF keys, A
  <2>4. ASSUME NEW j \in DOMAIN keys
        PROVE  /\ A[j] \in Stmt /\ A[j].op = "advance" /\ A[j].row = keys[j] /\ Legal(w, u, A[j])
    <3>1. keys[j] \in Changed(u) /\ keys[j] \in Key /\ keys[j] \in Nat
      BY <2>1, <2>2, Element DEF Key
    <3> QED
      BY <2>3, <3>1 DEF Statement, Stmt, Row, Legal
  <2>5. A \in Seq(Stmt) /\ DOMAIN A = DOMAIN keys
    <3>1. Len(keys) \in Nat /\ DOMAIN keys = 1..Len(keys)
      BY <2>2
    <3>2. A = [j \in 1..Len(keys) |-> A[j]] /\ DOMAIN A = DOMAIN keys
      BY <2>3, <3>1
    <3> QED
      BY <2>4, <3>1, <3>2
  <2>6. InOrder(A)
    BY <2>2, <2>4, <2>5 DEF InOrder, Before, Rank, Rising
  <2>7. \A k \in Changed(u) : \E st \in ToSet(A) : st.op = "advance" /\ st.row = k
    BY <2>2, <2>4, <2>5 DEF ToSet
  <2> QED
    BY <2>4, <2>5, <2>6, <2>7 DEF ToSet
<1>4. /\ R \in Seq(Stmt) /\ InOrder(R) /\ \A st \in ToSet(R) : st.op = "load" /\ Legal(w, u, st)
      /\ w.push => \E st \in ToSet(R) : st.op = "load"
  <2>1. Statement("load", 0, 0) \in Stmt /\ Statement("load", 0, 0).op = "load"
    BY DEF Statement, Stmt
  <2>2. CASE w.push
    <3>1. R = <<Statement("load", 0, 0)>>
      BY <2>2
    <3> HIDE DEF R
    <3>2. DOMAIN R = {1} /\ R[1] = Statement("load", 0, 0) /\ R \in Seq(Stmt)
      BY <2>1, <3>1
    <3> QED
      BY <2>1, <2>2, <3>2 DEF InOrder, ToSet, Legal
  <2>3. CASE ~ w.push
    <3>1. R = <<>>
      BY <2>3
    <3> HIDE DEF R
    <3> QED
      BY <2>3, <3>1 DEF InOrder, ToSet
  <2> QED
    BY <2>2, <2>3
<1>5. /\ P \in Seq(Stmt)
      /\ \A st \in ToSet(P) : st.op \in {"ensure", "publish"} /\ Legal(w, u, st)
      /\ \A k \in Key : Names(u, k) /\ k \notin Changed(u) =>
           \E st \in ToSet(P) : st.op = "ensure" /\ st.row = k
  <2>1. \A j \in DOMAIN P : P[j].op \in {"ensure", "publish"} /\ Legal(w, u, P[j])
    BY <1>1, Publications DEF Legal
  <2> QED
    BY <1>1, <2>1, Publications DEF ToSet
<1>6. InOrder(P)
  BY <1>5 DEF InOrder, ToSet, Before, Rank
<1>7. Script(w, i) = ((W \o A) \o R) \o P
  BY DEF Script, u
<1> HIDE DEF W, A, R, P
<1>8. W \o A \in Seq(Stmt) /\ InOrder(W \o A) /\ ToSet(W \o A) = ToSet(W) \cup ToSet(A)
  <2>1. \A a \in ToSet(W), b \in ToSet(A) : Before(a, b)
    BY <1>2, <1>3 DEF Before, Rank
  <2> QED
    BY <1>2, <1>3, <2>1, ConcatInOrder
<1>9. /\ (W \o A) \o R \in Seq(Stmt) /\ InOrder((W \o A) \o R)
      /\ ToSet((W \o A) \o R) = ToSet(W) \cup ToSet(A) \cup ToSet(R)
  <2> DEFINE B == W \o A
  <2>1. \A a \in ToSet(B), b \in ToSet(R) : Before(a, b)
    BY <1>2, <1>3, <1>4, <1>8 DEF Before, Rank
  <2> HIDE DEF B
  <2>2. B \o R \in Seq(Stmt) /\ InOrder(B \o R) /\ ToSet(B \o R) = ToSet(B) \cup ToSet(R)
    <3>1. B \in Seq(Stmt) /\ InOrder(B)
      BY <1>8 DEF B
    <3> QED
      BY <1>4, <2>1, <3>1, ConcatInOrder
  <2> QED
    BY <1>8, <2>2 DEF B
<1>10. /\ Script(w, i) \in Seq(Stmt) /\ InOrder(Script(w, i))
       /\ ToSet(Script(w, i)) = ToSet(W) \cup ToSet(A) \cup ToSet(R) \cup ToSet(P)
  <2> DEFINE B == (W \o A) \o R
  <2>1. \A a \in ToSet(B), b \in ToSet(P) : Before(a, b)
    <3>1. \A a \in ToSet(B) : a.op \in {"write", "advance", "load"}
      BY <1>2, <1>3, <1>4, <1>9
    <3> HIDE DEF B
    <3> QED
      BY <1>5, <3>1 DEF Before, Rank
  <2> HIDE DEF B
  <2>2. B \o P \in Seq(Stmt) /\ InOrder(B \o P) /\ ToSet(B \o P) = ToSet(B) \cup ToSet(P)
    <3>1. B \in Seq(Stmt) /\ InOrder(B)
      BY <1>9 DEF B
    <3> QED
      BY <1>5, <1>6, <2>1, <3>1, ConcatInOrder
  <2> QED
    BY <1>7, <1>9, <2>2 DEF B
<1>11. Covers(Script(w, i), w, u)
  BY <1>3, <1>4, <1>5, <1>10 DEF Covers
<1> QED
  BY <1>1, <1>2, <1>3, <1>4, <1>5, <1>10, <1>11 DEF u

---------------------------------------------------------------------------
(* The shape of the state.                                                 *)

Writers == {Initially} \cup (Work \X Nat)
Database == [writer : [Row -> Writers], stamp : [Key -> Nat], head : [Channel -> Nat],
             at : [Channel -> [Key -> [cursor : Nat, stamp : Nat]]]]
Authorities == [key : Key, stamp : Nat, content : UNION {[derives[k] -> Writers] : k \in Key}]
Mark == [view : Database, own : SUBSET Row, touched : SUBSET Channel]
Cause == {"refusal", "conflict"}
Running ==
  [phase : {"running"}, work : Work, unit : Nat \ {0}, todo : Seq(Stmt), view : Database,
   own : SUBSET Row, touched : SUBSET Channel, loaded : SUBSET Authorities,
   results : SUBSET Authorities, kept : Seq(Work \X Nat),
   refused : SUBSET [unit : Nat, cause : Cause], savepoint : Mark]
Committed == [phase : {"committed"}, work : Work, touched : SUBSET Channel]

\* A running transaction: what it has still to do are statements of its unit.
Shaped(x) ==
  /\ x \in Running
  /\ InOrder(x.todo)
  /\ \A st \in ToSet(x.todo) : Legal(x.work, x.work.units[x.unit], st)
  /\ x.unit \notin DOMAIN x.work.units => x.todo = <<>>
  /\ \A a \in ToSet(x.kept) : a[1] = x.work /\ a[2] \in DOMAIN x.work.units
  /\ \A r \in x.refused : r.unit \in DOMAIN x.work.units

ShapeInv ==
  /\ store \in Database
  /\ tx \in [Tx -> {NoTx} \cup Committed \cup Running]
  /\ \A t \in Active : Shaped(tx[t])
  /\ done \subseteq Work
  /\ accepted \in Seq(Work \X Nat)
  /\ rejected \subseteq [change : Work \X Nat, cause : Cause]
  /\ delivered \subseteq Authorities
  /\ reader \in [cursor : [Channel -> Nat], known : [Key -> Nat]]
  /\ woken \in [Channel -> Nat]

\* A writer is in one phase.
LEMMA Phases ==
  ASSUME ShapeInv, NEW t \in Tx
  PROVE  /\ tx[t].phase = "running" <=> tx[t] \in Running
         /\ tx[t].phase = "idle" <=> tx[t] = NoTx
         /\ tx[t].phase = "committed" <=> tx[t] \in Committed
         /\ t \in Active <=> tx[t].phase = "running"
  BY DEF ShapeInv, NoTx, Committed, Running, Active

\* What is to be done for a unit, or for none when all are through.
LEMMA TodoShape ==
  ASSUME DistributionAssumption, NEW w \in Work, NEW i \in Nat
  PROVE  /\ Todo(w, i) \in Seq(Stmt) /\ InOrder(Todo(w, i))
         /\ \A st \in ToSet(Todo(w, i)) : Legal(w, w.units[i], st)
         /\ i \notin DOMAIN w.units => Todo(w, i) = <<>>
<1>1. CASE i \in DOMAIN w.units
  BY <1>1, ScriptShape DEF Todo
<1>2. CASE i \notin DOMAIN w.units
  BY <1>2 DEF Todo, ToSet, InOrder
<1> QED
  BY <1>1, <1>2

\* What a unit of work may be.
LEMMA Units ==
  ASSUME DistributionAssumption, NEW w \in Work
  PROVE  w.units \in Seq(Unit) /\ DOMAIN w.units = 1..Len(w.units) /\ Len(w.units) \in Nat
  BY DEF DistributionAssumption, Works

\* Begun: what a transaction begins with.
LEMMA BegunFields ==
  ASSUME DistributionAssumption, NEW w \in Work, store \in Database
  PROVE  LET y == Begun(w) IN
         /\ y.phase = "running" /\ y.work = w /\ y.unit = 1 /\ y.todo = Todo(w, 1)
         /\ y.view = store /\ y.own = {} /\ y.touched = {} /\ y.loaded = {} /\ y.results = {}
         /\ y.kept = <<>> /\ y.refused = {}
         /\ y.savepoint = [view |-> store, own |-> {}, touched |-> {}]
         /\ Shaped(y)
<1> DEFINE y == Begun(w)
<1>1. Todo(w, 1) \in Seq(Stmt)
  BY TodoShape
<1>2. <<>> \in Seq(Work \X Nat) /\ ToSet(<<>>) = {}
  BY DEF ToSet
<1>3. y \in Running
  BY <1>1, <1>2 DEF Begun, Running, Mark
<1>4. y.work = w /\ y.unit = 1 /\ y.todo = Todo(w, 1) /\ y.kept = <<>> /\ y.refused = {}
  BY DEF Begun
<1>5. Shaped(y)
  BY <1>2, <1>3, <1>4, TodoShape DEF Shaped
<1> QED
  BY <1>5 DEF Begun

\* The database d is s with one row changed.
Wrote(d, s, st, a) ==
  /\ d \in Database /\ st.row \in Row /\ s.writer \in [Row -> Writers]
  /\ d.writer = [s.writer EXCEPT ![st.row] = a]
  /\ st.op = "write" => d.stamp = s.stamp
  /\ st.op = "advance" => d.stamp = [s.stamp EXCEPT ![st.row] = @ + 1]
  /\ st.op = "ensure" => d.stamp = [s.stamp EXCEPT ![st.row] = IF @ = 0 THEN 1 ELSE @]
  /\ st.op = "publish" =>
       /\ d.stamp = s.stamp
       /\ d.head = [s.head EXCEPT ![st.row] = @ + 1]
       /\ d.at = [s.at EXCEPT ![st.row] =
                   [@ EXCEPT ![st.key] = [cursor |-> s.head[st.row] + 1,
                                          stamp |-> s.stamp[st.key]]]]
  /\ st.op # "publish" => d.head = s.head /\ d.at = s.at

\* The tables of a database, and one row's writer set in them.
Tables(wr, sp, hd, ps) == [writer |-> wr, stamp |-> sp, head |-> hd, at |-> ps]
SetWriter(v, row, a) == [v EXCEPT !.writer[row] = a]
SetAt(f, x, y) == [f EXCEPT ![x] = y]

LEMMA WriterSet ==
  ASSUME NEW wr, NEW sp, NEW hd, NEW ps, NEW row, NEW a
  PROVE  SetWriter(Tables(wr, sp, hd, ps), row, a)
           = Tables(SetAt(wr, row, a), sp, hd, ps)
<1> DEFINE v == Tables(wr, sp, hd, ps)
           u == [wr EXCEPT ![row] = a]
<1>1. /\ v.writer = wr /\ v.stamp = sp /\ v.head = hd /\ v.at = ps
      /\ DOMAIN v = {"writer", "stamp", "head", "at"}
  BY DEF Tables
<1>2. [v EXCEPT !.writer[row] = a] = [v EXCEPT !.writer = u]
  BY <1>1
<1> HIDE DEF u
<1>3. [v EXCEPT !.writer = u] = Tables(u, sp, hd, ps)
  BY <1>1 DEF Tables
<1> QED
  BY <1>2, <1>3 DEF u, SetWriter, SetAt

\* What a write does to the row it names, and to no other.
LEMMA EffectOf ==
  ASSUME DistributionAssumption, NEW s \in Database, NEW st \in Stmt, NEW a \in Writers,
         NEW w, NEW u, Legal(w, u, st), st.op \in Writes
  PROVE  Wrote(Effect(s, st, a), s, st, a)
<1> SUFFICES LET d == Effect(s, st, a) IN
         /\ d \in Database /\ st.row \in Row
         /\ d.writer = [s.writer EXCEPT ![st.row] = a]
         /\ st.op = "write" => d.stamp = s.stamp
         /\ st.op = "advance" => d.stamp = [s.stamp EXCEPT ![st.row] = @ + 1]
         /\ st.op = "ensure" => d.stamp = [s.stamp EXCEPT ![st.row] = IF @ = 0 THEN 1 ELSE @]
         /\ st.op = "publish" =>
              /\ d.stamp = s.stamp
              /\ d.head = [s.head EXCEPT ![st.row] = @ + 1]
              /\ d.at = [s.at EXCEPT ![st.row] =
                          [@ EXCEPT ![st.key] = [cursor |-> s.head[st.row] + 1,
                                                 stamp |-> s.stamp[st.key]]]]
         /\ st.op # "publish" => d.head = s.head /\ d.at = s.at
  <2>1. s.writer \in [Row -> Writers]
    BY DEF Database
  <2> QED
    BY <2>1 DEF Wrote
<1>0. PICK wr \in [Row -> Writers], sp \in [Key -> Nat], hd \in [Channel -> Nat],
           ps \in [Channel -> [Key -> [cursor : Nat, stamp : Nat]]] :
        s = [writer |-> wr, stamp |-> sp, head |-> hd, at |-> ps]
  BY DEF Database
<1>b. s.writer = wr /\ s.stamp = sp /\ s.head = hd /\ s.at = ps
  BY <1>0
<1> DEFINE r == [s.writer EXCEPT ![st.row] = a]
<1>a. r \in [Row -> Writers]
  BY <1>b
<1> HIDE DEF r
<1>1. CASE st.op = "write"
  <2>1. st.row \in Row
    BY <1>1 DEF Legal, Row
  <2>2. Effect(s, st, a) = [s EXCEPT !.writer[st.row] = a]
    BY <1>1 DEF Effect
  <2>3. Effect(s, st, a) = [writer |-> r, stamp |-> sp, head |-> hd, at |-> ps]
    BY <1>0, <2>2 DEF r
  <2>4. Effect(s, st, a) \in Database
    BY <1>a, <2>3 DEF Database
  <2> QED
    BY <1>b, <1>1, <2>1, <2>3, <2>4 DEF r
<1>2. CASE st.op = "advance"
  <2>1. st.row \in Row /\ st.row \in Key /\ st.key = st.row
    BY <1>2 DEF Legal, Row
  <2> DEFINE p == [s.stamp EXCEPT ![st.row] = @ + 1]
  <2>2. Effect(s, st, a) = [[s EXCEPT !.stamp[st.row] = @ + 1] EXCEPT !.writer[st.row] = a]
    BY <1>2, <2>1 DEF Effect
  <2>3. [s EXCEPT !.stamp[st.row] = @ + 1] = [writer |-> wr, stamp |-> p, head |-> hd, at |-> ps]
    BY <1>0, <1>b
  <2>4. p \in [Key -> Nat]
    BY <1>b, <2>1
  <2> HIDE DEF p
  <2>5. Effect(s, st, a) = [writer |-> r, stamp |-> p, head |-> hd, at |-> ps]
    <3>1. [[writer |-> wr, stamp |-> p, head |-> hd, at |-> ps] EXCEPT !.writer[st.row] = a]
            = [writer |-> r, stamp |-> p, head |-> hd, at |-> ps]
      <4>1. SetWriter(Tables(wr, p, hd, ps), st.row, a)
              = Tables(SetAt(wr, st.row, a), p, hd, ps)
        BY WriterSet
      <4>2. r = SetAt(wr, st.row, a)
        BY <1>b DEF r, SetAt
      <4> HIDE DEF r
      <4> QED
        BY <4>1, <4>2 DEF Tables, SetWriter
    <3> QED
      BY <2>2, <2>3, <3>1
  <2>6. Effect(s, st, a) \in Database
    BY <1>a, <2>4, <2>5 DEF Database
  <2> QED
    BY <1>b, <1>2, <2>1, <2>5, <2>6 DEF r, p
<1>3. CASE st.op = "ensure"
  <2>1. st.row \in Row /\ st.row \in Key /\ st.key = st.row
    BY <1>3 DEF Legal, Row
  <2> DEFINE p == [s.stamp EXCEPT ![st.row] = IF @ = 0 THEN 1 ELSE @]
  <2>2. Effect(s, st, a) = [[s EXCEPT !.stamp[st.row] = IF @ = 0 THEN 1 ELSE @] EXCEPT !.writer[st.row] = a]
    BY <1>3, <2>1 DEF Effect
  <2>3. [s EXCEPT !.stamp[st.row] = IF @ = 0 THEN 1 ELSE @]
          = [writer |-> wr, stamp |-> p, head |-> hd, at |-> ps]
    BY <1>0, <1>b
  <2>4. p \in [Key -> Nat]
    BY <1>b, <2>1
  <2> HIDE DEF p
  <2>5. Effect(s, st, a) = [writer |-> r, stamp |-> p, head |-> hd, at |-> ps]
    <3>1. [[writer |-> wr, stamp |-> p, head |-> hd, at |-> ps] EXCEPT !.writer[st.row] = a]
            = [writer |-> r, stamp |-> p, head |-> hd, at |-> ps]
      <4>1. SetWriter(Tables(wr, p, hd, ps), st.row, a)
              = Tables(SetAt(wr, st.row, a), p, hd, ps)
        BY WriterSet
      <4>2. r = SetAt(wr, st.row, a)
        BY <1>b DEF r, SetAt
      <4> HIDE DEF r
      <4> QED
        BY <4>1, <4>2 DEF Tables, SetWriter
    <3> QED
      BY <2>2, <2>3, <3>1
  <2>6. Effect(s, st, a) \in Database
    BY <1>a, <2>4, <2>5 DEF Database
  <2> QED
    BY <1>b, <1>3, <2>1, <2>5, <2>6 DEF r, p
<1>4. CASE st.op = "publish"
  <2>1. st.row \in Row /\ st.row \in Channel /\ st.key \in Key
    BY <1>4 DEF Legal, Row
  <2> DEFINE e == [cursor |-> s.head[st.row] + 1, stamp |-> s.stamp[st.key]]
             h == [s.head EXCEPT ![st.row] = @ + 1]
             q == [s.at EXCEPT ![st.row] = [@ EXCEPT ![st.key] = e]]
  <2>2. e \in [cursor : Nat, stamp : Nat] /\ h \in [Channel -> Nat]
    BY <1>b, <2>1
  <2>3. q \in [Channel -> [Key -> [cursor : Nat, stamp : Nat]]]
    <3> HIDE DEF e
    <3> QED
      BY <1>b, <2>1, <2>2
  <2>4. Effect(s, st, a) = [Publish(s, st.row, st.key) EXCEPT !.writer[st.row] = a]
    BY <1>4 DEF Effect
  <2>5. Publish(s, st.row, st.key)
          = [s EXCEPT !.head[st.row] = @ + 1, !.at[st.row][st.key] = e]
    BY <1>0 DEF Publish
  <2> HIDE DEF e
  <2>6. [s EXCEPT !.head[st.row] = @ + 1, !.at[st.row][st.key] = e]
          = [writer |-> wr, stamp |-> sp, head |-> h, at |-> q]
    <3> HIDE DEF h, q
    <3>1. [s EXCEPT !.head = h, !.at = q] = [writer |-> wr, stamp |-> sp, head |-> h, at |-> q]
      <4>1. [s EXCEPT !.head = h, !.at = q] = [[s EXCEPT !.head = h] EXCEPT !.at = q]
        BY Zenon
      <4>2. PICK v : v = [s EXCEPT !.head = h]
        OBVIOUS
      <4>3. v = [writer |-> wr, stamp |-> sp, head |-> h, at |-> ps]
        BY <1>0, <4>2
      <4>4. [v EXCEPT !.at = q] = [writer |-> wr, stamp |-> sp, head |-> h, at |-> q]
        BY <4>3
      <4> QED
        BY <4>1, <4>2, <4>4
    <3> QED
      BY <3>1 DEF h, q
  <2> HIDE DEF h, q
  <2>7. Effect(s, st, a) = [writer |-> r, stamp |-> sp, head |-> h, at |-> q]
    <3>1. [[writer |-> wr, stamp |-> sp, head |-> h, at |-> q] EXCEPT !.writer[st.row] = a]
            = [writer |-> r, stamp |-> sp, head |-> h, at |-> q]
      <4>1. SetWriter(Tables(wr, sp, h, q), st.row, a)
              = Tables(SetAt(wr, st.row, a), sp, h, q)
        BY WriterSet
      <4>2. r = SetAt(wr, st.row, a)
        BY <1>b DEF r, SetAt
      <4> HIDE DEF r
      <4> QED
        BY <4>1, <4>2 DEF Tables, SetWriter
    <3>2. Effect(s, st, a) = [[writer |-> wr, stamp |-> sp, head |-> h, at |-> q] EXCEPT !.writer[st.row] = a]
      BY <2>4, <2>5, <2>6
    <3> QED
      BY <3>1, <3>2
  <2>8. Effect(s, st, a) \in Database
    BY <1>a, <2>2, <2>3, <2>7 DEF Database
  <2> QED
    BY <1>b, <1>4, <2>1, <2>7, <2>8 DEF h, q, r, e
<1> QED
  BY <1>1, <1>2, <1>3, <1>4 DEF Writes

\* Executed: what a statement changes.
LEMMA ExecutedFields ==
  ASSUME DistributionAssumption, NEW x, Shaped(x), x.todo # <<>>, Head(x.todo).op \in Writes
  PROVE  LET y == Executed(x)
             st == Head(x.todo)
             a == Change(x.work, x.unit) IN
         /\ st \in Stmt /\ Legal(x.work, x.work.units[x.unit], st) /\ a \in Writers
         /\ x.unit \in DOMAIN x.work.units
         /\ y.view = Effect(x.view, st, a) /\ Wrote(y.view, x.view, st, a)
         /\ y.own = x.own \cup {st.row} /\ st.row \in Row
         /\ y.touched = Touched(x, st) /\ y.todo = Tail(x.todo)
         /\ y.phase = "running" /\ y.work = x.work /\ y.unit = x.unit /\ y.loaded = x.loaded
         /\ y.results = x.results /\ y.kept = x.kept /\ y.refused = x.refused
         /\ y.savepoint = x.savepoint
         /\ Shaped(y)
<1> DEFINE y == Executed(x)
           st == Head(x.todo)
           a == Change(x.work, x.unit)
<1>0. x \in Running
  BY DEF Shaped
<1>1. /\ x.work \in Work /\ x.unit \in Nat \ {0} /\ x.todo \in Seq(Stmt) /\ x.view \in Database
      /\ x.own \subseteq Row /\ x.touched \subseteq Channel /\ x.phase = "running"
  BY <1>0 DEF Running
<1>2. st \in Stmt /\ Tail(x.todo) \in Seq(Stmt) /\ ToSet(x.todo) = {st} \cup ToSet(Tail(x.todo))
  BY <1>1, TailElements
<1>3. Legal(x.work, x.work.units[x.unit], st) /\ x.unit \in DOMAIN x.work.units
  BY <1>2 DEF Shaped
<1>4. a \in Writers
  BY <1>1 DEF Change, Writers
<1>5. /\ y.view = Effect(x.view, st, a) /\ y.own = x.own \cup {st.row}
      /\ y.touched = Touched(x, st) /\ y.todo = Tail(x.todo)
      /\ y.phase = x.phase /\ y.work = x.work /\ y.unit = x.unit /\ y.loaded = x.loaded
      /\ y.results = x.results /\ y.kept = x.kept /\ y.refused = x.refused
      /\ y.savepoint = x.savepoint
  BY <1>0 DEF Executed, Running
<1>w. Wrote(Effect(x.view, st, a), x.view, st, a)
  BY <1>1, <1>2, <1>3, <1>4, EffectOf
<1>6. Effect(x.view, st, a) \in Database /\ st.row \in Row
  BY <1>w DEF Wrote
<1>7. Touched(x, st) \subseteq Channel
  BY <1>1, <1>3 DEF Touched, Legal
<1>8. y \in Running
  <2> HIDE DEF st, a
  <2>1. y = [x EXCEPT !.view = Effect(x.view, st, a), !.own = x.own \cup {st.row},
                      !.touched = Touched(x, st), !.todo = Tail(x.todo)]
    BY <1>0 DEF Executed, Running, st, a
  <2> HIDE DEF y
  <2> QED
    BY <1>0, <1>1, <1>2, <1>6, <1>7, <2>1 DEF Running
<1>9. Shaped(y)
  <2>1. InOrder(y.todo)
    BY <1>1, <1>5, TailInOrder DEF Shaped
  <2> HIDE DEF y, st
  <2> QED
    BY <1>2, <1>3, <1>5, <1>8, <2>1 DEF Shaped
<1> HIDE DEF y, st, a
<1> QED
  BY <1>1, <1>2, <1>3, <1>4, <1>w, <1>5, <1>6, <1>9 DEF y, st, a

\* What a readback finds are authorities.
LEMMA AuthorityOf ==
  ASSUME DistributionAssumption, NEW s \in Database, NEW K \in SUBSET Key
  PROVE  Authority(s, K) \subseteq Authorities
<1>1. ASSUME NEW k \in K
      PROVE  [key |-> k, stamp |-> s.stamp[k], content |-> Content(s, k)] \in Authorities
  <2>1. s.stamp[k] \in Nat /\ derives[k] \subseteq Row /\ s.writer \in [Row -> Writers]
    BY DEF Database, DistributionAssumption, Row
  <2>2. Content(s, k) \in [derives[k] -> Writers]
    BY <2>1 DEF Content
  <2>3. Content(s, k) \in UNION {[derives[j] -> Writers] : j \in Key}
    BY <2>2
  <2> QED
    BY <2>1, <2>3 DEF Authorities
<1> QED
  BY <1>1 DEF Authority

\* A unit changes keys.
LEMMA ChangedKeys ==
  ASSUME NEW u \in Unit
  PROVE  Changed(u) \subseteq Key
  BY DEF Unit, Changed, ToSet

\* Loaded: what the readback changes.
LEMMA LoadedFields ==
  ASSUME DistributionAssumption, NEW x, Shaped(x), x.todo # <<>>
  PROVE  LET y == Loaded(x) IN
         /\ x.unit \in DOMAIN x.work.units
         /\ y.loaded = Authority(x.view, Changed(x.work.units[x.unit])) /\ y.todo = Tail(x.todo)
         /\ y.view = x.view /\ y.own = x.own /\ y.touched = x.touched
         /\ y.phase = "running" /\ y.work = x.work /\ y.unit = x.unit
         /\ y.results = x.results /\ y.kept = x.kept /\ y.refused = x.refused
         /\ y.savepoint = x.savepoint
         /\ Shaped(y)
<1> DEFINE y == Loaded(x)
<1>0. x \in Running /\ x.unit \in DOMAIN x.work.units
  BY DEF Shaped
<1>1. /\ x.work \in Work /\ x.todo \in Seq(Stmt) /\ x.view \in Database /\ x.phase = "running"
  BY <1>0 DEF Running
<1>2. Tail(x.todo) \in Seq(Stmt) /\ ToSet(x.todo) = {Head(x.todo)} \cup ToSet(Tail(x.todo))
  BY <1>1, TailElements
<1>3. Authority(x.view, Changed(x.work.units[x.unit])) \subseteq Authorities
  <2>1. x.work.units[x.unit] \in Unit
    BY <1>0, <1>1, Units, Element
  <2> QED
    BY <1>1, <2>1, ChangedKeys, AuthorityOf
<1>5. /\ y.loaded = Authority(x.view, Changed(x.work.units[x.unit])) /\ y.todo = Tail(x.todo)
      /\ y.view = x.view /\ y.own = x.own /\ y.touched = x.touched
      /\ y.phase = x.phase /\ y.work = x.work /\ y.unit = x.unit
      /\ y.results = x.results /\ y.kept = x.kept /\ y.refused = x.refused
      /\ y.savepoint = x.savepoint
  BY <1>0 DEF Loaded, Running
<1>6. y \in Running
  BY <1>0, <1>2, <1>3 DEF Running, Loaded
<1>7. Shaped(y)
  <2>1. InOrder(y.todo)
    BY <1>1, <1>5, TailInOrder DEF Shaped
  <2> HIDE DEF y
  <2> QED
    BY <1>2, <1>5, <1>6, <2>1 DEF Shaped
<1> HIDE DEF y
<1> QED
  BY <1>0, <1>1, <1>5, <1>7 DEF y

\* Released: the unit's savepoint is released, and the next unit begun.
LEMMA ReleasedFields ==
  ASSUME DistributionAssumption, NEW x, Shaped(x), x.unit \in DOMAIN x.work.units
  PROVE  LET y == Released(x) IN
         /\ y.results = x.loaded \cup {a \in x.results : \A b \in x.loaded : a.key # b.key}
         /\ y.kept = Append(x.kept, Change(x.work, x.unit))
         /\ y.unit = x.unit + 1 /\ y.todo = Todo(x.work, x.unit + 1) /\ y.loaded = {}
         /\ y.savepoint = [view |-> x.view, own |-> x.own, touched |-> x.touched]
         /\ y.view = x.view /\ y.own = x.own /\ y.touched = x.touched
         /\ y.phase = "running" /\ y.work = x.work /\ y.refused = x.refused
         /\ Shaped(y)
<1> DEFINE y == Released(x)
           r == x.loaded \cup {a \in x.results : \A b \in x.loaded : a.key # b.key}
           q == Append(x.kept, Change(x.work, x.unit))
           m == [view |-> x.view, own |-> x.own, touched |-> x.touched]
<1>0. x \in Running
  BY DEF Shaped
<1>1. /\ x.work \in Work /\ x.unit \in Nat \ {0} /\ x.view \in Database /\ x.own \subseteq Row
      /\ x.touched \subseteq Channel /\ x.phase = "running" /\ x.kept \in Seq(Work \X Nat)
      /\ x.loaded \subseteq Authorities /\ x.results \subseteq Authorities
  BY <1>0 DEF Running
<1>2. /\ Todo(x.work, x.unit + 1) \in Seq(Stmt) /\ InOrder(Todo(x.work, x.unit + 1))
      /\ \A st \in ToSet(Todo(x.work, x.unit + 1)) :
           Legal(x.work, x.work.units[x.unit + 1], st)
      /\ x.unit + 1 \notin DOMAIN x.work.units => Todo(x.work, x.unit + 1) = <<>>
  <2>1. x.unit \in Nat /\ x.unit + 1 \in Nat
    BY <1>1
  <2> QED
    BY <1>1, <2>1, TodoShape
<1>3. q \in Seq(Work \X Nat) /\ \A a \in ToSet(q) : a[1] = x.work /\ a[2] \in DOMAIN x.work.units
  <2>1. Change(x.work, x.unit) \in Work \X Nat
    BY <1>1 DEF Change
  <2>2. q = x.kept \o <<Change(x.work, x.unit)>>
    BY <1>1
  <2>3. ToSet(q) = ToSet(x.kept) \cup ToSet(<<Change(x.work, x.unit)>>)
    <3> DEFINE e == <<Change(x.work, x.unit)>>
               S == Work \X Nat
    <3>1. x.kept \in Seq(S) /\ e \in Seq(S)
      BY <1>1, <2>1
    <3>2. q = x.kept \o e
      BY <2>2
    <3> HIDE DEF q, e, S
    <3>3. ToSet(x.kept \o e) = ToSet(x.kept) \cup ToSet(e)
      BY <3>1, ConcatElements
    <3> QED
      BY <3>2, <3>3 DEF e
  <2>4. ToSet(<<Change(x.work, x.unit)>>) = {Change(x.work, x.unit)}
    BY DEF ToSet
  <2>5. Change(x.work, x.unit)[1] = x.work /\ Change(x.work, x.unit)[2] = x.unit
    BY DEF Change
  <2>6. q \in Seq(Work \X Nat)
    BY <1>1, <2>1
  <2> HIDE DEF q
  <2> QED
    BY <2>3, <2>4, <2>5, <2>6 DEF Shaped
<1>4. m \in Mark /\ r \subseteq Authorities
  BY <1>1 DEF Mark
<1>5. /\ y.results = r /\ y.kept = q /\ y.savepoint = m
      /\ y.unit = x.unit + 1 /\ y.todo = Todo(x.work, x.unit + 1) /\ y.loaded = {}
      /\ y.view = x.view /\ y.own = x.own /\ y.touched = x.touched
      /\ y.phase = x.phase /\ y.work = x.work /\ y.refused = x.refused
  BY <1>0 DEF Released, NextUnit, Running
<1>6. y \in Running
  <2> DEFINE z == [x EXCEPT !.results = r, !.kept = q]
  <2>1. z \in Running
    <3> HIDE DEF r, q
    <3> QED
      BY <1>0, <1>3, <1>4 DEF Running
  <2>2. z.view = x.view /\ z.own = x.own /\ z.touched = x.touched /\ z.work = x.work /\ z.unit = x.unit
    BY <1>0 DEF Running
  <2>3. y = NextUnit(z)
    BY <1>0 DEF Released, Running
  <2> HIDE DEF z, y
  <2>4. y = [z EXCEPT !.unit = x.unit + 1, !.todo = Todo(x.work, x.unit + 1), !.loaded = {}, !.savepoint = m]
    BY <2>1, <2>2, <2>3 DEF NextUnit, Running
  <2> HIDE DEF m
  <2> DEFINE n == x.unit + 1
             d == Todo(x.work, x.unit + 1)
  <2>5. n \in Nat \ {0} /\ d \in Seq(Stmt) /\ {} \in SUBSET Authorities
    BY <1>1, <1>2
  <2>6. y = [z EXCEPT !.unit = n, !.todo = d, !.loaded = {}, !.savepoint = m]
    BY <2>4
  <2> HIDE DEF n, d
  <2> QED
    BY <1>4, <2>1, <2>5, <2>6 DEF Running
<1> HIDE DEF y, r, q, m
<1>7. Shaped(y)
  BY <1>2, <1>3, <1>5, <1>6 DEF Shaped
<1> QED
  BY <1>1, <1>5, <1>7 DEF y, r, q, m

\* Refused: the unit is rolled back to its savepoint, and the next begun.
LEMMA RefusedFields ==
  ASSUME DistributionAssumption, NEW x, Shaped(x), x.unit \in DOMAIN x.work.units,
         NEW cause \in Cause
  PROVE  LET y == Refused(x, cause) IN
         /\ y.view = x.savepoint.view /\ y.own = x.savepoint.own
         /\ y.touched = x.savepoint.touched
         /\ y.unit = x.unit + 1 /\ y.todo = Todo(x.work, x.unit + 1) /\ y.loaded = {}
         /\ y.savepoint = x.savepoint
         /\ y.refused = x.refused \cup {[unit |-> x.unit, cause |-> cause]}
         /\ y.phase = "running" /\ y.work = x.work /\ y.kept = x.kept /\ y.results = x.results
         /\ Shaped(y)
<1> DEFINE y == Refused(x, cause)
           r == x.refused \cup {[unit |-> x.unit, cause |-> cause]}
           m == [view |-> x.savepoint.view, own |-> x.savepoint.own, touched |-> x.savepoint.touched]
<1>0. x \in Running
  BY DEF Shaped
<1>1. /\ x.work \in Work /\ x.unit \in Nat \ {0} /\ x.phase = "running" /\ x.savepoint \in Mark
      /\ x.refused \in SUBSET [unit : Nat, cause : Cause]
  BY <1>0 DEF Running
<1>2. /\ Todo(x.work, x.unit + 1) \in Seq(Stmt) /\ InOrder(Todo(x.work, x.unit + 1))
      /\ \A st \in ToSet(Todo(x.work, x.unit + 1)) :
           Legal(x.work, x.work.units[x.unit + 1], st)
      /\ x.unit + 1 \notin DOMAIN x.work.units => Todo(x.work, x.unit + 1) = <<>>
  <2>1. x.unit + 1 \in Nat
    BY <1>1
  <2> QED
    BY <1>1, <2>1, TodoShape
<1>3. r \in SUBSET [unit : Nat, cause : Cause]
  BY <1>1
<1>4. /\ x.savepoint.view \in Database /\ x.savepoint.own \subseteq Row
      /\ x.savepoint.touched \subseteq Channel /\ m = x.savepoint /\ m \in Mark
  BY <1>1 DEF Mark
<1>5. /\ y.view = x.savepoint.view /\ y.own = x.savepoint.own
      /\ y.touched = x.savepoint.touched
      /\ y.unit = x.unit + 1 /\ y.todo = Todo(x.work, x.unit + 1) /\ y.loaded = {}
      /\ y.savepoint = m /\ y.refused = r
      /\ y.phase = x.phase /\ y.work = x.work /\ y.kept = x.kept /\ y.results = x.results
  BY <1>0 DEF Refused, Restored, NextUnit, Running
<1>6. y \in Running
  <2> DEFINE z == [[x EXCEPT !.view = x.savepoint.view, !.own = x.savepoint.own,
                             !.touched = x.savepoint.touched] EXCEPT !.refused = r]
  <2>1. z \in Running
    <3> HIDE DEF r
    <3> QED
      BY <1>0, <1>3, <1>4 DEF Running
  <2>2. /\ z.view = x.savepoint.view /\ z.own = x.savepoint.own /\ z.touched = x.savepoint.touched
        /\ z.work = x.work /\ z.unit = x.unit
    BY <1>0 DEF Running
  <2>3. y = NextUnit(z)
    BY <1>0 DEF Refused, Restored, Running
  <2> HIDE DEF z, y
  <2>4. y = [z EXCEPT !.unit = x.unit + 1, !.todo = Todo(x.work, x.unit + 1), !.loaded = {}, !.savepoint = m]
    BY <2>1, <2>2, <2>3 DEF NextUnit, Running
  <2> HIDE DEF m
  <2> DEFINE n == x.unit + 1
             d == Todo(x.work, x.unit + 1)
  <2>5. n \in Nat \ {0} /\ d \in Seq(Stmt) /\ {} \in SUBSET Authorities
    BY <1>1, <1>2
  <2>6. y = [z EXCEPT !.unit = n, !.todo = d, !.loaded = {}, !.savepoint = m]
    BY <2>4
  <2> HIDE DEF n, d
  <2> QED
    BY <1>4, <2>1, <2>5, <2>6 DEF Running
<1> HIDE DEF y, r, m
<1>7. Shaped(y)
  BY <1>1, <1>2, <1>5, <1>6 DEF Shaped, r
<1> QED
  BY <1>1, <1>4, <1>5, <1>7 DEF y, r

\* Finitely many numbers have a bound.
LEMMA Bounded ==
  \A n \in Nat : \A f \in [1..n -> Nat] : \E m \in Nat : \A i \in 1..n : f[i] <= m
<1> DEFINE P(n) == \A f \in [1..n -> Nat] : \E m \in Nat : \A i \in 1..n : f[i] <= m
           T == {n \in Nat : P(n)}
<1>1. 0 \in T
  <2>1. 0 \in Nat /\ \A i \in 1..0 : FALSE
    BY SMT
  <2>2. ASSUME NEW f PROVE \E m \in Nat : \A i \in 1..0 : f[i] <= m
    BY <2>1, Zenon
  <2>3. P(0)
    BY <2>2
  <2> QED
    BY <2>3
<1>2. ASSUME NEW n \in Nat, n \in T PROVE n + 1 \in T
  <2> SUFFICES P(n + 1)
    <3> HIDE DEF P
    <3> QED
      OBVIOUS
  <2> SUFFICES ASSUME NEW f \in [1..(n + 1) -> Nat]
               PROVE  \E m \in Nat : \A i \in 1..(n + 1) : f[i] <= m
    BY Zenon
  <2> DEFINE g == [i \in 1..n |-> f[i]]
  <2>1. g \in [1..n -> Nat]
    OBVIOUS
  <2>2. PICK m \in Nat : \A i \in 1..n : g[i] <= m
    BY <1>2, <2>1
  <2>3. \A i \in 1..n : f[i] <= m
    BY <2>2
  <2>4. f[n + 1] \in Nat
    OBVIOUS
  <2> DEFINE b == IF m <= f[n + 1] THEN f[n + 1] ELSE m
  <2>5. b \in Nat /\ m <= b /\ f[n + 1] <= b
    BY <2>4
  <2>6. ASSUME NEW i \in 1..(n + 1) PROVE f[i] <= b
    <3>1. CASE i = n + 1
      BY <2>5, <3>1
    <3>2. CASE i \in 1..n
      <4>1. f[i] \in Nat /\ f[i] <= m
        BY <2>3, <3>2
      <4> HIDE DEF b
      <4> QED
        BY <2>5, <4>1
    <3> QED
      BY <3>1, <3>2
  <2> QED
    BY <2>5, <2>6
<1>3. \A n \in Nat : n \in T
  <2> HIDE DEF T
  <2> QED
    BY <1>1, <1>2, Induct
<1> QED
  BY <1>3

\* Where a page ends.
LEMMA PageEnds ==
  ASSUME DistributionAssumption, store \in Database, NEW c \in Channel
  PROVE  /\ IsFiniteSet(Scan(c)) /\ PageEnd(c) \in Nat
         /\ Cardinality(Scan(c)) < PullChanges => PageEnd(c) = store.head[c]
         /\ ~ (Cardinality(Scan(c)) < PullChanges) =>
              /\ \E k \in Scan(c) : PageEnd(c) = store.at[c][k].cursor
              /\ \A k \in Scan(c) : store.at[c][k].cursor <= PageEnd(c)
<1> DEFINE f == [k \in Key |-> store.at[c][k].cursor]
<1>1. /\ f \in [Key -> Nat] /\ store.head[c] \in Nat /\ Key = 1..Keys /\ Keys \in Nat
      /\ PullChanges \in Nat \ {0} /\ \A k \in Key : f[k] = store.at[c][k].cursor
  <2>1. store.at[c] \in [Key -> [cursor : Nat, stamp : Nat]] /\ store.head[c] \in Nat
    BY DEF Database
  <2> QED
    BY <2>1 DEF DistributionAssumption, Key
<1>2. Scan(c) \subseteq Key
  BY DEF Scan
<1>3. IsFiniteSet(Scan(c)) /\ Cardinality(Scan(c)) \in Nat
  <2>1. IsFiniteSet(Key)
    BY <1>1, FS_Interval
  <2>2. IsFiniteSet(Scan(c))
    BY <1>2, <2>1, FS_Subset
  <2> QED
    BY <2>2, FS_CardinalityType
<1>4. CASE Cardinality(Scan(c)) < PullChanges
  BY <1>1, <1>3, <1>4 DEF PageEnd
<1>5. CASE ~ (Cardinality(Scan(c)) < PullChanges)
  <2> DEFINE C == {store.at[c][k].cursor : k \in Scan(c)}
             Latest(n) == \A k \in Scan(c) : store.at[c][k].cursor <= n
  <2>1. Scan(c) # {}
    BY <1>1, <1>3, <1>5, FS_EmptySet
  <2>2. C \subseteq Nat /\ C # {}
    BY <1>1, <1>2, <2>1
  <2>3. PICK m \in Nat : \A k \in Key : f[k] <= m
    BY <1>1, Bounded
  <2>4. \A n \in C : n <= m
    BY <1>1, <1>2, <2>3
  <2>5. PICK n \in C : \A o \in C : o <= n
    <3> HIDE DEF C
    <3> QED
      BY <2>2, <2>4, Greatest
  <2>6. Latest(n)
    BY <2>5
  <2>7. \E o \in C : Latest(o)
    BY <2>6
  <2>8. PageEnd(c) = CHOOSE o \in C : Latest(o)
    BY <1>5 DEF PageEnd
  <2>9. PageEnd(c) \in C /\ Latest(PageEnd(c))
    <3> HIDE DEF C, Latest
    <3> QED
      BY <2>7, <2>8
  <2> QED
    BY <1>3, <1>5, <2>2, <2>9
<1> QED
  BY <1>4, <1>5

\* Merged: what a transaction owns comes from it, the rest stays.
LEMMA MergedOf ==
  ASSUME store \in Database, NEW x \in Running
  PROVE  /\ Merged(x) \in Database
         /\ \A r \in Row : Merged(x).writer[r] = IF r \in x.own THEN x.view.writer[r] ELSE store.writer[r]
         /\ \A k \in Key : Merged(x).stamp[k] = IF k \in x.own THEN x.view.stamp[k] ELSE store.stamp[k]
         /\ \A c \in Channel : /\ Merged(x).head[c] = IF c \in x.own THEN x.view.head[c] ELSE store.head[c]
                               /\ Merged(x).at[c] = IF c \in x.own THEN x.view.at[c] ELSE store.at[c]
<1>1. x.view \in Database
  BY DEF Running
<1>2. /\ store.writer \in [Row -> Writers] /\ store.stamp \in [Key -> Nat]
      /\ store.head \in [Channel -> Nat] /\ store.at \in [Channel -> [Key -> [cursor : Nat, stamp : Nat]]]
  BY DEF Database
<1>3. /\ x.view.writer \in [Row -> Writers] /\ x.view.stamp \in [Key -> Nat]
      /\ x.view.head \in [Channel -> Nat] /\ x.view.at \in [Channel -> [Key -> [cursor : Nat, stamp : Nat]]]
  BY <1>1 DEF Database
<1> DEFINE P == [Key -> [cursor : Nat, stamp : Nat]]
<1>4. store.at \in [Channel -> P] /\ x.view.at \in [Channel -> P]
  BY <1>2, <1>3
<1> HIDE DEF P
<1>5. [c \in Channel |-> IF c \in x.own THEN x.view.at[c] ELSE store.at[c]] \in [Channel -> P]
  BY <1>4
<1>6. Merged(x) \in Database
  BY <1>2, <1>3, <1>5 DEF Merged, Database, P
<1> QED
  BY <1>6 DEF Merged

\* The steps of a transaction that change nothing but it.
Local(t, y) ==
  /\ tx' = [tx EXCEPT ![t] = y]
  /\ UNCHANGED <<store, done, accepted, rejected, delivered, reader, woken>>

LocalStep(t) ==
  \/ \E w \in Work : /\ tx[t].phase = "idle" /\ w \notin done
                     /\ \A u \in Tx : tx[u].phase # "idle" => tx[u].work # w
                     /\ Local(t, Begun(w))
  \/ t \in Active /\ Local(t, Begun(tx[t].work))
  \/ t \in Active /\ Local(t, NoTx)
  \/ /\ t \in Active /\ tx[t].todo # <<>> /\ Head(tx[t].todo).op \in Writes
     /\ (\A u \in Tx : ~ Waits(t, u)) /\ ~ Outdated(t) /\ Local(t, Executed(tx[t]))
  \/ /\ t \in Active /\ tx[t].todo # <<>> /\ Head(tx[t].todo).op = "load"
     /\ Local(t, Loaded(tx[t]))
  \/ /\ t \in Active /\ tx[t].todo = <<>> /\ tx[t].unit <= Len(tx[t].work.units)
     /\ Local(t, Released(tx[t]))
  \/ /\ t \in Active /\ tx[t].todo # <<>> /\ \E cause \in Cause : Local(t, Refused(tx[t], cause))

\* A step of a transaction stays within it, commits it or announces it.
LEMMA Steps ==
  ASSUME NEW t \in Tx, Transaction(t)
  PROVE  LocalStep(t) \/ commit(t) \/ notify(t)
<1>1. CASE \E w \in Work : begin(t, w)
  BY <1>1 DEF begin, LocalStep, Local
<1>2. CASE execute(t)
  BY <1>2 DEF execute, LocalStep, Local, At, NextStatement
<1>3. CASE retry(t)
  BY <1>3 DEF retry, LocalStep, Local, Conflict, At
<1>4. CASE abort(t)
  BY <1>4 DEF abort, LocalStep, Local
<1>5. CASE load(t)
  BY <1>5 DEF load, LocalStep, Local, At, NextStatement
<1>6. CASE release(t)
  BY <1>6 DEF release, LocalStep, Local
<1>7. CASE refuse(t)
  BY <1>7 DEF refuse, LocalStep, Local, At, Cause
<1>8. CASE handler_failed(t)
  BY <1>8 DEF handler_failed, LocalStep, Local, At, Cause, Conflict
<1> QED
  BY <1>1, <1>2, <1>3, <1>4, <1>5, <1>6, <1>7, <1>8 DEF Transaction

\* What t becomes by such a step.
LEMMA LocalResult ==
  ASSUME ShapeInv, NEW t \in Tx, NEW y, Local(t, y)
  PROVE  /\ tx'[t] = y /\ \A u \in Tx : u # t => tx'[u] = tx[u]
         /\ store' = store /\ done' = done /\ accepted' = accepted /\ rejected' = rejected
         /\ delivered' = delivered /\ reader' = reader /\ woken' = woken
  BY DEF Local, ShapeInv

\* The initial state has the shape.
LEMMA InitShape == ASSUME DistributionAssumption, Init PROVE ShapeInv
<1>1. store \in Database
  <2>1. [c \in Channel |-> [k \in Key |-> [cursor |-> 0, stamp |-> 0]]]
          \in [Channel -> [Key -> [cursor : Nat, stamp : Nat]]]
    OBVIOUS
  <2>2. [r \in Row |-> Initially] \in [Row -> Writers]
    BY DEF Writers
  <2>3. [k \in Key |-> 0] \in [Key -> Nat] /\ [c \in Channel |-> 0] \in [Channel -> Nat]
    OBVIOUS
  <2> QED
    BY <2>1, <2>2, <2>3 DEF Init, Database
<1>2. Active = {}
  BY DEF Init, Active, NoTx
<1>3. tx \in [Tx -> {NoTx} \cup Committed \cup Running]
  BY DEF Init
<1>4. reader \in [cursor : [Channel -> Nat], known : [Key -> Nat]]
  BY DEF Init
<1> QED
  BY <1>1, <1>2, <1>3, <1>4 DEF Init, ShapeInv

\* Every step keeps the shape.
LEMMA NextShape == ASSUME DistributionAssumption, ShapeInv, [Next]_vars PROVE ShapeInv'
<1>0. /\ store \in Database /\ tx \in [Tx -> {NoTx} \cup Committed \cup Running]
      /\ \A t \in Active : Shaped(tx[t])
  BY DEF ShapeInv
<1>1. ASSUME NEW t \in Tx, LocalStep(t) PROVE ShapeInv'
  <2>1. ASSUME NEW y, Local(t, y), y = NoTx \/ Shaped(y) PROVE ShapeInv'
    <3>1. y \in {NoTx} \cup Running
      BY <2>1 DEF Shaped
    <3>2. tx' \in [Tx -> {NoTx} \cup Committed \cup Running]
      BY <1>0, <2>1, <3>1 DEF Local
    <3>3. \A u \in Tx : tx'[u].phase = "running" => Shaped(tx'[u])
      <4>1. CASE y = NoTx
        BY <1>0, <2>1, <4>1, LocalResult, Phases DEF NoTx
      <4>2. CASE Shaped(y)
        BY <1>0, <2>1, <4>2, LocalResult, Phases
      <4> QED
        BY <2>1, <4>1, <4>2
    <3> QED
      BY <2>1, <3>2, <3>3, LocalResult DEF ShapeInv, Active
  <2>2. t \in Active => Shaped(tx[t]) /\ tx[t] \in Running /\ tx[t].work \in Work
    BY <1>0 DEF Shaped, Running
  <2>3. ASSUME t \in Active, tx[t].todo # <<>> PROVE tx[t].unit \in DOMAIN tx[t].work.units
    BY <2>2, <2>3 DEF Shaped
  <2>4. ASSUME t \in Active, tx[t].unit <= Len(tx[t].work.units)
        PROVE  tx[t].unit \in DOMAIN tx[t].work.units
    BY <2>2, <2>4, Units DEF Running
  <2>5. CASE \E w \in Work : Local(t, Begun(w))
    BY <1>0, <2>1, <2>5, BegunFields
  <2>6. CASE t \in Active /\ Local(t, Begun(tx[t].work))
    BY <1>0, <2>1, <2>2, <2>6, BegunFields
  <2>7. CASE Local(t, NoTx)
    BY <2>1, <2>7
  <2>8. CASE /\ t \in Active /\ tx[t].todo # <<>> /\ Head(tx[t].todo).op \in Writes
             /\ Local(t, Executed(tx[t]))
    BY <2>1, <2>2, <2>8, ExecutedFields
  <2>9. CASE t \in Active /\ tx[t].todo # <<>> /\ Local(t, Loaded(tx[t]))
    BY <2>1, <2>2, <2>9, LoadedFields
  <2>10. CASE /\ t \in Active /\ tx[t].unit <= Len(tx[t].work.units)
              /\ Local(t, Released(tx[t]))
    BY <2>1, <2>2, <2>4, <2>10, ReleasedFields
  <2>11. CASE t \in Active /\ tx[t].todo # <<>> /\ \E cause \in Cause : Local(t, Refused(tx[t], cause))
    BY <2>1, <2>2, <2>3, <2>11, RefusedFields
  <2> QED
    BY <1>1, <2>5, <2>6, <2>7, <2>8, <2>9, <2>10, <2>11 DEF LocalStep
<1>2. ASSUME NEW t \in Tx, commit(t) PROVE ShapeInv'
  <2> DEFINE x == tx[t]
             y == [phase |-> "committed", work |-> x.work, touched |-> x.touched]
  <2>1. Shaped(x) /\ x \in Running /\ x.work \in Work /\ x.touched \subseteq Channel
        /\ x.kept \in Seq(Work \X Nat) /\ x.results \subseteq Authorities
        /\ x.refused \subseteq [unit : Nat, cause : Cause]
    BY <1>0, <1>2 DEF commit, Shaped, Running
  <2>2. y \in Committed /\ y.phase = "committed"
    BY <2>1 DEF Committed
  <2>3. tx' = [tx EXCEPT ![t] = y]
    BY <1>2 DEF commit
  <2>4. store' \in Database
    BY <1>0, <1>2, <2>1, MergedOf DEF commit
  <2>5. accepted' \in Seq(Work \X Nat)
    <3> DEFINE S == Work \X Nat
    <3>1. accepted \in Seq(S) /\ x.kept \in Seq(S) /\ accepted' = accepted \o x.kept
      BY <1>2, <2>1 DEF commit, ShapeInv
    <3> HIDE DEF S, x
    <3>2. accepted' \in Seq(S)
      BY <3>1
    <3> QED
      BY <3>2 DEF S
  <2>6. rejected' \subseteq [change : Work \X Nat, cause : Cause]
    <3>1. \A r \in x.refused : [change |-> Change(x.work, r.unit), cause |-> r.cause]
                                 \in [change : Work \X Nat, cause : Cause]
      BY <2>1 DEF Change
    <3> QED
      BY <1>2, <3>1 DEF commit, ShapeInv
  <2>7. delivered' \subseteq Authorities /\ done' \subseteq Work
    BY <1>2, <2>1 DEF commit, ShapeInv
  <2> HIDE DEF x, y
  <2>8. tx' \in [Tx -> {NoTx} \cup Committed \cup Running]
    BY <1>0, <2>2, <2>3
  <2>9. \A u \in Tx : tx'[u].phase = "running" => Shaped(tx'[u])
    BY <1>0, <2>2, <2>3, Phases
  <2> QED
    BY <1>2, <2>4, <2>5, <2>6, <2>7, <2>8, <2>9 DEF ShapeInv, Active, commit
<1>3. ASSUME NEW t \in Tx, notify(t) PROVE ShapeInv'
  <2>1. tx' = [tx EXCEPT ![t] = NoTx]
    BY <1>3 DEF notify
  <2>2. tx' \in [Tx -> {NoTx} \cup Committed \cup Running]
    BY <1>0, <2>1
  <2>3. \A u \in Tx : tx'[u].phase = "running" => Shaped(tx'[u])
    BY <1>0, <2>1, Phases DEF NoTx
  <2>4. woken' \in [Channel -> Nat]
    <3>1. store.head \in [Channel -> Nat] /\ woken \in [Channel -> Nat]
      BY <1>0 DEF Database, ShapeInv
    <3> QED
      BY <1>3, <3>1 DEF notify
  <2> QED
    BY <1>3, <2>2, <2>3, <2>4 DEF ShapeInv, Active, notify
<1>4. ASSUME NEW C \in SUBSET Channel, process_pull(C) PROVE ShapeInv'
  <2> DEFINE K == UNION {Scan(c) : c \in C}
  <2>1. K \subseteq Key
    BY DEF Scan
  <2>2. delivered' \subseteq Authorities
    BY <1>0, <1>4, <2>1, AuthorityOf DEF process_pull, ShapeInv
  <2>3. reader' \in [cursor : [Channel -> Nat], known : [Key -> Nat]]
    <3>1. store.stamp \in [Key -> Nat] /\ reader.cursor \in [Channel -> Nat] /\ reader.known \in [Key -> Nat]
      BY <1>0 DEF Database, ShapeInv
    <3>2. \A c \in Channel : PageEnd(c) \in Nat
      BY <1>0, PageEnds
    <3>3. [c \in Channel |-> IF c \in C THEN PageEnd(c) ELSE reader.cursor[c]] \in [Channel -> Nat]
      BY <3>1, <3>2
    <3>4. [k \in Key |-> IF k \in K THEN store.stamp[k] ELSE reader.known[k]] \in [Key -> Nat]
      BY <3>1
    <3>5. reader' = [cursor |-> [c \in Channel |-> IF c \in C THEN PageEnd(c) ELSE reader.cursor[c]],
                     known |-> [k \in Key |-> IF k \in K THEN store.stamp[k] ELSE reader.known[k]]]
      BY <1>4 DEF process_pull
    <3> HIDE DEF K
    <3> QED
      BY <3>3, <3>4, <3>5
  <2> QED
    BY <1>4, <2>2, <2>3 DEF ShapeInv, Active, process_pull
<1>5. CASE UNCHANGED vars
  BY <1>5 DEF ShapeInv, vars, Active
<1> QED
  BY <1>1, <1>2, <1>3, <1>4, <1>5, Steps DEF Next

\* Every variable of the distribution keeps its shape: each writer's
\* transaction, the tables, the stamps and the wakes (readback.rs, the drivers).
THEOREM ShapeHolds == Spec => []ShapeInv
<1>1. Init => ShapeInv
  BY InitShape, DistributionAssumption
<1>2. ShapeInv /\ [Next]_vars => ShapeInv'
  BY NextShape, DistributionAssumption
<1> QED
  BY <1>1, <1>2, PTL DEF Spec

---------------------------------------------------------------------------
(* Locks.  A row has one writer among the running transactions, and what   *)
(* it holds says who wrote it: a committed work, or the transaction that   *)
(* owns it.                                                                *)

\* What a committed row holds.
Origin(a) == a = Initially \/ \E w \in done, i \in Nat : a = Change(w, i)

\* A view v in which a transaction doing w has written the rows o.
Marked(v, o, w) ==
  /\ \A r \in o : \E i \in Nat : v.writer[r] = Change(w, i)
  /\ \A r \in Row \ o : Origin(v.writer[r])

Locked(x) ==
  /\ x.work \notin done
  /\ Marked(x.view, x.own, x.work) /\ Marked(x.savepoint.view, x.savepoint.own, x.work)
  /\ x.savepoint.own \subseteq x.own
  /\ x.own \cap Channel \subseteq x.touched
  /\ x.savepoint.own \cap Channel \subseteq x.savepoint.touched

LocksInv ==
  /\ \A r \in Row : Origin(store.writer[r])
  /\ \A t \in Active : Locked(tx[t])
  /\ \A t, u \in Active : t # u => tx[t].own \cap tx[u].own = {} /\ tx[t].work # tx[u].work

\* A change names its work, and none of them is what a row holds at first.
LEMMA Distinct ==
  \A w, v, i, j : Change(w, i) # Initially /\ (Change(w, i) = Change(v, j) => w = v)
  BY DEF Change, Initially

\* A transaction begins with no row locked.
LEMMA BegunLocked ==
  ASSUME DistributionAssumption, NEW w \in Work, store \in Database, w \notin done,
         \A r \in Row : Origin(store.writer[r])
  PROVE  Locked(Begun(w))
<1>1. Marked(store, {}, w)
  BY DEF Marked
<1>2. LET y == Begun(w) IN
        /\ y.work = w /\ y.view = store /\ y.own = {} /\ y.touched = {}
        /\ y.savepoint = [view |-> store, own |-> {}, touched |-> {}]
  BY BegunFields
<1> QED
  BY <1>1, <1>2 DEF Locked

\* A write locks its row for the transaction's work.
LEMMA ExecutedLocked ==
  ASSUME DistributionAssumption, NEW x, Shaped(x), Locked(x), x.todo # <<>>,
         Head(x.todo).op \in Writes
  PROVE  Locked(Executed(x))
<1> DEFINE y == Executed(x)
           st == Head(x.todo)
           a == Change(x.work, x.unit)
<1>1. x \in Running /\ x.view \in Database /\ x.own \subseteq Row /\ x.unit \in Nat
  BY DEF Shaped, Running
<1>2. /\ st \in Stmt /\ Legal(x.work, x.work.units[x.unit], st) /\ a \in Writers
      /\ Wrote(y.view, x.view, st, a) /\ y.own = x.own \cup {st.row}
      /\ y.touched = Touched(x, st) /\ y.work = x.work /\ y.savepoint = x.savepoint
  BY ExecutedFields
<1> HIDE DEF y, st
<1>3. /\ st.row \in Row /\ y.view.writer = [x.view.writer EXCEPT ![st.row] = a]
      /\ x.view.writer \in [Row -> Writers]
  BY <1>2 DEF Wrote
<1>4. Marked(y.view, y.own, y.work)
  BY <1>1, <1>2, <1>3 DEF Marked, Locked
<1>5. y.own \cap Channel \subseteq y.touched
  <2>1. st.row \in Channel => st.op = "publish"
    <3>1. st.op \in Writes
      BY DEF st
    <3>2. st.op # "publish" => st.row \in Source \/ st.row \in Key
      BY <1>2, <3>1 DEF Legal, Writes
    <3> QED
      BY <3>2 DEF DistributionAssumption
  <2> QED
    BY <1>2, <2>1 DEF Touched, Locked
<1> QED
  BY <1>2, <1>4, <1>5 DEF Locked, y

\* Every step keeps the locks exclusive.
LEMMA NextLocks ==
  ASSUME DistributionAssumption, ShapeInv, LocksInv, [Next]_vars
  PROVE  LocksInv'
<1>0. /\ store \in Database /\ tx \in [Tx -> {NoTx} \cup Committed \cup Running]
      /\ \A t \in Active : Shaped(tx[t]) /\ tx[t] \in Running
  BY DEF ShapeInv, Shaped
<1>1. ASSUME NEW t \in Tx, LocalStep(t) PROVE LocksInv'
  <2>1. ASSUME NEW y, Local(t, y),
               \/ y = NoTx
               \/ /\ y.phase = "running" /\ Locked(y)
                  /\ \A u \in Active : u # t => y.own \cap tx[u].own = {} /\ y.work # tx[u].work
        PROVE  LocksInv'
    <3>1. store' = store /\ done' = done /\ tx'[t] = y /\ \A u \in Tx : u # t => tx'[u] = tx[u]
      BY <2>1, LocalResult
    <3>2. \A u \in Tx : u # t => (tx'[u].phase = "running" <=> u \in Active)
      BY <3>1 DEF Active
    <3>3. \A u \in Active' : u # t => u \in Active /\ tx'[u] = tx[u]
      BY <3>1, <3>2 DEF Active
    <3>4. t \in Active' => /\ Locked(y)
                           /\ \A u \in Active : u # t => y.own \cap tx[u].own = {} /\ y.work # tx[u].work
      BY <2>1, <3>1 DEF Active, NoTx
    <3>5. \A z : Locked(z)' <=> Locked(z')
      BY <3>1 DEF Locked, Marked, Origin
    <3>6. \A u \in Active' : Locked(tx'[u])
      BY <3>1, <3>3, <3>4 DEF LocksInv
    <3>7. \A u, v \in Active' : u # v => tx'[u].own \cap tx'[v].own = {} /\ tx'[u].work # tx'[v].work
      <4> SUFFICES ASSUME NEW u \in Active', NEW v \in Active', u # v
                   PROVE  tx'[u].own \cap tx'[v].own = {} /\ tx'[u].work # tx'[v].work
        OBVIOUS
      <4>1. CASE u # t /\ v # t
        BY <3>3, <4>1 DEF LocksInv
      <4>2. CASE u = t
        BY <3>1, <3>3, <3>4, <4>2
      <4>3. CASE v = t
        BY <3>1, <3>3, <3>4, <4>3
      <4> QED
        BY <4>1, <4>2, <4>3
    <3>8. \A r \in Row : Origin(store.writer[r])'
      BY <3>1 DEF LocksInv, Origin
    <3>9. \A u \in Active' : Locked(tx[u])'
      BY <3>1, <3>6 DEF Locked, Marked, Origin
    <3> QED
      BY <3>7, <3>8, <3>9 DEF LocksInv
  <2> DEFINE x == tx[t]
  <2>2. t \in Active => /\ Shaped(x) /\ x \in Running /\ x.work \in Work /\ Locked(x) /\ x.work \notin done
                        /\ x.phase = "running"
                        /\ \A u \in Active : u # t => x.own \cap tx[u].own = {} /\ x.work # tx[u].work
    BY <1>0 DEF LocksInv, Locked, Running
  <2>3. \A u \in Active : tx[u].phase # "idle"
    BY DEF Active
  <2>4. ASSUME NEW w \in Work, tx[t].phase = "idle", w \notin done,
               \A u \in Tx : tx[u].phase # "idle" => tx[u].work # w, Local(t, Begun(w))
        PROVE  LocksInv'
    <3>1. Locked(Begun(w))
      BY <1>0, <2>4, BegunLocked DEF LocksInv
    <3>2. Begun(w).own = {} /\ Begun(w).work = w /\ Begun(w).phase = "running"
      BY <1>0, BegunFields
    <3>3. \A u \in Active : Begun(w).own \cap tx[u].own = {} /\ Begun(w).work # tx[u].work
      BY <2>3, <2>4, <3>2 DEF Active
    <3> QED
      BY <2>1, <2>4, <3>1, <3>2, <3>3
  <2>5. CASE t \in Active /\ Local(t, Begun(x.work))
    <3>1. Locked(Begun(x.work))
      BY <1>0, <2>2, <2>5, BegunLocked DEF LocksInv
    <3>2. Begun(x.work).own = {} /\ Begun(x.work).work = x.work /\ Begun(x.work).phase = "running"
      BY <1>0, <2>2, <2>5, BegunFields
    <3>3. \A u \in Active : u # t => Begun(x.work).own \cap tx[u].own = {} /\ Begun(x.work).work # tx[u].work
      BY <2>2, <2>5, <3>2
    <3> QED
      BY <2>1, <2>5, <3>1, <3>2, <3>3
  <2>6. CASE Local(t, NoTx)
    BY <2>1, <2>6
  <2>7. CASE /\ t \in Active /\ x.todo # <<>> /\ Head(x.todo).op \in Writes
             /\ (\A u \in Tx : ~ Waits(t, u)) /\ Local(t, Executed(x))
    <3> DEFINE y == Executed(x)
    <3>1. Locked(y) /\ y.own = x.own \cup {Head(x.todo).row} /\ y.work = x.work /\ y.phase = "running"
      BY <2>2, <2>7, ExecutedLocked, ExecutedFields
    <3>2. ASSUME NEW u \in Active, u # t PROVE Head(x.todo).row \notin tx[u].own
      BY <2>7, <3>2 DEF Waits, At, NextStatement, Active
    <3>3. \A u \in Active : u # t => y.own \cap tx[u].own = {} /\ y.work # tx[u].work
      BY <2>2, <2>7, <3>1, <3>2
    <3> QED
      BY <2>1, <2>7, <3>1, <3>3
  <2>8. CASE t \in Active /\ x.todo # <<>> /\ Local(t, Loaded(x))
    <3> DEFINE y == Loaded(x)
    <3>1. /\ y.view = x.view /\ y.own = x.own /\ y.touched = x.touched /\ y.work = x.work
          /\ y.savepoint = x.savepoint /\ y.phase = "running"
      BY <2>2, <2>8, LoadedFields
    <3> HIDE DEF y
    <3>2. Locked(y)
      BY <2>2, <2>8, <3>1 DEF Locked
    <3>3. \A u \in Active : u # t => y.own \cap tx[u].own = {} /\ y.work # tx[u].work
      BY <2>2, <2>8, <3>1
    <3> QED
      BY <2>1, <2>8, <3>1, <3>2, <3>3 DEF y
  <2>9. CASE t \in Active /\ x.unit <= Len(x.work.units) /\ Local(t, Released(x))
    <3> DEFINE y == Released(x)
    <3>1. x.unit \in DOMAIN x.work.units
      BY <2>2, <2>9, Units DEF Running
    <3>2. /\ y.view = x.view /\ y.own = x.own /\ y.touched = x.touched /\ y.work = x.work
          /\ y.savepoint = [view |-> x.view, own |-> x.own, touched |-> x.touched]
          /\ y.phase = "running"
      BY <2>2, <2>9, <3>1, ReleasedFields
    <3> HIDE DEF y
    <3>3. Locked(y)
      BY <2>2, <2>9, <3>2 DEF Locked
    <3>4. \A u \in Active : u # t => y.own \cap tx[u].own = {} /\ y.work # tx[u].work
      BY <2>2, <2>9, <3>2
    <3> QED
      BY <2>1, <2>9, <3>2, <3>3, <3>4 DEF y
  <2>10. ASSUME t \in Active, x.todo # <<>>, NEW cause \in Cause, Local(t, Refused(x, cause))
         PROVE  LocksInv'
    <3> DEFINE y == Refused(x, cause)
    <3>1. x.unit \in DOMAIN x.work.units
      BY <2>2, <2>10 DEF Shaped
    <3>2. /\ y.view = x.savepoint.view /\ y.own = x.savepoint.own
          /\ y.touched = x.savepoint.touched /\ y.work = x.work
          /\ y.savepoint = x.savepoint /\ y.phase = "running"
      BY <2>2, <2>10, <3>1, RefusedFields
    <3> HIDE DEF y
    <3>3. Locked(y)
      BY <2>2, <2>10, <3>2 DEF Locked
    <3>4. \A u \in Active : u # t => y.own \cap tx[u].own = {} /\ y.work # tx[u].work
      BY <2>2, <2>10, <3>2 DEF Locked
    <3> QED
      BY <2>1, <2>10, <3>2, <3>3, <3>4 DEF y
  <2> QED
    BY <1>1, <2>4, <2>5, <2>6, <2>7, <2>8, <2>9, <2>10 DEF LocalStep
<1>2. ASSUME NEW t \in Tx, commit(t) PROVE LocksInv'
  <2> DEFINE x == tx[t]
  <2>1. t \in Active /\ Shaped(x) /\ x \in Running /\ Locked(x) /\ x.own \subseteq Row
    BY <1>0, <1>2 DEF commit, LocksInv, Running
  <2>2. /\ store' = Merged(x) /\ done' = done \cup {x.work}
        /\ tx' = [tx EXCEPT ![t] = [phase |-> "committed", work |-> x.work, touched |-> x.touched]]
    BY <1>2 DEF commit
  <2>3. \A u \in Active' : u \in Active /\ u # t /\ tx'[u] = tx[u]
    BY <1>0, <2>2 DEF Active
  <2>4. \A a : Origin(a) => Origin(a)'
    BY <2>2 DEF Origin
  <2>5. \A r \in Row : Origin(store.writer[r])'
    <3> SUFFICES ASSUME NEW r \in Row PROVE Origin(store.writer[r])'
      OBVIOUS
    <3>1. CASE r \in x.own
      <4>1. PICK i \in Nat : x.view.writer[r] = Change(x.work, i)
        BY <2>1, <3>1 DEF Locked, Marked
      <4>2. store'.writer[r] = Change(x.work, i)
        BY <1>0, <2>1, <2>2, <3>1, <4>1, MergedOf
      <4> QED
        BY <2>2, <4>2 DEF Origin
    <3>2. CASE r \notin x.own
      <4>1. store'.writer[r] = store.writer[r]
        BY <1>0, <2>1, <2>2, <3>2, MergedOf
      <4>2. Origin(store.writer[r])
        BY DEF LocksInv
      <4> QED
        BY <2>2, <4>1, <4>2 DEF Origin
    <3> QED
      BY <3>1, <3>2
  <2>6. \A u \in Active' : Locked(tx[u])'
    <3> SUFFICES ASSUME NEW u \in Active' PROVE Locked(tx[u])'
      OBVIOUS
    <3>1. u \in Active /\ u # t /\ tx'[u] = tx[u] /\ Locked(tx[u]) /\ tx[u].work # x.work
      BY <2>1, <2>3 DEF LocksInv
    <3> QED
      BY <2>2, <3>1 DEF Locked, Marked, Origin
  <2> QED
    BY <2>3, <2>5, <2>6 DEF LocksInv
<1>3. ASSUME NEW t \in Tx, notify(t) PROVE LocksInv'
  <2>1. /\ tx' = [tx EXCEPT ![t] = NoTx] /\ store' = store /\ done' = done
    BY <1>3 DEF notify
  <2>2. \A u \in Active' : u \in Active /\ tx'[u] = tx[u]
    BY <1>0, <2>1 DEF Active, NoTx
  <2> QED
    BY <2>1, <2>2 DEF LocksInv, Locked, Marked, Origin
<1>4. ASSUME UNCHANGED <<store, tx, done>> PROVE LocksInv'
  BY <1>4 DEF LocksInv, Locked, Marked, Origin, Active
<1> QED
  BY <1>1, <1>2, <1>3, <1>4, Steps DEF Next, process_pull, vars

\* No row is locked at first.
LEMMA InitLocks == ASSUME DistributionAssumption, Init PROVE LocksInv
<1>1. Active = {}
  BY DEF Init, Active, NoTx
<1>2. \A r \in Row : store.writer[r] = Initially
  BY DEF Init
<1> QED
  BY <1>1, <1>2 DEF LocksInv, Origin

\* Two open transactions never hold the same row, and every row says who wrote it.
THEOREM LocksHold == Spec => []LocksInv
<1>1. Init => LocksInv
  BY InitLocks, DistributionAssumption
<1>2. ShapeInv /\ LocksInv /\ [Next]_vars => LocksInv'
  BY NextLocks, DistributionAssumption
<1> QED
  BY <1>1, <1>2, ShapeHolds, PTL DEF Spec

---------------------------------------------------------------------------
(* Wakes *)

\* Every step keeps CommitWakes.
LEMMA NextWakes ==
  ASSUME DistributionAssumption, ShapeInv, LocksInv, CommitWakes, [Next]_vars
  PROVE  CommitWakes'
<1>0. /\ store \in Database /\ tx \in [Tx -> {NoTx} \cup Committed \cup Running]
      /\ store.head \in [Channel -> Nat] /\ woken \in [Channel -> Nat]
  BY DEF ShapeInv, Database
<1>1. ASSUME NEW t \in Tx, LocalStep(t) PROVE CommitWakes'
  <2>1. tx[t].phase # "committed"
    BY <1>1 DEF LocalStep, Active
  <2>2. PICK y : Local(t, y)
    BY <1>1 DEF LocalStep
  <2>3. store' = store /\ woken' = woken /\ \A u \in Tx : u # t => tx'[u] = tx[u]
    BY <2>2, LocalResult
  <2> QED
    BY <2>1, <2>3 DEF CommitWakes
<1>2. ASSUME NEW t \in Tx, commit(t) PROVE CommitWakes'
  <2> DEFINE x == tx[t]
             y == [phase |-> "committed", work |-> x.work, touched |-> x.touched]
  <2>1. t \in Active /\ x \in Running /\ Locked(x) /\ x.phase = "running"
    BY <1>0, <1>2 DEF commit, LocksInv, ShapeInv, Shaped, Active
  <2>2. store' = Merged(x) /\ woken' = woken /\ tx' = [tx EXCEPT ![t] = y]
    BY <1>2 DEF commit
  <2>3. tx'[t].phase = "committed" /\ tx'[t].touched = x.touched /\ \A u \in Tx : u # t => tx'[u] = tx[u]
    BY <1>0, <2>2
  <2> SUFFICES ASSUME NEW c \in Channel, woken'[c] < store'.head[c]
               PROVE  \E u \in Tx : tx'[u].phase = "committed" /\ c \in tx'[u].touched
    BY DEF CommitWakes
  <2>4. CASE c \in x.own
    <3>1. c \in x.touched
      BY <2>1, <2>4 DEF Locked
    <3> QED
      BY <2>3, <3>1
  <2>5. CASE c \notin x.own
    <3>1. store'.head[c] = store.head[c]
      BY <1>0, <2>1, <2>2, <2>5, MergedOf
    <3>2. PICK u \in Tx : tx[u].phase = "committed" /\ c \in tx[u].touched
      BY <2>2, <3>1 DEF CommitWakes
    <3> QED
      BY <2>1, <2>3, <3>2
  <2> QED
    BY <2>4, <2>5
<1>3. ASSUME NEW t \in Tx, notify(t) PROVE CommitWakes'
  <2>1. /\ tx' = [tx EXCEPT ![t] = NoTx] /\ store' = store
        /\ woken' = [c \in Channel |-> IF c \in tx[t].touched THEN store.head[c] ELSE woken[c]]
    BY <1>3 DEF notify
  <2>2. \A u \in Tx : u # t => tx'[u] = tx[u]
    BY <1>0, <2>1
  <2> SUFFICES ASSUME NEW c \in Channel, woken'[c] < store'.head[c]
               PROVE  \E u \in Tx : tx'[u].phase = "committed" /\ c \in tx'[u].touched
    BY DEF CommitWakes
  <2>3. c \notin tx[t].touched /\ woken[c] < store.head[c]
    BY <1>0, <2>1
  <2>4. PICK u \in Tx : tx[u].phase = "committed" /\ c \in tx[u].touched
    BY <2>3 DEF CommitWakes
  <2> QED
    BY <2>2, <2>3, <2>4
<1>4. ASSUME UNCHANGED <<store, tx, woken>> PROVE CommitWakes'
  BY <1>4 DEF CommitWakes
<1> QED
  BY <1>1, <1>2, <1>3, <1>4, Steps DEF Next, process_pull, vars

\* A commit that published is followed by a wake, or a continuation is still
\* about to wake its channels.
THEOREM WakesFollow == Spec => []CommitWakes
<1>1. Init => CommitWakes
  BY DEF Init, CommitWakes
<1>2. ShapeInv /\ LocksInv /\ CommitWakes /\ [Next]_vars => CommitWakes'
  BY NextWakes, DistributionAssumption
<1> QED
  BY <1>1, <1>2, ShapeHolds, LocksHold, PTL DEF Spec


---------------------------------------------------------------------------
(* What stamps and positions promise: a stamp names one content            *)
(* (StampNamesContent), a subscriber misses nothing at a position it has   *)
(* passed (NothingMissed), a stamp counts the accepted changes of its      *)
(* record (StampCountsChanges), transactions do not wait for stamps in a   *)
(* cycle (NoStampDeadlock), and the database is well formed (TypeOK).  The *)
(* invariants say what a transaction's snapshot still tells about the      *)
(* committed database while others commit (Follows), that a record whose   *)
(* sources were written gets a stamp no one has seen (Declared), that the  *)
(* receipt carries what the transaction will commit (ReadBack), how far    *)
(* the unit that runs has moved each stamp (Counted), and that what a      *)
(* transaction holds comes before what it still advances (Ascending).      *)

\* A database whose positions are below the heads, with stamps that were given.
Sound(s) ==
  /\ \A c \in Channel, k \in Key : /\ s.at[c][k].cursor <= s.head[c]
                                   /\ s.at[c][k].stamp <= s.stamp[k]
  /\ \A c \in Channel : \A k, l \in Key :
        k # l /\ s.at[c][k].cursor # 0 => s.at[c][k].cursor # s.at[c][l].cursor

Current(s, v, r) == s.writer[r] = v.writer[r]

\* What the view v of a transaction that has written the rows o says of the
\* committed database: where a record was not changed since the snapshot, its
\* sources were not either; what the transaction wrote is ahead.
Follows(s, v, o) ==
  /\ \A k \in Key : k \in o \/ Current(s, v, k) => \A r \in derives[k] \ o : Current(s, v, r)
  /\ \A k \in Key \ o : /\ v.stamp[k] <= s.stamp[k]
                        /\ Current(s, v, k) => v.stamp[k] = s.stamp[k]
  /\ \A k \in Key \cap o : s.stamp[k] <= v.stamp[k]
  /\ \A c \in Channel \ o : Current(s, v, c) => v.head[c] = s.head[c] /\ v.at[c] = s.at[c]
  /\ \A c \in Channel \cap o :
        /\ s.head[c] <= v.head[c]
        /\ \A k \in Key : v.at[c][k] = s.at[c][k] \/ s.head[c] < v.at[c][k].cursor

\* A record the transaction holds at a stamp that was never committed.
Advanced(s, v, o, k) == k \in o /\ s.stamp[k] < v.stamp[k]
Pending(x, k) == \E st \in ToSet(x.todo) : st.op = "advance" /\ st.row = k
Loads(x) == \E st \in ToSet(x.todo) : st.op = "load"
Unfinished(x) == x.unit \in DOMAIN x.work.units
Now(x) == x.work.units[x.unit]

\* A record is advanced, or about to be, when its unit declares it, and so
\* when one of its sources was written.
Declared(s, x) ==
  /\ Unfinished(x) => \A k \in Changed(Now(x)) : Pending(x, k) \/ Advanced(s, x.view, x.own, k)
  /\ \A k \in Key : derives[k] \cap x.own # {} => Pending(x, k) \/ Advanced(s, x.view, x.own, k)
  /\ \A k \in Key : derives[k] \cap x.savepoint.own # {} =>
       Advanced(s, x.savepoint.view, x.savepoint.own, k)

\* What the unit that runs changed since its savepoint.
Since(x) ==
  /\ Unfinished(x) =>
       /\ \A r \in Source : x.view.writer[r] # x.savepoint.view.writer[r] => r \in ToSet(Now(x).writes)
       /\ \A k \in Key : x.view.stamp[k] # x.savepoint.view.stamp[k] =>
             k \in Changed(Now(x)) \/ x.savepoint.view.stamp[k] = 0
  /\ ~ Unfinished(x) => x.view = x.savepoint.view /\ x.own = x.savepoint.own

\* What was read back, for this unit and in the receipt so far.
ReadBack(s, x) ==
  /\ x.work.push /\ Unfinished(x) =>
       \/ Loads(x)
       \/ /\ \A st \in ToSet(x.todo) : st.op \in {"ensure", "publish"}
          /\ x.loaded = Authority(x.view, Changed(Now(x)))
  /\ ~ x.work.push => x.loaded = {} /\ x.results = {}
  /\ \A a \in x.results : /\ Advanced(s, x.savepoint.view, x.savepoint.own, a.key)
                          /\ a.stamp = x.savepoint.view.stamp[a.key]
                          /\ a.content = Content(x.savepoint.view, a.key)

Consistent(s, x) ==
  /\ Sound(x.view) /\ Sound(x.savepoint.view)
  /\ Follows(s, x.view, x.own) /\ Follows(s, x.savepoint.view, x.savepoint.own)
  /\ Declared(s, x) /\ Since(x) /\ ReadBack(s, x)

\* The authorities D are what the database s holds or held.
Named(s, D) ==
  /\ \A d \in D : d.stamp <= s.stamp[d.key]
  /\ \A d, e \in D : d.key = e.key /\ d.stamp = e.stamp => d.content = e.content
  /\ \A d \in D : d.stamp = s.stamp[d.key] => d.content = Content(s, d.key)

StampsInv ==
  /\ Sound(store)
  /\ \A t \in Active : Consistent(store, tx[t])
  /\ Named(store, delivered)

Reached ==
  /\ \A c \in Channel : reader.cursor[c] <= store.head[c]
  /\ NothingMissed

---------------------------------------------------------------------------
(* One statement *)

\* How the database d that a statement leaves differs from s, row by row.
Differs(d, s, st) ==
  /\ st.row \in Row /\ st.op \in Writes
  /\ \A r \in Row : r # st.row => d.writer[r] = s.writer[r]
  /\ st.row \in Source <=> st.op = "write"
  /\ st.row \in Key <=> st.op \in {"advance", "ensure"}
  /\ st.row \in Channel <=> st.op = "publish"
  /\ \A k \in Key : k # st.row => d.stamp[k] = s.stamp[k]
  /\ st.op = "advance" => d.stamp[st.row] = s.stamp[st.row] + 1
  /\ st.op = "ensure" => d.stamp[st.row] = IF s.stamp[st.row] = 0 THEN 1 ELSE s.stamp[st.row]
  /\ \A c \in Channel : c # st.row => d.head[c] = s.head[c] /\ d.at[c] = s.at[c]
  /\ st.op = "publish" =>
       /\ st.key \in Key
       /\ d.head[st.row] = s.head[st.row] + 1
       /\ \A k \in Key : k # st.key => d.at[st.row][k] = s.at[st.row][k]
       /\ d.at[st.row][st.key] = [cursor |-> s.head[st.row] + 1, stamp |-> s.stamp[st.key]]

\* A write changes nothing but the row of its statement.
LEMMA ExecutedDiffers ==
  ASSUME DistributionAssumption, NEW x, Shaped(x), x.todo # <<>>, Head(x.todo).op \in Writes
  PROVE  Differs(Executed(x).view, x.view, Head(x.todo))
<1> DEFINE st == Head(x.todo)
           d == Executed(x).view
           s == x.view
           a == Change(x.work, x.unit)
           u == x.work.units[x.unit]
<1>1. /\ st \in Stmt /\ Legal(x.work, u, st) /\ a \in Writers /\ Wrote(d, s, st, a)
      /\ st.row \in Row
  BY ExecutedFields
<1>2. s \in Database /\ st.op \in Writes
  BY DEF Shaped, Running
<1>3. /\ s.writer \in [Row -> Writers] /\ s.stamp \in [Key -> Nat] /\ s.head \in [Channel -> Nat]
      /\ s.at \in [Channel -> [Key -> [cursor : Nat, stamp : Nat]]]
  BY <1>2 DEF Database
<1> HIDE DEF st, d, s, a, u
<1>4. /\ st.row \in Source <=> st.op = "write"
      /\ st.row \in Key <=> st.op \in {"advance", "ensure"}
      /\ st.row \in Channel <=> st.op = "publish"
      /\ st.op = "publish" => st.key \in Key
  BY <1>1, <1>2 DEF Legal, DistributionAssumption, Writes
<1>5. \A r \in Row : r # st.row => d.writer[r] = s.writer[r]
  BY <1>1, <1>3 DEF Wrote
<1>6. /\ \A k \in Key : k # st.row => d.stamp[k] = s.stamp[k]
      /\ st.op = "advance" => d.stamp[st.row] = s.stamp[st.row] + 1
      /\ st.op = "ensure" => d.stamp[st.row] = IF s.stamp[st.row] = 0 THEN 1 ELSE s.stamp[st.row]
  BY <1>1, <1>2, <1>3, <1>4 DEF Wrote, Writes
<1>7. \A c \in Channel : c # st.row => d.head[c] = s.head[c] /\ d.at[c] = s.at[c]
  BY <1>1, <1>3 DEF Wrote
<1>8. ASSUME st.op = "publish"
      PROVE  /\ d.head[st.row] = s.head[st.row] + 1
             /\ \A k \in Key : k # st.key => d.at[st.row][k] = s.at[st.row][k]
             /\ d.at[st.row][st.key] = [cursor |-> s.head[st.row] + 1, stamp |-> s.stamp[st.key]]
  <2>1. st.row \in Channel /\ st.key \in Key
    BY <1>4, <1>8
  <2>2. d.head[st.row] = s.head[st.row] + 1
    BY <1>1, <1>3, <1>8, <2>1 DEF Wrote
  <2>3. d.at[st.row] = [s.at[st.row] EXCEPT ![st.key] = [cursor |-> s.head[st.row] + 1,
                                                         stamp |-> s.stamp[st.key]]]
    BY <1>1, <1>3, <1>8, <2>1 DEF Wrote
  <2>4. s.at[st.row] \in [Key -> [cursor : Nat, stamp : Nat]]
    BY <1>3, <2>1
  <2> QED
    BY <2>1, <2>2, <2>3, <2>4
<1>9. Differs(d, s, st)
  BY <1>1, <1>2, <1>4, <1>5, <1>6, <1>7, <1>8 DEF Differs
<1> QED
  BY <1>9 DEF st, d, s

\* The numbers of a database.
LEMMA Numbers ==
  ASSUME NEW s \in Database
  PROVE  /\ \A k \in Key : s.stamp[k] \in Nat
         /\ \A c \in Channel : s.head[c] \in Nat
         /\ \A c \in Channel, k \in Key : s.at[c][k].cursor \in Nat /\ s.at[c][k].stamp \in Nat
  BY DEF Database

\* A write keeps the view sound.
LEMMA ExecutedSound ==
  ASSUME DistributionAssumption, NEW x, Shaped(x), x.todo # <<>>, Head(x.todo).op \in Writes,
         Sound(x.view)
  PROVE  Sound(Executed(x).view)
<1> DEFINE st == Head(x.todo)
           d == Executed(x).view
           s == x.view
<1>1. Differs(d, s, st)
  BY ExecutedDiffers
<1>2. s \in Database /\ d \in Database
  BY ExecutedFields DEF Shaped, Running
<1>3. Sound(s)
  OBVIOUS
<1> HIDE DEF st, d, s
<1>4. /\ \A k \in Key : s.stamp[k] \in Nat /\ d.stamp[k] \in Nat
      /\ \A c \in Channel : s.head[c] \in Nat /\ d.head[c] \in Nat
      /\ \A c \in Channel, k \in Key : /\ s.at[c][k].cursor \in Nat /\ s.at[c][k].stamp \in Nat
                                       /\ d.at[c][k].cursor \in Nat /\ d.at[c][k].stamp \in Nat
  BY <1>2, Numbers
<1>5. \A k \in Key : s.stamp[k] <= d.stamp[k]
  BY <1>1, <1>4 DEF Differs, Writes
<1>6. ASSUME NEW c \in Channel, c # st.row
      PROVE  /\ \A k \in Key : d.at[c][k].cursor <= d.head[c] /\ d.at[c][k].stamp <= d.stamp[k]
             /\ \A k, l \in Key : k # l /\ d.at[c][k].cursor # 0 => d.at[c][k].cursor # d.at[c][l].cursor
  <2>1. d.head[c] = s.head[c] /\ d.at[c] = s.at[c]
    BY <1>1, <1>6 DEF Differs
  <2>2. \A k \in Key : s.at[c][k].cursor <= s.head[c] /\ s.at[c][k].stamp <= s.stamp[k]
    BY <1>3 DEF Sound
  <2> QED
    BY <1>3, <1>4, <1>5, <2>1, <2>2 DEF Sound
<1>7. ASSUME NEW c \in Channel, c = st.row
      PROVE  /\ \A k \in Key : d.at[c][k].cursor <= d.head[c] /\ d.at[c][k].stamp <= d.stamp[k]
             /\ \A k, l \in Key : k # l /\ d.at[c][k].cursor # 0 => d.at[c][k].cursor # d.at[c][l].cursor
  <2>1. st.op = "publish"
    BY <1>1, <1>7 DEF Differs
  <2>2. /\ st.key \in Key /\ d.head[c] = s.head[c] + 1
        /\ \A k \in Key : k # st.key => d.at[c][k] = s.at[c][k]
        /\ d.at[c][st.key].cursor = s.head[c] + 1 /\ d.at[c][st.key].stamp = s.stamp[st.key]
    BY <1>1, <1>7, <2>1 DEF Differs
  <2>3. \A k \in Key : s.at[c][k].cursor <= s.head[c] /\ s.at[c][k].stamp <= s.stamp[k]
    BY <1>3 DEF Sound
  <2>4. \A k, l \in Key : k # l /\ s.at[c][k].cursor # 0 => s.at[c][k].cursor # s.at[c][l].cursor
    BY <1>3 DEF Sound
  <2>5. \A k \in Key : d.at[c][k].cursor <= d.head[c] /\ d.at[c][k].stamp <= d.stamp[k]
    <3> SUFFICES ASSUME NEW k \in Key
                 PROVE  d.at[c][k].cursor <= d.head[c] /\ d.at[c][k].stamp <= d.stamp[k]
      OBVIOUS
    <3>1. s.stamp[k] <= d.stamp[k]
      BY <1>5
    <3>2. CASE k = st.key
      BY <1>4, <2>2, <3>1, <3>2
    <3>3. CASE k # st.key
      <4>1. d.at[c][k] = s.at[c][k] /\ d.head[c] = s.head[c] + 1
        BY <2>2, <3>3
      <4>2. s.at[c][k].cursor <= s.head[c] /\ s.at[c][k].stamp <= s.stamp[k]
        BY <2>3
      <4> QED
        BY <1>4, <3>1, <4>1, <4>2
    <3> QED
      BY <3>2, <3>3
  <2>6. \A k \in Key : k # st.key => d.at[c][k].cursor < d.at[c][st.key].cursor
    BY <1>4, <2>2, <2>3
  <2>7. ASSUME NEW k \in Key, NEW l \in Key, k # l, d.at[c][k].cursor # 0
        PROVE  d.at[c][k].cursor # d.at[c][l].cursor
    <3>1. CASE k = st.key
      BY <1>4, <2>6, <2>7, <3>1
    <3>2. CASE l = st.key
      BY <1>4, <2>6, <2>7, <3>2
    <3>3. CASE k # st.key /\ l # st.key
      BY <2>2, <2>4, <2>7, <3>3
    <3> QED
      BY <3>1, <3>2, <3>3
  <2> QED
    BY <2>5, <2>7
<1>8. Sound(d)
  BY <1>6, <1>7 DEF Sound
<1> QED
  BY <1>8 DEF d

\* A statement that is not outdated writes a row no one changed since the snapshot.
LEMMA ExecutedFollows ==
  ASSUME DistributionAssumption, store \in Database, NEW x, Shaped(x), x.todo # <<>>,
         Head(x.todo).op \in Writes, Sound(x.view), Follows(store, x.view, x.own),
         Head(x.todo).row \in x.own \/ Current(store, x.view, Head(x.todo).row)
  PROVE  Follows(store, Executed(x).view, Executed(x).own)
<1> DEFINE st == Head(x.todo)
           d == Executed(x).view
           s == x.view
           o == x.own
           r0 == st.row
<1>1. Differs(d, s, st)
  BY ExecutedDiffers
<1>2. s \in Database /\ d \in Database /\ Executed(x).own = o \cup {r0} /\ o \subseteq Row
  BY ExecutedFields DEF Shaped, Running
<1>3. Sound(s) /\ Follows(store, s, o) /\ (r0 \in o \/ Current(store, s, r0))
  OBVIOUS
<1> HIDE DEF st, d, s, o
<1>4. /\ \A k \in Key : s.stamp[k] \in Nat /\ d.stamp[k] \in Nat /\ store.stamp[k] \in Nat
      /\ \A c \in Channel : s.head[c] \in Nat /\ d.head[c] \in Nat /\ store.head[c] \in Nat
      /\ \A c \in Channel, k \in Key : s.at[c][k].cursor \in Nat /\ d.at[c][k].cursor \in Nat
                                       /\ store.at[c][k].cursor \in Nat
  BY <1>2, Numbers
<1>5. \A r \in Row : r # r0 => (Current(store, d, r) <=> Current(store, s, r))
  BY <1>1 DEF Differs, Current
<1>6. \A k \in Key : k \in o \cup {r0} \/ Current(store, d, k) => \A r \in derives[k] \ (o \cup {r0}) : Current(store, d, r)
  <2> SUFFICES ASSUME NEW k \in Key, k \in o \cup {r0} \/ Current(store, d, k), NEW r \in derives[k] \ (o \cup {r0})
               PROVE  Current(store, d, r)
    OBVIOUS
  <2>1. r \in Row /\ k \in Row
    BY DEF DistributionAssumption, Row
  <2>2. k \in o \/ Current(store, s, k)
    BY <1>3, <1>5, <2>1
  <2>3. Current(store, s, r)
    BY <1>3, <2>2 DEF Follows
  <2> QED
    BY <1>5, <2>1, <2>3
<1>7. \A k \in Key \ (o \cup {r0}) : /\ d.stamp[k] <= store.stamp[k]
                                     /\ Current(store, d, k) => d.stamp[k] = store.stamp[k]
  <2> SUFFICES ASSUME NEW k \in Key \ (o \cup {r0})
               PROVE  d.stamp[k] <= store.stamp[k] /\ (Current(store, d, k) => d.stamp[k] = store.stamp[k])
    OBVIOUS
  <2>1. d.stamp[k] = s.stamp[k] /\ (Current(store, d, k) <=> Current(store, s, k))
    BY <1>1, <1>5 DEF Differs, Row
  <2> QED
    BY <1>3, <2>1 DEF Follows
<1>8. \A k \in Key \cap (o \cup {r0}) : store.stamp[k] <= d.stamp[k]
  <2> SUFFICES ASSUME NEW k \in Key \cap (o \cup {r0}) PROVE store.stamp[k] <= d.stamp[k]
    OBVIOUS
  <2>1. store.stamp[k] <= s.stamp[k]
    BY <1>3, <1>4 DEF Follows
  <2>2. s.stamp[k] <= d.stamp[k]
    BY <1>1, <1>4 DEF Differs
  <2> QED
    BY <1>4, <2>1, <2>2
<1>9. \A c \in Channel \ (o \cup {r0}) : Current(store, d, c) => d.head[c] = store.head[c] /\ d.at[c] = store.at[c]
  <2> SUFFICES ASSUME NEW c \in Channel \ (o \cup {r0}), Current(store, d, c)
               PROVE  d.head[c] = store.head[c] /\ d.at[c] = store.at[c]
    OBVIOUS
  <2>1. d.head[c] = s.head[c] /\ d.at[c] = s.at[c] /\ Current(store, s, c)
    BY <1>1, <1>5 DEF Differs, Row
  <2> QED
    BY <1>3, <2>1 DEF Follows
<1>10. \A c \in Channel \cap (o \cup {r0}) :
         /\ store.head[c] <= d.head[c]
         /\ \A k \in Key : d.at[c][k] = store.at[c][k] \/ store.head[c] < d.at[c][k].cursor
  <2> SUFFICES ASSUME NEW c \in Channel \cap (o \cup {r0})
               PROVE  /\ store.head[c] <= d.head[c]
                      /\ \A k \in Key : d.at[c][k] = store.at[c][k] \/ store.head[c] < d.at[c][k].cursor
    OBVIOUS
  <2>1. /\ store.head[c] <= s.head[c]
        /\ \A k \in Key : s.at[c][k] = store.at[c][k] \/ store.head[c] < s.at[c][k].cursor
    <3>1. CASE c \in o
      BY <1>3, <3>1 DEF Follows
    <3>2. CASE c \notin o
      <4>1. s.head[c] = store.head[c] /\ s.at[c] = store.at[c]
        BY <1>3, <3>2 DEF Follows
      <4> QED
        BY <1>4, <4>1
    <3> QED
      BY <3>1, <3>2
  <2>2. CASE c # r0
    <3>1. d.head[c] = s.head[c] /\ d.at[c] = s.at[c]
      BY <1>1, <2>2 DEF Differs
    <3> QED
      BY <2>1, <3>1
  <2>3. CASE c = r0
    <3>1. /\ st.key \in Key /\ d.head[c] = s.head[c] + 1
          /\ \A k \in Key : k # st.key => d.at[c][k] = s.at[c][k]
          /\ d.at[c][st.key].cursor = s.head[c] + 1
      BY <1>1, <2>3 DEF Differs
    <3>2. store.head[c] < d.at[c][st.key].cursor /\ store.head[c] <= d.head[c]
      BY <1>4, <2>1, <3>1
    <3> QED
      BY <2>1, <3>1, <3>2
  <2> QED
    BY <2>2, <2>3
<1>11. Follows(store, d, o \cup {r0})
  <2> HIDE DEF r0
  <2> QED
    BY <1>6, <1>7, <1>8, <1>9, <1>10 DEF Follows
<1> QED
  BY <1>2, <1>11 DEF d

\* The unit a transaction is at declares every record whose sources it writes.
LEMMA UnitOfWork ==
  ASSUME DistributionAssumption, NEW x, Shaped(x), Unfinished(x)
  PROVE  /\ x.work \in Work /\ Now(x) \in Unit /\ Changed(Now(x)) \subseteq Key
         /\ \A k \in Key : derives[k] \cap ToSet(Now(x).writes) # {} => k \in Changed(Now(x))
<1>1. x.work \in Work
  BY DEF Shaped, Running
<1>2. x.work.units \in Seq(Unit) /\ x.unit \in DOMAIN x.work.units
  BY <1>1, Units DEF Unfinished
<1>3. Now(x) \in Unit
  BY <1>2, Element DEF Now
<1>4. Changed(Now(x)) \subseteq Key
  BY <1>3, ChangedKeys
<1> QED
  BY <1>1, <1>2, <1>3, <1>4 DEF DistributionAssumption, Now, Changed

\* The same content: sources are written by nothing but writes.
LEMMA SameContent ==
  ASSUME DistributionAssumption, NEW v, NEW s, NEW k \in Key,
         \A r \in derives[k] : v.writer[r] = s.writer[r]
  PROVE  Content(v, k) = Content(s, k)
  BY DEF Content

\* A write keeps what is declared, with its row locked or current.
LEMMA ExecutedDeclared ==
  ASSUME DistributionAssumption, store \in Database, NEW x, Shaped(x), x.todo # <<>>,
         Head(x.todo).op \in Writes, Follows(store, x.view, x.own), Declared(store, x),
         Head(x.todo).row \in x.own \/ Current(store, x.view, Head(x.todo).row)
  PROVE  Declared(store, Executed(x))
<1> DEFINE st == Head(x.todo)
           y == Executed(x)
<1>1. Differs(y.view, x.view, st)
  BY ExecutedDiffers
<1>2. /\ Legal(x.work, Now(x), st) /\ Unfinished(x)
      /\ y.own = x.own \cup {st.row} /\ y.todo = Tail(x.todo)
      /\ y.work = x.work /\ y.unit = x.unit /\ y.savepoint = x.savepoint
      /\ x.view \in Database /\ y.view \in Database /\ x.todo \in Seq(Stmt)
  BY ExecutedFields DEF Shaped, Running, Now, Unfinished
<1>3. ToSet(x.todo) = {st} \cup ToSet(y.todo)
  BY <1>2, TailElements
<1>4. /\ Now(x) \in Unit /\ Changed(Now(x)) \subseteq Key
      /\ \A k \in Key : derives[k] \cap ToSet(Now(x).writes) # {} => k \in Changed(Now(x))
  BY <1>2, UnitOfWork
<1> HIDE DEF st, y
<1>5. \A k \in Key : x.view.stamp[k] \in Nat /\ y.view.stamp[k] \in Nat /\ store.stamp[k] \in Nat
  BY <1>2, Numbers
<1>6. ASSUME NEW k \in Key, Pending(x, k) \/ Advanced(store, x.view, x.own, k)
      PROVE  Pending(y, k) \/ Advanced(store, y.view, y.own, k)
  <2>1. CASE Advanced(store, x.view, x.own, k)
    <3>1. x.view.stamp[k] <= y.view.stamp[k]
      BY <1>1, <1>5 DEF Differs
    <3> QED
      BY <1>2, <1>5, <2>1, <3>1 DEF Advanced
  <2>2. CASE Pending(x, k) /\ ~ (st.op = "advance" /\ st.row = k)
    BY <1>3, <2>2 DEF Pending
  <2>3. CASE st.op = "advance" /\ st.row = k
    <3>1. y.view.stamp[k] = x.view.stamp[k] + 1 /\ k \in y.own
      BY <1>1, <1>2, <2>3 DEF Differs
    <3>2. store.stamp[k] <= x.view.stamp[k]
      BY <1>5, <2>3 DEF Follows, st
    <3> QED
      BY <1>5, <3>1, <3>2 DEF Advanced
  <2> QED
    BY <1>6, <2>1, <2>2, <2>3
<1>7. ASSUME NEW k \in Key, derives[k] \cap y.own # {}
      PROVE  Pending(y, k) \/ Advanced(store, y.view, y.own, k)
  <2>1. CASE derives[k] \cap x.own # {}
    BY <1>6, <2>1 DEF Declared
  <2>2. CASE st.row \in derives[k]
    <3>1. st.row \in Source
      BY <2>2 DEF DistributionAssumption
    <3>2. st.op = "write"
      BY <1>1, <3>1 DEF Differs
    <3>3. st.row \in ToSet(Now(x).writes)
      BY <1>2, <3>2 DEF Legal
    <3>4. k \in Changed(Now(x))
      BY <1>4, <2>2, <3>3
    <3> QED
      BY <1>2, <1>6, <3>4 DEF Declared
  <2> QED
    BY <1>2, <1>7, <2>1, <2>2
<1>8. Now(y) = Now(x)
  BY <1>2 DEF Now
<1>9. \A k \in Changed(Now(y)) : Pending(y, k) \/ Advanced(store, y.view, y.own, k)
  BY <1>2, <1>4, <1>6, <1>8 DEF Declared
<1>10. Declared(store, y)
  BY <1>2, <1>7, <1>9 DEF Declared
<1> QED
  BY <1>10 DEF y

\* A write changes what its unit declares.
LEMMA ExecutedSince ==
  ASSUME DistributionAssumption, NEW x, Shaped(x), x.todo # <<>>, Head(x.todo).op \in Writes,
         Since(x)
  PROVE  Since(Executed(x))
<1> DEFINE st == Head(x.todo)
           y == Executed(x)
           b == x.savepoint.view
<1>1. Differs(y.view, x.view, st)
  BY ExecutedDiffers
<1>2. /\ Legal(x.work, Now(x), st) /\ Unfinished(x)
      /\ y.work = x.work /\ y.unit = x.unit /\ y.savepoint = x.savepoint
  BY ExecutedFields DEF Now, Unfinished
<1>3. Now(y) = Now(x) /\ Unfinished(y)
  BY <1>2 DEF Now, Unfinished
<1>4. /\ \A r \in Source : x.view.writer[r] # b.writer[r] => r \in ToSet(Now(x).writes)
      /\ \A k \in Key : x.view.stamp[k] # b.stamp[k] => k \in Changed(Now(x)) \/ b.stamp[k] = 0
  BY <1>2 DEF Since
<1> HIDE DEF st, y, b
<1>5. ASSUME NEW r \in Source, y.view.writer[r] # b.writer[r] PROVE r \in ToSet(Now(y).writes)
  <2>1. CASE r = st.row
    <3>1. st.op = "write"
      BY <1>1, <2>1 DEF Differs
    <3> QED
      BY <1>2, <1>3, <2>1, <3>1 DEF Legal
  <2>2. CASE r # st.row
    <3>1. y.view.writer[r] = x.view.writer[r]
      BY <1>1, <2>2 DEF Differs, Row
    <3> QED
      BY <1>3, <1>4, <1>5, <3>1
  <2> QED
    BY <2>1, <2>2
<1>6. ASSUME NEW k \in Key, y.view.stamp[k] # b.stamp[k]
      PROVE  k \in Changed(Now(y)) \/ b.stamp[k] = 0
  <2>1. CASE y.view.stamp[k] = x.view.stamp[k]
    BY <1>3, <1>4, <1>6, <2>1
  <2>2. CASE y.view.stamp[k] # x.view.stamp[k]
    <3>1. k = st.row /\ st.op \in {"advance", "ensure"}
      BY <1>1, <2>2 DEF Differs
    <3>2. CASE st.op = "advance"
      BY <1>2, <1>3, <3>1, <3>2 DEF Legal
    <3>3. CASE st.op = "ensure"
      <4>1. x.view.stamp[k] = 0
        BY <1>1, <2>2, <3>1, <3>3 DEF Differs
      <4> QED
        BY <1>3, <1>4, <4>1
    <3> QED
      BY <3>1, <3>2, <3>3
  <2> QED
    BY <2>1, <2>2
<1>7. Since(y)
  BY <1>2, <1>3, <1>5, <1>6 DEF Since, b
<1> QED
  BY <1>7 DEF y

\* A write leaves what was read back, or has it read back later.
LEMMA ExecutedReadBack ==
  ASSUME DistributionAssumption, NEW x, Shaped(x), x.todo # <<>>, Head(x.todo).op \in Writes,
         ReadBack(store, x)
  PROVE  ReadBack(store, Executed(x))
<1> DEFINE st == Head(x.todo)
           y == Executed(x)
           K == Changed(Now(x))
<1>1. Differs(y.view, x.view, st)
  BY ExecutedDiffers
<1>2. /\ Legal(x.work, Now(x), st) /\ Unfinished(x) /\ y.todo = Tail(x.todo)
      /\ y.work = x.work /\ y.unit = x.unit /\ y.savepoint = x.savepoint
      /\ y.loaded = x.loaded /\ y.results = x.results /\ x.todo \in Seq(Stmt)
  BY ExecutedFields DEF Shaped, Running, Now, Unfinished
<1>3. Now(y) = Now(x) /\ Unfinished(y)
  BY <1>2 DEF Now, Unfinished
<1>4. ToSet(x.todo) = {st} \cup ToSet(y.todo)
  BY <1>2, TailElements
<1>5. K \subseteq Key
  BY <1>2, UnitOfWork
<1> HIDE DEF st, y
<1>6. ASSUME y.work.push, ~ Loads(y)
      PROVE  /\ \A s \in ToSet(y.todo) : s.op \in {"ensure", "publish"}
             /\ y.loaded = Authority(y.view, Changed(Now(y)))
  <2>1. st.op # "load"
    BY <1>1 DEF Differs, Writes
  <2>2. ~ Loads(x)
    BY <1>4, <1>6, <2>1 DEF Loads
  <2>3. /\ \A s \in ToSet(x.todo) : s.op \in {"ensure", "publish"}
        /\ x.loaded = Authority(x.view, K)
    BY <1>2, <1>6, <2>2 DEF ReadBack
  <2>4. ASSUME NEW k \in K
        PROVE  x.view.stamp[k] = y.view.stamp[k] /\ Content(x.view, k) = Content(y.view, k)
    <3>1. st.op \in {"ensure", "publish"}
      BY <1>4, <2>3
    <3>2. st.row # k
      BY <1>1, <1>2, <1>5, <2>4, <3>1 DEF Legal, Differs
    <3>3. st.row \notin Source
      BY <1>1, <3>1 DEF Differs
    <3>4. \A r \in derives[k] : r \in Source /\ r \in Row
      BY <1>5, <2>4 DEF DistributionAssumption, Row
    <3>5. \A r \in derives[k] : x.view.writer[r] = y.view.writer[r]
      BY <1>1, <3>3, <3>4 DEF Differs
    <3> QED
      BY <1>1, <1>5, <2>4, <3>2, <3>5, SameContent DEF Differs
  <2>5. Authority(x.view, K) = Authority(y.view, K)
    <3> HIDE DEF K
    <3> QED
      BY <2>4 DEF Authority
  <2> QED
    BY <1>2, <1>3, <1>4, <2>3, <2>5
<1>7. ReadBack(store, y)
  BY <1>2, <1>3, <1>6 DEF ReadBack
<1> QED
  BY <1>7 DEF y

\* A write keeps its transaction consistent.
LEMMA ExecutedConsistent ==
  ASSUME DistributionAssumption, store \in Database, NEW x, Shaped(x), x.todo # <<>>,
         Head(x.todo).op \in Writes, Consistent(store, x),
         Head(x.todo).row \in x.own \/ Current(store, x.view, Head(x.todo).row)
  PROVE  Consistent(store, Executed(x))
<1>1. /\ Sound(x.view) /\ Sound(x.savepoint.view) /\ Follows(store, x.view, x.own)
      /\ Follows(store, x.savepoint.view, x.savepoint.own) /\ Declared(store, x) /\ Since(x) /\ ReadBack(store, x)
  BY DEF Consistent
<1>2. Executed(x).savepoint = x.savepoint
  BY ExecutedFields
<1>3. Sound(Executed(x).view)
  BY <1>1, ExecutedSound
<1>4. Follows(store, Executed(x).view, Executed(x).own)
  BY <1>1, ExecutedFollows
<1>5. Declared(store, Executed(x)) /\ Since(Executed(x)) /\ ReadBack(store, Executed(x))
  BY <1>1, ExecutedDeclared, ExecutedSince, ExecutedReadBack
<1> QED
  BY <1>1, <1>2, <1>3, <1>4, <1>5 DEF Consistent

---------------------------------------------------------------------------
(* Beginning, reading back, and the end of a unit *)

\* The statements of a unit cover what it declares.
LEMMA TodoBegins ==
  ASSUME DistributionAssumption, NEW w \in Work, NEW i \in DOMAIN w.units
  PROVE  Covers(Todo(w, i), w, w.units[i])
<1>1. Todo(w, i) = Script(w, i)
  BY DEF Todo
<1> QED
  BY <1>1, ScriptShape

\* A transaction that is about to run its next unit.
LEMMA AtUnit ==
  ASSUME DistributionAssumption, NEW y, y.work \in Work, y.todo = Todo(y.work, y.unit),
         y.view = y.savepoint.view, y.own = y.savepoint.own, y.loaded = {},
         \A k \in Key : derives[k] \cap y.savepoint.own # {} =>
            Advanced(store, y.savepoint.view, y.savepoint.own, k),
         ~ y.work.push => y.results = {},
         \A a \in y.results : /\ Advanced(store, y.savepoint.view, y.savepoint.own, a.key)
                              /\ a.stamp = y.savepoint.view.stamp[a.key]
                              /\ a.content = Content(y.savepoint.view, a.key)
  PROVE  Declared(store, y) /\ Since(y) /\ ReadBack(store, y)
<1>1. ASSUME Unfinished(y)
      PROVE  /\ \A k \in Changed(Now(y)) : Pending(y, k)
             /\ y.work.push => Loads(y)
  BY <1>1, TodoBegins DEF Unfinished, Now, Pending, Loads, Covers
<1>2. Declared(store, y)
  BY <1>1 DEF Declared
<1>3. Since(y)
  BY DEF Since
<1>4. ReadBack(store, y)
  BY <1>1 DEF ReadBack
<1> QED
  BY <1>2, <1>3, <1>4

\* A transaction begins consistent.
LEMMA BegunConsistent ==
  ASSUME DistributionAssumption, NEW w \in Work, store \in Database, Sound(store)
  PROVE  Consistent(store, Begun(w))
<1> DEFINE y == Begun(w)
<1>1. /\ y.work = w /\ y.unit = 1 /\ y.todo = Todo(w, 1)
      /\ y.view = store /\ y.own = {} /\ y.loaded = {} /\ y.results = {}
      /\ y.savepoint.view = store /\ y.savepoint.own = {}
  BY BegunFields
<1> HIDE DEF y
<1>2. Declared(store, y) /\ Since(y) /\ ReadBack(store, y)
  BY <1>1, AtUnit
<1>3. \A k \in Key : store.stamp[k] \in Nat
  BY Numbers
<1>4. Follows(store, store, {})
  BY <1>3 DEF Follows, Current
<1>5. Consistent(store, y)
  BY <1>1, <1>2, <1>4 DEF Consistent
<1> QED
  BY <1>5 DEF y

\* The readback keeps it so.
LEMMA LoadedConsistent ==
  ASSUME DistributionAssumption, NEW x, Shaped(x), x.todo # <<>>, Head(x.todo).op = "load",
         Consistent(store, x)
  PROVE  Consistent(store, Loaded(x))
<1> DEFINE y == Loaded(x)
           st == Head(x.todo)
<1>1. /\ y.view = x.view /\ y.own = x.own /\ y.savepoint = x.savepoint /\ y.work = x.work
      /\ y.unit = x.unit /\ y.todo = Tail(x.todo) /\ y.results = x.results
      /\ y.loaded = Authority(x.view, Changed(Now(x))) /\ x.todo \in Seq(Stmt)
  BY LoadedFields DEF Shaped, Running, Now
<1>2. ToSet(x.todo) = {st} \cup ToSet(y.todo) /\ y.todo \in Seq(Stmt)
  BY <1>1, TailElements
<1>3. Legal(x.work, Now(x), st)
  BY <1>2 DEF Shaped, Now
<1>4. \A s \in ToSet(y.todo) : s \in Stmt /\ Before(st, s)
  <2>1. \A s \in ToSet(y.todo) : Before(st, s)
    BY <1>1, TailInOrder DEF Shaped
  <2>2. \A s \in ToSet(y.todo) : s \in Stmt
    BY <1>2 DEF ToSet
  <2> QED
    BY <2>1, <2>2
<1>5. st.op = "load" /\ Declared(store, x) /\ Since(x) /\ ReadBack(store, x)
  BY DEF Consistent
<1> HIDE DEF y, st
<1>6. \A s \in ToSet(y.todo) : s.op \in {"ensure", "publish"}
  BY <1>4, <1>5 DEF Before, Rank, Stmt
<1>7. \A k : Pending(x, k) => Pending(y, k)
  BY <1>2, <1>5 DEF Pending
<1>8. Now(y) = Now(x) /\ (Unfinished(y) <=> Unfinished(x))
  BY <1>1 DEF Now, Unfinished
<1>9. Declared(store, y)
  BY <1>1, <1>5, <1>7, <1>8 DEF Declared
<1>10. Since(y)
  BY <1>1, <1>5, <1>8 DEF Since
<1>11. ReadBack(store, y)
  BY <1>1, <1>3, <1>5, <1>6, <1>8 DEF ReadBack, Legal
<1>12. Consistent(store, y)
  BY <1>1, <1>9, <1>10, <1>11 DEF Consistent
<1> QED
  BY <1>12 DEF y

\* So does the release of the unit.
LEMMA ReleasedConsistent ==
  ASSUME DistributionAssumption, store \in Database, NEW x, Shaped(x), Unfinished(x), x.todo = <<>>,
         x.savepoint.own \subseteq x.own, Consistent(store, x)
  PROVE  Consistent(store, Released(x))
<1> DEFINE y == Released(x)
           K == Changed(Now(x))
           b == x.savepoint
<1>1. /\ y.view = x.view /\ y.own = x.own /\ y.work = x.work /\ y.work \in Work
      /\ y.todo = Todo(y.work, y.unit) /\ y.loaded = {}
      /\ y.savepoint.view = x.view /\ y.savepoint.own = x.own
      /\ y.results = x.loaded \cup {a \in x.results : \A e \in x.loaded : a.key # e.key}
  <2>1. x.unit \in DOMAIN x.work.units /\ x.work \in Work
    BY DEF Unfinished, Shaped, Running
  <2>2. /\ y.results = x.loaded \cup {a \in x.results : \A e \in x.loaded : a.key # e.key}
        /\ y.unit = x.unit + 1 /\ y.todo = Todo(x.work, x.unit + 1) /\ y.loaded = {}
        /\ y.savepoint = [view |-> x.view, own |-> x.own, touched |-> x.touched]
        /\ y.view = x.view /\ y.own = x.own /\ y.work = x.work
    BY <2>1, ReleasedFields
  <2> HIDE DEF y
  <2> QED
    BY <2>1, <2>2
<1>2. /\ x.results \subseteq Authorities /\ x.view \in Database /\ b.view \in Database
  BY DEF Shaped, Running, Mark
<1>3. /\ K \subseteq Key
      /\ \A k \in Key : derives[k] \cap ToSet(Now(x).writes) # {} => k \in K
  BY UnitOfWork
<1>4. Declared(store, x) /\ Since(x) /\ ReadBack(store, x)
  BY DEF Consistent
<1>5. ToSet(x.todo) = {}
  BY DEF ToSet
<1>6. (\A k \in Key : ~ Pending(x, k)) /\ ~ Loads(x)
  BY <1>5 DEF Pending, Loads
<1>7. \A k \in Key : derives[k] \cap x.own # {} => Advanced(store, x.view, x.own, k)
  BY <1>4, <1>6 DEF Declared
<1>8. \A k \in K : Advanced(store, x.view, x.own, k)
  BY <1>3, <1>4, <1>6 DEF Declared
<1>9. ASSUME x.work.push, NEW a \in y.results
      PROVE  /\ Advanced(store, x.view, x.own, a.key) /\ a.stamp = x.view.stamp[a.key]
             /\ a.content = Content(x.view, a.key)
  <2>1. x.loaded = Authority(x.view, K)
    BY <1>4, <1>6, <1>9 DEF ReadBack
  <2>2. CASE a \in x.loaded
    <3>1. PICK k \in K : a = [key |-> k, stamp |-> x.view.stamp[k], content |-> Content(x.view, k)]
      BY <2>1, <2>2 DEF Authority
    <3>2. a.key = k /\ a.stamp = x.view.stamp[k] /\ a.content = Content(x.view, k)
      BY <3>1
    <3> QED
      BY <1>8, <3>2
  <2>3. CASE a \in x.results /\ \A e \in x.loaded : a.key # e.key
    <3> DEFINE k == a.key
    <3>1. k \in Key
      BY <1>2, <2>3 DEF Authorities
    <3>2. k \notin K
      <4> SUFFICES ASSUME k \in K PROVE FALSE
        OBVIOUS
      <4> DEFINE e == [key |-> k, stamp |-> x.view.stamp[k], content |-> Content(x.view, k)]
      <4>1. e \in x.loaded /\ e.key = k
        BY <2>1 DEF Authority
      <4> QED
        BY <2>3, <4>1
    <3>3. /\ Advanced(store, b.view, b.own, k) /\ a.stamp = b.view.stamp[k]
          /\ a.content = Content(b.view, k)
      BY <1>4, <2>3 DEF ReadBack
    <3> HIDE DEF k
    <3>4. b.view.stamp[k] # 0
      BY <1>2, <3>1, <3>3, Numbers DEF Advanced
    <3>5. x.view.stamp[k] = b.view.stamp[k]
      BY <1>4, <3>1, <3>2, <3>4 DEF Since
    <3>6. \A r \in derives[k] : r \in Source /\ r \notin ToSet(Now(x).writes)
      BY <1>3, <3>1, <3>2 DEF DistributionAssumption
    <3>7. \A r \in derives[k] : x.view.writer[r] = b.view.writer[r]
      BY <1>4, <3>6 DEF Since
    <3>8. Content(x.view, k) = Content(b.view, k)
      BY <3>1, <3>7, SameContent
    <3>9. Advanced(store, x.view, x.own, k)
      BY <3>3, <3>5 DEF Advanced
    <3> QED
      BY <3>3, <3>5, <3>8, <3>9 DEF k
  <2> QED
    BY <1>1, <2>2, <2>3
<1>10. ~ x.work.push => y.results = {}
  BY <1>1, <1>4 DEF ReadBack
<1> HIDE DEF y
<1>11. \A a \in y.results : /\ Advanced(store, x.view, x.own, a.key) /\ a.stamp = x.view.stamp[a.key]
                            /\ a.content = Content(x.view, a.key)
  BY <1>9, <1>10
<1>12. Declared(store, y) /\ Since(y) /\ ReadBack(store, y)
  BY <1>1, <1>7, <1>10, <1>11, AtUnit
<1>13. Consistent(store, y)
  BY <1>1, <1>12 DEF Consistent
<1> QED
  BY <1>13 DEF y

\* So does a refusal.
LEMMA RefusedConsistent ==
  ASSUME DistributionAssumption, NEW x, Shaped(x), Unfinished(x), NEW cause \in Cause, Consistent(store, x)
  PROVE  Consistent(store, Refused(x, cause))
<1> DEFINE y == Refused(x, cause)
           b == x.savepoint
<1>1. /\ y.view = b.view /\ y.own = b.own /\ y.work = x.work /\ y.work \in Work
      /\ y.todo = Todo(y.work, y.unit) /\ y.loaded = {} /\ y.savepoint = b /\ y.results = x.results
  <2>1. /\ y.view = b.view /\ y.own = b.own /\ y.work = x.work /\ y.unit = x.unit + 1
        /\ y.todo = Todo(x.work, x.unit + 1) /\ y.loaded = {} /\ y.savepoint = b
        /\ y.results = x.results /\ Shaped(y)
    BY RefusedFields DEF Unfinished
  <2> HIDE DEF y, b
  <2>2. y.work \in Work
    BY <2>1 DEF Shaped, Running
  <2> QED
    BY <2>1, <2>2
<1>2. Declared(store, x) /\ ReadBack(store, x)
  BY DEF Consistent
<1> HIDE DEF y
<1>3. Declared(store, y) /\ Since(y) /\ ReadBack(store, y)
  <2>1. \A k \in Key : derives[k] \cap y.savepoint.own # {} =>
            Advanced(store, y.savepoint.view, y.savepoint.own, k)
    BY <1>1, <1>2 DEF Declared
  <2>2. /\ ~ y.work.push => y.results = {}
        /\ \A a \in y.results : /\ Advanced(store, y.savepoint.view, y.savepoint.own, a.key)
                                /\ a.stamp = y.savepoint.view.stamp[a.key]
                                /\ a.content = Content(y.savepoint.view, a.key)
    BY <1>1, <1>2 DEF ReadBack
  <2> QED
    BY <1>1, <2>1, <2>2, AtUnit
<1>4. Consistent(store, y)
  BY <1>1, <1>3 DEF Consistent
<1> QED
  BY <1>4 DEF y

---------------------------------------------------------------------------
(* Commit *)

\* The database d is s with the rows o taken from v.
Lands(d, s, v, o) ==
  /\ d \in Database /\ s \in Database /\ v \in Database
  /\ \A r \in Row : d.writer[r] = IF r \in o THEN v.writer[r] ELSE s.writer[r]
  /\ \A k \in Key : d.stamp[k] = IF k \in o THEN v.stamp[k] ELSE s.stamp[k]
  /\ \A c \in Channel : /\ d.head[c] = IF c \in o THEN v.head[c] ELSE s.head[c]
                        /\ d.at[c] = IF c \in o THEN v.at[c] ELSE s.at[c]

\* A transaction whose units are through.
Ending(s, x) ==
  /\ Sound(x.view) /\ Follows(s, x.view, x.own)
  /\ \A k \in Key : derives[k] \cap x.own # {} => Advanced(s, x.view, x.own, k)
  /\ \A a \in x.results : /\ Advanced(s, x.view, x.own, a.key) /\ a.stamp = x.view.stamp[a.key]
                          /\ a.content = Content(x.view, a.key)

\* A transaction whose units are through is ready to commit.
LEMMA EndOf ==
  ASSUME NEW s, NEW x, Shaped(x), ~ Unfinished(x), Consistent(s, x)
  PROVE  Ending(s, x)
<1>1. x.todo = <<>> /\ x.view = x.savepoint.view /\ x.own = x.savepoint.own
  BY DEF Shaped, Unfinished, Consistent, Since
<1>2. Declared(s, x) /\ ReadBack(s, x) /\ Sound(x.view) /\ Follows(s, x.view, x.own)
  BY DEF Consistent
<1> QED
  BY <1>1, <1>2 DEF Ending, Declared, ReadBack

\* A commit leaves a sound database.
LEMMA LandsSound ==
  ASSUME NEW d, NEW s, NEW v, NEW o, Lands(d, s, v, o), Sound(s), Sound(v), Follows(s, v, o)
  PROVE  Sound(d)
<1>1. /\ \A k \in Key : s.stamp[k] \in Nat /\ v.stamp[k] \in Nat /\ d.stamp[k] \in Nat
      /\ \A c \in Channel, k \in Key : s.at[c][k].stamp \in Nat /\ v.at[c][k].stamp \in Nat
  BY Numbers DEF Lands
<1>2. \A k \in Key : s.stamp[k] <= d.stamp[k] /\ v.stamp[k] <= d.stamp[k]
  <2> SUFFICES ASSUME NEW k \in Key PROVE s.stamp[k] <= d.stamp[k] /\ v.stamp[k] <= d.stamp[k]
    OBVIOUS
  <2>1. CASE k \in o
    BY <1>1, <2>1 DEF Lands, Follows
  <2>2. CASE k \notin o
    BY <1>1, <2>2 DEF Lands, Follows
  <2> QED
    BY <2>1, <2>2
<1>3. ASSUME NEW c \in Channel, NEW e, e = s \/ e = v, d.head[c] = e.head[c], d.at[c] = e.at[c]
      PROVE  /\ \A k \in Key : d.at[c][k].cursor <= d.head[c] /\ d.at[c][k].stamp <= d.stamp[k]
             /\ \A k, l \in Key : k # l /\ d.at[c][k].cursor # 0 => d.at[c][k].cursor # d.at[c][l].cursor
  <2>1. \A k \in Key : e.at[c][k].cursor <= e.head[c] /\ e.at[c][k].stamp <= e.stamp[k]
    BY <1>3 DEF Sound
  <2>2. \A k, l \in Key : k # l /\ e.at[c][k].cursor # 0 => e.at[c][k].cursor # e.at[c][l].cursor
    BY <1>3 DEF Sound
  <2>3. \A k \in Key : e.at[c][k].stamp \in Nat /\ e.stamp[k] \in Nat /\ e.stamp[k] <= d.stamp[k]
    BY <1>1, <1>2, <1>3
  <2>4. \A k \in Key : d.at[c][k].cursor <= d.head[c]
    BY <1>3, <2>1
  <2>5. \A k \in Key : d.at[c][k].stamp <= d.stamp[k]
    BY <1>1, <1>3, <2>1, <2>3
  <2> QED
    BY <1>3, <2>2, <2>4, <2>5
<1>4. ASSUME NEW c \in Channel
      PROVE  \E e : (e = s \/ e = v) /\ d.head[c] = e.head[c] /\ d.at[c] = e.at[c]
  <2>1. CASE c \in o
    BY <2>1 DEF Lands
  <2>2. CASE c \notin o
    BY <2>2 DEF Lands
  <2> QED
    BY <2>1, <2>2
<1> QED
  BY <1>3, <1>4 DEF Sound

\* What another transaction's view says is still true after the commit.
LEMMA LandsFollows ==
  ASSUME DistributionAssumption, NEW d, NEW s, NEW v, NEW o, NEW w \in Database, NEW p,
         Lands(d, s, v, o), Follows(s, v, o), Follows(s, w, p), o \cap p = {},
         \A r \in Row \cap o : w.writer[r] # v.writer[r],
         \A k \in Key : derives[k] \cap o # {} => k \in o
  PROVE  Follows(d, w, p)
<1>1. /\ \A k \in Key : s.stamp[k] \in Nat /\ v.stamp[k] \in Nat /\ d.stamp[k] \in Nat /\ w.stamp[k] \in Nat
  BY Numbers DEF Lands
<1>2. \A r \in Row : Current(d, w, r) => r \notin o /\ Current(s, w, r)
  BY DEF Current, Lands
<1>3. \A r \in Row : r \notin o => (Current(d, w, r) <=> Current(s, w, r))
  BY DEF Current, Lands
<1>4. Key \subseteq Row /\ Channel \subseteq Row /\ \A k \in Key : derives[k] \subseteq Row
  BY DEF Row, DistributionAssumption
<1>5. \A k \in Key : k \in p \/ Current(d, w, k) => \A r \in derives[k] \ p : Current(d, w, r)
  <2> SUFFICES ASSUME NEW k \in Key, k \in p \/ Current(d, w, k), NEW r \in derives[k] \ p
               PROVE  Current(d, w, r)
    OBVIOUS
  <2>1. k \notin o /\ (k \in p \/ Current(s, w, k))
    BY <1>2, <1>4
  <2>2. Current(s, w, r)
    BY <2>1 DEF Follows
  <2>3. r \notin o
    BY <2>1
  <2> QED
    BY <1>3, <1>4, <2>2, <2>3
<1>6. \A k \in Key \ p : /\ w.stamp[k] <= d.stamp[k]
                         /\ Current(d, w, k) => w.stamp[k] = d.stamp[k]
  <2> SUFFICES ASSUME NEW k \in Key \ p
               PROVE  w.stamp[k] <= d.stamp[k] /\ (Current(d, w, k) => w.stamp[k] = d.stamp[k])
    OBVIOUS
  <2>1. w.stamp[k] <= s.stamp[k] /\ (Current(s, w, k) => w.stamp[k] = s.stamp[k])
    BY DEF Follows
  <2>2. CASE k \in o
    <3>1. s.stamp[k] <= v.stamp[k] /\ d.stamp[k] = v.stamp[k]
      BY <2>2 DEF Follows, Lands
    <3> QED
      BY <1>1, <1>2, <1>4, <2>1, <2>2, <3>1
  <2>3. CASE k \notin o
    <3>1. d.stamp[k] = s.stamp[k]
      BY <2>3 DEF Lands
    <3> QED
      BY <1>2, <1>4, <2>1, <3>1
  <2> QED
    BY <2>2, <2>3
<1>7. \A k \in Key \cap p : d.stamp[k] <= w.stamp[k]
  BY DEF Follows, Lands
<1>8. \A c \in Channel : c \notin o => d.head[c] = s.head[c] /\ d.at[c] = s.at[c]
  BY DEF Lands
<1>9. \A c \in Channel \ p : Current(d, w, c) => w.head[c] = d.head[c] /\ w.at[c] = d.at[c]
  BY <1>2, <1>4, <1>8 DEF Follows
<1>10. \A c \in Channel \cap p :
         /\ d.head[c] <= w.head[c]
         /\ \A k \in Key : w.at[c][k] = d.at[c][k] \/ d.head[c] < w.at[c][k].cursor
  <2> SUFFICES ASSUME NEW c \in Channel \cap p
               PROVE  /\ d.head[c] <= w.head[c]
                      /\ \A k \in Key : w.at[c][k] = d.at[c][k] \/ d.head[c] < w.at[c][k].cursor
    OBVIOUS
  <2>1. d.head[c] = s.head[c] /\ d.at[c] = s.at[c]
    BY <1>8
  <2> QED
    BY <2>1 DEF Follows
<1> QED
  BY <1>5, <1>6, <1>7, <1>9, <1>10 DEF Follows

\* A commit keeps the other transactions consistent.
LEMMA LandsConsistent ==
  ASSUME DistributionAssumption, NEW d, NEW s, NEW v, NEW o, NEW y, Lands(d, s, v, o),
         Shaped(y), Consistent(s, y), Follows(s, v, o), o \cap y.own = {}, y.savepoint.own \subseteq y.own,
         \A r \in Row \cap o : y.view.writer[r] # v.writer[r] /\ y.savepoint.view.writer[r] # v.writer[r],
         \A k \in Key : derives[k] \cap o # {} => k \in o
  PROVE  Consistent(d, y)
<1>1. /\ y.view \in Database /\ y.savepoint.view \in Database /\ o \cap y.savepoint.own = {}
      /\ y.results \subseteq Authorities
  BY DEF Shaped, Running, Mark
<1>2. /\ Follows(s, y.view, y.own) /\ Follows(s, y.savepoint.view, y.savepoint.own)
      /\ Declared(s, y) /\ Since(y) /\ ReadBack(s, y) /\ Sound(y.view) /\ Sound(y.savepoint.view)
  BY DEF Consistent
<1>3. Follows(d, y.view, y.own)
  BY <1>1, <1>2, LandsFollows
<1>4. Follows(d, y.savepoint.view, y.savepoint.own)
  BY <1>1, <1>2, LandsFollows
<1>5. ASSUME NEW k \in Key
      PROVE  /\ Advanced(s, y.view, y.own, k) => Advanced(d, y.view, y.own, k)
             /\ Advanced(s, y.savepoint.view, y.savepoint.own, k) =>
                  Advanced(d, y.savepoint.view, y.savepoint.own, k)
  BY <1>1 DEF Advanced, Lands
<1>6. Unfinished(y) => Changed(Now(y)) \subseteq Key
  BY UnitOfWork
<1>7. Declared(d, y)
  BY <1>2, <1>5, <1>6 DEF Declared
<1>8. \A a \in y.results : a.key \in Key
  BY <1>1 DEF Authorities
<1>9. ReadBack(d, y)
  BY <1>2, <1>5, <1>8 DEF ReadBack
<1> QED
  BY <1>2, <1>3, <1>4, <1>7, <1>9 DEF Consistent

---------------------------------------------------------------------------
(* What is delivered *)

\* What was delivered, and the commit's receipt, stays what the database holds
\* or held.
LEMMA LandsNamed ==
  ASSUME DistributionAssumption, NEW d, NEW s, NEW x, NEW D, Lands(d, s, x.view, x.own),
         D \subseteq Authorities, x.results \subseteq Authorities, Named(s, D), Ending(s, x)
  PROVE  Named(d, D \cup x.results)
<1> DEFINE v == x.view
           o == x.own
           R == x.results
<1>1. /\ \A k \in Key : s.stamp[k] \in Nat /\ v.stamp[k] \in Nat /\ d.stamp[k] \in Nat
      /\ \A a \in D \cup R : a.key \in Key /\ a.stamp \in Nat
  BY Numbers DEF Lands, Authorities
<1>2. Follows(s, v, o) /\ \A k \in Key : derives[k] \cap o # {} => Advanced(s, v, o, k)
  BY DEF Ending
<1>3. \A a \in R : Advanced(s, v, o, a.key) /\ a.stamp = v.stamp[a.key] /\ a.content = Content(v, a.key)
  BY DEF Ending
<1>4. /\ \A r \in Row : d.writer[r] = IF r \in o THEN v.writer[r] ELSE s.writer[r]
      /\ \A k \in Key : d.stamp[k] = IF k \in o THEN v.stamp[k] ELSE s.stamp[k]
  BY DEF Lands
<1>5. \A k \in Key : derives[k] \subseteq Row
  BY DEF Row, DistributionAssumption
<1> HIDE DEF v, o, R
<1>6. ASSUME NEW k \in Key, Advanced(s, v, o, k)
      PROVE  d.stamp[k] = v.stamp[k] /\ s.stamp[k] < d.stamp[k] /\ Content(d, k) = Content(v, k)
  <2>1. \A r \in derives[k] \ o : s.writer[r] = v.writer[r]
    BY <1>2, <1>6 DEF Follows, Advanced, Current
  <2>2. \A r \in derives[k] : d.writer[r] = v.writer[r]
    BY <1>4, <1>5, <2>1
  <2>3. Content(d, k) = Content(v, k)
    BY <2>2, SameContent
  <2> QED
    BY <1>4, <1>6, <2>3 DEF Advanced
<1>7. ASSUME NEW k \in Key, ~ Advanced(s, v, o, k)
      PROVE  d.stamp[k] = s.stamp[k] /\ Content(d, k) = Content(s, k)
  <2>1. derives[k] \cap o = {}
    BY <1>2, <1>7
  <2>2. \A r \in derives[k] : d.writer[r] = s.writer[r]
    BY <1>4, <1>5, <2>1
  <2>3. Content(d, k) = Content(s, k)
    BY <2>2, SameContent
  <2>4. CASE k \in o
    <3>1. s.stamp[k] <= v.stamp[k] /\ ~ (s.stamp[k] < v.stamp[k])
      BY <1>2, <1>7, <2>4 DEF Follows, Advanced
    <3> QED
      BY <1>1, <1>4, <2>3, <2>4, <3>1
  <2>5. CASE k \notin o
    BY <1>4, <2>3, <2>5
  <2> QED
    BY <2>4, <2>5
<1>8. \A k \in Key : s.stamp[k] <= d.stamp[k]
  BY <1>1, <1>6, <1>7
<1>9. ASSUME NEW a \in R
      PROVE  /\ a.stamp = d.stamp[a.key] /\ s.stamp[a.key] < a.stamp
             /\ a.content = Content(d, a.key)
  BY <1>1, <1>3, <1>6, <1>9
<1>10. ASSUME NEW a \in D
       PROVE  /\ a.stamp <= s.stamp[a.key] /\ a.stamp <= d.stamp[a.key]
              /\ a.stamp = d.stamp[a.key] => a.content = Content(d, a.key)
  <2>1. a.stamp <= s.stamp[a.key] /\ (a.stamp = s.stamp[a.key] => a.content = Content(s, a.key))
    BY DEF Named
  <2>2. CASE Advanced(s, v, o, a.key)
    BY <1>1, <1>6, <2>1, <2>2
  <2>3. CASE ~ Advanced(s, v, o, a.key)
    BY <1>1, <1>7, <2>1, <2>3
  <2> QED
    BY <2>2, <2>3
<1>11. \A a \in D \cup R : /\ a.stamp <= d.stamp[a.key]
                           /\ a.stamp = d.stamp[a.key] => a.content = Content(d, a.key)
  <2>1. \A a \in R : a.stamp <= d.stamp[a.key] /\ a.content = Content(d, a.key)
    BY <1>1, <1>9
  <2> QED
    BY <1>10, <2>1
<1>12. ASSUME NEW a \in D \cup R, NEW e \in D \cup R, a.key = e.key, a.stamp = e.stamp
       PROVE  a.content = e.content
  <2>1. CASE a \in D /\ e \in D
    BY <1>12, <2>1 DEF Named
  <2>2. CASE a \in R \/ e \in R
    <3>1. a.stamp = d.stamp[a.key] /\ e.stamp = d.stamp[e.key]
      BY <1>9, <1>12, <2>2
    <3> QED
      BY <1>11, <1>12, <3>1
  <2> QED
    BY <2>1, <2>2
<1>13. Named(d, D \cup R)
  BY <1>11, <1>12 DEF Named
<1> QED
  BY <1>13 DEF R

\* So does what a pull reads.
LEMMA PullNamed ==
  ASSUME NEW s \in Database, NEW D, NEW K \in SUBSET Key, D \subseteq Authorities, Named(s, D)
  PROVE  Named(s, D \cup Authority(s, K))
<1>1. \A a \in Authority(s, K) : /\ a.key \in Key /\ a.stamp = s.stamp[a.key]
                                 /\ a.content = Content(s, a.key)
  <2> SUFFICES ASSUME NEW a \in Authority(s, K)
               PROVE  a.key \in Key /\ a.stamp = s.stamp[a.key] /\ a.content = Content(s, a.key)
    OBVIOUS
  <2>1. PICK k \in K : a = [key |-> k, stamp |-> s.stamp[k], content |-> Content(s, k)]
    BY DEF Authority
  <2> QED
    BY <2>1
<1>2. \A k \in Key : s.stamp[k] \in Nat
  BY Numbers
<1>3. \A a \in D \cup Authority(s, K) : /\ a.stamp <= s.stamp[a.key]
                                        /\ a.stamp = s.stamp[a.key] => a.content = Content(s, a.key)
  BY <1>1, <1>2 DEF Named
<1>4. ASSUME NEW a \in D \cup Authority(s, K), NEW e \in D \cup Authority(s, K),
             a.key = e.key, a.stamp = e.stamp
      PROVE  a.content = e.content
  <2>1. CASE a \in D /\ e \in D
    BY <1>4, <2>1 DEF Named
  <2>2. CASE a \in Authority(s, K) \/ e \in Authority(s, K)
    <3>1. a.stamp = s.stamp[a.key] /\ e.stamp = s.stamp[e.key]
      BY <1>1, <1>4, <2>2
    <3> QED
      BY <1>3, <1>4, <3>1
  <2> QED
    BY <2>1, <2>2
<1> QED
  BY <1>3, <1>4 DEF Named

---------------------------------------------------------------------------
(* Every step *)

\* commit lands what the transaction owns.
LEMMA CommitLands ==
  ASSUME ShapeInv, NEW t \in Tx, t \in Active
  PROVE  Lands(Merged(tx[t]), store, tx[t].view, tx[t].own)
<1>1. store \in Database /\ tx[t] \in Running /\ tx[t].view \in Database
  BY DEF ShapeInv, Shaped, Running
<1> QED
  BY <1>1, MergedOf DEF Lands

\* What a transaction that is not committed has not read: the commit of another.
LEMMA Fresh ==
  ASSUME ShapeInv, LocksInv, NEW t \in Active, NEW u \in Active, t # u
  PROVE  /\ tx[t].own \cap tx[u].own = {} /\ tx[u].savepoint.own \subseteq tx[u].own
         /\ \A r \in Row \cap tx[t].own : /\ tx[u].view.writer[r] # tx[t].view.writer[r]
                                          /\ tx[u].savepoint.view.writer[r] # tx[t].view.writer[r]
<1> DEFINE x == tx[t]
           y == tx[u]
<1>1. x.own \cap y.own = {} /\ Locked(x) /\ Locked(y)
  BY DEF LocksInv
<1>2. y.savepoint.own \subseteq y.own /\ x.work \notin done
  BY <1>1 DEF Locked
<1> HIDE DEF x, y
<1>3. ASSUME NEW r \in Row \cap x.own
      PROVE  Origin(y.view.writer[r]) /\ Origin(y.savepoint.view.writer[r]) /\ ~ Origin(x.view.writer[r])
  <2>1. PICK i \in Nat : x.view.writer[r] = Change(x.work, i)
    BY <1>1 DEF Locked, Marked
  <2>2. ~ Origin(x.view.writer[r])
    BY <1>2, <2>1, Distinct DEF Origin
  <2>3. r \in Row \ y.own /\ r \in Row \ y.savepoint.own
    BY <1>1, <1>2
  <2> QED
    BY <1>1, <2>2, <2>3 DEF Locked, Marked
<1> QED
  BY <1>1, <1>2, <1>3 DEF x, y

\* Every step keeps the stamps' invariant.
LEMMA NextStamps ==
  ASSUME DistributionAssumption, ShapeInv, LocksInv, StampsInv, [Next]_vars
  PROVE  StampsInv'
<1>0. /\ store \in Database /\ tx \in [Tx -> {NoTx} \cup Committed \cup Running]
      /\ delivered \subseteq Authorities /\ Sound(store) /\ Named(store, delivered)
      /\ \A t \in Active : /\ Shaped(tx[t]) /\ tx[t] \in Running /\ Consistent(store, tx[t])
                           /\ tx[t].savepoint.own \subseteq tx[t].own
  BY DEF ShapeInv, Shaped, StampsInv, LocksInv, Locked
<1>1. ASSUME NEW t \in Tx, LocalStep(t) PROVE StampsInv'
  <2> DEFINE x == tx[t]
  <2>1. ASSUME NEW y, Local(t, y), y = NoTx \/ Consistent(store, y)
        PROVE  StampsInv'
    <3>1. /\ store' = store /\ delivered' = delivered /\ tx'[t] = y
          /\ \A u \in Tx : u # t => tx'[u] = tx[u]
      BY <2>1, LocalResult
    <3>2. ASSUME NEW u \in Active' PROVE Consistent(store', tx'[u])
      <4>1. CASE u = t
        BY <2>1, <3>1, <3>2, <4>1 DEF Active, NoTx
      <4>2. CASE u # t
        <5>1. u \in Active /\ tx'[u] = tx[u]
          BY <3>1, <3>2, <4>2 DEF Active
        <5> QED
          BY <1>0, <3>1, <5>1
      <4> QED
        BY <4>1, <4>2
    <3> QED
      BY <1>0, <3>1, <3>2 DEF StampsInv
  <2>2. ASSUME NEW w \in Work, Local(t, Begun(w)) PROVE StampsInv'
    BY <1>0, <2>1, <2>2, BegunConsistent
  <2>3. t \in Active => x.work \in Work
    BY <1>0 DEF Running
  <2>4. CASE Local(t, NoTx)
    BY <2>1, <2>4
  <2>5. CASE /\ t \in Active /\ x.todo # <<>> /\ Head(x.todo).op \in Writes
             /\ ~ Outdated(t) /\ Local(t, Executed(x))
    <3>1. Head(x.todo).row \in x.own \/ Current(store, x.view, Head(x.todo).row)
      BY <2>5 DEF Outdated, NextStatement, Current
    <3>2. Consistent(store, Executed(x))
      BY <1>0, <2>5, <3>1, ExecutedConsistent
    <3> QED
      BY <2>1, <2>5, <3>2
  <2>6. CASE /\ t \in Active /\ x.todo # <<>> /\ Head(x.todo).op = "load" /\ Local(t, Loaded(x))
    <3>1. Consistent(store, Loaded(x))
      BY <1>0, <2>6, LoadedConsistent
    <3> QED
      BY <2>1, <2>6, <3>1
  <2>7. CASE /\ t \in Active /\ x.todo = <<>> /\ x.unit <= Len(x.work.units)
             /\ Local(t, Released(x))
    <3>1. Unfinished(x)
      BY <1>0, <2>3, <2>7, Units DEF Running, Unfinished
    <3>2. Consistent(store, Released(x))
      BY <1>0, <2>7, <3>1, ReleasedConsistent
    <3> QED
      BY <2>1, <2>7, <3>2
  <2>8. ASSUME t \in Active, x.todo # <<>>, NEW cause \in Cause, Local(t, Refused(x, cause))
        PROVE  StampsInv'
    <3>1. Unfinished(x)
      BY <1>0, <2>8 DEF Shaped, Unfinished
    <3>2. Consistent(store, Refused(x, cause))
      BY <1>0, <2>8, <3>1, RefusedConsistent
    <3> QED
      BY <2>1, <2>8, <3>2
  <2> QED
    BY <1>1, <2>2, <2>3, <2>4, <2>5, <2>6, <2>7, <2>8 DEF LocalStep
<1>2. ASSUME NEW t \in Tx, commit(t) PROVE StampsInv'
  <2> DEFINE x == tx[t]
  <2>1. t \in Active /\ Shaped(x) /\ x \in Running /\ Consistent(store, x) /\ x.work \in Work
    BY <1>0, <1>2 DEF commit, Running
  <2>2. /\ store' = Merged(x) /\ delivered' = delivered \cup x.results
        /\ tx' = [tx EXCEPT ![t] = [phase |-> "committed", work |-> x.work, touched |-> x.touched]]
        /\ x.unit > Len(x.work.units)
    BY <1>2 DEF commit
  <2>3. ~ Unfinished(x)
    BY <2>1, <2>2, Units DEF Unfinished, Running
  <2>4. Ending(store, x) /\ Lands(store', store, x.view, x.own) /\ x.results \subseteq Authorities
    BY <2>1, <2>2, <2>3, EndOf, CommitLands DEF Running
  <2>5. Sound(store')
    BY <1>0, <2>4, LandsSound DEF Ending
  <2>6. Named(store', delivered')
    BY <1>0, <2>2, <2>4, LandsNamed
  <2>7. ASSUME NEW u \in Active' PROVE Consistent(store', tx'[u])
    <3>1. u \in Active /\ u # t /\ tx'[u] = tx[u]
      BY <1>0, <2>2, <2>7 DEF Active
    <3> DEFINE y == tx[u]
    <3>2. /\ x.own \cap y.own = {} /\ y.savepoint.own \subseteq y.own
          /\ \A r \in Row \cap x.own : /\ y.view.writer[r] # x.view.writer[r]
                                       /\ y.savepoint.view.writer[r] # x.view.writer[r]
      BY <2>1, <3>1, Fresh
    <3>3. Shaped(y) /\ Consistent(store, y)
      BY <1>0, <3>1
    <3>4. Follows(store, x.view, x.own) /\ \A k \in Key : derives[k] \cap x.own # {} => k \in x.own
      BY <2>4 DEF Ending, Advanced
    <3> HIDE DEF x, y
    <3>5. Consistent(store', y)
      BY <2>4, <3>2, <3>3, <3>4, LandsConsistent
    <3> QED
      BY <3>1, <3>5 DEF y
  <2> QED
    BY <2>5, <2>6, <2>7 DEF StampsInv
<1>3. ASSUME NEW t \in Tx, notify(t) PROVE StampsInv'
  <2>1. tx' = [tx EXCEPT ![t] = NoTx] /\ store' = store /\ delivered' = delivered
    BY <1>3 DEF notify
  <2>2. \A u \in Active' : u \in Active /\ tx'[u] = tx[u]
    BY <1>0, <2>1 DEF Active, NoTx
  <2>3. \A u \in Active' : Consistent(store', tx'[u])
    BY <1>0, <2>1, <2>2
  <2> QED
    BY <1>0, <2>1, <2>3 DEF StampsInv
<1>4. ASSUME NEW C \in SUBSET Channel, process_pull(C) PROVE StampsInv'
  <2> DEFINE K == UNION {Scan(c) : c \in C}
  <2>1. store' = store /\ tx' = tx /\ delivered' = delivered \cup Authority(store, K)
    BY <1>4 DEF process_pull
  <2>2. K \in SUBSET Key
    BY DEF Scan
  <2> HIDE DEF K
  <2>3. Named(store', delivered')
    BY <1>0, <2>1, <2>2, PullNamed
  <2>4. \A u \in Active' : Consistent(store', tx'[u])
    BY <1>0, <2>1 DEF Active
  <2> QED
    BY <1>0, <2>1, <2>3, <2>4 DEF StampsInv
<1>5. CASE UNCHANGED vars
  BY <1>5 DEF StampsInv, vars, Active
<1> QED
  BY <1>1, <1>2, <1>3, <1>4, <1>5, Steps DEF Next

\* It holds at first.
LEMMA InitStamps == ASSUME DistributionAssumption, Init PROVE StampsInv
<1>1. Active = {}
  BY DEF Init, Active, NoTx
<1>2. /\ store.stamp = [k \in Key |-> 0] /\ store.head = [c \in Channel |-> 0]
      /\ store.at = [c \in Channel |-> [k \in Key |-> [cursor |-> 0, stamp |-> 0]]]
  BY DEF Init
<1>3. Sound(store)
  BY <1>2 DEF Sound
<1>4. Named(store, delivered)
  BY DEF Init, Named
<1> QED
  BY <1>1, <1>3, <1>4 DEF StampsInv

\* What is committed, what running transactions hold of it, read back and will
\* advance, and what was delivered agree on every stamp (readback.rs, the
\* drivers' stamps and publications).
THEOREM StampsHold == Spec => []StampsInv
<1>1. Init => StampsInv
  BY InitStamps, DistributionAssumption
<1>2. ShapeInv /\ LocksInv /\ StampsInv /\ [Next]_vars => StampsInv'
  BY NextStamps, DistributionAssumption
<1> QED
  BY <1>1, <1>2, ShapeHolds, LocksHold, PTL DEF Spec

\* Whatever two receipts or pages carry a record at one stamp, they carry one
\* content, and what the database holds while the record is still at it.
THEOREM OneContent == Spec => []StampNamesContent
<1>1. StampsInv => StampNamesContent
  BY DEF StampsInv, Named, StampNamesContent
<1> QED
  BY <1>1, StampsHold, PTL

---------------------------------------------------------------------------
(* A subscriber *)

\* A page takes every position up to its end: a full one ends where its last
\* invalidation stands, another one has them all.
LEMMA PageWhole ==
  ASSUME DistributionAssumption, store \in Database, Sound(store),
         NEW c \in Channel, reader.cursor[c] \in Nat, NEW k \in Key,
         reader.cursor[c] < store.at[c][k].cursor, store.at[c][k].cursor <= PageEnd(c)
  PROVE  k \in Scan(c)
<1> DEFINE n == reader.cursor[c]
           Position(j) == store.at[c][j].cursor
           Upto(j) == {i \in Key : n < Position(i) /\ Position(i) <= Position(j)}
<1>1. n \in Nat /\ \A j \in Key : Position(j) \in Nat
  BY Numbers
<1>2. Scan(c) = {j \in Key : Position(j) > n /\ Cardinality(Upto(j)) <= PullChanges}
  BY DEF Scan
<1>3. IsFiniteSet(Key) /\ PullChanges \in Nat
  BY FS_Interval DEF DistributionAssumption, Key
<1>4. \A j \in Key : IsFiniteSet(Upto(j)) /\ Cardinality(Upto(j)) \in Nat
  BY <1>3, FS_Subset, FS_CardinalityType
<1>5. n < Position(k) /\ Position(k) <= PageEnd(c)
  OBVIOUS
<1>6. CASE ~ (Cardinality(Scan(c)) < PullChanges)
  <2>1. PICK j \in Scan(c) : PageEnd(c) = Position(j)
    BY <1>6, PageEnds
  <2>2. j \in Key /\ Cardinality(Upto(j)) <= PullChanges
    BY <1>2, <2>1
  <2>3. Upto(k) \subseteq Upto(j)
    BY <1>1, <1>5, <2>1, <2>2
  <2>4. Cardinality(Upto(k)) <= Cardinality(Upto(j))
    BY <1>4, <2>2, <2>3, FS_Subset
  <2> HIDE DEF Upto, Position, n
  <2>5. Cardinality(Upto(k)) <= PullChanges
    BY <1>3, <1>4, <2>2, <2>4
  <2> QED
    BY <1>2, <1>5, <2>5
<1>7. CASE Cardinality(Scan(c)) < PullChanges
  <2> SUFFICES ASSUME k \notin Scan(c) PROVE FALSE
    OBVIOUS
  <2> DEFINE M == {j \in Key : n < Position(j) /\ j \notin Scan(c)}
             T == {Position(j) : j \in M}
  <2>1. T \subseteq Nat /\ T # {}
    BY <1>1, <1>5
  <2>2. PICK a \in T : \A b \in T : a <= b
    BY <2>1, Least
  <2>3. PICK l \in M : Position(l) = a
    BY <2>2
  <2>4. l \in Key /\ n < Position(l) /\ l \notin Scan(c) /\ \A j \in M : Position(l) <= Position(j)
    BY <2>2, <2>3
  <2>5. \A j \in Key : j # l /\ Position(j) = Position(l) => FALSE
    BY <1>1, <2>4 DEF Sound
  <2>6. Upto(l) \ {l} \subseteq Scan(c)
    <3> SUFFICES ASSUME NEW j \in Upto(l) \ {l}, j \notin Scan(c) PROVE FALSE
      OBVIOUS
    <3>1. j \in Key /\ n < Position(j) /\ Position(j) <= Position(l) /\ j # l
      OBVIOUS
    <3>2. Position(l) <= Position(j)
      BY <2>4, <3>1
    <3> QED
      BY <1>1, <2>4, <2>5, <3>1, <3>2
  <2>7. l \in Upto(l)
    BY <1>1, <2>4
  <2>8. Cardinality(Upto(l) \ {l}) = Cardinality(Upto(l)) - 1
    BY <1>4, <2>4, <2>7, FS_RemoveElement
  <2>9. IsFiniteSet(Scan(c)) /\ Cardinality(Scan(c)) \in Nat
    BY PageEnds, FS_CardinalityType
  <2>10. Cardinality(Upto(l) \ {l}) <= Cardinality(Scan(c))
    BY <2>6, <2>9, FS_Subset
  <2> HIDE DEF Upto, Position, n, M, T
  <2>11. Cardinality(Upto(l)) <= PullChanges
    BY <1>3, <1>4, <1>7, <2>4, <2>8, <2>9, <2>10
  <2> QED
    BY <1>2, <2>4, <2>11
<1> QED
  BY <1>6, <1>7

\* A page ends within its channel.
LEMMA PageWithin ==
  ASSUME DistributionAssumption, store \in Database, Sound(store), NEW c \in Channel
  PROVE  PageEnd(c) <= store.head[c]
<1>1. store.head[c] \in Nat /\ Scan(c) \subseteq Key
  BY Numbers DEF Scan
<1> QED
  BY <1>1, PageEnds DEF Sound

\* Every step keeps a reader within the heads, with nothing missed.
LEMMA NextReached ==
  ASSUME DistributionAssumption, ShapeInv, StampsInv, Reached, [Next]_vars
  PROVE  Reached'
<1>0. /\ store \in Database /\ Sound(store) /\ reader.cursor \in [Channel -> Nat]
      /\ reader.known \in [Key -> Nat]
      /\ \A t \in Active : Shaped(tx[t]) /\ tx[t] \in Running /\ Consistent(store, tx[t])
  BY DEF ShapeInv, Shaped, StampsInv
<1>1. /\ \A k \in Key : store.stamp[k] \in Nat
      /\ \A c \in Channel : store.head[c] \in Nat /\ reader.cursor[c] \in Nat
      /\ \A c \in Channel, k \in Key : store.at[c][k].cursor \in Nat /\ store.at[c][k].stamp \in Nat
  BY <1>0, Numbers
<1>2. ASSUME store' = store, reader' = reader PROVE Reached'
  BY <1>2 DEF Reached, NothingMissed
<1>3. ASSUME NEW t \in Tx, commit(t) PROVE Reached'
  <2> DEFINE x == tx[t]
  <2>1. t \in Active /\ Shaped(x) /\ x \in Running /\ Consistent(store, x) /\ x.work \in Work
    BY <1>0, <1>3 DEF commit, Running
  <2>2. store' = Merged(x) /\ reader' = reader /\ x.unit > Len(x.work.units)
    BY <1>3 DEF commit
  <2>3. ~ Unfinished(x)
    BY <2>1, <2>2, Units DEF Unfinished, Running
  <2>4. Ending(store, x) /\ Lands(store', store, x.view, x.own)
    BY <2>1, <2>2, <2>3, EndOf, CommitLands
  <2> HIDE DEF x
  <2>5. ASSUME NEW c \in Channel
        PROVE  /\ store.head[c] <= store'.head[c]
               /\ \A k \in Key : store'.at[c][k] = store.at[c][k] \/ store.head[c] < store'.at[c][k].cursor
    <3>1. CASE c \in x.own
      <4>1. store'.head[c] = x.view.head[c] /\ store'.at[c] = x.view.at[c]
        BY <2>4, <3>1 DEF Lands
      <4> QED
        BY <2>4, <3>1, <4>1 DEF Ending, Follows
    <3>2. CASE c \notin x.own
      <4>1. store'.head[c] = store.head[c] /\ store'.at[c] = store.at[c]
        BY <2>4, <3>2 DEF Lands
      <4> QED
        BY <1>1, <4>1
    <3> QED
      BY <3>1, <3>2
  <2>6. /\ \A c \in Channel : store'.head[c] \in Nat
        /\ \A c \in Channel, k \in Key : store'.at[c][k].cursor \in Nat
    BY <2>4, Numbers DEF Lands
  <2>7. \A c \in Channel : reader'.cursor[c] <= store'.head[c]
    BY <1>1, <2>2, <2>5, <2>6 DEF Reached
  <2>8. ASSUME NEW c \in Channel, NEW k \in Key, store'.at[c][k].cursor \in 1..reader.cursor[c]
        PROVE  reader.known[k] >= store'.at[c][k].stamp
    <3>1. reader.cursor[c] <= store.head[c]
      BY DEF Reached
    <3>2. store'.at[c][k] = store.at[c][k]
      BY <1>1, <2>5, <2>6, <2>8, <3>1
    <3> QED
      BY <2>8, <3>2 DEF Reached, NothingMissed
  <2> QED
    BY <2>2, <2>7, <2>8 DEF Reached, NothingMissed
<1>4. ASSUME NEW C \in SUBSET Channel, process_pull(C) PROVE Reached'
  <2> DEFINE K == UNION {Scan(c) : c \in C}
  <2>1. /\ store' = store
        /\ reader' = [cursor |-> [c \in Channel |-> IF c \in C THEN PageEnd(c) ELSE reader.cursor[c]],
                      known |-> [k \in Key |-> IF k \in K THEN store.stamp[k] ELSE reader.known[k]]]
    BY <1>4 DEF process_pull
  <2> HIDE DEF K
  <2>2. /\ \A c \in Channel : reader'.cursor[c] = IF c \in C THEN PageEnd(c) ELSE reader.cursor[c]
        /\ \A k \in Key : reader'.known[k] = IF k \in K THEN store.stamp[k] ELSE reader.known[k]
    BY <2>1
  <2>3. \A c \in Channel : reader'.cursor[c] <= store'.head[c]
    BY <1>0, <2>1, <2>2, PageWithin DEF Reached
  <2>4. ASSUME NEW c \in Channel, NEW k \in Key, store.at[c][k].cursor \in 1..reader'.cursor[c]
        PROVE  reader'.known[k] >= store.at[c][k].stamp
    <3>1. store.at[c][k].stamp <= store.stamp[k]
      BY <1>0 DEF Sound
    <3>2. CASE k \in K
      BY <2>2, <3>1, <3>2, <1>1
    <3>3. CASE k \notin K
      <4>1. store.at[c][k].cursor <= reader.cursor[c]
        <5>1. CASE c \in C
          <6>1. k \notin Scan(c)
            BY <3>3, <5>1 DEF K
          <6>2. reader'.cursor[c] = PageEnd(c) /\ PageEnd(c) \in Nat
            BY <1>0, <2>2, <5>1, PageEnds
          <6>3. store.at[c][k].cursor <= PageEnd(c)
            BY <2>4, <6>2
          <6> QED
            BY <1>0, <1>1, <6>1, <6>3, PageWhole
        <5>2. CASE c \notin C
          BY <1>1, <2>2, <2>4, <5>2
        <5> QED
          BY <5>1, <5>2
      <4>2. store.at[c][k].cursor \in 1..reader.cursor[c]
        BY <1>1, <2>4, <4>1
      <4>3. reader.known[k] >= store.at[c][k].stamp
        BY <4>2 DEF Reached, NothingMissed
      <4> QED
        BY <2>2, <3>3, <4>3
    <3> QED
      BY <3>2, <3>3
  <2> QED
    BY <2>1, <2>3, <2>4 DEF Reached, NothingMissed
<1>5. ASSUME NEW t \in Tx, LocalStep(t) \/ notify(t) PROVE Reached'
  <2>1. store' = store /\ reader' = reader
    BY <1>5 DEF LocalStep, Local, notify
  <2> QED
    BY <1>2, <2>1
<1>6. CASE UNCHANGED vars
  BY <1>2, <1>6 DEF vars
<1> QED
  BY <1>3, <1>4, <1>5, <1>6, Steps DEF Next

\* What a subscriber has passed it was given: no transaction that commits late
\* publishes at a position that was already read.
THEOREM NoneMissed == Spec => []NothingMissed
<1>1. Init => Reached
  <2> SUFFICES ASSUME Init PROVE Reached
    OBVIOUS
  <2>1. \A c \in Channel : reader.cursor[c] = 0 /\ store.head[c] = 0
    BY DEF Init
  <2> QED
    BY <2>1 DEF Reached, NothingMissed
<1>2. ShapeInv /\ StampsInv /\ Reached /\ [Next]_vars => Reached'
  BY NextReached, DistributionAssumption
<1>3. Reached => NothingMissed
  BY DEF Reached
<1> QED
  BY <1>1, <1>2, <1>3, ShapeHolds, StampsHold, PTL DEF Spec

---------------------------------------------------------------------------
(* Counting changes *)

\* What StampCountsChanges counts, in any sequence of accepted units.
ChangesIn(a, k) == {i \in DOMAIN a : k \in Changed(UnitOf(a[i]))}
NamingIn(a, k) == {i \in DOMAIN a : Names(UnitOf(a[i]), k)}
FirstIn(a, k) == \E i \in NamingIn(a, k) \ ChangesIn(a, k) : \A j \in NamingIn(a, k) : i <= j
Count(a, k) == Cardinality(ChangesIn(a, k)) + IF FirstIn(a, k) THEN 1 ELSE 0

\* A count is a number, and zero when nothing names the record.
LEMMA Counts ==
  ASSUME NEW S, NEW a \in Seq(S), NEW k
  PROVE  /\ IsFiniteSet(ChangesIn(a, k)) /\ Cardinality(ChangesIn(a, k)) \in Nat
         /\ Count(a, k) \in Nat /\ (Count(a, k) = 0 <=> NamingIn(a, k) = {})
         /\ NamingIn(a, k) = {} => Cardinality(ChangesIn(a, k)) = 0
<1> DEFINE C == ChangesIn(a, k)
           N == NamingIn(a, k)
<1>1. DOMAIN a = 1..Len(a) /\ Len(a) \in Nat
  OBVIOUS
<1>2. IsFiniteSet(DOMAIN a)
  BY <1>1, FS_Interval
<1>3. C \subseteq DOMAIN a /\ N \subseteq DOMAIN a /\ C \subseteq N
  BY DEF ChangesIn, NamingIn, Names
<1>4. IsFiniteSet(C) /\ Cardinality(C) \in Nat /\ (Cardinality(C) = 0 <=> C = {})
  BY <1>2, <1>3, FS_Subset, FS_CardinalityType, FS_EmptySet
<1> HIDE DEF C, N
<1>5. N # {} => C # {} \/ FirstIn(a, k)
  <2> SUFFICES ASSUME N # {}, C = {} PROVE FirstIn(a, k)
    OBVIOUS
  <2>1. N \subseteq Nat
    BY <1>1, <1>3
  <2>2. PICK i \in N : \A j \in N : i <= j
    BY <2>1, Least
  <2> QED
    BY <2>2 DEF FirstIn, C, N
<1>6. FirstIn(a, k) => N # {}
  BY DEF FirstIn, N
<1>7. Count(a, k) = Cardinality(C) + IF FirstIn(a, k) THEN 1 ELSE 0
  BY DEF Count, C
<1>8. Count(a, k) \in Nat /\ (Count(a, k) = 0 <=> N = {})
  BY <1>3, <1>4, <1>5, <1>6, <1>7
<1> QED
  BY <1>3, <1>4, <1>8 DEF C, N

\* The count of two sequences.
LEMMA CountConcat ==
  ASSUME NEW S, NEW a \in Seq(S), NEW b \in Seq(S), NEW k
  PROVE  /\ Count(a \o b, k) = IF Count(a, k) = 0 THEN Count(b, k)
                               ELSE Count(a, k) + Cardinality(ChangesIn(b, k))
         /\ Cardinality(ChangesIn(a \o b, k)) =
              Cardinality(ChangesIn(a, k)) + Cardinality(ChangesIn(b, k))
<1> DEFINE c == a \o b
           n == Len(a)
           Shift(X) == {n + i : i \in X}
<1>1. /\ n \in Nat /\ Len(b) \in Nat /\ DOMAIN a = 1..n /\ DOMAIN b = 1..Len(b)
      /\ DOMAIN c = 1 .. n + Len(b)
      /\ \A i \in 1..n : c[i] = a[i]
      /\ \A i \in 1..Len(b) : c[n + i] = b[i]
  <2>1. \A i \in n + 1 .. n + Len(b) : c[i] = b[i - n]
    OBVIOUS
  <2>2. \A i \in 1..Len(b) : n + i \in n + 1 .. n + Len(b) /\ n + i - n = i
    OBVIOUS
  <2>3. \A i \in 1..Len(b) : c[n + i] = b[i]
    <3> HIDE DEF c
    <3> QED
      BY <2>1, <2>2
  <2> QED
    BY <2>3
<1> HIDE DEF c, n
<1>2. ASSUME NEW i \in DOMAIN c
      PROVE  \/ i \in DOMAIN a /\ c[i] = a[i]
             \/ \E j \in DOMAIN b : i = n + j /\ c[i] = b[j]
  <2>1. CASE i <= n
    BY <1>1, <2>1
  <2>2. CASE ~ (i <= n)
    <3>1. i - n \in DOMAIN b /\ i = n + (i - n)
      BY <1>1, <2>2
    <3> QED
      BY <1>1, <3>1
  <2> QED
    BY <2>1, <2>2
<1>3. /\ \A i \in DOMAIN a : i \in DOMAIN c /\ c[i] = a[i] /\ i <= n
      /\ \A j \in DOMAIN b : n + j \in DOMAIN c /\ c[n + j] = b[j] /\ n + j > n
  BY <1>1
<1>4. ChangesIn(c, k) = ChangesIn(a, k) \cup Shift(ChangesIn(b, k))
  BY <1>2, <1>3 DEF ChangesIn
<1>5. NamingIn(c, k) = NamingIn(a, k) \cup Shift(NamingIn(b, k))
  BY <1>2, <1>3 DEF NamingIn
<1>6. ASSUME NEW X \in SUBSET DOMAIN b
      PROVE  IsFiniteSet(Shift(X)) /\ Cardinality(Shift(X)) = Cardinality(X)
  <2> DEFINE f == [i \in X |-> n + i]
  <2>1. IsFiniteSet(DOMAIN b)
    BY <1>1, FS_Interval
  <2>2. IsFiniteSet(X)
    BY <2>1, FS_Subset
  <2>3. f \in [X -> Shift(X)] /\ \A i, j \in X : f[i] = f[j] => i = j
    BY <1>1
  <2>4. \A y \in Shift(X) : \E i \in X : f[i] = y
    OBVIOUS
  <2>5. f \in Bijection(X, Shift(X))
    BY <2>3, <2>4 DEF Bijection, Injection, IsInjective, Surjection
  <2>6. ExistsBijection(X, Shift(X))
    BY <2>5 DEF ExistsBijection
  <2> QED
    BY <2>2, <2>6, FS_Bijection
<1>7. ChangesIn(a, k) \cap Shift(ChangesIn(b, k)) = {}
  BY <1>1 DEF ChangesIn
<1>8. /\ ChangesIn(b, k) \subseteq DOMAIN b /\ IsFiniteSet(ChangesIn(a, k))
      /\ Cardinality(ChangesIn(a, k)) \in Nat /\ Cardinality(ChangesIn(b, k)) \in Nat
  BY Counts DEF ChangesIn
<1>9. Cardinality(ChangesIn(c, k)) = Cardinality(ChangesIn(a, k)) + Cardinality(ChangesIn(b, k))
  <2> DEFINE A == ChangesIn(a, k)
             B == Shift(ChangesIn(b, k))
  <2>1. IsFiniteSet(B) /\ Cardinality(B) = Cardinality(ChangesIn(b, k))
    BY <1>6, <1>8
  <2>2. A \cap B = {} /\ IsFiniteSet(A) /\ ChangesIn(c, k) = A \cup B
    BY <1>4, <1>7, <1>8
  <2> HIDE DEF A, B
  <2>3. Cardinality(A \cup B) = Cardinality(A) + Cardinality(B) - Cardinality(A \cap B)
    BY <2>1, <2>2, FS_Union
  <2>4. Cardinality(A \cap B) = 0
    BY <2>2, FS_EmptySet
  <2>5. Cardinality(A) \in Nat /\ Cardinality(B) \in Nat
    BY <1>8, <2>1 DEF A
  <2> QED
    BY <2>1, <2>2, <2>3, <2>4, <2>5 DEF A
<1>10. /\ NamingIn(a, k) \subseteq DOMAIN a /\ NamingIn(b, k) \subseteq DOMAIN b
       /\ ChangesIn(a, k) \subseteq DOMAIN a
  BY DEF NamingIn, ChangesIn
<1>11. CASE NamingIn(a, k) # {}
  <2> DEFINE N == NamingIn(a, k)
             M == Shift(NamingIn(b, k))
             A == ChangesIn(a, k)
             B == Shift(ChangesIn(b, k))
  <2>1. NamingIn(c, k) = N \cup M /\ ChangesIn(c, k) = A \cup B
    BY <1>4, <1>5
  <2>2. (\A i \in N \cup A : i \in Nat /\ i <= n) /\ (\A i \in M \cup B : i \in Nat /\ n < i)
    BY <1>1, <1>8, <1>10
  <2>3. PICK m \in N : TRUE
    BY <1>11
  <2> HIDE DEF N, M, A, B
  <2>4. (\E i \in (N \cup M) \ (A \cup B) : \A j \in N \cup M : i <= j)
        <=> (\E i \in N \ A : \A j \in N : i <= j)
    <3>1. ASSUME NEW i \in (N \cup M) \ (A \cup B), \A j \in N \cup M : i <= j
          PROVE  i \in N \ A /\ \A j \in N : i <= j
      <4>1. i <= m
        BY <2>3, <3>1
      <4> QED
        BY <1>1, <2>2, <2>3, <3>1, <4>1
    <3>2. ASSUME NEW i \in N \ A, \A j \in N : i <= j
          PROVE  i \in (N \cup M) \ (A \cup B) /\ \A j \in N \cup M : i <= j
      BY <1>1, <2>2, <3>2
    <3> QED
      BY <3>1, <3>2
  <2>5. FirstIn(c, k) <=> FirstIn(a, k)
    BY <2>1, <2>4 DEF FirstIn, N, A
  <2>6. Count(a, k) # 0
    BY <1>11, Counts
  <2>7. Count(c, k) = Count(a, k) + Cardinality(ChangesIn(b, k))
    BY <1>8, <1>9, <2>5 DEF Count
  <2> QED
    BY <1>9, <2>6, <2>7 DEF c
<1>12. CASE NamingIn(a, k) = {}
  <2>1. Count(a, k) = 0 /\ ChangesIn(a, k) = {}
    BY <1>12, Counts DEF NamingIn, ChangesIn, Names
  <2> DEFINE N == NamingIn(b, k)
             B == ChangesIn(b, k)
  <2>2. NamingIn(c, k) = Shift(N) /\ ChangesIn(c, k) = Shift(B)
    BY <1>4, <1>5, <1>12, <2>1
  <2>3. \A i \in N \cup B : i \in Nat
    BY <1>1, <1>8, <1>10
  <2> HIDE DEF N, B
  <2>4. (\E i \in Shift(N) \ Shift(B) : \A j \in Shift(N) : i <= j)
        <=> (\E i \in N \ B : \A j \in N : i <= j)
    <3>1. ASSUME NEW i \in N \ B, \A j \in N : i <= j
          PROVE  n + i \in Shift(N) \ Shift(B) /\ \A j \in Shift(N) : n + i <= j
      BY <1>1, <2>3, <3>1
    <3>2. ASSUME NEW i \in Shift(N) \ Shift(B), \A j \in Shift(N) : i <= j
          PROVE  \E l \in N \ B : \A j \in N : l <= j
      <4>1. PICK l \in N : i = n + l
        BY <3>2
      <4>2. l \notin B
        BY <3>2, <4>1
      <4>3. ASSUME NEW j \in N PROVE l <= j
        <5>1. n + j \in Shift(N)
          OBVIOUS
        <5>2. n + l <= n + j
          BY <3>2, <4>1, <5>1
        <5> QED
          BY <1>1, <2>3, <5>2
      <4> QED
        BY <4>1, <4>2, <4>3
    <3> QED
      BY <3>1, <3>2
  <2>5. FirstIn(c, k) <=> FirstIn(b, k)
    <3> HIDE DEF Shift
    <3> QED
      BY <2>2, <2>4 DEF FirstIn, N, B
  <2>6. Cardinality(ChangesIn(a, k)) = 0
    BY <2>1, FS_EmptySet
  <2>7. Count(c, k) = Count(b, k)
    BY <1>8, <1>9, <2>5, <2>6 DEF Count
  <2> QED
    BY <1>9, <2>1, <2>7 DEF c
<1> QED
  BY <1>11, <1>12

\* The stamp a record has, from the stamp s, after the units a.
Owed(s, a, k) == IF s = 0 THEN Count(a, k) ELSE s + Cardinality(ChangesIn(a, k))
Ensures(x, k) == \E st \in ToSet(x.todo) : st.op = "ensure" /\ st.row = k

\* A transaction holds what its released units name, at the stamp they come
\* to; the unit that runs adds one to what it declares, once.
Counted(s, x) ==
  /\ \A a \in ToSet(x.kept), k \in Key : Names(UnitOf(a), k) => k \in x.savepoint.own
  /\ \A k \in Key \cap x.own : x.savepoint.view.stamp[k] = Owed(s.stamp[k], x.kept, k)
  /\ \A k \in Key \ x.own : x.view.stamp[k] = x.savepoint.view.stamp[k]
  /\ Unfinished(x) =>
       /\ \A k \in Changed(Now(x)) :
            \/ Pending(x, k) /\ x.view.stamp[k] = x.savepoint.view.stamp[k]
            \/ ~ Pending(x, k) /\ k \in x.own /\ x.view.stamp[k] = x.savepoint.view.stamp[k] + 1
       /\ \A k \in Key \ Changed(Now(x)) :
            /\ \/ x.view.stamp[k] = x.savepoint.view.stamp[k]
               \/ Names(Now(x), k) /\ x.savepoint.view.stamp[k] = 0 /\ x.view.stamp[k] = 1
            /\ \/ ~ Names(Now(x), k) \/ Ensures(x, k)
               \/ k \in x.own /\ x.view.stamp[k] # 0

CountsInv ==
  /\ \A t \in Active : Counted(store, tx[t])
  /\ StampCountsChanges

\* Units that do not name a record add nothing to its count.
LEMMA Unnamed ==
  ASSUME NEW S, NEW a \in Seq(S), NEW k, NEW n \in Nat,
         \A e \in ToSet(a) : ~ Names(UnitOf(e), k)
  PROVE  Count(a, k) = 0 /\ Cardinality(ChangesIn(a, k)) = 0 /\ Owed(n, a, k) = n
<1>1. NamingIn(a, k) = {}
  BY DEF NamingIn, ToSet
<1> QED
  BY <1>1, Counts DEF Owed

\* One more unit.
LEMMA OwedAppend ==
  ASSUME NEW S, NEW a \in Seq(S), NEW e \in S, NEW k, NEW n \in Nat
  PROVE  /\ Owed(n, a, k) \in Nat
         /\ Owed(n, Append(a, e), k) =
              IF k \in Changed(UnitOf(e)) THEN Owed(n, a, k) + 1
              ELSE IF Names(UnitOf(e), k) /\ Owed(n, a, k) = 0 THEN 1 ELSE Owed(n, a, k)
<1> DEFINE b == <<e>>
<1>1. b \in Seq(S) /\ Append(a, e) = a \o b /\ DOMAIN b = {1} /\ b[1] = e
  OBVIOUS
<1> HIDE DEF b
<1>2. ChangesIn(b, k) = IF k \in Changed(UnitOf(e)) THEN {1} ELSE {}
  BY <1>1 DEF ChangesIn
<1>3. NamingIn(b, k) = IF Names(UnitOf(e), k) THEN {1} ELSE {}
  BY <1>1 DEF NamingIn
<1>4. Cardinality(ChangesIn(b, k)) = IF k \in Changed(UnitOf(e)) THEN 1 ELSE 0
  BY <1>2, FS_EmptySet, FS_Singleton
<1>5. k \in Changed(UnitOf(e)) => Names(UnitOf(e), k)
  BY DEF Names
<1>6. FirstIn(b, k) <=> Names(UnitOf(e), k) /\ k \notin Changed(UnitOf(e))
  BY <1>2, <1>3 DEF FirstIn
<1>7. Count(b, k) = IF Names(UnitOf(e), k) THEN 1 ELSE 0
  BY <1>4, <1>5, <1>6 DEF Count
<1>8. /\ Count(a \o b, k) = IF Count(a, k) = 0 THEN Count(b, k)
                            ELSE Count(a, k) + Cardinality(ChangesIn(b, k))
      /\ Cardinality(ChangesIn(a \o b, k)) =
           Cardinality(ChangesIn(a, k)) + Cardinality(ChangesIn(b, k))
  BY <1>1, CountConcat
<1>9. Count(a, k) \in Nat /\ Cardinality(ChangesIn(a, k)) \in Nat
  BY Counts
<1>10. Owed(n, a, k) \in Nat
  BY <1>9 DEF Owed
<1>11. CASE n = 0
  <2>1. Owed(n, a, k) = Count(a, k) /\ Owed(n, Append(a, e), k) = Count(a \o b, k)
    BY <1>1, <1>11 DEF Owed
  <2> QED
    BY <1>4, <1>5, <1>7, <1>8, <1>9, <1>10, <2>1
<1>12. CASE n # 0
  <2>1. /\ Owed(n, a, k) = n + Cardinality(ChangesIn(a, k))
        /\ Owed(n, Append(a, e), k) = n + Cardinality(ChangesIn(a \o b, k))
    BY <1>1, <1>12 DEF Owed
  <2> QED
    BY <1>4, <1>8, <1>9, <1>10, <1>12, <2>1
<1> QED
  BY <1>11, <1>12

\* A transaction begins counted.
LEMMA BegunCounted ==
  ASSUME DistributionAssumption, NEW w \in Work, store \in Database
  PROVE  Counted(store, Begun(w))
<1> DEFINE y == Begun(w)
<1>1. /\ y.work = w /\ y.unit = 1 /\ y.todo = Todo(w, 1) /\ y.kept = <<>>
      /\ y.view = store /\ y.own = {} /\ y.savepoint.view = store
  BY BegunFields
<1> HIDE DEF y
<1>2. Unfinished(y) => Covers(y.todo, y.work, Now(y))
  BY <1>1, TodoBegins DEF Unfinished, Now
<1>3. ToSet(y.kept) = {}
  BY <1>1 DEF ToSet
<1>4. Counted(store, y)
  BY <1>1, <1>2, <1>3 DEF Counted, Covers, Pending, Ensures
<1> QED
  BY <1>4 DEF y

\* A refusal keeps the counts.
LEMMA RefusedCounted ==
  ASSUME DistributionAssumption, NEW x, Shaped(x), Unfinished(x), NEW cause \in Cause, NEW s,
         x.savepoint.own \subseteq x.own, Counted(s, x)
  PROVE  Counted(s, Refused(x, cause))
<1> DEFINE y == Refused(x, cause)
           b == x.savepoint
<1>1. /\ y.view = b.view /\ y.own = b.own /\ y.work = x.work /\ y.work \in Work
      /\ y.todo = Todo(y.work, y.unit) /\ y.savepoint = b /\ y.kept = x.kept
  <2>1. /\ y.view = b.view /\ y.own = b.own /\ y.work = x.work /\ y.unit = x.unit + 1
        /\ y.todo = Todo(x.work, x.unit + 1) /\ y.loaded = {} /\ y.savepoint = b
        /\ y.results = x.results /\ y.kept = x.kept /\ Shaped(y)
    BY RefusedFields DEF Unfinished
  <2> HIDE DEF y, b
  <2>2. y.work \in Work
    BY <2>1 DEF Shaped, Running
  <2> QED
    BY <2>1, <2>2
<1> HIDE DEF y
<1>2. Unfinished(y) => Covers(y.todo, y.work, Now(y))
  BY <1>1, TodoBegins DEF Unfinished, Now
<1>3. Counted(s, y)
  BY <1>1, <1>2 DEF Counted, Covers, Pending, Ensures
<1> QED
  BY <1>3 DEF y

\* The readback keeps them.
LEMMA LoadedCounted ==
  ASSUME DistributionAssumption, NEW x, Shaped(x), x.todo # <<>>, Head(x.todo).op = "load",
         NEW s, Counted(s, x)
  PROVE  Counted(s, Loaded(x))
<1> DEFINE y == Loaded(x)
           st == Head(x.todo)
<1>1. /\ y.view = x.view /\ y.own = x.own /\ y.savepoint = x.savepoint /\ y.work = x.work
      /\ y.unit = x.unit /\ y.todo = Tail(x.todo) /\ y.kept = x.kept /\ x.todo \in Seq(Stmt)
  BY LoadedFields DEF Shaped, Running
<1>2. ToSet(x.todo) = {st} \cup ToSet(y.todo)
  BY <1>1, TailElements
<1>3. st.op = "load"
  OBVIOUS
<1> HIDE DEF y, st
<1>4. \A k : (Pending(x, k) <=> Pending(y, k)) /\ (Ensures(x, k) <=> Ensures(y, k))
  BY <1>2, <1>3 DEF Pending, Ensures
<1>5. Now(y) = Now(x) /\ (Unfinished(y) <=> Unfinished(x))
  BY <1>1 DEF Now, Unfinished
<1>6. Counted(s, y)
  BY <1>1, <1>4, <1>5 DEF Counted
<1> QED
  BY <1>6 DEF y

\* So does the release of a unit.
LEMMA ReleasedCounted ==
  ASSUME DistributionAssumption, NEW s \in Database, NEW x, Shaped(x), Unfinished(x), x.todo = <<>>,
         x.savepoint.own \subseteq x.own, Counted(s, x)
  PROVE  Counted(s, Released(x))
<1> DEFINE y == Released(x)
           b == x.savepoint
           e == Change(x.work, x.unit)
           S == Work \X Nat
<1>1. /\ y.view = x.view /\ y.own = x.own /\ y.work = x.work /\ y.work \in Work
      /\ y.todo = Todo(y.work, y.unit) /\ y.savepoint.view = x.view /\ y.savepoint.own = x.own
      /\ y.kept = Append(x.kept, e)
  <2>1. x.unit \in DOMAIN x.work.units /\ x.work \in Work
    BY DEF Unfinished, Shaped, Running
  <2>2. /\ y.kept = Append(x.kept, e) /\ y.unit = x.unit + 1 /\ y.todo = Todo(x.work, x.unit + 1)
        /\ y.savepoint = [view |-> x.view, own |-> x.own, touched |-> x.touched]
        /\ y.view = x.view /\ y.own = x.own /\ y.work = x.work
    BY <2>1, ReleasedFields
  <2> HIDE DEF y
  <2> QED
    BY <2>1, <2>2
<1>2. x.kept \in Seq(S) /\ e \in S /\ UnitOf(e) = Now(x)
  BY DEF Shaped, Running, Change, UnitOf, Now
<1>3. ToSet(y.kept) = ToSet(x.kept) \cup {e}
  <2> HIDE DEF e, y, S
  <2>1. x.kept \o <<e>> = Append(x.kept, e) /\ <<e>> \in Seq(S) /\ ToSet(<<e>>) = {e}
    BY <1>2 DEF ToSet
  <2>2. x.kept \in Seq(S)
    BY <1>2
  <2>3. ToSet(x.kept \o <<e>>) = ToSet(x.kept) \cup ToSet(<<e>>)
    <3> DEFINE q == x.kept
               f == <<e>>
    <3>1. q \in Seq(S) /\ f \in Seq(S)
      BY <2>1, <2>2
    <3> HIDE DEF q, f
    <3>2. ToSet(q \o f) = ToSet(q) \cup ToSet(f)
      BY <3>1, ConcatElements
    <3> QED
      BY <3>2 DEF q, f
  <2> QED
    BY <1>1, <2>1, <2>3
<1>4. /\ \A k \in Key : s.stamp[k] \in Nat /\ x.view.stamp[k] \in Nat /\ b.view.stamp[k] \in Nat
  BY Numbers DEF Shaped, Running, Mark
<1>5. Unfinished(y) => Covers(y.todo, y.work, Now(y))
  <2> HIDE DEF y
  <2> QED
    BY <1>1, TodoBegins DEF Unfinished, Now
<1>6. ToSet(x.todo) = {}
  BY DEF ToSet
<1>7. \A k \in Key : ~ Pending(x, k) /\ ~ Ensures(x, k)
  BY <1>6 DEF Pending, Ensures
<1>8. Changed(Now(x)) \subseteq Key
  BY UnitOfWork
<1> HIDE DEF y, e, S
<1>9. \A k \in Key : Names(Now(x), k) => k \in x.own
  <2> SUFFICES ASSUME NEW k \in Key, Names(Now(x), k) PROVE k \in x.own
    OBVIOUS
  <2>1. CASE k \in Changed(Now(x))
    BY <1>7, <2>1 DEF Counted
  <2>2. CASE k \notin Changed(Now(x))
    BY <1>7, <2>2 DEF Counted
  <2> QED
    BY <2>1, <2>2
<1>10. \A a \in ToSet(y.kept), k \in Key : Names(UnitOf(a), k) => k \in y.savepoint.own
  <2>1. \A a \in ToSet(x.kept), k \in Key : Names(UnitOf(a), k) => k \in x.own
    BY DEF Counted
  <2> QED
    BY <1>1, <1>2, <1>3, <1>9, <2>1
<1>11. ASSUME NEW k \in Key \cap x.own
       PROVE  x.view.stamp[k] = Owed(s.stamp[k], y.kept, k)
  <2> DEFINE n == s.stamp[k]
             o == Owed(n, x.kept, k)
  <2>1. /\ o \in Nat
        /\ Owed(n, Append(x.kept, e), k) =
             IF k \in Changed(UnitOf(e)) THEN o + 1
             ELSE IF Names(UnitOf(e), k) /\ o = 0 THEN 1 ELSE o
    BY <1>2, <1>4, OwedAppend
  <2>2. b.view.stamp[k] = o
    BY DEF Counted
  <2> HIDE DEF o, n
  <2>3. CASE k \in Changed(Now(x))
    <3>1. x.view.stamp[k] = b.view.stamp[k] + 1
      BY <1>7, <2>3 DEF Counted
    <3> QED
      BY <1>1, <1>2, <2>1, <2>2, <2>3, <3>1 DEF n
  <2>4. CASE k \notin Changed(Now(x))
    <3>1. \/ x.view.stamp[k] = b.view.stamp[k]
          \/ Names(Now(x), k) /\ b.view.stamp[k] = 0 /\ x.view.stamp[k] = 1
      BY <2>4 DEF Counted
    <3>2. Names(Now(x), k) => x.view.stamp[k] # 0
      BY <1>7, <2>4 DEF Counted
    <3>3. x.view.stamp[k] = IF Names(Now(x), k) /\ o = 0 THEN 1 ELSE o
      BY <2>2, <3>1, <3>2
    <3> QED
      BY <1>1, <1>2, <2>1, <2>4, <3>3 DEF n
  <2> QED
    BY <2>3, <2>4
<1>12. Counted(s, y)
  BY <1>1, <1>5, <1>10, <1>11 DEF Counted, Covers, Pending, Ensures
<1> QED
  BY <1>12 DEF y

\* A write keeps the count: an advance adds one, an ensure makes it one.
LEMMA ExecutedCounted ==
  ASSUME DistributionAssumption, store \in Database, NEW x, Shaped(x), x.todo # <<>>,
         Head(x.todo).op \in Writes, Follows(store, x.view, x.own), Counted(store, x),
         x.savepoint.own \subseteq x.own,
         Head(x.todo).row \in x.own \/ Current(store, x.view, Head(x.todo).row)
  PROVE  Counted(store, Executed(x))
<1> DEFINE st == Head(x.todo)
           y == Executed(x)
           b == x.savepoint
           u == Now(x)
<1>1. Differs(y.view, x.view, st)
  BY ExecutedDiffers
<1>2. /\ Legal(x.work, u, st) /\ Unfinished(x)
      /\ y.own = x.own \cup {st.row} /\ y.todo = Tail(x.todo) /\ y.kept = x.kept
      /\ y.work = x.work /\ y.unit = x.unit /\ y.savepoint = b
      /\ x.view \in Database /\ y.view \in Database /\ b.view \in Database
      /\ x.todo \in Seq(Stmt) /\ x.kept \in Seq(Work \X Nat)
  BY ExecutedFields DEF Shaped, Running, Now, Unfinished, Mark
<1>3. ToSet(x.todo) = {st} \cup ToSet(y.todo)
  BY <1>2, TailElements
<1>4. \A q \in ToSet(y.todo) : Before(st, q) /\ q \in Stmt
  <2>1. \A q \in ToSet(Tail(x.todo)) : Before(st, q)
    BY <1>2, TailInOrder DEF Shaped
  <2>2. Tail(x.todo) \in Seq(Stmt)
    BY <1>2, TailElements
  <2>3. \A q \in ToSet(Tail(x.todo)) : q \in Stmt
    BY <2>2 DEF ToSet
  <2> QED
    BY <1>2, <2>1, <2>3
<1>5. Changed(u) \subseteq Key
  BY <1>2, UnitOfWork
<1>6. Now(y) = u /\ Unfinished(y)
  BY <1>2 DEF Now, Unfinished
<1>7. /\ st.row \in x.own \/ Current(store, x.view, st.row)
      /\ Follows(store, x.view, x.own) /\ Counted(store, x) /\ b.own \subseteq x.own
  OBVIOUS
<1> HIDE DEF st, y, b, u
<1>8. \A k \in Key : /\ x.view.stamp[k] \in Nat /\ y.view.stamp[k] \in Nat /\ store.stamp[k] \in Nat
                     /\ b.view.stamp[k] \in Nat
  BY <1>2, Numbers
<1>9. /\ \A a \in ToSet(x.kept), k \in Key : Names(UnitOf(a), k) => k \in b.own
      /\ \A k \in Key \cap x.own : b.view.stamp[k] = Owed(store.stamp[k], x.kept, k)
      /\ \A k \in Key \ x.own : x.view.stamp[k] = b.view.stamp[k]
  BY DEF Counted, b
<1>10. ASSUME NEW k \in Key, k = st.row, k \notin x.own
       PROVE  b.view.stamp[k] = Owed(store.stamp[k], x.kept, k)
  <2>1. x.view.stamp[k] = store.stamp[k]
    BY <1>7, <1>10 DEF Follows
  <2>2. \A a \in ToSet(x.kept) : ~ Names(UnitOf(a), k)
    BY <1>7, <1>9, <1>10
  <2>3. Owed(store.stamp[k], x.kept, k) = store.stamp[k]
    BY <1>2, <1>8, <2>2, Unnamed
  <2> QED
    BY <1>9, <1>10, <2>1, <2>3
<1>11. \A k \in Key \cap y.own : b.view.stamp[k] = Owed(store.stamp[k], x.kept, k)
  BY <1>2, <1>9, <1>10
<1>12. \A k \in Key \ y.own : y.view.stamp[k] = b.view.stamp[k]
  BY <1>1, <1>2, <1>9 DEF Differs
<1>13. ASSUME NEW k \in Changed(u)
       PROVE  \/ Pending(y, k) /\ y.view.stamp[k] = b.view.stamp[k]
              \/ ~ Pending(y, k) /\ k \in y.own /\ y.view.stamp[k] = b.view.stamp[k] + 1
  <2>0. \/ Pending(x, k) /\ x.view.stamp[k] = b.view.stamp[k]
        \/ ~ Pending(x, k) /\ k \in x.own /\ x.view.stamp[k] = b.view.stamp[k] + 1
    BY <1>2, <1>7, <1>13 DEF Counted, u, b
  <2>1. CASE st.op = "advance" /\ st.row = k
    <3>1. Pending(x, k)
      BY <1>3, <2>1 DEF Pending
    <3>2. ~ Pending(y, k)
      <4> SUFFICES ASSUME NEW q \in ToSet(y.todo), q.op = "advance", q.row = k PROVE FALSE
        BY DEF Pending
      <4>1. Rank(st) = 1 /\ Rank(q) = 1
        BY <2>1 DEF Rank
      <4>2. k < k
        BY <1>4, <2>1, <4>1 DEF Before
      <4>3. k \in Nat
        BY <1>5, <1>13 DEF Key
      <4> QED
        BY <4>2, <4>3
    <3>3. y.view.stamp[k] = x.view.stamp[k] + 1
      BY <1>1, <2>1 DEF Differs
    <3> QED
      BY <1>2, <2>0, <2>1, <3>1, <3>2, <3>3
  <2>2. CASE ~ (st.op = "advance" /\ st.row = k)
    <3>1. Pending(y, k) <=> Pending(x, k)
      BY <1>3, <2>2 DEF Pending
    <3>2. st.row # k
      BY <1>1, <1>2, <1>5, <1>13, <2>2 DEF Differs, Legal
    <3>3. y.view.stamp[k] = x.view.stamp[k]
      BY <1>1, <1>5, <1>13, <3>2 DEF Differs
    <3> QED
      BY <1>2, <2>0, <3>1, <3>3
  <2> QED
    BY <2>1, <2>2
<1>14. ASSUME NEW k \in Key \ Changed(u)
       PROVE  /\ \/ y.view.stamp[k] = b.view.stamp[k]
                 \/ Names(u, k) /\ b.view.stamp[k] = 0 /\ y.view.stamp[k] = 1
              /\ ~ Names(u, k) \/ Ensures(y, k) \/ (k \in y.own /\ y.view.stamp[k] # 0)
  <2>0. /\ \/ x.view.stamp[k] = b.view.stamp[k]
           \/ Names(u, k) /\ b.view.stamp[k] = 0 /\ x.view.stamp[k] = 1
        /\ ~ Names(u, k) \/ Ensures(x, k) \/ (k \in x.own /\ x.view.stamp[k] # 0)
    BY <1>2, <1>7, <1>14 DEF Counted, u, b
  <2>1. CASE st.row = k
    <3>1. st.op = "ensure" /\ Names(u, k)
      BY <1>1, <1>2, <1>14, <2>1 DEF Differs, Legal
    <3>2. y.view.stamp[k] = IF x.view.stamp[k] = 0 THEN 1 ELSE x.view.stamp[k]
      BY <1>1, <2>1, <3>1 DEF Differs
    <3> QED
      BY <1>2, <1>8, <2>0, <2>1, <3>1, <3>2
  <2>2. CASE st.row # k
    <3>1. y.view.stamp[k] = x.view.stamp[k]
      BY <1>1, <1>14, <2>2 DEF Differs
    <3>2. Ensures(x, k) => Ensures(y, k)
      BY <1>3, <2>2 DEF Ensures
    <3> QED
      BY <1>2, <2>0, <3>1, <3>2
  <2> QED
    BY <2>1, <2>2
<1>15. Counted(store, y)
  BY <1>2, <1>6, <1>9, <1>11, <1>12, <1>13, <1>14 DEF Counted
<1> QED
  BY <1>15 DEF y

\* A commit's stamps count what it accepted too.
LEMMA CommitCounts ==
  ASSUME NEW s \in Database, NEW x, Shaped(x), ~ Unfinished(x), Since(x), Counted(s, x),
         NEW d, Lands(d, s, x.view, x.own), accepted \in Seq(Work \X Nat),
         \A k \in Key : s.stamp[k] = Count(accepted, k)
  PROVE  \A k \in Key : d.stamp[k] = Count(accepted \o x.kept, k)
<1> SUFFICES ASSUME NEW k \in Key PROVE d.stamp[k] = Count(accepted \o x.kept, k)
  OBVIOUS
<1> DEFINE S == Work \X Nat
<1>1. x.kept \in Seq(S) /\ accepted \in Seq(S) /\ s.stamp[k] \in Nat
  BY Numbers DEF Shaped, Running
<1>2. x.view = x.savepoint.view /\ x.own = x.savepoint.own
  BY DEF Since
<1> HIDE DEF S
<1>3. Count(accepted \o x.kept, k) = Owed(s.stamp[k], x.kept, k)
  <2>1. Count(accepted \o x.kept, k) =
          IF Count(accepted, k) = 0 THEN Count(x.kept, k)
          ELSE Count(accepted, k) + Cardinality(ChangesIn(x.kept, k))
    BY <1>1, CountConcat
  <2> QED
    BY <2>1 DEF Owed
<1>4. CASE k \in x.own
  BY <1>2, <1>3, <1>4 DEF Lands, Counted
<1>5. CASE k \notin x.own
  <2>1. \A a \in ToSet(x.kept) : ~ Names(UnitOf(a), k)
    BY <1>2, <1>5 DEF Counted
  <2>2. Owed(s.stamp[k], x.kept, k) = s.stamp[k]
    BY <1>1, <2>1, Unnamed
  <2> QED
    BY <1>3, <1>5, <2>2 DEF Lands
<1> QED
  BY <1>4, <1>5

\* The property, in the terms of these proofs.
LEMMA CountsMeans == StampCountsChanges <=> \A k \in Key : store.stamp[k] = Count(accepted, k)
  BY DEF StampCountsChanges, Count, ChangesIn, NamingIn, FirstIn, ChangesOf, Naming, PublishedFirst

\* Every step keeps the counts.
LEMMA NextCounts ==
  ASSUME DistributionAssumption, ShapeInv, LocksInv, StampsInv, CountsInv, [Next]_vars
  PROVE  CountsInv'
<1>0. /\ store \in Database /\ tx \in [Tx -> {NoTx} \cup Committed \cup Running]
      /\ accepted \in Seq(Work \X Nat)
      /\ \A t \in Active : /\ Shaped(tx[t]) /\ tx[t] \in Running /\ Consistent(store, tx[t])
                           /\ tx[t].savepoint.own \subseteq tx[t].own /\ Counted(store, tx[t])
                           /\ tx[t].work \in Work
  BY DEF ShapeInv, Shaped, StampsInv, LocksInv, Locked, CountsInv, Running
<1>1. ASSUME NEW t \in Tx, LocalStep(t) PROVE CountsInv'
  <2> DEFINE x == tx[t]
  <2>1. ASSUME NEW y, Local(t, y), y = NoTx \/ Counted(store, y)
        PROVE  CountsInv'
    <3>1. /\ store' = store /\ accepted' = accepted /\ tx'[t] = y
          /\ \A u \in Tx : u # t => tx'[u] = tx[u]
      BY <2>1, LocalResult
    <3>2. ASSUME NEW u \in Active' PROVE Counted(store', tx'[u])
      <4>1. CASE u = t
        BY <2>1, <3>1, <3>2, <4>1 DEF Active, NoTx
      <4>2. CASE u # t
        <5>1. u \in Active /\ tx'[u] = tx[u]
          BY <3>1, <3>2, <4>2 DEF Active
        <5> QED
          BY <1>0, <3>1, <5>1
      <4> QED
        BY <4>1, <4>2
    <3>3. StampCountsChanges'
      BY <3>1 DEF CountsInv, StampCountsChanges, ChangesOf, Naming, PublishedFirst
    <3> QED
      BY <3>2, <3>3 DEF CountsInv
  <2>2. ASSUME NEW w \in Work, Local(t, Begun(w)) PROVE CountsInv'
    BY <1>0, <2>1, <2>2, BegunCounted
  <2>4. CASE Local(t, NoTx)
    BY <2>1, <2>4
  <2>5. CASE /\ t \in Active /\ x.todo # <<>> /\ Head(x.todo).op \in Writes
             /\ ~ Outdated(t) /\ Local(t, Executed(x))
    <3>1. Head(x.todo).row \in x.own \/ Current(store, x.view, Head(x.todo).row)
      BY <2>5 DEF Outdated, NextStatement, Current
    <3>2. Follows(store, x.view, x.own)
      BY <1>0, <2>5 DEF Consistent
    <3>3. Counted(store, Executed(x))
      BY <1>0, <2>5, <3>1, <3>2, ExecutedCounted
    <3> QED
      BY <2>1, <2>5, <3>3
  <2>6. CASE /\ t \in Active /\ x.todo # <<>> /\ Head(x.todo).op = "load" /\ Local(t, Loaded(x))
    <3>1. Counted(store, Loaded(x))
      BY <1>0, <2>6, LoadedCounted
    <3> QED
      BY <2>1, <2>6, <3>1
  <2>7. CASE /\ t \in Active /\ x.todo = <<>> /\ x.unit <= Len(x.work.units)
             /\ Local(t, Released(x))
    <3>1. Unfinished(x)
      BY <1>0, <2>7, Units DEF Running, Unfinished
    <3>2. Counted(store, Released(x))
      BY <1>0, <2>7, <3>1, ReleasedCounted
    <3> QED
      BY <2>1, <2>7, <3>2
  <2>8. ASSUME t \in Active, x.todo # <<>>, NEW cause \in Cause, Local(t, Refused(x, cause))
        PROVE  CountsInv'
    <3>1. Unfinished(x)
      BY <1>0, <2>8 DEF Shaped, Unfinished
    <3>2. Counted(store, Refused(x, cause))
      BY <1>0, <2>8, <3>1, RefusedCounted
    <3> QED
      BY <2>1, <2>8, <3>2
  <2> QED
    BY <1>0, <1>1, <2>2, <2>4, <2>5, <2>6, <2>7, <2>8 DEF LocalStep
<1>2. ASSUME NEW t \in Tx, commit(t) PROVE CountsInv'
  <2> DEFINE x == tx[t]
  <2>1. t \in Active /\ Shaped(x) /\ x \in Running /\ Since(x) /\ Counted(store, x)
    BY <1>0, <1>2 DEF commit, Consistent
  <2>2. /\ store' = Merged(x) /\ accepted' = accepted \o x.kept
        /\ tx' = [tx EXCEPT ![t] = [phase |-> "committed", work |-> x.work, touched |-> x.touched]]
        /\ x.unit > Len(x.work.units)
    BY <1>2 DEF commit
  <2>3. ~ Unfinished(x)
    BY <1>0, <2>1, <2>2, Units DEF Unfinished, Running
  <2>4. Lands(store', store, x.view, x.own)
    BY <2>1, <2>2, CommitLands
  <2>5. \A k \in Key : store'.stamp[k] = Count(accepted', k)
    <3>1. \A k \in Key : store.stamp[k] = Count(accepted, k)
      BY CountsMeans DEF CountsInv
    <3> HIDE DEF x
    <3>2. \A k \in Key : store'.stamp[k] = Count(accepted \o x.kept, k)
      BY <1>0, <2>1, <2>3, <2>4, <3>1, CommitCounts
    <3> QED
      BY <2>2, <3>2
  <2>6. StampCountsChanges'
    BY <2>5 DEF StampCountsChanges, Count, ChangesIn, NamingIn, FirstIn, ChangesOf, Naming, PublishedFirst
  <2>7. ASSUME NEW u \in Active' PROVE Counted(store', tx'[u])
    <3>1. u \in Active /\ u # t /\ tx'[u] = tx[u]
      BY <1>0, <2>2, <2>7 DEF Active
    <3>2. tx[u].own \cap x.own = {}
      BY <2>1, <3>1, Fresh
    <3>3. \A k \in Key \cap tx[u].own : store'.stamp[k] = store.stamp[k]
      BY <2>4, <3>2 DEF Lands
    <3>4. Counted(store, tx[u])
      BY <1>0, <3>1
    <3> QED
      BY <3>1, <3>3, <3>4 DEF Counted
  <2> QED
    BY <2>6, <2>7 DEF CountsInv
<1>3. ASSUME NEW t \in Tx, notify(t) PROVE CountsInv'
  <2>1. tx' = [tx EXCEPT ![t] = NoTx] /\ store' = store /\ accepted' = accepted
    BY <1>3 DEF notify
  <2>2. \A u \in Active' : u \in Active /\ tx'[u] = tx[u]
    BY <1>0, <2>1 DEF Active, NoTx
  <2>3. \A u \in Active' : Counted(store', tx'[u])
    BY <1>0, <2>1, <2>2
  <2>4. StampCountsChanges'
    BY <2>1 DEF CountsInv, StampCountsChanges, ChangesOf, Naming, PublishedFirst
  <2> QED
    BY <2>3, <2>4 DEF CountsInv
<1>4. ASSUME UNCHANGED <<store, tx, accepted>> PROVE CountsInv'
  <2>1. StampCountsChanges'
    BY <1>4 DEF CountsInv, StampCountsChanges, ChangesOf, Naming, PublishedFirst
  <2>2. \A u \in Active' : Counted(store', tx'[u])
    BY <1>0, <1>4 DEF Active
  <2> QED
    BY <2>1, <2>2 DEF CountsInv
<1> QED
  BY <1>1, <1>2, <1>3, <1>4, Steps DEF Next, process_pull, vars

\* What a running transaction has counted (Counted), and the committed stamps.
THEOREM CountsHold == Spec => []CountsInv
<1>1. Init => CountsInv
  <2> SUFFICES ASSUME Init PROVE CountsInv
    OBVIOUS
  <2>1. Active = {}
    BY DEF Init, Active, NoTx
  <2>2. \A k \in Key : store.stamp[k] = Count(accepted, k)
    <3>1. accepted \in Seq({}) /\ \A k \in Key : NamingIn(accepted, k) = {}
      BY DEF Init, NamingIn
    <3>2. \A k \in Key : Count(accepted, k) = 0
      BY <3>1, Counts
    <3> QED
      BY <3>2 DEF Init
  <2> QED
    BY <2>1, <2>2, CountsMeans DEF CountsInv
<1>2. ShapeInv /\ LocksInv /\ StampsInv /\ CountsInv /\ [Next]_vars => CountsInv'
  BY NextCounts, DistributionAssumption
<1> QED
  BY <1>1, <1>2, ShapeHolds, LocksHold, StampsHold, PTL DEF Spec

\* Stamps count the accepted changes of a record, and its first publication
\* when it had none: no rejected mutation, retried transaction or further
\* publication moves them, and no accepted change is left out.
THEOREM StampsCount == Spec => []StampCountsChanges
<1>1. CountsInv => StampCountsChanges
  BY DEF CountsInv
<1> QED
  BY <1>1, CountsHold, PTL

---------------------------------------------------------------------------
(* Waiting for stamps.  What a transaction holds comes before what it will *)
(* still advance, so who waits for a stamp holds only smaller ones than    *)
(* the one it waits for.                                                   *)

\* The keys a transaction holds are named by the units it has kept, or by the
\* unit that runs, and come before the ones that unit has still to advance.
Ascending(x) ==
  /\ \A a \in ToSet(x.kept) : a[2] < x.unit
  /\ \A k \in Key \cap x.savepoint.own : \E a \in ToSet(x.kept) : Names(UnitOf(a), k)
  /\ \A k \in Key \cap x.own :
       k \in x.savepoint.own \/ (Unfinished(x) /\ Names(Now(x), k))
  /\ \A st \in ToSet(x.todo) : st.op = "advance" =>
       \A k \in Key \cap x.own : k < st.row \/ st.row \in x.own

OrderInv == OrderedWork => \A t \in Active : Ascending(tx[t])

\* At the first statement of a unit.
LEMMA AscendingUnit ==
  ASSUME DistributionAssumption, OrderedWork, NEW y, y.work \in Work, y.unit \in Nat,
         y.todo = Todo(y.work, y.unit), y.own = y.savepoint.own,
         \A a \in ToSet(y.kept) : /\ a[1] = y.work /\ a[2] \in DOMAIN y.work.units
                                  /\ a[2] < y.unit,
         \A k \in Key \cap y.own : \E a \in ToSet(y.kept) : Names(UnitOf(a), k),
         \A a \in ToSet(y.kept), k \in Key : Names(UnitOf(a), k) => k \in y.own
  PROVE  Ascending(y)
<1>1. ASSUME NEW st \in ToSet(y.todo), st.op = "advance", NEW k \in Key \cap y.own
      PROVE  k < st.row \/ st.row \in y.own
  <2>1. y.unit \in DOMAIN y.work.units
    <3>1. y.todo # <<>>
      BY <1>1 DEF ToSet
    <3> QED
      BY <3>1, TodoShape
  <2>2. st.row \in Changed(Now(y)) /\ st.row \in Key
    BY <1>1, TodoShape DEF Legal, Now
  <2>3. PICK a \in ToSet(y.kept) : Names(UnitOf(a), k)
    BY <1>1
  <2>4. UnitOf(a) = y.work.units[a[2]] /\ a[2] \in DOMAIN y.work.units /\ a[2] < y.unit
    BY DEF UnitOf
  <2>5. k < st.row \/ Names(UnitOf(a), st.row)
    BY <1>1, <2>1, <2>2, <2>3, <2>4 DEF OrderedWork, Now
  <2> QED
    BY <2>2, <2>5
<1> QED
  BY <1>1 DEF Ascending

\* A transaction begins in order.
LEMMA BegunAscends ==
  ASSUME DistributionAssumption, OrderedWork, NEW w \in Work, store \in Database
  PROVE  Ascending(Begun(w))
<1> DEFINE y == Begun(w)
<1>1. /\ y.work = w /\ y.unit = 1 /\ y.todo = Todo(w, 1) /\ y.kept = <<>>
      /\ y.own = {} /\ y.savepoint.own = {}
  BY BegunFields
<1> HIDE DEF y
<1>2. ToSet(y.kept) = {}
  BY <1>1 DEF ToSet
<1>3. /\ y.unit \in Nat /\ y.work \in Work /\ y.todo = Todo(y.work, y.unit)
      /\ y.own = y.savepoint.own /\ Key \cap y.own = {}
  BY <1>1
<1>4. Ascending(y)
  BY <1>2, <1>3, AscendingUnit
<1> QED
  BY <1>4 DEF y

\* A refusal keeps the order.
LEMMA RefusedAscends ==
  ASSUME DistributionAssumption, OrderedWork, NEW x, Shaped(x), Unfinished(x), NEW cause \in Cause,
         NEW s, Counted(s, x), Ascending(x)
  PROVE  Ascending(Refused(x, cause))
<1> DEFINE y == Refused(x, cause)
<1>1. /\ y.own = x.savepoint.own /\ y.work = x.work /\ y.work \in Work /\ y.unit = x.unit + 1
      /\ y.todo = Todo(y.work, y.unit) /\ y.savepoint = x.savepoint /\ y.kept = x.kept
  <2>1. x.unit \in DOMAIN x.work.units /\ x.work \in Work
    BY DEF Unfinished, Shaped, Running
  <2>2. /\ y.own = x.savepoint.own /\ y.work = x.work /\ y.unit = x.unit + 1
        /\ y.todo = Todo(x.work, x.unit + 1) /\ y.savepoint = x.savepoint /\ y.kept = x.kept
    BY <2>1, RefusedFields
  <2> HIDE DEF y
  <2> QED
    BY <2>1, <2>2
<1>2. x.unit \in Nat /\ y.unit \in Nat
  BY <1>1 DEF Shaped, Running
<1>3. \A a \in ToSet(x.kept) : a[1] = x.work /\ a[2] \in DOMAIN x.work.units
  BY DEF Shaped
<1>4. \A a \in ToSet(x.kept) : a[2] < x.unit + 1
  <2>1. DOMAIN x.work.units = 1..Len(x.work.units) /\ Len(x.work.units) \in Nat
    BY Units DEF Shaped, Running
  <2> QED
    BY <1>2, <1>3, <2>1 DEF Ascending
<1> HIDE DEF y
<1>5. Ascending(y)
  BY <1>1, <1>2, <1>3, <1>4, AscendingUnit DEF Ascending, Counted
<1> QED
  BY <1>5 DEF y

\* So does the readback.
LEMMA LoadedAscends ==
  ASSUME DistributionAssumption, NEW x, Shaped(x), x.todo # <<>>, Head(x.todo).op = "load",
         Ascending(x)
  PROVE  Ascending(Loaded(x))
<1> DEFINE y == Loaded(x)
<1>1. /\ y.own = x.own /\ y.savepoint = x.savepoint /\ y.work = x.work
      /\ y.unit = x.unit /\ y.todo = Tail(x.todo) /\ y.kept = x.kept /\ x.todo \in Seq(Stmt)
  BY LoadedFields DEF Shaped, Running
<1> HIDE DEF y
<1>2. ToSet(y.todo) \subseteq ToSet(x.todo)
  BY <1>1, TailElements
<1>3. Now(y) = Now(x) /\ (Unfinished(y) <=> Unfinished(x))
  BY <1>1 DEF Now, Unfinished
<1>4. Ascending(y)
  BY <1>1, <1>2, <1>3 DEF Ascending
<1> QED
  BY <1>4 DEF y

\* So does the release of a unit.
LEMMA ReleasedAscends ==
  ASSUME DistributionAssumption, OrderedWork, NEW x, Shaped(x), Unfinished(x), NEW s,
         Counted(s, Released(x)), Ascending(x), x.savepoint.own \subseteq x.own
  PROVE  Ascending(Released(x))
<1> DEFINE y == Released(x)
           e == Change(x.work, x.unit)
           S == Work \X Nat
<1>1. /\ y.own = x.own /\ y.work = x.work /\ y.work \in Work /\ y.unit = x.unit + 1
      /\ y.todo = Todo(y.work, y.unit) /\ y.savepoint.own = x.own /\ y.kept = Append(x.kept, e)
      /\ Shaped(y)
  <2>1. x.unit \in DOMAIN x.work.units /\ x.work \in Work
    BY DEF Unfinished, Shaped, Running
  <2>2. /\ y.own = x.own /\ y.work = x.work /\ y.unit = x.unit + 1 /\ y.kept = Append(x.kept, e)
        /\ y.todo = Todo(x.work, x.unit + 1)
        /\ y.savepoint = [view |-> x.view, own |-> x.own, touched |-> x.touched]
        /\ Shaped(y)
    BY <2>1, ReleasedFields
  <2> HIDE DEF y, e
  <2> QED
    BY <2>1, <2>2
<1>2. /\ x.unit \in Nat /\ x.kept \in Seq(S) /\ e \in S /\ UnitOf(e) = Now(x) /\ e[2] = x.unit
  BY DEF Shaped, Running, Change, UnitOf, Now
<1>3. ToSet(y.kept) = ToSet(x.kept) \cup {e}
  <2> HIDE DEF e, y, S
  <2>1. \A i \in DOMAIN x.kept : Append(x.kept, e)[i] = x.kept[i]
    BY <1>2
  <2>2. /\ DOMAIN Append(x.kept, e) = DOMAIN x.kept \cup {Len(x.kept) + 1}
        /\ Append(x.kept, e)[Len(x.kept) + 1] = e
    BY <1>2
  <2> QED
    BY <1>1, <2>1, <2>2 DEF ToSet
<1>4. Counted(s, y)
  OBVIOUS
<1> HIDE DEF y, e, S
<1>5. \A a \in ToSet(y.kept) : a[1] = y.work /\ a[2] \in DOMAIN y.work.units
  BY <1>1 DEF Shaped
<1>6. \A a \in ToSet(y.kept) : a[2] < y.unit
  <2>1. \A a \in ToSet(x.kept) : a[2] \in Nat
    BY <1>2, Units, <1>3, <1>5, <1>1
  <2> QED
    BY <1>1, <1>2, <1>3, <2>1 DEF Ascending
<1>7. \A k \in Key \cap y.own : \E a \in ToSet(y.kept) : Names(UnitOf(a), k)
  BY <1>1, <1>2, <1>3 DEF Ascending
<1>8. \A a \in ToSet(y.kept), k \in Key : Names(UnitOf(a), k) => k \in y.own
  BY <1>1, <1>4 DEF Counted
<1>9. y.unit \in Nat
  BY <1>1, <1>2
<1>10. Ascending(y)
  BY <1>1, <1>5, <1>6, <1>7, <1>8, <1>9, AscendingUnit
<1> QED
  BY <1>10 DEF y

\* Stamps are taken in canonical order, before any record is ensured.
LEMMA ExecutedAscends ==
  ASSUME DistributionAssumption, NEW x, Shaped(x), x.todo # <<>>, Head(x.todo).op \in Writes,
         Ascending(x)
  PROVE  Ascending(Executed(x))
<1> DEFINE y == Executed(x)
           st == Head(x.todo)
<1>1. /\ st \in Stmt /\ Legal(x.work, Now(x), st) /\ Unfinished(x) /\ st.op \in Writes
      /\ y.own = x.own \cup {st.row} /\ y.todo = Tail(x.todo) /\ y.work = x.work /\ y.unit = x.unit
      /\ y.savepoint = x.savepoint /\ y.kept = x.kept
  BY ExecutedFields DEF Now, Unfinished
<1>2. x.todo \in Seq(Stmt) /\ x.todo # <<>> /\ InOrder(x.todo)
  BY DEF Shaped, Running
<1>3. \A r \in ToSet(y.todo) : Before(st, r) /\ r \in ToSet(x.todo)
  BY <1>1, <1>2, TailInOrder, TailElements
<1> HIDE DEF y, st
<1>4. Now(y) = Now(x) /\ (Unfinished(y) <=> Unfinished(x))
  BY <1>1 DEF Now, Unfinished
<1>5. st.row \in Key => /\ st.op \in {"advance", "ensure"} /\ Names(Now(x), st.row)
  BY <1>1 DEF Legal, Names, DistributionAssumption, Writes
<1>6. \A r \in ToSet(y.todo) : r.op = "advance" /\ st.row \in Key => st.row < r.row
  BY <1>3, <1>5 DEF Before, Rank
<1>7. \A r \in ToSet(y.todo) : r.op = "advance" =>
        \A k \in Key \cap y.own : k < r.row \/ r.row \in y.own
  BY <1>1, <1>3, <1>6 DEF Ascending
<1>8. \A k \in Key \cap y.own : k \in y.savepoint.own \/ (Unfinished(y) /\ Names(Now(y), k))
  BY <1>1, <1>4, <1>5 DEF Ascending
<1>9. Ascending(y)
  BY <1>1, <1>7, <1>8 DEF Ascending
<1> QED
  BY <1>9 DEF y

\* Every step keeps the order.
LEMMA NextOrder ==
  ASSUME DistributionAssumption, ShapeInv, LocksInv, StampsInv, CountsInv, OrderInv, [Next]_vars
  PROVE  OrderInv'
<1> SUFFICES ASSUME OrderedWork PROVE \A u \in Active' : Ascending(tx'[u])
  BY DEF OrderInv
<1>0. /\ store \in Database /\ tx \in [Tx -> {NoTx} \cup Committed \cup Running]
      /\ \A t \in Active : /\ Shaped(tx[t]) /\ tx[t] \in Running /\ tx[t].work \in Work
                           /\ tx[t].savepoint.own \subseteq tx[t].own
                           /\ Counted(store, tx[t]) /\ Ascending(tx[t])
  BY DEF ShapeInv, Shaped, LocksInv, Locked, CountsInv, OrderInv, Running
<1>1. ASSUME NEW t \in Tx, LocalStep(t) PROVE \A u \in Active' : Ascending(tx'[u])
  <2> DEFINE x == tx[t]
  <2>1. ASSUME NEW y, Local(t, y), y = NoTx \/ Ascending(y)
        PROVE  \A u \in Active' : Ascending(tx'[u])
    <3>1. tx'[t] = y /\ \A u \in Tx : u # t => tx'[u] = tx[u]
      BY <2>1, LocalResult
    <3> QED
      BY <1>0, <2>1, <3>1 DEF Active, NoTx
  <2>2. ASSUME NEW w \in Work, Local(t, Begun(w)) PROVE \A u \in Active' : Ascending(tx'[u])
    BY <1>0, <2>1, <2>2, BegunAscends
  <2>3. CASE Local(t, NoTx)
    BY <2>1, <2>3
  <2>4. CASE /\ t \in Active /\ x.todo # <<>> /\ Head(x.todo).op \in Writes /\ Local(t, Executed(x))
    <3>1. Ascending(Executed(x))
      BY <1>0, <2>4, ExecutedAscends
    <3> QED
      BY <2>1, <2>4, <3>1
  <2>5. CASE /\ t \in Active /\ x.todo # <<>> /\ Head(x.todo).op = "load" /\ Local(t, Loaded(x))
    <3>1. Ascending(Loaded(x))
      BY <1>0, <2>5, LoadedAscends
    <3> QED
      BY <2>1, <2>5, <3>1
  <2>6. CASE /\ t \in Active /\ x.todo = <<>> /\ x.unit <= Len(x.work.units)
             /\ Local(t, Released(x))
    <3>1. Unfinished(x)
      BY <1>0, <2>6, Units DEF Running, Unfinished
    <3>2. Counted(store, Released(x))
      BY <1>0, <2>6, <3>1, ReleasedCounted
    <3>3. Ascending(Released(x))
      BY <1>0, <2>6, <3>1, <3>2, ReleasedAscends
    <3> QED
      BY <2>1, <2>6, <3>3
  <2>7. ASSUME t \in Active, x.todo # <<>>, NEW cause \in Cause, Local(t, Refused(x, cause))
        PROVE  \A u \in Active' : Ascending(tx'[u])
    <3>1. Unfinished(x)
      BY <1>0, <2>7 DEF Shaped, Unfinished
    <3>2. Ascending(Refused(x, cause))
      BY <1>0, <2>7, <3>1, RefusedAscends
    <3> QED
      BY <2>1, <2>7, <3>2
  <2> QED
    BY <1>0, <1>1, <2>2, <2>3, <2>4, <2>5, <2>6, <2>7 DEF LocalStep
<1>2. ASSUME NEW t \in Tx, commit(t) \/ notify(t) PROVE \A u \in Active' : Ascending(tx'[u])
  <2>1. \E y \in {NoTx, [phase |-> "committed", work |-> tx[t].work, touched |-> tx[t].touched]} :
           tx' = [tx EXCEPT ![t] = y]
    BY <1>2 DEF commit, notify
  <2>2. \A u \in Active' : u \in Active /\ tx'[u] = tx[u]
    BY <1>0, <2>1 DEF Active, NoTx
  <2> QED
    BY <1>0, <2>2
<1>3. ASSUME UNCHANGED tx PROVE \A u \in Active' : Ascending(tx'[u])
  BY <1>0, <1>3 DEF Active
<1> QED
  BY <1>1, <1>2, <1>3, Steps DEF Next, process_pull, vars

\* The one of a cycle that waits for the greatest stamp would wait for another
\* that waits for a greater one.
LEMMA NoCycle ==
  ASSUME DistributionAssumption, ShapeInv, LocksInv, OrderInv
  PROVE  NoStampDeadlock
<1> SUFFICES ASSUME OrderedWork, NEW C \in (SUBSET Tx) \ {{}},
                    \A t \in C : At(t, {"advance"}) /\ \E u \in C : Waits(t, u)
             PROVE  FALSE
  BY DEF NoStampDeadlock
<1> DEFINE row(t) == NextStatement(t).row
           R == {row(t) : t \in C}
<1>1. \A t \in C : t \in Active /\ row(t) \in Key
  <2> SUFFICES ASSUME NEW t \in C PROVE t \in Active /\ row(t) \in Key
    OBVIOUS
  <2>1. t \in Active /\ tx[t].todo # <<>> /\ NextStatement(t).op = "advance"
    BY DEF At
  <2>2. Shaped(tx[t]) /\ tx[t].todo \in Seq(Stmt)
    BY <2>1 DEF ShapeInv, Shaped, Running
  <2>3. NextStatement(t) \in ToSet(tx[t].todo)
    BY <2>1, <2>2, TailElements DEF NextStatement
  <2> QED
    BY <2>1, <2>2, <2>3 DEF Shaped, Legal
<1>2. ASSUME NEW t \in C, NEW u \in C, Waits(t, u) PROVE row(t) < row(u)
  <2>1. t # u /\ row(t) \in tx[u].own /\ u \in Active /\ t \in Active
    BY <1>1, <1>2 DEF Waits
  <2>2. PICK v \in C : Waits(u, v)
    OBVIOUS
  <2>3. u # v /\ row(u) \in tx[v].own /\ v \in Active
    BY <2>2 DEF Waits
  <2>4. row(u) \notin tx[u].own
    BY <2>1, <2>3 DEF LocksInv
  <2>5. NextStatement(u) \in ToSet(tx[u].todo) /\ NextStatement(u).op = "advance"
    <3>1. tx[u].todo \in Seq(Stmt) /\ tx[u].todo # <<>> /\ NextStatement(u).op = "advance"
      BY <2>1 DEF At, ShapeInv, Shaped, Running
    <3> QED
      BY <3>1, TailElements DEF NextStatement
  <2>6. Ascending(tx[u])
    BY <2>1 DEF OrderInv
  <2> QED
    BY <1>1, <2>1, <2>4, <2>5, <2>6 DEF Ascending
<1>3. R # {} /\ R \subseteq Nat /\ Keys \in Nat /\ \A r \in R : r <= Keys
  <2> HIDE DEF row
  <2>1. Keys \in Nat /\ \A k \in Key : k \in Nat /\ k <= Keys
    BY DEF DistributionAssumption, Key
  <2>2. \A r \in R : r \in Key
    BY <1>1
  <2>3. R # {}
    OBVIOUS
  <2> HIDE DEF R
  <2> QED
    BY <2>1, <2>2, <2>3
<1> HIDE DEF row
<1>4. PICK t \in C : \A u \in C : row(u) <= row(t)
  <2>1. PICK r \in R : \A q \in R : q <= r
    <3> HIDE DEF R
    <3> QED
      BY <1>3, Greatest
  <2> QED
    BY <2>1
<1>5. PICK u \in C : Waits(t, u)
  OBVIOUS
<1>6. row(t) \in Nat /\ row(u) \in Nat
  BY <1>3
<1> QED
  BY <1>2, <1>4, <1>5, <1>6

\* Transactions of ordered work never wait in a cycle for each other's stamps:
\* whoever holds a stamp asks only for greater ones.
THEOREM StampsOrdered == Spec => []NoStampDeadlock
<1>1. Init => OrderInv
  BY DEF Init, OrderInv, Active, NoTx
<1>2. ShapeInv /\ LocksInv /\ StampsInv /\ CountsInv /\ OrderInv /\ [Next]_vars => OrderInv'
  BY NextOrder, DistributionAssumption
<1>3. ShapeInv /\ LocksInv /\ OrderInv => NoStampDeadlock
  BY NoCycle, DistributionAssumption
<1> QED
  BY <1>1, <1>2, <1>3, ShapeHolds, LocksHold, StampsHold, CountsHold, PTL DEF Spec

---------------------------------------------------------------------------
(* Types *)

Judged(a) == a[1] \in done /\ a[2] \in DOMAIN a[1].units
JudgedInv == \A a \in ToSet(accepted) \cup {r.change : r \in rejected} : Judged(a)

\* Every step keeps what was accepted and refused to units of the work done.
LEMMA NextJudged ==
  ASSUME ShapeInv, JudgedInv, [Next]_vars
  PROVE  JudgedInv'
<1>1. ASSUME NEW t \in Tx, commit(t) PROVE JudgedInv'
  <2> DEFINE x == tx[t]
             w == x.work
             S == Work \X Nat
  <2>1. Shaped(x) /\ x.kept \in Seq(S) /\ accepted \in Seq(S)
    BY <1>1 DEF ShapeInv, commit, Shaped, Running
  <2>2. /\ done' = done \cup {w} /\ accepted' = accepted \o x.kept
        /\ rejected' = rejected \cup {[change |-> Change(w, r.unit), cause |-> r.cause] : r \in x.refused}
    BY <1>1 DEF commit
  <2>3. /\ \A a \in ToSet(x.kept) : a[1] = w /\ a[2] \in DOMAIN w.units
        /\ \A r \in x.refused : r.unit \in DOMAIN w.units
    BY <2>1 DEF Shaped
  <2> HIDE DEF x, S
  <2>4. ToSet(accepted') = ToSet(accepted) \cup ToSet(x.kept)
    <3> DEFINE q == x.kept
    <3>1. q \in Seq(S)
      BY <2>1
    <3> HIDE DEF q
    <3>2. ToSet(accepted \o q) = ToSet(accepted) \cup ToSet(q)
      BY <2>1, <3>1, ConcatElements
    <3> QED
      BY <2>2, <3>2 DEF q
  <2>5. \A a \in ToSet(accepted) \cup {r.change : r \in rejected} : Judged(a)'
    BY <2>2 DEF JudgedInv, Judged
  <2>6. \A a \in ToSet(x.kept) : Judged(a)'
    BY <2>2, <2>3 DEF Judged
  <2>7. ASSUME NEW r \in rejected' PROVE r.change[1] \in done' /\ r.change[2] \in DOMAIN r.change[1].units
    <3>1. CASE r \in rejected
      BY <2>5, <3>1 DEF Judged
    <3>2. CASE \E q \in x.refused : r = [change |-> Change(w, q.unit), cause |-> q.cause]
      <4>1. PICK q \in x.refused : r = [change |-> Change(w, q.unit), cause |-> q.cause]
        BY <3>2
      <4>2. r.change[1] = w /\ r.change[2] = q.unit
        BY <4>1 DEF Change
      <4> QED
        BY <2>2, <2>3, <4>2
    <3> QED
      BY <2>2, <3>1, <3>2
  <2> QED
    BY <2>4, <2>5, <2>6, <2>7 DEF JudgedInv, Judged
<1>2. ASSUME NEW t \in Tx, LocalStep(t) PROVE UNCHANGED <<done, accepted, rejected>>
  BY <1>2 DEF LocalStep, Local
<1>3. ASSUME UNCHANGED <<done, accepted, rejected>> PROVE JudgedInv'
  BY <1>3 DEF JudgedInv, Judged
<1> QED
  BY <1>1, <1>2, <1>3, Steps DEF Next, process_pull, notify, vars

\* The committed database is well formed, and every accepted or rejected unit
\* belongs to committed work.
THEOREM TypeCorrect == Spec => []TypeOK
<1>1. Init => JudgedInv
  BY DEF Init, JudgedInv, ToSet
<1>2. ShapeInv /\ JudgedInv /\ [Next]_vars => JudgedInv'
  BY NextJudged
<1>3. ShapeInv /\ StampsInv /\ JudgedInv => TypeOK
  BY DEF ShapeInv, StampsInv, Sound, JudgedInv, Judged, Database, Authorities, TypeOK
<1> QED
  BY <1>1, <1>2, <1>3, ShapeHolds, StampsHold, PTL DEF Spec

===========================================================================
