--------------------------- MODULE RecordsProofs ---------------------------
(***************************************************************************)
(* Proofs about Records, for every set of applications: what is held       *)
(* beneath pending mutations is held for as long as they are pending       *)
(* (NoStaleBefore), optimism never moves it (OptimismIsShallow), it is a   *)
(* version of the server (TruthIsServerVersion), readers see it with what  *)
(* is pending replayed over it (VisibleIsReplay), and a client that has    *)
(* reached the head of a channel has the newest version (Converged).       *)
(*                                                                         *)
(* The proof follows the code: what each operator does to a database is a  *)
(* lemma, and the steps are put together from them.                        *)
(***************************************************************************)
EXTENDS Records, FiniteSetTheorems, SequenceTheorems, WellFoundedInduction, TLAPS

---------------------------------------------------------------------------
(* Induction.  The library's induction theorem takes a formula; a set of   *)
(* numbers and its least element serve as well.                            *)

\* A set of natural numbers that is not empty has a least element.
LEMMA Least ==
  ASSUME NEW T, T \subseteq Nat, T # {}
  PROVE  \E x \in T : \A y \in T : x <= y
<1> DEFINE R == OpToRel(<, Nat)
<1>1. IsWellFoundedOn(R, Nat)
  BY NatLessThanWellFounded
<1>2. \A x, y \in Nat : y < x => <<y, x>> \in R
  BY DEF OpToRel
<1> HIDE DEF R
<1>3. PICK x \in T : \A y \in T : ~ (<<y, x>> \in R)
  BY <1>1, WFMin
<1>4. \A y \in T : ~ (y < x)
  BY <1>2, <1>3
<1> QED
  BY <1>4, SMT

\* A set with zero, and with the successor of what is in it, has every number.
LEMMA Induct ==
  ASSUME NEW T, 0 \in T, \A n \in Nat : n \in T => n + 1 \in T
  PROVE  \A n \in Nat : n \in T
<1> SUFFICES ASSUME Nat \ T # {} PROVE FALSE
  OBVIOUS
<1>1. PICK x \in Nat \ T : \A y \in Nat \ T : x <= y
  BY Least
<1>2. x # 0 /\ x - 1 \in Nat /\ x - 1 \in T
  BY <1>1
<1> QED
  BY <1>1, <1>2

\* f leads from P[0] to P[n]; and steps G do, whatever they start from.
Leads(f, P, n) == \A i \in 1..n : f[i - 1] \in P[i - 1] => f[i] \in P[i]
StepsLead(G, P, n) == \A i \in 1..n : \A v \in P[i - 1] : G[<<v, i>>] \in P[i]
Iterates(f, b, G, n) == f = [i \in 0..n |-> IF i = 0 THEN b ELSE G[<<f[i - 1], i>>]]

\* What is true at first, and stays true along f, is true at the end.
LEMMA Along ==
  ASSUME NEW n \in Nat, NEW P, NEW f, f[0] \in P[0], Leads(f, P, n)
  PROVE  f[n] \in P[n]
<1> DEFINE T == {m \in Nat : m <= n => f[m] \in P[m]}
<1>1. 0 \in T
  OBVIOUS
<1>2. ASSUME NEW m \in Nat, m \in T PROVE m + 1 \in T
  <2> SUFFICES ASSUME m + 1 <= n PROVE f[m + 1] \in P[m + 1]
    OBVIOUS
  <2>1. f[m] \in P[m]
    BY <1>2
  <2>2. m + 1 \in 1..n /\ (m + 1) - 1 = m
    OBVIOUS
  <2> QED
    BY <2>1, <2>2 DEF Leads
<1> HIDE DEF T
<1>3. n \in T
  BY <1>1, <1>2, Induct
<1> QED
  BY <1>3 DEF T

\* Steps that lead from one set to the next can be taken n times.
LEMMA Iteration ==
  ASSUME NEW n \in Nat, NEW P, NEW b, b \in P[0], NEW G, StepsLead(G, P, n)
  PROVE  \E f : Iterates(f, b, G, n) /\ \A i \in 0..n : f[i] \in P[i]
<1> DEFINE Step(f, i) == IF i = 0 THEN b ELSE G[<<f[i - 1], i>>]
           Good(f, m) == f = [i \in 0..m |-> Step(f, i)] /\ \A i \in 0..m : f[i] \in P[i]
           T == {m \in Nat : m <= n => \E f : Good(f, m)}
<1>1. 0 \in T
  <2> DEFINE f == [i \in 0..0 |-> b]
  <2>1. \A i \in 0..0 : Step(f, i) = b /\ f[i] \in P[i]
    OBVIOUS
  <2> HIDE DEF Step
  <2>2. Good(f, 0)
    BY <2>1
  <2> QED
    BY <2>2
<1>2. ASSUME NEW m \in Nat, m \in T PROVE m + 1 \in T
  <2> SUFFICES ASSUME m + 1 <= n PROVE \E f : Good(f, m + 1)
    OBVIOUS
  <2>1. PICK g : Good(g, m)
    BY <1>2
  <2> DEFINE last == G[<<g[m], m + 1>>]
             k == [i \in 0..(m + 1) |-> IF i \in 0..m THEN g[i] ELSE last]
  <2>2. ASSUME NEW i \in 0..(m + 1) PROVE k[i] = Step(k, i) /\ k[i] \in P[i]
    <3>1. CASE i \in 0..m
      <4>1. g[i] = Step(g, i) /\ g[i] \in P[i] /\ k[i] = g[i]
        BY <2>1, <3>1
      <4>2. i # 0 => i - 1 \in 0..(m + 1) /\ i - 1 \in 0..m
        BY <3>1
      <4>3. i # 0 => k[i - 1] = g[i - 1]
        BY <4>2
      <4> QED
        BY <4>1, <4>3
    <3>2. CASE i = m + 1
      <4>1. k[i] = last /\ m \in 0..(m + 1) /\ m \in 0..m /\ i # 0 /\ i - 1 = m /\ i \in 1..n
        BY <3>2
      <4>2. k[m] = g[m] /\ g[m] \in P[m]
        BY <4>1, <2>1
      <4>3. last \in P[i]
        BY <3>2, <4>1, <4>2 DEF StepsLead
      <4> HIDE DEF k
      <4> QED
        BY <3>2, <4>1, <4>2, <4>3
    <3> QED
      BY <3>1, <3>2
  <2>3. DOMAIN k = 0..(m + 1) /\ k = [i \in 0..(m + 1) |-> k[i]]
    OBVIOUS
  <2> HIDE DEF k, Step
  <2>4. k = [i \in 0..(m + 1) |-> Step(k, i)]
    BY <2>2, <2>3
  <2> QED
    BY <2>2, <2>4
<1> HIDE DEF T
<1>3. n \in T
  BY <1>1, <1>2, Induct
<1> QED
  BY <1>3 DEF T, Iterates

---------------------------------------------------------------------------
(* Folds.  The provers cannot take the step of a fold as a parameter, so    *)
(* there is one lemma for each fold of Records: a set of the values it may *)
(* have after i elements, kept by every step, has its value at the end.    *)

\* The folds that Records does not name.
Replays(end, s) == Folded(Replayed, end, s)
Written(d, s) == Folded(WriteOp, [d |-> d, effects |-> {}, ok |-> TRUE], s)
WrittenDirectly(d, s) == Folded(direct_one, d, s)
Wired(d, accepted) == UNION {{q.wire[i].key : i \in DOMAIN q.wire} : q \in ToSet(Entries(d, accepted))}
Handled(rows, s) == Folded(Handle, [rows |-> rows, changed |-> {}, ok |-> TRUE], s)
Executed(sv, s, refused) ==
  Folded(LAMBDA acc, q : Execute(acc, q, refused), [s |-> sv, rejected |-> {}, records |-> << >>], s)

\* Filtered: what its steps keep holds at the end.
LEMMA FilteredKeeps ==
  ASSUME NEW s, NEW X, NEW P, Len(s) \in Nat,
         << >> \in P[0],
         \A i \in 1..Len(s) : \A v \in P[i - 1] :
           (IF s[i] \in X THEN Append(v, s[i]) ELSE v) \in P[i]
  PROVE  Filtered(s, X) \in P[Len(s)]
<1> DEFINE n == Len(s)
           b == << >>
           Step(v, i) == (IF s[i] \in X THEN Append(v, s[i]) ELSE v)
           G == [p \in (UNION {P[i] : i \in 0..n}) \X (1..n) |-> Step(p[1], p[2])]
           Rec(f) == f = [i \in 0..n |-> IF i = 0 THEN b ELSE Step(f[i - 1], i)]
           g == CHOOSE f : Rec(f)
<1>1. Filtered(s, X) = g[n]
  BY DEF Filtered, Folded
<1>2. n \in Nat
  OBVIOUS
<1>3. \A i \in 1..n : \A v \in P[i - 1] : Step(v, i) \in P[i]
  OBVIOUS
<1>4. b \in P[0] /\ P[n] = P[Len(s)]
  OBVIOUS
<1> HIDE DEF n, b, Step
<1>5. \A i \in 1..n : \A v \in P[i - 1] : G[<<v, i>>] = Step(v, i)
  <2> SUFFICES ASSUME NEW i \in 1..n, NEW v \in P[i - 1] PROVE G[<<v, i>>] = Step(v, i)
    OBVIOUS
  <2>1. i - 1 \in 0..n
    BY <1>2
  <2>2. <<v, i>> \in (UNION {P[l] : l \in 0..n}) \X (1..n)
    BY <2>1
  <2> QED
    BY <2>2
<1> HIDE DEF G
<1>6. StepsLead(G, P, n)
  <2> SUFFICES ASSUME NEW i \in 1..n, NEW v \in P[i - 1] PROVE G[<<v, i>>] \in P[i]
    BY DEF StepsLead
  <2>1. Step(v, i) \in P[i]
    BY <1>3
  <2>2. G[<<v, i>>] = Step(v, i)
    BY <1>5
  <2> QED
    BY <2>1, <2>2
<1>7. PICK f : Iterates(f, b, G, n) /\ \A i \in 0..n : f[i] \in P[i]
  BY <1>2, <1>4, <1>6, Iteration
<1>8. \A i \in 0..n : i # 0 => G[<<f[i - 1], i>>] = Step(f[i - 1], i)
  <2> SUFFICES ASSUME NEW i \in 1..n PROVE G[<<f[i - 1], i>>] = Step(f[i - 1], i)
    OBVIOUS
  <2>1. f[i - 1] \in P[i - 1]
    BY <1>2, <1>7
  <2> QED
    BY <1>2, <1>5, <2>1
<1>9. Rec(f)
  BY <1>2, <1>7, <1>8 DEF Iterates
<1>10. Rec(g)
  BY <1>9
<1> HIDE DEF g
<1>11. g[0] = b /\ \A i \in 1..n : g[i] = Step(g[i - 1], i)
  BY <1>2, <1>10
<1>12. Leads(g, P, n)
  BY <1>3, <1>11 DEF Leads
<1>13. g[n] \in P[n]
  BY <1>2, <1>4, <1>11, <1>12, Along
<1> QED
  BY <1>1, <1>4, <1>13

\* A replay, from wherever an earlier one ended, and the ends it goes through.
ReplaysPath(g, s, end, P) ==
  /\ g[0] = end /\ Replays(end, s) = g[Len(s)]
  /\ \A i \in 1..Len(s) : g[i] = Replayed(g[i - 1], s[i])
  /\ \A i \in 0..Len(s) : g[i] \in P[i]
LEMMA ReplaysRun ==
  ASSUME NEW s, NEW end, NEW P, Len(s) \in Nat,
         end \in P[0],
         \A i \in 1..Len(s) : \A v \in P[i - 1] :
           Replayed(v, s[i]) \in P[i]
  PROVE  \E g : ReplaysPath(g, s, end, P)
<1> DEFINE n == Len(s)
           b == end
           Step(v, i) == Replayed(v, s[i])
           G == [p \in (UNION {P[i] : i \in 0..n}) \X (1..n) |-> Step(p[1], p[2])]
           Rec(f) == f = [i \in 0..n |-> IF i = 0 THEN b ELSE Step(f[i - 1], i)]
           g == CHOOSE f : Rec(f)
<1>1. Replays(end, s) = g[n]
  BY DEF Replays, Folded
<1>2. n \in Nat
  OBVIOUS
<1>3. \A i \in 1..n : \A v \in P[i - 1] : Step(v, i) \in P[i]
  OBVIOUS
<1>4. b \in P[0] /\ P[n] = P[Len(s)]
  OBVIOUS
<1> HIDE DEF n, b, Step
<1>5. \A i \in 1..n : \A v \in P[i - 1] : G[<<v, i>>] = Step(v, i)
  <2> SUFFICES ASSUME NEW i \in 1..n, NEW v \in P[i - 1] PROVE G[<<v, i>>] = Step(v, i)
    OBVIOUS
  <2>1. i - 1 \in 0..n
    BY <1>2
  <2>2. <<v, i>> \in (UNION {P[l] : l \in 0..n}) \X (1..n)
    BY <2>1
  <2> QED
    BY <2>2
<1> HIDE DEF G
<1>6. StepsLead(G, P, n)
  <2> SUFFICES ASSUME NEW i \in 1..n, NEW v \in P[i - 1] PROVE G[<<v, i>>] \in P[i]
    BY DEF StepsLead
  <2>1. Step(v, i) \in P[i]
    BY <1>3
  <2>2. G[<<v, i>>] = Step(v, i)
    BY <1>5
  <2> QED
    BY <2>1, <2>2
<1>7. PICK f : Iterates(f, b, G, n) /\ \A i \in 0..n : f[i] \in P[i]
  BY <1>2, <1>4, <1>6, Iteration
<1>8. \A i \in 0..n : i # 0 => G[<<f[i - 1], i>>] = Step(f[i - 1], i)
  <2> SUFFICES ASSUME NEW i \in 1..n PROVE G[<<f[i - 1], i>>] = Step(f[i - 1], i)
    OBVIOUS
  <2>1. f[i - 1] \in P[i - 1]
    BY <1>2, <1>7
  <2> QED
    BY <1>2, <1>5, <2>1
<1>9. Rec(f)
  BY <1>2, <1>7, <1>8 DEF Iterates
<1>10. Rec(g)
  BY <1>9
<1> HIDE DEF g
<1>11. g[0] = b /\ \A i \in 1..n : g[i] = Step(g[i - 1], i)
  BY <1>2, <1>10
<1>12. Leads(g, P, n)
  BY <1>3, <1>11 DEF Leads
<1>13. ASSUME NEW m \in 0..n PROVE g[m] \in P[m]
  <2>1. m \in Nat /\ Leads(g, P, m)
    BY <1>2, <1>12 DEF Leads
  <2> QED
    BY <1>4, <1>11, <2>1, Along
<1>14. \A i \in 1..n : g[i] = Replayed(g[i - 1], s[i])
  BY <1>11 DEF Step
<1> QED
  BY <1>1, <1>11, <1>13, <1>14 DEF n, b, ReplaysPath

\* What the steps of a fold keep holds at the end.
LEMMA ReplaysKeep ==
  ASSUME NEW s, NEW end, NEW P, Len(s) \in Nat,
         end \in P[0],
         \A i \in 1..Len(s) : \A v \in P[i - 1] :
           Replayed(v, s[i]) \in P[i]
  PROVE  Replays(end, s) \in P[Len(s)]
<1>1. PICK g : ReplaysPath(g, s, end, P)
  BY ReplaysRun
<1>2. Len(s) \in 0..Len(s)
  OBVIOUS
<1> QED
  BY <1>1, <1>2 DEF ReplaysPath

\* ops_for, and what it is made of.
OpsPath(g, d, k, P) ==
  /\ g[0] = << >> /\ ops_for(d, k) = g[Len(d.queue)]
  /\ \A i \in 1..Len(d.queue) : g[i] = (g[i - 1] \o OpsOn(d.queue[i], k))
  /\ \A i \in 0..Len(d.queue) : g[i] \in P[i]
LEMMA OpsRun ==
  ASSUME NEW d, NEW k, NEW P, Len(d.queue) \in Nat,
         << >> \in P[0],
         \A i \in 1..Len(d.queue) : \A v \in P[i - 1] :
           (v \o OpsOn(d.queue[i], k)) \in P[i]
  PROVE  \E g : OpsPath(g, d, k, P)
<1> DEFINE n == Len(d.queue)
           b == << >>
           Step(v, i) == (v \o OpsOn(d.queue[i], k))
           G == [p \in (UNION {P[i] : i \in 0..n}) \X (1..n) |-> Step(p[1], p[2])]
           Rec(f) == f = [i \in 0..n |-> IF i = 0 THEN b ELSE Step(f[i - 1], i)]
           g == CHOOSE f : Rec(f)
<1>1. ops_for(d, k) = g[n]
  BY DEF ops_for, Folded
<1>2. n \in Nat
  OBVIOUS
<1>3. \A i \in 1..n : \A v \in P[i - 1] : Step(v, i) \in P[i]
  OBVIOUS
<1>4. b \in P[0] /\ P[n] = P[Len(d.queue)]
  OBVIOUS
<1> HIDE DEF n, b, Step
<1>5. \A i \in 1..n : \A v \in P[i - 1] : G[<<v, i>>] = Step(v, i)
  <2> SUFFICES ASSUME NEW i \in 1..n, NEW v \in P[i - 1] PROVE G[<<v, i>>] = Step(v, i)
    OBVIOUS
  <2>1. i - 1 \in 0..n
    BY <1>2
  <2>2. <<v, i>> \in (UNION {P[l] : l \in 0..n}) \X (1..n)
    BY <2>1
  <2> QED
    BY <2>2
<1> HIDE DEF G
<1>6. StepsLead(G, P, n)
  <2> SUFFICES ASSUME NEW i \in 1..n, NEW v \in P[i - 1] PROVE G[<<v, i>>] \in P[i]
    BY DEF StepsLead
  <2>1. Step(v, i) \in P[i]
    BY <1>3
  <2>2. G[<<v, i>>] = Step(v, i)
    BY <1>5
  <2> QED
    BY <2>1, <2>2
<1>7. PICK f : Iterates(f, b, G, n) /\ \A i \in 0..n : f[i] \in P[i]
  BY <1>2, <1>4, <1>6, Iteration
<1>8. \A i \in 0..n : i # 0 => G[<<f[i - 1], i>>] = Step(f[i - 1], i)
  <2> SUFFICES ASSUME NEW i \in 1..n PROVE G[<<f[i - 1], i>>] = Step(f[i - 1], i)
    OBVIOUS
  <2>1. f[i - 1] \in P[i - 1]
    BY <1>2, <1>7
  <2> QED
    BY <1>2, <1>5, <2>1
<1>9. Rec(f)
  BY <1>2, <1>7, <1>8 DEF Iterates
<1>10. Rec(g)
  BY <1>9
<1> HIDE DEF g
<1>11. g[0] = b /\ \A i \in 1..n : g[i] = Step(g[i - 1], i)
  BY <1>2, <1>10
<1>12. Leads(g, P, n)
  BY <1>3, <1>11 DEF Leads
<1>13. ASSUME NEW m \in 0..n PROVE g[m] \in P[m]
  <2>1. m \in Nat /\ Leads(g, P, m)
    BY <1>2, <1>12 DEF Leads
  <2> QED
    BY <1>4, <1>11, <2>1, Along
<1>14. \A i \in 1..n : g[i] = (g[i - 1] \o OpsOn(d.queue[i], k))
  BY <1>11 DEF Step
<1> QED
  BY <1>1, <1>11, <1>13, <1>14 DEF n, b, OpsPath

\* What the steps of a fold keep holds at the end.
LEMMA OpsKeep ==
  ASSUME NEW d, NEW k, NEW P, Len(d.queue) \in Nat,
         << >> \in P[0],
         \A i \in 1..Len(d.queue) : \A v \in P[i - 1] :
           (v \o OpsOn(d.queue[i], k)) \in P[i]
  PROVE  ops_for(d, k) \in P[Len(d.queue)]
<1>1. PICK g : OpsPath(g, d, k, P)
  BY OpsRun
<1>2. Len(d.queue) \in 0..Len(d.queue)
  OBVIOUS
<1> QED
  BY <1>1, <1>2 DEF OpsPath

\* extend_entry.
LEMMA ExtendKeeps ==
  ASSUME NEW d, NEW j, NEW P, Len(Deletes(d.queue[j])) \in Nat,
         d \in P[0],
         \A i \in 1..Len(Deletes(d.queue[j])) : \A v \in P[i - 1] :
           extend(v, j, Deletes(d.queue[j])[i]) \in P[i]
  PROVE  extend_entry(d, j) \in P[Len(Deletes(d.queue[j]))]
<1> DEFINE n == Len(Deletes(d.queue[j]))
           b == d
           Step(v, i) == extend(v, j, Deletes(d.queue[j])[i])
           G == [p \in (UNION {P[i] : i \in 0..n}) \X (1..n) |-> Step(p[1], p[2])]
           Rec(f) == f = [i \in 0..n |-> IF i = 0 THEN b ELSE Step(f[i - 1], i)]
           g == CHOOSE f : Rec(f)
<1>1. extend_entry(d, j) = g[n]
  BY DEF extend_entry, Folded
<1>2. n \in Nat
  OBVIOUS
<1>3. \A i \in 1..n : \A v \in P[i - 1] : Step(v, i) \in P[i]
  OBVIOUS
<1>4. b \in P[0] /\ P[n] = P[Len(Deletes(d.queue[j]))]
  OBVIOUS
<1> HIDE DEF n, b, Step
<1>5. \A i \in 1..n : \A v \in P[i - 1] : G[<<v, i>>] = Step(v, i)
  <2> SUFFICES ASSUME NEW i \in 1..n, NEW v \in P[i - 1] PROVE G[<<v, i>>] = Step(v, i)
    OBVIOUS
  <2>1. i - 1 \in 0..n
    BY <1>2
  <2>2. <<v, i>> \in (UNION {P[l] : l \in 0..n}) \X (1..n)
    BY <2>1
  <2> QED
    BY <2>2
<1> HIDE DEF G
<1>6. StepsLead(G, P, n)
  <2> SUFFICES ASSUME NEW i \in 1..n, NEW v \in P[i - 1] PROVE G[<<v, i>>] \in P[i]
    BY DEF StepsLead
  <2>1. Step(v, i) \in P[i]
    BY <1>3
  <2>2. G[<<v, i>>] = Step(v, i)
    BY <1>5
  <2> QED
    BY <2>1, <2>2
<1>7. PICK f : Iterates(f, b, G, n) /\ \A i \in 0..n : f[i] \in P[i]
  BY <1>2, <1>4, <1>6, Iteration
<1>8. \A i \in 0..n : i # 0 => G[<<f[i - 1], i>>] = Step(f[i - 1], i)
  <2> SUFFICES ASSUME NEW i \in 1..n PROVE G[<<f[i - 1], i>>] = Step(f[i - 1], i)
    OBVIOUS
  <2>1. f[i - 1] \in P[i - 1]
    BY <1>2, <1>7
  <2> QED
    BY <1>2, <1>5, <2>1
<1>9. Rec(f)
  BY <1>2, <1>7, <1>8 DEF Iterates
<1>10. Rec(g)
  BY <1>9
<1> HIDE DEF g
<1>11. g[0] = b /\ \A i \in 1..n : g[i] = Step(g[i - 1], i)
  BY <1>2, <1>10
<1>12. Leads(g, P, n)
  BY <1>3, <1>11 DEF Leads
<1>13. g[n] \in P[n]
  BY <1>2, <1>4, <1>11, <1>12, Along
<1> QED
  BY <1>1, <1>4, <1>13

\* refresh_pending.
LEMMA RefreshKeeps ==
  ASSUME NEW d, NEW P, Len([j \in DOMAIN d.queue |-> j]) \in Nat,
         d \in P[0],
         \A i \in 1..Len([j \in DOMAIN d.queue |-> j]) : \A v \in P[i - 1] :
           extend_entry(v, [j \in DOMAIN d.queue |-> j][i]) \in P[i]
  PROVE  refresh_pending(d) \in P[Len([j \in DOMAIN d.queue |-> j])]
<1> DEFINE n == Len([j \in DOMAIN d.queue |-> j])
           b == d
           Step(v, i) == extend_entry(v, [j \in DOMAIN d.queue |-> j][i])
           G == [p \in (UNION {P[i] : i \in 0..n}) \X (1..n) |-> Step(p[1], p[2])]
           Rec(f) == f = [i \in 0..n |-> IF i = 0 THEN b ELSE Step(f[i - 1], i)]
           g == CHOOSE f : Rec(f)
<1>1. refresh_pending(d) = g[n]
  BY DEF refresh_pending, Folded
<1>2. n \in Nat
  OBVIOUS
<1>3. \A i \in 1..n : \A v \in P[i - 1] : Step(v, i) \in P[i]
  OBVIOUS
<1>4. b \in P[0] /\ P[n] = P[Len([j \in DOMAIN d.queue |-> j])]
  OBVIOUS
<1> HIDE DEF n, b, Step
<1>5. \A i \in 1..n : \A v \in P[i - 1] : G[<<v, i>>] = Step(v, i)
  <2> SUFFICES ASSUME NEW i \in 1..n, NEW v \in P[i - 1] PROVE G[<<v, i>>] = Step(v, i)
    OBVIOUS
  <2>1. i - 1 \in 0..n
    BY <1>2
  <2>2. <<v, i>> \in (UNION {P[l] : l \in 0..n}) \X (1..n)
    BY <2>1
  <2> QED
    BY <2>2
<1> HIDE DEF G
<1>6. StepsLead(G, P, n)
  <2> SUFFICES ASSUME NEW i \in 1..n, NEW v \in P[i - 1] PROVE G[<<v, i>>] \in P[i]
    BY DEF StepsLead
  <2>1. Step(v, i) \in P[i]
    BY <1>3
  <2>2. G[<<v, i>>] = Step(v, i)
    BY <1>5
  <2> QED
    BY <2>1, <2>2
<1>7. PICK f : Iterates(f, b, G, n) /\ \A i \in 0..n : f[i] \in P[i]
  BY <1>2, <1>4, <1>6, Iteration
<1>8. \A i \in 0..n : i # 0 => G[<<f[i - 1], i>>] = Step(f[i - 1], i)
  <2> SUFFICES ASSUME NEW i \in 1..n PROVE G[<<f[i - 1], i>>] = Step(f[i - 1], i)
    OBVIOUS
  <2>1. f[i - 1] \in P[i - 1]
    BY <1>2, <1>7
  <2> QED
    BY <1>2, <1>5, <2>1
<1>9. Rec(f)
  BY <1>2, <1>7, <1>8 DEF Iterates
<1>10. Rec(g)
  BY <1>9
<1> HIDE DEF g
<1>11. g[0] = b /\ \A i \in 1..n : g[i] = Step(g[i - 1], i)
  BY <1>2, <1>10
<1>12. Leads(g, P, n)
  BY <1>3, <1>11 DEF Leads
<1>13. g[n] \in P[n]
  BY <1>2, <1>4, <1>11, <1>12, Along
<1> QED
  BY <1>1, <1>4, <1>13

\* The writes of a mutation, and the databases they go through.
WritesPath(g, s, d, P) ==
  /\ g[0] = [d |-> d, effects |-> {}, ok |-> TRUE] /\ Written(d, s) = g[Len(s)]
  /\ \A i \in 1..Len(s) : g[i] = WriteOp(g[i - 1], s[i])
  /\ \A i \in 0..Len(s) : g[i] \in P[i]
LEMMA WritesRun ==
  ASSUME NEW s, NEW d, NEW P, Len(s) \in Nat,
         [d |-> d, effects |-> {}, ok |-> TRUE] \in P[0],
         \A i \in 1..Len(s) : \A v \in P[i - 1] :
           WriteOp(v, s[i]) \in P[i]
  PROVE  \E g : WritesPath(g, s, d, P)
<1> DEFINE n == Len(s)
           b == [d |-> d, effects |-> {}, ok |-> TRUE]
           Step(v, i) == WriteOp(v, s[i])
           G == [p \in (UNION {P[i] : i \in 0..n}) \X (1..n) |-> Step(p[1], p[2])]
           Rec(f) == f = [i \in 0..n |-> IF i = 0 THEN b ELSE Step(f[i - 1], i)]
           g == CHOOSE f : Rec(f)
<1>1. Written(d, s) = g[n]
  BY DEF Written, Folded
<1>2. n \in Nat
  OBVIOUS
<1>3. \A i \in 1..n : \A v \in P[i - 1] : Step(v, i) \in P[i]
  OBVIOUS
<1>4. b \in P[0] /\ P[n] = P[Len(s)]
  OBVIOUS
<1> HIDE DEF n, b, Step
<1>5. \A i \in 1..n : \A v \in P[i - 1] : G[<<v, i>>] = Step(v, i)
  <2> SUFFICES ASSUME NEW i \in 1..n, NEW v \in P[i - 1] PROVE G[<<v, i>>] = Step(v, i)
    OBVIOUS
  <2>1. i - 1 \in 0..n
    BY <1>2
  <2>2. <<v, i>> \in (UNION {P[l] : l \in 0..n}) \X (1..n)
    BY <2>1
  <2> QED
    BY <2>2
<1> HIDE DEF G
<1>6. StepsLead(G, P, n)
  <2> SUFFICES ASSUME NEW i \in 1..n, NEW v \in P[i - 1] PROVE G[<<v, i>>] \in P[i]
    BY DEF StepsLead
  <2>1. Step(v, i) \in P[i]
    BY <1>3
  <2>2. G[<<v, i>>] = Step(v, i)
    BY <1>5
  <2> QED
    BY <2>1, <2>2
<1>7. PICK f : Iterates(f, b, G, n) /\ \A i \in 0..n : f[i] \in P[i]
  BY <1>2, <1>4, <1>6, Iteration
<1>8. \A i \in 0..n : i # 0 => G[<<f[i - 1], i>>] = Step(f[i - 1], i)
  <2> SUFFICES ASSUME NEW i \in 1..n PROVE G[<<f[i - 1], i>>] = Step(f[i - 1], i)
    OBVIOUS
  <2>1. f[i - 1] \in P[i - 1]
    BY <1>2, <1>7
  <2> QED
    BY <1>2, <1>5, <2>1
<1>9. Rec(f)
  BY <1>2, <1>7, <1>8 DEF Iterates
<1>10. Rec(g)
  BY <1>9
<1> HIDE DEF g
<1>11. g[0] = b /\ \A i \in 1..n : g[i] = Step(g[i - 1], i)
  BY <1>2, <1>10
<1>12. Leads(g, P, n)
  BY <1>3, <1>11 DEF Leads
<1>13. ASSUME NEW m \in 0..n PROVE g[m] \in P[m]
  <2>1. m \in Nat /\ Leads(g, P, m)
    BY <1>2, <1>12 DEF Leads
  <2> QED
    BY <1>4, <1>11, <2>1, Along
<1>14. \A i \in 1..n : g[i] = WriteOp(g[i - 1], s[i])
  BY <1>11 DEF Step
<1> QED
  BY <1>1, <1>11, <1>13, <1>14 DEF n, b, WritesPath

\* What the steps of a fold keep holds at the end.
LEMMA WriteKeeps ==
  ASSUME NEW s, NEW d, NEW P, Len(s) \in Nat,
         [d |-> d, effects |-> {}, ok |-> TRUE] \in P[0],
         \A i \in 1..Len(s) : \A v \in P[i - 1] :
           WriteOp(v, s[i]) \in P[i]
  PROVE  Written(d, s) \in P[Len(s)]
<1>1. PICK g : WritesPath(g, s, d, P)
  BY WritesRun
<1>2. Len(s) \in 0..Len(s)
  OBVIOUS
<1> QED
  BY <1>1, <1>2 DEF WritesPath

\* Direct writes.
LEMMA DirectKeeps ==
  ASSUME NEW s, NEW d, NEW P, Len(s) \in Nat,
         d \in P[0],
         \A i \in 1..Len(s) : \A v \in P[i - 1] :
           direct_one(v, s[i]) \in P[i]
  PROVE  WrittenDirectly(d, s) \in P[Len(s)]
<1> DEFINE n == Len(s)
           b == d
           Step(v, i) == direct_one(v, s[i])
           G == [p \in (UNION {P[i] : i \in 0..n}) \X (1..n) |-> Step(p[1], p[2])]
           Rec(f) == f = [i \in 0..n |-> IF i = 0 THEN b ELSE Step(f[i - 1], i)]
           g == CHOOSE f : Rec(f)
<1>1. WrittenDirectly(d, s) = g[n]
  BY DEF WrittenDirectly, Folded
<1>2. n \in Nat
  OBVIOUS
<1>3. \A i \in 1..n : \A v \in P[i - 1] : Step(v, i) \in P[i]
  OBVIOUS
<1>4. b \in P[0] /\ P[n] = P[Len(s)]
  OBVIOUS
<1> HIDE DEF n, b, Step
<1>5. \A i \in 1..n : \A v \in P[i - 1] : G[<<v, i>>] = Step(v, i)
  <2> SUFFICES ASSUME NEW i \in 1..n, NEW v \in P[i - 1] PROVE G[<<v, i>>] = Step(v, i)
    OBVIOUS
  <2>1. i - 1 \in 0..n
    BY <1>2
  <2>2. <<v, i>> \in (UNION {P[l] : l \in 0..n}) \X (1..n)
    BY <2>1
  <2> QED
    BY <2>2
<1> HIDE DEF G
<1>6. StepsLead(G, P, n)
  <2> SUFFICES ASSUME NEW i \in 1..n, NEW v \in P[i - 1] PROVE G[<<v, i>>] \in P[i]
    BY DEF StepsLead
  <2>1. Step(v, i) \in P[i]
    BY <1>3
  <2>2. G[<<v, i>>] = Step(v, i)
    BY <1>5
  <2> QED
    BY <2>1, <2>2
<1>7. PICK f : Iterates(f, b, G, n) /\ \A i \in 0..n : f[i] \in P[i]
  BY <1>2, <1>4, <1>6, Iteration
<1>8. \A i \in 0..n : i # 0 => G[<<f[i - 1], i>>] = Step(f[i - 1], i)
  <2> SUFFICES ASSUME NEW i \in 1..n PROVE G[<<f[i - 1], i>>] = Step(f[i - 1], i)
    OBVIOUS
  <2>1. f[i - 1] \in P[i - 1]
    BY <1>2, <1>7
  <2> QED
    BY <1>2, <1>5, <2>1
<1>9. Rec(f)
  BY <1>2, <1>7, <1>8 DEF Iterates
<1>10. Rec(g)
  BY <1>9
<1> HIDE DEF g
<1>11. g[0] = b /\ \A i \in 1..n : g[i] = Step(g[i - 1], i)
  BY <1>2, <1>10
<1>12. Leads(g, P, n)
  BY <1>3, <1>11 DEF Leads
<1>13. g[n] \in P[n]
  BY <1>2, <1>4, <1>11, <1>12, Along
<1> QED
  BY <1>1, <1>4, <1>13

\* stage_isolated.
LEMMA StageKeeps ==
  ASSUME NEW acc, NEW records, NEW skipped, NEW P, Len(InOrder(DOMAIN records \ skipped)) \in Nat,
         acc \in P[0],
         \A i \in 1..Len(InOrder(DOMAIN records \ skipped)) : \A v \in P[i - 1] :
           stage_authority(v, InOrder(DOMAIN records \ skipped)[i], records[InOrder(DOMAIN records \ skipped)[i]]) \in P[i]
  PROVE  stage_isolated(acc, records, skipped) \in P[Len(InOrder(DOMAIN records \ skipped))]
<1> DEFINE n == Len(InOrder(DOMAIN records \ skipped))
           b == acc
           Step(v, i) == stage_authority(v, InOrder(DOMAIN records \ skipped)[i], records[InOrder(DOMAIN records \ skipped)[i]])
           G == [p \in (UNION {P[i] : i \in 0..n}) \X (1..n) |-> Step(p[1], p[2])]
           Rec(f) == f = [i \in 0..n |-> IF i = 0 THEN b ELSE Step(f[i - 1], i)]
           g == CHOOSE f : Rec(f)
<1>1. stage_isolated(acc, records, skipped) = g[n]
  BY DEF stage_isolated, Folded
<1>2. n \in Nat
  OBVIOUS
<1>3. \A i \in 1..n : \A v \in P[i - 1] : Step(v, i) \in P[i]
  OBVIOUS
<1>4. b \in P[0] /\ P[n] = P[Len(InOrder(DOMAIN records \ skipped))]
  OBVIOUS
<1> HIDE DEF n, b, Step
<1>5. \A i \in 1..n : \A v \in P[i - 1] : G[<<v, i>>] = Step(v, i)
  <2> SUFFICES ASSUME NEW i \in 1..n, NEW v \in P[i - 1] PROVE G[<<v, i>>] = Step(v, i)
    OBVIOUS
  <2>1. i - 1 \in 0..n
    BY <1>2
  <2>2. <<v, i>> \in (UNION {P[l] : l \in 0..n}) \X (1..n)
    BY <2>1
  <2> QED
    BY <2>2
<1> HIDE DEF G
<1>6. StepsLead(G, P, n)
  <2> SUFFICES ASSUME NEW i \in 1..n, NEW v \in P[i - 1] PROVE G[<<v, i>>] \in P[i]
    BY DEF StepsLead
  <2>1. Step(v, i) \in P[i]
    BY <1>3
  <2>2. G[<<v, i>>] = Step(v, i)
    BY <1>5
  <2> QED
    BY <2>1, <2>2
<1>7. PICK f : Iterates(f, b, G, n) /\ \A i \in 0..n : f[i] \in P[i]
  BY <1>2, <1>4, <1>6, Iteration
<1>8. \A i \in 0..n : i # 0 => G[<<f[i - 1], i>>] = Step(f[i - 1], i)
  <2> SUFFICES ASSUME NEW i \in 1..n PROVE G[<<f[i - 1], i>>] = Step(f[i - 1], i)
    OBVIOUS
  <2>1. f[i - 1] \in P[i - 1]
    BY <1>2, <1>7
  <2> QED
    BY <1>2, <1>5, <2>1
<1>9. Rec(f)
  BY <1>2, <1>7, <1>8 DEF Iterates
<1>10. Rec(g)
  BY <1>9
<1> HIDE DEF g
<1>11. g[0] = b /\ \A i \in 1..n : g[i] = Step(g[i - 1], i)
  BY <1>2, <1>10
<1>12. Leads(g, P, n)
  BY <1>3, <1>11 DEF Leads
<1>13. g[n] \in P[n]
  BY <1>2, <1>4, <1>11, <1>12, Along
<1> QED
  BY <1>1, <1>4, <1>13

\* fold_entry.
LEMMA FoldKeeps ==
  ASSUME NEW acc, NEW q, NEW wire, NEW covered, NEW P, Len(LocalOps(acc.d, q, wire)) \in Nat,
         acc \in P[0],
         \A i \in 1..Len(LocalOps(acc.d, q, wire)) : \A v \in P[i - 1] :
           fold(v, LocalOps(acc.d, q, wire)[i], covered) \in P[i]
  PROVE  fold_entry(acc, q, wire, covered) \in P[Len(LocalOps(acc.d, q, wire))]
<1> DEFINE n == Len(LocalOps(acc.d, q, wire))
           b == acc
           Step(v, i) == fold(v, LocalOps(acc.d, q, wire)[i], covered)
           G == [p \in (UNION {P[i] : i \in 0..n}) \X (1..n) |-> Step(p[1], p[2])]
           Rec(f) == f = [i \in 0..n |-> IF i = 0 THEN b ELSE Step(f[i - 1], i)]
           g == CHOOSE f : Rec(f)
<1>1. fold_entry(acc, q, wire, covered) = g[n]
  BY DEF fold_entry, Folded
<1>2. n \in Nat
  OBVIOUS
<1>3. \A i \in 1..n : \A v \in P[i - 1] : Step(v, i) \in P[i]
  OBVIOUS
<1>4. b \in P[0] /\ P[n] = P[Len(LocalOps(acc.d, q, wire))]
  OBVIOUS
<1> HIDE DEF n, b, Step
<1>5. \A i \in 1..n : \A v \in P[i - 1] : G[<<v, i>>] = Step(v, i)
  <2> SUFFICES ASSUME NEW i \in 1..n, NEW v \in P[i - 1] PROVE G[<<v, i>>] = Step(v, i)
    OBVIOUS
  <2>1. i - 1 \in 0..n
    BY <1>2
  <2>2. <<v, i>> \in (UNION {P[l] : l \in 0..n}) \X (1..n)
    BY <2>1
  <2> QED
    BY <2>2
<1> HIDE DEF G
<1>6. StepsLead(G, P, n)
  <2> SUFFICES ASSUME NEW i \in 1..n, NEW v \in P[i - 1] PROVE G[<<v, i>>] \in P[i]
    BY DEF StepsLead
  <2>1. Step(v, i) \in P[i]
    BY <1>3
  <2>2. G[<<v, i>>] = Step(v, i)
    BY <1>5
  <2> QED
    BY <2>1, <2>2
<1>7. PICK f : Iterates(f, b, G, n) /\ \A i \in 0..n : f[i] \in P[i]
  BY <1>2, <1>4, <1>6, Iteration
<1>8. \A i \in 0..n : i # 0 => G[<<f[i - 1], i>>] = Step(f[i - 1], i)
  <2> SUFFICES ASSUME NEW i \in 1..n PROVE G[<<f[i - 1], i>>] = Step(f[i - 1], i)
    OBVIOUS
  <2>1. f[i - 1] \in P[i - 1]
    BY <1>2, <1>7
  <2> QED
    BY <1>2, <1>5, <2>1
<1>9. Rec(f)
  BY <1>2, <1>7, <1>8 DEF Iterates
<1>10. Rec(g)
  BY <1>9
<1> HIDE DEF g
<1>11. g[0] = b /\ \A i \in 1..n : g[i] = Step(g[i - 1], i)
  BY <1>2, <1>10
<1>12. Leads(g, P, n)
  BY <1>3, <1>11 DEF Leads
<1>13. g[n] \in P[n]
  BY <1>2, <1>4, <1>11, <1>12, Along
<1> QED
  BY <1>1, <1>4, <1>13

\* FoldCompanions.
LEMMA CompanionsKeep ==
  ASSUME NEW d, NEW accepted, NEW covered, NEW P, Len(Entries(d, accepted)) \in Nat,
         [d |-> d, folded |-> {}] \in P[0],
         \A i \in 1..Len(Entries(d, accepted)) : \A v \in P[i - 1] :
           fold_entry(v, Entries(d, accepted)[i], Wired(d, accepted), covered) \in P[i]
  PROVE  FoldCompanions(d, accepted, covered) \in P[Len(Entries(d, accepted))]
<1> DEFINE n == Len(Entries(d, accepted))
           b == [d |-> d, folded |-> {}]
           Step(v, i) == fold_entry(v, Entries(d, accepted)[i], Wired(d, accepted), covered)
           G == [p \in (UNION {P[i] : i \in 0..n}) \X (1..n) |-> Step(p[1], p[2])]
           Rec(f) == f = [i \in 0..n |-> IF i = 0 THEN b ELSE Step(f[i - 1], i)]
           g == CHOOSE f : Rec(f)
<1>1. FoldCompanions(d, accepted, covered) = g[n]
  BY DEF FoldCompanions, Wired, Folded
<1>2. n \in Nat
  OBVIOUS
<1>3. \A i \in 1..n : \A v \in P[i - 1] : Step(v, i) \in P[i]
  OBVIOUS
<1>4. b \in P[0] /\ P[n] = P[Len(Entries(d, accepted))]
  OBVIOUS
<1> HIDE DEF n, b, Step
<1>5. \A i \in 1..n : \A v \in P[i - 1] : G[<<v, i>>] = Step(v, i)
  <2> SUFFICES ASSUME NEW i \in 1..n, NEW v \in P[i - 1] PROVE G[<<v, i>>] = Step(v, i)
    OBVIOUS
  <2>1. i - 1 \in 0..n
    BY <1>2
  <2>2. <<v, i>> \in (UNION {P[l] : l \in 0..n}) \X (1..n)
    BY <2>1
  <2> QED
    BY <2>2
<1> HIDE DEF G
<1>6. StepsLead(G, P, n)
  <2> SUFFICES ASSUME NEW i \in 1..n, NEW v \in P[i - 1] PROVE G[<<v, i>>] \in P[i]
    BY DEF StepsLead
  <2>1. Step(v, i) \in P[i]
    BY <1>3
  <2>2. G[<<v, i>>] = Step(v, i)
    BY <1>5
  <2> QED
    BY <2>1, <2>2
<1>7. PICK f : Iterates(f, b, G, n) /\ \A i \in 0..n : f[i] \in P[i]
  BY <1>2, <1>4, <1>6, Iteration
<1>8. \A i \in 0..n : i # 0 => G[<<f[i - 1], i>>] = Step(f[i - 1], i)
  <2> SUFFICES ASSUME NEW i \in 1..n PROVE G[<<f[i - 1], i>>] = Step(f[i - 1], i)
    OBVIOUS
  <2>1. f[i - 1] \in P[i - 1]
    BY <1>2, <1>7
  <2> QED
    BY <1>2, <1>5, <2>1
<1>9. Rec(f)
  BY <1>2, <1>7, <1>8 DEF Iterates
<1>10. Rec(g)
  BY <1>9
<1> HIDE DEF g
<1>11. g[0] = b /\ \A i \in 1..n : g[i] = Step(g[i - 1], i)
  BY <1>2, <1>10
<1>12. Leads(g, P, n)
  BY <1>3, <1>11 DEF Leads
<1>13. g[n] \in P[n]
  BY <1>2, <1>4, <1>11, <1>12, Along
<1> QED
  BY <1>1, <1>4, <1>13

\* A handler's run.
LEMMA HandleKeeps ==
  ASSUME NEW s, NEW rows, NEW P, Len(s) \in Nat,
         [rows |-> rows, changed |-> {}, ok |-> TRUE] \in P[0],
         \A i \in 1..Len(s) : \A v \in P[i - 1] :
           Handle(v, s[i]) \in P[i]
  PROVE  Handled(rows, s) \in P[Len(s)]
<1> DEFINE n == Len(s)
           b == [rows |-> rows, changed |-> {}, ok |-> TRUE]
           Step(v, i) == Handle(v, s[i])
           G == [p \in (UNION {P[i] : i \in 0..n}) \X (1..n) |-> Step(p[1], p[2])]
           Rec(f) == f = [i \in 0..n |-> IF i = 0 THEN b ELSE Step(f[i - 1], i)]
           g == CHOOSE f : Rec(f)
<1>1. Handled(rows, s) = g[n]
  BY DEF Handled, Folded
<1>2. n \in Nat
  OBVIOUS
<1>3. \A i \in 1..n : \A v \in P[i - 1] : Step(v, i) \in P[i]
  OBVIOUS
<1>4. b \in P[0] /\ P[n] = P[Len(s)]
  OBVIOUS
<1> HIDE DEF n, b, Step
<1>5. \A i \in 1..n : \A v \in P[i - 1] : G[<<v, i>>] = Step(v, i)
  <2> SUFFICES ASSUME NEW i \in 1..n, NEW v \in P[i - 1] PROVE G[<<v, i>>] = Step(v, i)
    OBVIOUS
  <2>1. i - 1 \in 0..n
    BY <1>2
  <2>2. <<v, i>> \in (UNION {P[l] : l \in 0..n}) \X (1..n)
    BY <2>1
  <2> QED
    BY <2>2
<1> HIDE DEF G
<1>6. StepsLead(G, P, n)
  <2> SUFFICES ASSUME NEW i \in 1..n, NEW v \in P[i - 1] PROVE G[<<v, i>>] \in P[i]
    BY DEF StepsLead
  <2>1. Step(v, i) \in P[i]
    BY <1>3
  <2>2. G[<<v, i>>] = Step(v, i)
    BY <1>5
  <2> QED
    BY <2>1, <2>2
<1>7. PICK f : Iterates(f, b, G, n) /\ \A i \in 0..n : f[i] \in P[i]
  BY <1>2, <1>4, <1>6, Iteration
<1>8. \A i \in 0..n : i # 0 => G[<<f[i - 1], i>>] = Step(f[i - 1], i)
  <2> SUFFICES ASSUME NEW i \in 1..n PROVE G[<<f[i - 1], i>>] = Step(f[i - 1], i)
    OBVIOUS
  <2>1. f[i - 1] \in P[i - 1]
    BY <1>2, <1>7
  <2> QED
    BY <1>2, <1>5, <2>1
<1>9. Rec(f)
  BY <1>2, <1>7, <1>8 DEF Iterates
<1>10. Rec(g)
  BY <1>9
<1> HIDE DEF g
<1>11. g[0] = b /\ \A i \in 1..n : g[i] = Step(g[i - 1], i)
  BY <1>2, <1>10
<1>12. Leads(g, P, n)
  BY <1>3, <1>11 DEF Leads
<1>13. g[n] \in P[n]
  BY <1>2, <1>4, <1>11, <1>12, Along
<1> QED
  BY <1>1, <1>4, <1>13

\* The mutations of a batch.
LEMMA ExecuteKeeps ==
  ASSUME NEW s, NEW sv, NEW refused, NEW P, Len(s) \in Nat,
         [s |-> sv, rejected |-> {}, records |-> << >>] \in P[0],
         \A i \in 1..Len(s) : \A v \in P[i - 1] :
           Execute(v, s[i], refused) \in P[i]
  PROVE  Executed(sv, s, refused) \in P[Len(s)]
<1> DEFINE n == Len(s)
           b == [s |-> sv, rejected |-> {}, records |-> << >>]
           Step(v, i) == Execute(v, s[i], refused)
           G == [p \in (UNION {P[i] : i \in 0..n}) \X (1..n) |-> Step(p[1], p[2])]
           Rec(f) == f = [i \in 0..n |-> IF i = 0 THEN b ELSE Step(f[i - 1], i)]
           g == CHOOSE f : Rec(f)
<1>1. Executed(sv, s, refused) = g[n]
  BY DEF Executed, Folded
<1>2. n \in Nat
  OBVIOUS
<1>3. \A i \in 1..n : \A v \in P[i - 1] : Step(v, i) \in P[i]
  OBVIOUS
<1>4. b \in P[0] /\ P[n] = P[Len(s)]
  OBVIOUS
<1> HIDE DEF n, b, Step
<1>5. \A i \in 1..n : \A v \in P[i - 1] : G[<<v, i>>] = Step(v, i)
  <2> SUFFICES ASSUME NEW i \in 1..n, NEW v \in P[i - 1] PROVE G[<<v, i>>] = Step(v, i)
    OBVIOUS
  <2>1. i - 1 \in 0..n
    BY <1>2
  <2>2. <<v, i>> \in (UNION {P[l] : l \in 0..n}) \X (1..n)
    BY <2>1
  <2> QED
    BY <2>2
<1> HIDE DEF G
<1>6. StepsLead(G, P, n)
  <2> SUFFICES ASSUME NEW i \in 1..n, NEW v \in P[i - 1] PROVE G[<<v, i>>] \in P[i]
    BY DEF StepsLead
  <2>1. Step(v, i) \in P[i]
    BY <1>3
  <2>2. G[<<v, i>>] = Step(v, i)
    BY <1>5
  <2> QED
    BY <2>1, <2>2
<1>7. PICK f : Iterates(f, b, G, n) /\ \A i \in 0..n : f[i] \in P[i]
  BY <1>2, <1>4, <1>6, Iteration
<1>8. \A i \in 0..n : i # 0 => G[<<f[i - 1], i>>] = Step(f[i - 1], i)
  <2> SUFFICES ASSUME NEW i \in 1..n PROVE G[<<f[i - 1], i>>] = Step(f[i - 1], i)
    OBVIOUS
  <2>1. f[i - 1] \in P[i - 1]
    BY <1>2, <1>7
  <2> QED
    BY <1>2, <1>5, <2>1
<1>9. Rec(f)
  BY <1>2, <1>7, <1>8 DEF Iterates
<1>10. Rec(g)
  BY <1>9
<1> HIDE DEF g
<1>11. g[0] = b /\ \A i \in 1..n : g[i] = Step(g[i - 1], i)
  BY <1>2, <1>10
<1>12. Leads(g, P, n)
  BY <1>3, <1>11 DEF Leads
<1>13. g[n] \in P[n]
  BY <1>2, <1>4, <1>11, <1>12, Along
<1> QED
  BY <1>1, <1>4, <1>13

---------------------------------------------------------------------------
(* What the variables hold.                                                *)

\* Every operation of an application.
Ops(of) == of.direct \cup of.external \cup
           UNION {ToSet(m.wire) \cup ToSet(m.companion) : m \in of.mutations}

\* The records no application ever gives an owner: they are never hidden by the
\* deletion of another record.
Root ==
  {k \in Key : \A a \in DOMAIN Application : LET of == Application[a] IN
     /\ of.seed[k] # Absent => of.seed[k].owner = 0
     /\ \A op \in Ops(of) : (op.key = k /\ "owner" \in DOMAIN op.patch) => op.patch.owner = 0}
RootOp == {op \in Op : (op.key \in Root /\ "owner" \in DOMAIN op.patch) => op.patch.owner = 0}
Held(k) == {row \in Row \cup {Absent} : (row # Absent /\ k \in Root) => row.owner = 0}

Table == {rows \in [Key -> Row \cup {Absent}] : \A k \in Key : rows[k] \in Held(k)}
Entry == [ordinal : Nat, wire : Seq(RootOp), companion : Seq(RootOp), effects : SUBSET Key,
          lifecycle : SUBSET Nat, sent : BOOLEAN]
Database == [main : Table, before : Table, stamp : [Key -> Nat], cursor : [Channel -> Int],
             queue : Seq(Entry)]

LEMMA OpFacts ==
  /\ \A op \in Op : /\ op.key \in Key /\ op.kind \in {"create", "update", "delete"}
                    /\ op.kind = "create" => op.patch \in Row
                    /\ op.kind = "update" => op.patch \in Patch
  /\ \A k \in Key : Delete(k) \in RootOp /\ Delete(k).key = k /\ Delete(k).kind = "delete"
  /\ RootOp \subseteq Op
<1>1. ASSUME NEW op \in Op
      PROVE  /\ op.key \in Key /\ op.kind \in {"create", "update", "delete"}
             /\ op.kind = "create" => op.patch \in Row
             /\ op.kind = "update" => op.patch \in Patch
  BY <1>1 DEF Op, Delete
<1>2. ASSUME NEW k \in Key
      PROVE  Delete(k) \in RootOp /\ Delete(k).key = k /\ Delete(k).kind = "delete"
  <2>1. Delete(k) \in Op /\ Delete(k).key = k /\ Delete(k).kind = "delete"
    BY DEF Op, Delete
  <2>2. Delete(k).patch = << >>
    BY DEF Delete
  <2>3. "owner" \notin DOMAIN Delete(k).patch
    BY <2>2
  <2> QED
    BY <2>1, <2>3 DEF RootOp
<1> QED
  BY <1>1, <1>2 DEF RootOp

LEMMA RowFacts ==
  /\ Absent \notin Row
  /\ \A k : Absent \in Held(k)
  /\ \A k : Held(k) \subseteq Row \cup {Absent}
  /\ \A row \in Row : row.owner \in Key \cup {0} /\ row.value \in Value
BY RecordsAssumption DEF Held, Row

LEMMA KeyFacts == /\ Keys \in Nat /\ Key \subseteq Nat /\ 0 \notin Key /\ IsFiniteSet(Key)
                  /\ \A k \in Key : k >= 1 /\ k <= Keys
<1>1. Keys \in Nat
  BY RecordsAssumption
<1>2. IsFiniteSet(1..Keys)
  BY <1>1, FS_Interval
<1> QED
  BY <1>1, <1>2 DEF Key

\* An operation that fits leaves a row that may be there.
LEMMA Applies ==
  ASSUME NEW k, NEW row \in Held(k), NEW op \in RootOp, op.key = k,
         op.kind = "update" => row # Absent
  PROVE  apply_to_row(row, op) \in Held(k)
<1>1. op.kind \in {"create", "update", "delete"} /\ op \in Op
  BY OpFacts
<1>2. CASE op.kind = "delete"
  BY <1>2, RowFacts DEF apply_to_row
<1>3. CASE op.kind = "create"
  <2>1. apply_to_row(row, op) = op.patch /\ op.patch \in Row
    BY <1>1, <1>3, OpFacts DEF apply_to_row
  <2>2. "owner" \in DOMAIN op.patch
    BY <2>1 DEF Row
  <2> QED
    BY <2>1, <2>2 DEF Held, RootOp
<1>4. CASE op.kind = "update"
  <2>1. op.patch \in Patch /\ row \in Row
    BY <1>1, <1>4, OpFacts, RowFacts DEF Held
  <2> DEFINE new == [f \in DOMAIN row |-> IF f \in DOMAIN op.patch THEN op.patch[f] ELSE row[f]]
  <2>2. apply_to_row(row, op) = new
    BY <1>4 DEF apply_to_row
  <2>3. DOMAIN row = {"owner", "value"} /\ row.owner \in Key \cup {0} /\ row.value \in Value
    BY <2>1 DEF Row
  <2>4. /\ "owner" \in DOMAIN op.patch => op.patch["owner"] \in Key \cup {0}
        /\ "value" \in DOMAIN op.patch => op.patch["value"] \in Value
    BY <2>1 DEF Patch
  <2>5. new.owner = IF "owner" \in DOMAIN op.patch THEN op.patch["owner"] ELSE row.owner
    BY <2>3
  <2>6. new.value = IF "value" \in DOMAIN op.patch THEN op.patch["value"] ELSE row.value
    BY <2>3
  <2>7. new = [owner |-> new.owner, value |-> new.value]
    BY <2>3
  <2> HIDE DEF new
  <2>8. new \in Row
    BY <2>3, <2>4, <2>5, <2>6, <2>7 DEF Row
  <2>9. k \in Root => new.owner = 0
    <3> SUFFICES ASSUME k \in Root PROVE new.owner = 0
      OBVIOUS
    <3>1. row.owner = 0
      BY <1>4, RowFacts DEF Held
    <3>2. "owner" \in DOMAIN op.patch => op.patch.owner = 0
      BY DEF RootOp
    <3> QED
      BY <2>5, <3>1, <3>2
  <2> QED
    BY <2>2, <2>8, <2>9 DEF Held
<1> QED
  BY <1>1, <1>2, <1>3, <1>4

---------------------------------------------------------------------------
(* Sequences                                                               *)

LEMMA FilteredType ==
  ASSUME NEW S, NEW s \in Seq(S), NEW X
  PROVE  Filtered(s, X) \in Seq(S \cap X)
<1> DEFINE P == [i \in 0..Len(s) |-> Seq(S \cap X)]
<1>1. Len(s) \in Nat /\ P[Len(s)] = Seq(S \cap X) /\ << >> \in P[0]
  OBVIOUS
<1>2. ASSUME NEW i \in 1..Len(s), NEW v \in P[i - 1]
      PROVE  (IF s[i] \in X THEN Append(v, s[i]) ELSE v) \in P[i]
  <2>1. i - 1 \in 0..Len(s) /\ v \in Seq(S \cap X) /\ s[i] \in S /\ P[i] = Seq(S \cap X)
    BY <1>1
  <2> HIDE DEF P
  <2>2. s[i] \in X => Append(v, s[i]) \in Seq(S \cap X)
    <3> SUFFICES ASSUME s[i] \in S \cap X PROVE Append(v, s[i]) \in Seq(S \cap X)
      BY <2>1
    <3> DEFINE T == S \cap X
    <3> HIDE DEF T
    <3>1. \A e \in T : Append(v, e) \in Seq(T)
      BY <2>1 DEF T
    <3> QED
      BY <3>1 DEF T
  <2> QED
    BY <2>1, <2>2
<1> HIDE DEF P
<1>3. Filtered(s, X) \in P[Len(s)]
  BY <1>1, <1>2, FilteredKeeps
<1> QED
  BY <1>1, <1>3

\* Every element of s that is in X is an element of Filtered(s, X).
LEMMA FilteredCovers ==
  ASSUME NEW S, NEW s \in Seq(S), NEW X
  PROVE  \A i \in 1..Len(s) : s[i] \in X =>
           \E m \in 1..Len(Filtered(s, X)) : Filtered(s, X)[m] = s[i]
<1> DEFINE Has(r, e) == \E m \in 1..Len(r) : r[m] = e
           Sofar(r, i) == \A j \in 1..i : s[j] \in X => Has(r, s[j])
           P == [i \in 0..Len(s) |-> {r \in Seq(S) : Sofar(r, i)}]
<1>1. Len(s) \in Nat /\ << >> \in P[0]
  OBVIOUS
<1>2. ASSUME NEW i \in 1..Len(s), NEW v \in P[i - 1]
      PROVE  (IF s[i] \in X THEN Append(v, s[i]) ELSE v) \in P[i]
  <2>1. i - 1 \in 0..Len(s) /\ i \in 0..Len(s)
    BY <1>1
  <2> HIDE DEF Sofar
  <2>2. v \in Seq(S) /\ Sofar(v, i - 1)
    BY <2>1
  <2> USE DEF Sofar
  <2> DEFINE w == IF s[i] \in X THEN Append(v, s[i]) ELSE v
  <2>3. w \in Seq(S) /\ s[i] \in S
    BY <2>2
  <2>4. ASSUME NEW e, Has(v, e) PROVE Has(w, e)
    <3>1. PICK m \in 1..Len(v) : v[m] = e
      BY <2>4
    <3>2. m \in 1..Len(w) /\ w[m] = v[m]
      BY <2>2, <2>3
    <3> QED
      BY <3>1, <3>2
  <2>5. s[i] \in X => Has(w, s[i])
    <3> SUFFICES ASSUME s[i] \in X PROVE Has(w, s[i])
      OBVIOUS
    <3>1. Len(v) + 1 \in 1..Len(w) /\ w[Len(v) + 1] = s[i]
      BY <2>2
    <3> QED
      BY <3>1
  <2> HIDE DEF Has, w
  <2>6. Sofar(w, i)
    BY <2>2, <2>4, <2>5
  <2>7. w \in P[i]
    BY <2>1, <2>3, <2>6
  <2> QED
    BY <2>7 DEF w
<1> HIDE DEF P
<1>3. Filtered(s, X) \in P[Len(s)]
  BY <1>1, <1>2, FilteredKeeps
<1> QED
  BY <1>1, <1>3 DEF P

\* Filtered keeps what an ordinal tells apart.
OrdinalsDiffer(s) == \A m, n \in 1..Len(s) : m # n => s[m].ordinal # s[n].ordinal
LEMMA FilteredDiffers ==
  ASSUME NEW S, NEW s \in Seq(S), NEW X, OrdinalsDiffer(s)
  PROVE  OrdinalsDiffer(Filtered(s, X))
<1> DEFINE Early(r, i) == \A m \in 1..Len(r) : \E j \in 1..i : r[m] = s[j]
           P == [i \in 0..Len(s) |-> {r \in Seq(S) : Early(r, i) /\ OrdinalsDiffer(r)}]
<1>1. Len(s) \in Nat /\ << >> \in P[0]
  BY DEF OrdinalsDiffer
<1>2. ASSUME NEW i \in 1..Len(s), NEW v \in P[i - 1]
      PROVE  (IF s[i] \in X THEN Append(v, s[i]) ELSE v) \in P[i]
  <2>1. i - 1 \in 0..Len(s) /\ i \in 0..Len(s)
    BY <1>1
  <2>2. v \in Seq(S) /\ Early(v, i - 1) /\ OrdinalsDiffer(v)
    BY <2>1
  <2>3. CASE s[i] \notin X
    <3>1. Early(v, i)
      BY <2>2
    <3> QED
      BY <2>1, <2>2, <2>3, <3>1
  <2>4. CASE s[i] \in X
    <3> DEFINE w == Append(v, s[i])
    <3>1. w \in Seq(S) /\ Len(w) = Len(v) + 1 /\ w[Len(v) + 1] = s[i]
          /\ \A m \in 1..Len(v) : w[m] = v[m]
      BY <2>2
    <3> HIDE DEF w
    <3>2. Early(w, i)
      BY <2>2, <3>1
    <3>3. \A m \in 1..Len(v) : v[m].ordinal # s[i].ordinal
      <4> SUFFICES ASSUME NEW m \in 1..Len(v) PROVE v[m].ordinal # s[i].ordinal
        OBVIOUS
      <4>1. PICK j \in 1..(i - 1) : v[m] = s[j]
        BY <2>2
      <4>2. j \in 1..Len(s) /\ j # i
        BY <1>1
      <4> QED
        BY <4>1, <4>2 DEF OrdinalsDiffer
    <3>4. OrdinalsDiffer(w)
      <4> SUFFICES ASSUME NEW m \in 1..Len(w), NEW n \in 1..Len(w), m # n
                   PROVE  w[m].ordinal # w[n].ordinal
        BY DEF OrdinalsDiffer
      <4>1. Len(v) \in Nat
        BY <2>2
      <4>2. CASE m \in 1..Len(v) /\ n \in 1..Len(v)
        BY <4>2, <3>1, <2>2 DEF OrdinalsDiffer
      <4>3. CASE m \in 1..Len(v) /\ n = Len(v) + 1
        BY <4>3, <3>1, <3>3
      <4>4. CASE n \in 1..Len(v) /\ m = Len(v) + 1
        BY <4>4, <3>1, <3>3
      <4> QED
        BY <4>1, <4>2, <4>3, <4>4, <3>1
    <3>5. w \in P[i]
      BY <2>1, <3>1, <3>2, <3>4
    <3> QED
      BY <2>4, <3>5 DEF w
  <2> QED
    BY <2>3, <2>4
<1> HIDE DEF P
<1>3. Filtered(s, X) \in P[Len(s)]
  BY <1>1, <1>2, FilteredKeeps
<1> QED
  BY <1>1, <1>3 DEF P

\* The elements of a sequence.
LEMMA SetOf ==
  ASSUME NEW S, NEW s \in Seq(S)
  PROVE  /\ ToSet(s) \subseteq S /\ DOMAIN s = 1..Len(s) /\ Len(s) \in Nat
         /\ \A i \in 1..Len(s) : s[i] \in ToSet(s) /\ s[i] \in S
         /\ \A e \in ToSet(s) : \E i \in 1..Len(s) : s[i] = e
BY DEF ToSet

LEMMA Picked ==
  ASSUME NEW S, NEW s \in Seq(S), NEW X
  PROVE  /\ Filtered(s, X) \in Seq(S \cap X) /\ Filtered(s, X) \in Seq(S)
         /\ ToSet(Filtered(s, X)) = ToSet(s) \cap X
<1>1. Filtered(s, X) \in Seq(S \cap X)
  BY FilteredType
<1>2. Filtered(s, X) \in Seq(S)
  BY <1>1
<1>3. s \in Seq(ToSet(s))
  BY DEF ToSet
<1>4. Filtered(s, X) \in Seq(ToSet(s) \cap X)
  BY <1>3, FilteredType
<1>5. ToSet(Filtered(s, X)) \subseteq ToSet(s) \cap X
  BY <1>4, SetOf
<1>6. ASSUME NEW e \in ToSet(s) \cap X PROVE e \in ToSet(Filtered(s, X))
  <2>1. PICK i \in 1..Len(s) : s[i] = e
    BY SetOf
  <2>2. PICK m \in 1..Len(Filtered(s, X)) : Filtered(s, X)[m] = e
    BY <2>1, FilteredCovers
  <2> QED
    BY <1>2, <2>2, SetOf
<1> QED
  BY <1>1, <1>2, <1>5, <1>6

LEMMA InOrderOf ==
  ASSUME NEW K \in SUBSET Key
  PROVE  /\ InOrder(K) \in Seq(K) /\ ToSet(InOrder(K)) = K
         /\ Deletions(K) \in Seq(RootOp) /\ Len(Deletions(K)) = Len(InOrder(K))
         /\ \A i \in 1..Len(Deletions(K)) : Deletions(K)[i] = Delete(InOrder(K)[i]) /\ InOrder(K)[i] \in K
<1> DEFINE all == [k \in Key |-> k]
<1>1. all \in Seq(Key) /\ ToSet(all) = Key
  BY KeyFacts DEF Key, ToSet
<1>2. InOrder(K) = Filtered(all, K)
  BY DEF InOrder
<1> HIDE DEF all
<1>3. Filtered(all, K) \in Seq(Key \cap K) /\ ToSet(Filtered(all, K)) = ToSet(all) \cap K
  BY <1>1, Picked
<1>4. Key \cap K = K
  OBVIOUS
<1>5. InOrder(K) \in Seq(K) /\ ToSet(InOrder(K)) = K
  BY <1>1, <1>2, <1>3, <1>4
<1> DEFINE o == InOrder(K)
<1>6. Deletions(K) = [i \in DOMAIN o |-> Delete(o[i])]
  BY DEF Deletions
<1> HIDE DEF o
<1>7. DOMAIN o = 1..Len(o) /\ Len(o) \in Nat /\ \A i \in 1..Len(o) : o[i] \in K
  BY <1>5 DEF o
<1>8. \A i \in 1..Len(o) : Delete(o[i]) \in RootOp
  BY <1>7, OpFacts
<1>9. Deletions(K) \in Seq(RootOp) /\ Len(Deletions(K)) = Len(o)
      /\ \A i \in 1..Len(o) : Deletions(K)[i] = Delete(o[i])
  BY <1>6, <1>7, <1>8
<1> QED
  BY <1>5, <1>7, <1>9 DEF o

---------------------------------------------------------------------------
(* The client's operators.  Nothing but a change of the queue makes a      *)
(* record dirty or clean, and only a dirty record has a before image.      *)

OpOn(k) == {op \in RootOp : op.key = k}
Clean(d) == \A k \in Key : ~ dirty(d, k) => d.before[k] = Absent
Truths(d) == [k \in Key |-> truth(d, k)]

\* The operations of an entry.
LEMMA EntryOps ==
  ASSUME NEW q \in Entry
  PROVE  /\ OwnOps(q) \in Seq(RootOp) /\ Touched(q) \subseteq Key
         /\ Deletes(q) \in Seq(RootOp)
         /\ \A k \in Key : OpsOn(q, k) \in Seq(OpOn(k)) /\ (k \notin Touched(q) => OpsOn(q, k) = << >>)
<1>1. q.wire \in Seq(RootOp) /\ q.companion \in Seq(RootOp) /\ q.effects \in SUBSET Key
  BY DEF Entry
<1>2. OwnOps(q) \in Seq(RootOp)
  BY <1>1 DEF OwnOps
<1>3. \A i \in DOMAIN OwnOps(q) : OwnOps(q)[i] \in RootOp
  BY <1>2
<1>4. Touched(q) \subseteq Key
  BY <1>1, <1>3, OpFacts DEF Touched
<1>5. Deletes(q) \in Seq(RootOp)
  BY <1>2, Picked DEF Deletes
<1>6. ASSUME NEW k \in Key
      PROVE  OpsOn(q, k) \in Seq(OpOn(k)) /\ (k \notin Touched(q) => OpsOn(q, k) = << >>)
  <2> DEFINE X == {op \in ToSet(OwnOps(q)) : op.key = k}
             own == Filtered(OwnOps(q), X)
             rest == IF k \in q.effects THEN <<Delete(k)>> ELSE << >>
  <2>1. OpsOn(q, k) = own \o rest
    BY DEF OpsOn
  <2>2. own \in Seq(RootOp \cap X)
    BY <1>2, Picked
  <2>3. RootOp \cap X \subseteq OpOn(k)
    BY DEF OpOn
  <2>4. own \in Seq(OpOn(k))
    BY <2>2, <2>3
  <2>5. rest \in Seq(OpOn(k))
    <3>1. Delete(k) \in OpOn(k)
      BY OpFacts DEF OpOn
    <3>2. <<Delete(k)>> \in Seq(OpOn(k)) /\ << >> \in Seq(OpOn(k))
      BY <3>1
    <3> QED
      BY <3>2
  <2>6. ASSUME k \notin Touched(q) PROVE own = << >> /\ rest = << >>
    <3>1. X = {}
      BY <2>6 DEF Touched, ToSet
    <3>2. RootOp \cap X = {}
      BY <3>1
    <3>3. own \in Seq({})
      BY <2>2, <3>2
    <3>4. own = << >>
      BY <3>3
    <3> QED
      BY <2>6, <3>4 DEF Touched
  <2> HIDE DEF own, rest
  <2>7. own \o rest \in Seq(OpOn(k))
    BY <2>4, <2>5
  <2> QED
    BY <2>1, <2>6, <2>7
<1> QED
  BY <1>2, <1>4, <1>5, <1>6

\* The operations a queue holds on a record.
LEMMA OpsFor ==
  ASSUME NEW d, d.queue \in Seq(Entry), NEW k \in Key
  PROVE  ops_for(d, k) \in Seq(OpOn(k)) /\ (~ dirty(d, k) => ops_for(d, k) = << >>)
<1> DEFINE n == Len(d.queue)
           Empty(r, i) == (\A j \in 1..i : k \notin Touched(d.queue[j])) => r = << >>
           P == [i \in 0..n |-> {r \in Seq(OpOn(k)) : Empty(r, i)}]
<1>1. n \in Nat /\ << >> \in P[0] /\ DOMAIN d.queue = 1..n
  OBVIOUS
<1>2. ASSUME NEW i \in 1..n, NEW v \in P[i - 1]
      PROVE  (v \o OpsOn(d.queue[i], k)) \in P[i]
  <2> HIDE DEF Empty
  <2>1. i - 1 \in 0..n /\ i \in 0..n /\ d.queue[i] \in Entry
    BY <1>1
  <2>2. v \in Seq(OpOn(k)) /\ Empty(v, i - 1)
    BY <2>1
  <2>3. OpsOn(d.queue[i], k) \in Seq(OpOn(k))
        /\ (k \notin Touched(d.queue[i]) => OpsOn(d.queue[i], k) = << >>)
    BY <2>1, EntryOps
  <2> DEFINE w == v \o OpsOn(d.queue[i], k)
  <2>4. w \in Seq(OpOn(k))
    BY <2>2, <2>3
  <2>5. Empty(w, i)
    <3> SUFFICES ASSUME \A j \in 1..i : k \notin Touched(d.queue[j]) PROVE w = << >>
      BY DEF Empty
    <3>1. v = << >>
      BY <2>2 DEF Empty
    <3>2. OpsOn(d.queue[i], k) = << >>
      BY <2>3
    <3> QED
      BY <3>1, <3>2
  <2> QED
    BY <2>1, <2>4, <2>5
<1> HIDE DEF P
<1>3. ops_for(d, k) \in P[n]
  BY <1>1, <1>2, OpsKeep
<1>4. ops_for(d, k) \in Seq(OpOn(k)) /\ Empty(ops_for(d, k), n)
  <2> HIDE DEF Empty
  <2> QED
    BY <1>1, <1>3 DEF P
<1> QED
  BY <1>1, <1>4 DEF dirty

\* A replay leaves a row that may be there, and without operations the base.
End(k) == [row : Held(k), ok : BOOLEAN]
LEMMA ReplayedType ==
  ASSUME NEW k \in Key, NEW v \in End(k), NEW op \in OpOn(k)
  PROVE  Replayed(v, op) \in End(k) /\ (~ v.ok => ~ Replayed(v, op).ok)
<1>1. op \in RootOp /\ op.key = k
  BY DEF OpOn
<1>2. CASE v.ok /\ Fits(v.row, op)
  <2>1. apply_to_row(v.row, op) \in Held(k)
    BY <1>1, <1>2, Applies DEF Fits, End
  <2> QED
    BY <1>2, <2>1 DEF Replayed, End
<1>3. CASE ~ (v.ok /\ Fits(v.row, op))
  BY <1>3 DEF Replayed, End
<1> QED
  BY <1>2, <1>3

\* A replay goes through the ends of its operations, one after the other.
LEMMA ReplaysThrough ==
  ASSUME NEW k \in Key, NEW v \in End(k), NEW s \in Seq(OpOn(k))
  PROVE  \E g : /\ g[0] = v /\ Replays(v, s) = g[Len(s)]
                /\ \A i \in 1..Len(s) : g[i] = Replayed(g[i - 1], s[i])
                /\ \A i \in 0..Len(s) : g[i] \in End(k) /\ (~ v.ok => ~ g[i].ok)
<1> DEFINE E == {w \in End(k) : ~ v.ok => ~ w.ok}
           P == [i \in 0..Len(s) |-> E]
<1>1. Len(s) \in Nat /\ v \in P[0]
  OBVIOUS
<1>2. ASSUME NEW i \in 1..Len(s), NEW w \in P[i - 1] PROVE Replayed(w, s[i]) \in P[i]
  <2>1. i - 1 \in 0..Len(s) /\ i \in 0..Len(s) /\ s[i] \in OpOn(k)
    BY <1>1
  <2>2. w \in End(k) /\ (~ v.ok => ~ w.ok)
    BY <2>1
  <2>3. Replayed(w, s[i]) \in End(k) /\ (~ w.ok => ~ Replayed(w, s[i]).ok)
    BY <2>1, <2>2, ReplayedType
  <2> QED
    BY <2>1, <2>2, <2>3
<1> HIDE DEF P
<1>3. PICK g : ReplaysPath(g, s, v, P)
  BY <1>1, <1>2, ReplaysRun
<1>4. \A i \in 0..Len(s) : g[i] \in End(k) /\ (~ v.ok => ~ g[i].ok)
  BY <1>3 DEF P, ReplaysPath
<1> QED
  BY <1>3, <1>4 DEF ReplaysPath

\* A list of ends that follow one another from v is what the replay goes through.
Follows(f, v, s) == f[0] = v /\ \A i \in 1..Len(s) : f[i] = Replayed(f[i - 1], s[i])
LEMMA ReplaysAlong ==
  ASSUME NEW S, NEW s \in Seq(S), NEW v, NEW f, Follows(f, v, s)
  PROVE  Replays(v, s) = f[Len(s)]
<1> DEFINE P == [i \in 0..Len(s) |-> {f[i]}]
<1>1. Len(s) \in Nat /\ v \in P[0]
  BY DEF Follows
<1>2. ASSUME NEW i \in 1..Len(s), NEW w \in P[i - 1] PROVE Replayed(w, s[i]) \in P[i]
  <2>1. i - 1 \in 0..Len(s) /\ i \in 0..Len(s)
    BY <1>1
  <2>2. w = f[i - 1]
    BY <2>1
  <2> QED
    BY <2>1, <2>2 DEF Follows
<1> HIDE DEF P
<1>3. Replays(v, s) \in P[Len(s)]
  BY <1>1, <1>2, ReplaysKeep
<1> QED
  BY <1>1, <1>3 DEF P

LEMMA ReplaysType ==
  ASSUME NEW k \in Key, NEW v \in End(k), NEW s \in Seq(OpOn(k))
  PROVE  /\ Replays(v, s) \in End(k) /\ (~ v.ok => ~ Replays(v, s).ok)
         /\ s = << >> => Replays(v, s) = v
<1>1. PICK g : /\ g[0] = v /\ Replays(v, s) = g[Len(s)]
               /\ \A i \in 1..Len(s) : g[i] = Replayed(g[i - 1], s[i])
               /\ \A i \in 0..Len(s) : g[i] \in End(k) /\ (~ v.ok => ~ g[i].ok)
  BY ReplaysThrough
<1>2. Len(s) \in 0..Len(s)
  OBVIOUS
<1> QED
  BY <1>1, <1>2

\* One operation more, and a list after another.
LEMMA ReplaysOn ==
  ASSUME NEW k \in Key, NEW v \in End(k), NEW s \in Seq(OpOn(k)), NEW t \in Seq(OpOn(k))
  PROVE  Replays(v, s \o t) = Replays(Replays(v, s), t)
<1> DEFINE n == Len(s)
           m == Len(t)
           u == Replays(v, s)
           r == s \o t
<1>1. PICK g : g[0] = v /\ u = g[n] /\ \A i \in 1..n : g[i] = Replayed(g[i - 1], s[i])
  BY ReplaysThrough
<1>2. u \in End(k)
  BY ReplaysType
<1> HIDE DEF u
<1>3. PICK h : h[0] = u /\ Replays(u, t) = h[m] /\ \A i \in 1..m : h[i] = Replayed(h[i - 1], t[i])
  BY <1>2, ReplaysThrough
<1>4. /\ r \in Seq(OpOn(k)) /\ n \in Nat /\ m \in Nat /\ Len(r) = n + m
      /\ \A i \in 1..(n + m) : r[i] = IF i <= n THEN s[i] ELSE t[i - n]
  OBVIOUS
<1> DEFINE f == [i \in 0..(n + m) |-> IF i <= n THEN g[i] ELSE h[i - n]]
<1> HIDE DEF n, m, r
<1>5. ASSUME NEW i \in 1..(n + m) PROVE f[i] = Replayed(f[i - 1], r[i])
  <2>1. i \in 0..(n + m) /\ i - 1 \in 0..(n + m) /\ i \in Int
    BY <1>4
  <2>2. CASE i <= n
    <3>1. i \in 1..n /\ i - 1 <= n /\ f[i] = g[i] /\ f[i - 1] = g[i - 1] /\ r[i] = s[i]
      BY <1>4, <2>1, <2>2
    <3> HIDE DEF f
    <3> QED
      BY <1>1, <3>1
  <2>3. CASE i = n + 1
    <3>1. 1 \in 1..m /\ i - n = 1 /\ i - 1 = n /\ ~ (i <= n)
      BY <1>4, <2>3
    <3>2. f[i] = h[1] /\ f[i - 1] = g[n] /\ r[i] = t[1]
      BY <1>4, <2>1, <3>1
    <3>3. h[1] = Replayed(h[0], t[1])
      <4>1. 1 - 1 = 0
        OBVIOUS
      <4> QED
        BY <1>3, <3>1, <4>1
    <3> HIDE DEF f
    <3> QED
      BY <1>1, <1>3, <3>2, <3>3
  <2>4. CASE i > n + 1
    <3>1. i - n \in 1..m /\ ~ (i <= n) /\ ~ (i - 1 <= n) /\ (i - 1) - n = (i - n) - 1
      BY <1>4, <2>1, <2>4
    <3>2. f[i] = h[i - n] /\ f[i - 1] = h[(i - n) - 1] /\ r[i] = t[i - n]
      BY <1>4, <2>1, <3>1
    <3> HIDE DEF f
    <3> QED
      BY <1>3, <3>1, <3>2
  <2> QED
    BY <1>4, <2>1, <2>2, <2>3, <2>4
<1>6. f[0] = v /\ f[n + m] = h[m]
  <2>1. 0 \in 0..(n + m) /\ n + m \in 0..(n + m) /\ 0 <= n
    BY <1>4
  <2>2. m = 0 => n + m <= n /\ n + m = n
    BY <1>4
  <2>3. m # 0 => ~ (n + m <= n) /\ (n + m) - n = m
    BY <1>4
  <2> QED
    BY <1>1, <1>3, <2>1, <2>2, <2>3
<1> HIDE DEF f
<1>7. Replays(v, r) = f[Len(r)]
  BY <1>4, <1>5, <1>6, ReplaysAlong DEF Follows
<1> QED
  BY <1>3, <1>4, <1>6, <1>7 DEF u, r

LEMMA ReplaysOne ==
  ASSUME NEW k \in Key, NEW v \in End(k), NEW op \in OpOn(k)
  PROVE  Replays(v, <<op>>) = Replayed(v, op)
<1>1. <<op>> \in Seq(OpOn(k)) /\ Len(<<op>>) = 1 /\ <<op>>[1] = op /\ 1 - 1 = 0
  OBVIOUS
<1>2. PICK g : /\ g[0] = v /\ Replays(v, <<op>>) = g[Len(<<op>>)]
               /\ \A i \in 1..Len(<<op>>) : g[i] = Replayed(g[i - 1], <<op>>[i])
  BY <1>1, ReplaysThrough
<1>3. 1 \in 1..Len(<<op>>)
  BY <1>1
<1>4. g[1] = Replayed(g[1 - 1], <<op>>[1])
  BY <1>2, <1>3
<1> QED
  BY <1>1, <1>2, <1>4

LEMMA ReplayType ==
  ASSUME NEW k \in Key, NEW row \in Held(k), NEW s \in Seq(OpOn(k))
  PROVE  /\ Replay(row, s) = Replays([row |-> row, ok |-> TRUE], s)
         /\ Replay(row, s).row \in Held(k) /\ Replay(row, s).ok \in BOOLEAN
         /\ s = << >> => Replay(row, s) = [row |-> row, ok |-> TRUE]
<1> DEFINE b == [row |-> row, ok |-> TRUE]
<1>1. Replay(row, s) = Replays(b, s)
  BY DEF Replay, Replays
<1>2. b \in End(k)
  BY DEF End
<1> HIDE DEF b
<1>3. Replays(b, s) \in End(k) /\ (s = << >> => Replays(b, s) = b)
  BY <1>2, ReplaysType
<1> QED
  BY <1>1, <1>3 DEF End, b

\* The parts of a database.
LEMMA Parts ==
  ASSUME NEW d \in Database
  PROVE  /\ d.main \in Table /\ d.before \in Table /\ d.stamp \in [Key -> Nat]
         /\ d.cursor \in [Channel -> Int] /\ d.queue \in Seq(Entry)
         /\ d.main \in [Key -> Row \cup {Absent}] /\ d.before \in [Key -> Row \cup {Absent}]
         /\ \A k \in Key : d.main[k] \in Held(k) /\ d.before[k] \in Held(k) /\ d.stamp[k] \in Nat
         /\ \A k \in Key : truth(d, k) \in Held(k) /\ dirty(d, k) \in BOOLEAN
         /\ Len(d.queue) \in Nat /\ DOMAIN d.queue = 1..Len(d.queue)
         /\ \A i \in 1..Len(d.queue) : d.queue[i] \in Entry
BY DEF Database, Table, truth, dirty

LEMMA SameQueue ==
  ASSUME NEW d, NEW e, e.queue = d.queue
  PROVE  \A k : dirty(e, k) = dirty(d, k)
BY DEF dirty

\* What a queue makes of a record: the operations of its entries, one after the
\* other.
Gathers(f, d, k) ==
  f[0] = << >> /\ \A i \in 1..Len(d.queue) : f[i] = f[i - 1] \o OpsOn(d.queue[i], k)
Built(g, d, k) ==
  /\ Gathers(g, d, k) /\ ops_for(d, k) = g[Len(d.queue)]
  /\ \A i \in 0..Len(d.queue) : g[i] \in Seq(OpOn(k))
LEMMA OpsThrough ==
  ASSUME NEW d, d.queue \in Seq(Entry), NEW k \in Key
  PROVE  \E g : Built(g, d, k)
<1> DEFINE n == Len(d.queue)
           P == [i \in 0..n |-> Seq(OpOn(k))]
<1>1. n \in Nat /\ << >> \in P[0]
  OBVIOUS
<1>2. ASSUME NEW i \in 1..n, NEW v \in P[i - 1] PROVE (v \o OpsOn(d.queue[i], k)) \in P[i]
  <2>1. i - 1 \in 0..n /\ i \in 0..n /\ d.queue[i] \in Entry
    BY <1>1
  <2>2. v \in Seq(OpOn(k)) /\ P[i] = Seq(OpOn(k)) /\ OpsOn(d.queue[i], k) \in Seq(OpOn(k))
    BY <2>1, EntryOps
  <2> HIDE DEF P
  <2> QED
    BY <2>2
<1> HIDE DEF P
<1>3. PICK g : OpsPath(g, d, k, P)
  BY <1>1, <1>2, OpsRun
<1>4. \A i \in 0..n : g[i] \in Seq(OpOn(k))
  BY <1>3 DEF P, OpsPath
<1> QED
  BY <1>3, <1>4 DEF OpsPath, Built, Gathers

LEMMA OpsAlong ==
  ASSUME NEW d, d.queue \in Seq(Entry), NEW k, NEW f, Gathers(f, d, k)
  PROVE  ops_for(d, k) = f[Len(d.queue)]
<1> DEFINE n == Len(d.queue)
           P == [i \in 0..n |-> {f[i]}]
<1>1. n \in Nat /\ << >> \in P[0]
  BY DEF Gathers
<1>2. ASSUME NEW i \in 1..n, NEW v \in P[i - 1] PROVE (v \o OpsOn(d.queue[i], k)) \in P[i]
  <2>1. i - 1 \in 0..n /\ i \in 0..n
    BY <1>1
  <2>2. v = f[i - 1]
    BY <2>1
  <2> QED
    BY <2>1, <2>2 DEF Gathers
<1> HIDE DEF P
<1>3. ops_for(d, k) \in P[n]
  BY <1>1, <1>2, OpsKeep
<1> QED
  BY <1>1, <1>3 DEF P

\* Queues whose entries do the same to a record do the same.
AsMuch(p, q, k) == Len(q) = Len(p) /\ \A i \in 1..Len(p) : OpsOn(q[i], k) = OpsOn(p[i], k)
LEMMA OpsSame ==
  ASSUME NEW d, d.queue \in Seq(Entry), NEW e, e.queue \in Seq(Entry), NEW k \in Key,
         AsMuch(d.queue, e.queue, k)
  PROVE  ops_for(e, k) = ops_for(d, k)
<1>1. PICK g : Built(g, d, k)
  BY OpsThrough
<1>2. Gathers(g, e, k)
  BY <1>1 DEF Built, Gathers, AsMuch
<1>3. ops_for(e, k) = g[Len(e.queue)]
  BY <1>2, OpsAlong
<1> QED
  BY <1>1, <1>3 DEF AsMuch, Built

\* An entry that joins the queue adds its own.
LEMMA OpsMore ==
  ASSUME NEW d, d.queue \in Seq(Entry), NEW q \in Entry, NEW e, e.queue = Append(d.queue, q),
         NEW k \in Key
  PROVE  ops_for(e, k) = ops_for(d, k) \o OpsOn(q, k)
<1> DEFINE n == Len(d.queue)
<1>0. PICK g : Built(g, d, k)
  BY OpsThrough
<1>1. /\ g[0] = << >> /\ ops_for(d, k) = g[n]
      /\ \A i \in 1..n : g[i] = g[i - 1] \o OpsOn(d.queue[i], k)
  BY <1>0 DEF Built, Gathers
<1>2. /\ e.queue \in Seq(Entry) /\ n \in Nat /\ Len(e.queue) = n + 1 /\ e.queue[n + 1] = q
      /\ \A i \in 1..n : e.queue[i] = d.queue[i]
  OBVIOUS
<1> DEFINE last == g[n] \o OpsOn(q, k)
           f == [i \in 0..(n + 1) |-> IF i = n + 1 THEN last ELSE g[i]]
<1> HIDE DEF n, last
<1>3. /\ \A i \in 0..n : f[i] = g[i]
      /\ f[n + 1] = last
  BY <1>2
<1> HIDE DEF f
<1>4. ASSUME NEW i \in 1..(n + 1) PROVE f[i] = f[i - 1] \o OpsOn(e.queue[i], k)
  <2>1. CASE i \in 1..n
    <3>1. i \in 0..n /\ i - 1 \in 0..n
      BY <1>2, <2>1
    <3> QED
      BY <1>1, <1>2, <1>3, <2>1, <3>1
  <2>2. CASE i = n + 1
    <3>1. i - 1 = n /\ n \in 0..n
      BY <1>2, <2>2
    <3> QED
      BY <1>2, <1>3, <2>2, <3>1 DEF last
  <2>3. i \in 1..n \/ i = n + 1
    <3> n \in Nat
      BY <1>2
    <3> QED
      OBVIOUS
  <2> QED
    BY <2>1, <2>2, <2>3
<1>5. Gathers(f, e, k)
  <2>1. 0 \in 0..n
    BY <1>2
  <2> QED
    BY <1>1, <1>2, <1>3, <1>4, <2>1 DEF Gathers
<1>6. ops_for(e, k) = f[Len(e.queue)]
  BY <1>2, <1>5, OpsAlong
<1> QED
  BY <1>1, <1>2, <1>3, <1>6 DEF last

\* Entries that do nothing to a record may go.
IdleOn(s, X, k) == \A i \in 1..Len(s) : s[i] \notin X => OpsOn(s[i], k) = << >>
LEMMA OpsLess ==
  ASSUME NEW d, d.queue \in Seq(Entry), NEW X, NEW e, e.queue = Filtered(d.queue, X),
         NEW k \in Key, IdleOn(d.queue, X, k)
  PROVE  ops_for(e, k) = ops_for(d, k)
<1> DEFINE s == d.queue
           of(r) == ops_for([queue |-> r], k)
<1>0. PICK g : Built(g, d, k)
  BY OpsThrough
<1>1. /\ g[0] = << >> /\ ops_for(d, k) = g[Len(s)]
      /\ \A i \in 1..Len(s) : g[i] = g[i - 1] \o OpsOn(s[i], k)
      /\ \A i \in 0..Len(s) : g[i] \in Seq(OpOn(k))
  BY <1>0 DEF Built, Gathers
<1> DEFINE Good(r, i) == of(r) = g[i]
           P == [i \in 0..Len(s) |-> {r \in Seq(Entry) : Good(r, i)}]
<1>2. << >> \in P[0] /\ Len(s) \in Nat
  <2>1. << >> \in Seq(Entry) /\ [queue |-> << >>].queue = << >> /\ Len(<< >>) = 0
    OBVIOUS
  <2>2. Gathers([i \in {0} |-> << >>], [queue |-> << >>], k)
    BY DEF Gathers
  <2>3. of(<< >>) = [i \in {0} |-> << >>][Len([queue |-> << >>].queue)]
    BY <2>1, <2>2, OpsAlong
  <2>4. of(<< >>) = << >>
    BY <2>1, <2>3
  <2> HIDE DEF of
  <2> QED
    BY <1>1, <2>1, <2>4
<1>3. ASSUME NEW i \in 1..Len(s), NEW v \in P[i - 1]
      PROVE  (IF s[i] \in X THEN Append(v, s[i]) ELSE v) \in P[i]
  <2> HIDE DEF Good
  <2>1. i - 1 \in 0..Len(s) /\ i \in 0..Len(s) /\ s[i] \in Entry
    BY <1>2
  <2>2. v \in Seq(Entry) /\ Good(v, i - 1) /\ g[i - 1] \in Seq(OpOn(k))
    BY <1>1, <2>1
  <2>3. g[i] = g[i - 1] \o OpsOn(s[i], k)
    BY <1>1
  <2>4. CASE s[i] \notin X
    <3>1. OpsOn(s[i], k) = << >>
      BY <2>4 DEF IdleOn
    <3>2. g[i] = g[i - 1]
      BY <2>2, <2>3, <3>1
    <3>3. Good(v, i)
      BY <2>2, <3>2 DEF Good
    <3> QED
      BY <2>1, <2>2, <2>4, <3>3
  <2>5. CASE s[i] \in X
    <3> DEFINE w == Append(v, s[i])
    <3>1. w \in Seq(Entry)
      BY <2>1, <2>2
    <3>2. of(w) = of(v) \o OpsOn(s[i], k)
      <4>1. [queue |-> v].queue = v /\ [queue |-> w].queue = w
        OBVIOUS
      <4> DEFINE d1 == [queue |-> v]
                 d2 == [queue |-> w]
      <4>2. d1.queue \in Seq(Entry) /\ d2.queue = Append(d1.queue, s[i])
        BY <2>2, <4>1
      <4> HIDE DEF d1, d2
      <4>3. ops_for(d2, k) = ops_for(d1, k) \o OpsOn(s[i], k)
        BY <2>1, <4>2, OpsMore
      <4> QED
        BY <4>3 DEF d1, d2
    <3> HIDE DEF w
    <3>3. Good(w, i)
      BY <2>2, <2>3, <3>2 DEF Good
    <3> QED
      BY <2>1, <2>5, <3>1, <3>3 DEF w
  <2> QED
    BY <2>4, <2>5
<1> HIDE DEF P
<1>4. Filtered(s, X) \in P[Len(s)]
  BY <1>2, <1>3, FilteredKeeps
<1>5. Filtered(s, X) \in Seq(Entry) /\ Good(Filtered(s, X), Len(s))
  <2> HIDE DEF Good
  <2>1. P[Len(s)] = {r \in Seq(Entry) : Good(r, Len(s))}
    BY <1>2 DEF P
  <2> QED
    BY <1>4, <2>1
<1> DEFINE f == [queue |-> Filtered(s, X)]
<1>6. f.queue = e.queue
  OBVIOUS
<1>7. ops_for(f, k) = ops_for(d, k)
  BY <1>1, <1>5
<1> HIDE DEF f, of
<1>8. AsMuch(f.queue, e.queue, k) /\ f.queue \in Seq(Entry)
  BY <1>5, <1>6 DEF AsMuch
<1>9. ops_for(e, k) = ops_for(f, k)
  BY <1>6, <1>8, OpsSame
<1> QED
  BY <1>7, <1>9

\* Readers see of a record the base with what is pending replayed over it.
Ends(d, k) == Replays([row |-> d.before[k], ok |-> TRUE], ops_for(d, k))
Shows(d, k) == dirty(d, k) /\ Ends(d, k).ok => d.main[k] = Ends(d, k).row

LEMMA EndsIs ==
  ASSUME NEW d \in Database, NEW k \in Key
  PROVE  /\ Ends(d, k) \in End(k) /\ Ends(d, k) = Replay(d.before[k], ops_for(d, k))
         /\ ops_for(d, k) \in Seq(OpOn(k))
<1>1. d.before[k] \in Held(k) /\ d.queue \in Seq(Entry)
  BY Parts
<1>2. ops_for(d, k) \in Seq(OpOn(k))
  BY <1>1, OpsFor
<1> DEFINE b == [row |-> d.before[k], ok |-> TRUE]
<1>3. b \in End(k)
  BY <1>1 DEF End
<1>4. Replay(d.before[k], ops_for(d, k)) = Replays(b, ops_for(d, k))
  BY <1>1, <1>2, ReplayType
<1> HIDE DEF b
<1>5. Replays(b, ops_for(d, k)) \in End(k)
  BY <1>2, <1>3, ReplaysType
<1> QED
  BY <1>2, <1>4, <1>5 DEF Ends, b

\* What a record shows depends on its row, its base and its operations.
Untouched(d, e, k) ==
  /\ e.main[k] = d.main[k] /\ e.before[k] = d.before[k] /\ ops_for(e, k) = ops_for(d, k)
  /\ dirty(e, k) => dirty(d, k)
LEMMA UntouchedShows ==
  ASSUME NEW d, NEW e, NEW k, Untouched(d, e, k), Shows(d, k)
  PROVE  Shows(e, k)
BY DEF Untouched, Shows, Ends

LEMMA SameQueueShows ==
  ASSUME NEW d \in Database, NEW e \in Database, e.queue = d.queue, NEW k \in Key,
         e.main[k] = d.main[k], e.before[k] = d.before[k]
  PROVE  Untouched(d, e, k)
<1>1. d.queue \in Seq(Entry) /\ AsMuch(d.queue, e.queue, k)
  BY Parts DEF AsMuch
<1>2. ops_for(e, k) = ops_for(d, k)
  BY <1>1, OpsSame
<1> QED
  BY <1>2, SameQueue DEF Untouched

LEMMA Holds ==
  ASSUME NEW d \in Database, NEW K
  PROVE  LET e == hold_truth(d, K) IN
         /\ e \in Database /\ e.main = d.main /\ e.stamp = d.stamp
         /\ e.cursor = d.cursor /\ e.queue = d.queue
         /\ \A k \in Key : e.before[k] = IF k \in K /\ ~ dirty(d, k) /\ d.before[k] = Absent
                                         THEN d.main[k] ELSE d.before[k]
<1> DEFINE e == hold_truth(d, K)
           b == [k \in Key |-> IF k \in K /\ ~ dirty(d, k) /\ d.before[k] = Absent
                               THEN d.main[k] ELSE d.before[k]]
<1>1. b \in Table
  BY Parts DEF Table
<1>2. e = [d EXCEPT !.before = b]
  BY DEF hold_truth
<1> HIDE DEF b
<1>3. e \in Database /\ e.main = d.main /\ e.stamp = d.stamp /\ e.cursor = d.cursor
      /\ e.queue = d.queue /\ e.before = b
  BY <1>1, <1>2 DEF Database
<1> HIDE DEF e
<1> QED
  BY <1>3 DEF b, e

LEMMA Rebuilt ==
  ASSUME NEW d \in Database, NEW K
  PROVE  LET e == rebuild(d, K) IN
         /\ e \in Database /\ e.stamp = d.stamp /\ e.cursor = d.cursor /\ e.queue = d.queue
         /\ \A k \in Key \ K : e.main[k] = d.main[k] /\ e.before[k] = d.before[k]
         /\ \A k \in Key \cap K : IF dirty(d, k) THEN e.before[k] = d.before[k]
                                  ELSE e.before[k] = Absent /\ e.main[k] = d.before[k]
<1> DEFINE e == rebuild(d, K)
           end(k) == Replay(d.before[k], ops_for(d, k))
           m == [k \in Key |-> IF k \notin K THEN d.main[k]
                               ELSE IF end(k).ok THEN end(k).row ELSE d.before[k]]
           b == [k \in Key |-> IF k \in K /\ ~ dirty(d, k) THEN Absent ELSE d.before[k]]
<1>1. ASSUME NEW k \in Key
      PROVE  end(k).row \in Held(k) /\ (~ dirty(d, k) => end(k).row = d.before[k] /\ end(k).ok)
  <2>1. d.before[k] \in Held(k) /\ d.queue \in Seq(Entry)
    BY Parts
  <2>2. ops_for(d, k) \in Seq(OpOn(k)) /\ (~ dirty(d, k) => ops_for(d, k) = << >>)
    BY <2>1, OpsFor
  <2>3. end(k).row \in Held(k) /\ (ops_for(d, k) = << >> => end(k) = [row |-> d.before[k], ok |-> TRUE])
    BY <2>1, <2>2, ReplayType
  <2> QED
    BY <2>2, <2>3
<1>2. e = [d EXCEPT !.main = m, !.before = b]
  BY DEF rebuild
<1> HIDE DEF end
<1>3. m \in Table
  BY <1>1, Parts, RowFacts DEF Table
<1>4. b \in Table
  BY Parts, RowFacts DEF Table
<1>5. \A k \in Key : m[k] = IF k \notin K THEN d.main[k]
                            ELSE IF end(k).ok THEN end(k).row ELSE d.before[k]
  OBVIOUS
<1>6. \A k \in Key : b[k] = IF k \in K /\ ~ dirty(d, k) THEN Absent ELSE d.before[k]
  OBVIOUS
<1> HIDE DEF m, b
<1>7. e \in Database /\ e.main = m /\ e.before = b
      /\ e.stamp = d.stamp /\ e.cursor = d.cursor /\ e.queue = d.queue
  BY <1>2, <1>3, <1>4 DEF Database
<1> HIDE DEF e
<1>8. \A k \in Key \ K : e.main[k] = d.main[k] /\ e.before[k] = d.before[k]
  BY <1>5, <1>6, <1>7
<1>9. \A k \in Key \cap K : IF dirty(d, k) THEN e.before[k] = d.before[k]
                            ELSE e.before[k] = Absent /\ e.main[k] = d.before[k]
  BY <1>1, <1>5, <1>6, <1>7
<1> QED
  BY <1>7, <1>8, <1>9 DEF e

\* A record that is rebuilt shows what is pending on it, and another one what it
\* showed.
LEMMA RebuiltShows ==
  ASSUME NEW d \in Database, NEW K, NEW k \in Key, k \in K \/ Shows(d, k)
  PROVE  Shows(rebuild(d, K), k)
<1> DEFINE e == rebuild(d, K)
           end(x) == Replay(d.before[x], ops_for(d, x))
           m == [x \in Key |-> IF x \notin K THEN d.main[x]
                               ELSE IF end(x).ok THEN end(x).row ELSE d.before[x]]
           b == [x \in Key |-> IF x \in K /\ ~ dirty(d, x) THEN Absent ELSE d.before[x]]
<1>1. /\ e \in Database /\ e.queue = d.queue
      /\ \A x \in Key \ K : e.main[x] = d.main[x] /\ e.before[x] = d.before[x]
      /\ \A x \in Key \cap K : dirty(d, x) => e.before[x] = d.before[x]
  BY Rebuilt
<1>2. \A x : dirty(e, x) <=> dirty(d, x)
  BY <1>1, SameQueue
<1>3. CASE k \notin K
  <2>1. e.main[k] = d.main[k] /\ e.before[k] = d.before[k]
    BY <1>1, <1>3
  <2> HIDE DEF e
  <2>2. Untouched(d, e, k)
    BY <1>1, <2>1, SameQueueShows
  <2>3. Shows(e, k)
    BY <1>3, <2>2, UntouchedShows
  <2> QED
    BY <2>3 DEF e
<1>4. CASE k \in K
  <2>1. e = [d EXCEPT !.main = m, !.before = b]
    BY DEF rebuild
  <2>2. m[k] = IF end(k).ok THEN end(k).row ELSE d.before[k]
    BY <1>4
  <2> HIDE DEF m, b
  <2>3. e.main = m
    BY <2>1 DEF Database
  <2> HIDE DEF e, end
  <2>4. AsMuch(d.queue, e.queue, k) /\ d.queue \in Seq(Entry)
    BY <1>1, Parts DEF AsMuch
  <2>5. ops_for(e, k) = ops_for(d, k)
    BY <1>1, <2>4, OpsSame
  <2>6. dirty(e, k) => Ends(e, k) = end(k)
    <3> SUFFICES ASSUME dirty(e, k) PROVE Ends(e, k) = end(k)
      OBVIOUS
    <3>1. e.before[k] = d.before[k]
      BY <1>1, <1>2, <1>4
    <3>2. Ends(d, k) = end(k)
      BY EndsIs DEF end
    <3> QED
      BY <2>5, <3>1, <3>2 DEF Ends
  <2>7. Shows(e, k)
    BY <2>2, <2>3, <2>6 DEF Shows
  <2> QED
    BY <2>7 DEF e
<1> QED
  BY <1>3, <1>4

\* The descendants of a record do not include it, nor a record without owners.
LEMMA DescendantsOf ==
  ASSUME NEW d \in Database, NEW k \in Key
  PROVE  Descendants(d, k) \subseteq Key \ (Root \cup {k})
<1> SUFFICES ASSUME NEW c \in Descendants(d, k), c \in Root PROVE FALSE
  BY DEF Descendants
<1> DEFINE D == Key \ {c}
<1>1. c \in Key \ {k}
  BY DEF Descendants
<1>2. D \in SUBSET Key /\ k \in D
  BY <1>1
<1>3. ASSUME NEW z \in Key, OwnedBy(d, z, D) PROVE z \in D
  <2> SUFFICES ASSUME z = c PROVE FALSE
    OBVIOUS
  <2>1. PICK row \in {d.main[c], d.before[c]} \ {Absent} : row.owner \in D
    BY <1>3 DEF OwnedBy
  <2>2. row \in Held(c)
    BY <1>1, <2>1, Parts
  <2>3. row.owner = 0
    BY <2>1, <2>2 DEF Held
  <2> QED
    BY <2>1, <2>3, KeyFacts
<1> HIDE DEF D
<1>4. c \in D
  BY <1>2, <1>3 DEF Descendants
<1> QED
  BY <1>4 DEF D

---------------------------------------------------------------------------
(* Extending queued deletes never moves a truth.                           *)

\* e is d with more effects in the queue and other rows shown.
ShowsOn(d, e) == \A k \in Key : Shows(d, k) => Shows(e, k)
Extended(d, e) ==
  /\ e \in Database /\ Clean(e) /\ Truths(e) = Truths(d)
  /\ e.stamp = d.stamp /\ e.cursor = d.cursor
  /\ Len(e.queue) = Len(d.queue)
  /\ \A i \in 1..Len(d.queue) : e.queue[i].ordinal = d.queue[i].ordinal
  /\ ShowsOn(d, e)

LEMMA ExtendedTrans ==
  ASSUME NEW c, NEW d, NEW e, Extended(c, d), Extended(d, e)
  PROVE  Extended(c, e)
BY DEF Extended, ShowsOn

LEMMA ExtendStep ==
  ASSUME NEW d \in Database, Clean(d), NEW j \in 1..Len(d.queue), NEW op \in RootOp
  PROVE  Extended(d, extend(d, j, op))
<1> DEFINE C == Descendants(d, op.key) \ d.queue[j].effects
           d1 == hold_truth(d, C)
           q == [d.queue[j] EXCEPT !.effects = @ \cup C]
           Q == [d.queue EXCEPT ![j] = q]
           d2 == [d1 EXCEPT !.queue = Q]
           e == rebuild(d2, C)
<1>1. op.key \in Key
  BY OpFacts
<1>2. C \subseteq Key
  BY <1>1, DescendantsOf
<1>3. /\ d1 \in Database /\ d1.main = d.main /\ d1.stamp = d.stamp
      /\ d1.cursor = d.cursor /\ d1.queue = d.queue
      /\ \A k \in Key : d1.before[k] = IF k \in C /\ ~ dirty(d, k) /\ d.before[k] = Absent
                                       THEN d.main[k] ELSE d.before[k]
  BY Holds
<1>4. extend(d, j, op) = e
  BY <1>3 DEF extend
<1> HIDE DEF C, d1
<1>5. d.queue \in Seq(Entry) /\ DOMAIN d.queue = 1..Len(d.queue) /\ d.queue[j] \in Entry
  BY Parts
<1>6. q \in Entry /\ q.wire = d.queue[j].wire /\ q.companion = d.queue[j].companion
      /\ q.effects = d.queue[j].effects \cup C /\ q.ordinal = d.queue[j].ordinal
  BY <1>2, <1>5 DEF Entry
<1>7. Touched(q) = Touched(d.queue[j]) \cup C
  BY <1>6 DEF Touched, OwnOps
<1> HIDE DEF q
<1>8. Q \in Seq(Entry) /\ Len(Q) = Len(d.queue) /\ DOMAIN Q = 1..Len(Q)
      /\ \A i \in 1..Len(Q) : Q[i] = IF i = j THEN q ELSE d.queue[i]
  BY <1>5, <1>6
<1> HIDE DEF Q
<1>9. d2 \in Database /\ d2.main = d.main /\ d2.before = d1.before /\ d2.stamp = d.stamp
      /\ d2.cursor = d.cursor /\ d2.queue = Q
  BY <1>3, <1>8 DEF Database
<1> HIDE DEF d2
<1>10. \A k : dirty(d2, k) <=> dirty(d, k) \/ k \in C
  <2> SUFFICES ASSUME NEW k PROVE dirty(d2, k) <=> dirty(d, k) \/ k \in C
    OBVIOUS
  <2>1. dirty(d2, k) <=> \E i \in 1..Len(Q) : k \in Touched(Q[i])
    BY <1>8, <1>9 DEF dirty
  <2>2. dirty(d, k) <=> \E i \in 1..Len(Q) : k \in Touched(d.queue[i])
    BY <1>5, <1>8 DEF dirty
  <2>3. \A i \in 1..Len(Q) : i # j => Q[i] = d.queue[i]
    BY <1>8
  <2>4. j \in 1..Len(Q) /\ Q[j] = q
    BY <1>8
  <2>5. ASSUME dirty(d2, k), k \notin C PROVE dirty(d, k)
    BY <1>7, <2>1, <2>2, <2>3, <2>4, <2>5
  <2>6. ASSUME dirty(d, k) PROVE dirty(d2, k)
    BY <1>7, <2>1, <2>2, <2>3, <2>4, <2>6
  <2>7. ASSUME k \in C PROVE dirty(d2, k)
    BY <1>7, <2>1, <2>4, <2>7
  <2> QED
    BY <2>5, <2>6, <2>7
<1>11. /\ e \in Database /\ e.stamp = d2.stamp /\ e.cursor = d2.cursor /\ e.queue = d2.queue
       /\ \A k \in Key \ C : e.main[k] = d2.main[k] /\ e.before[k] = d2.before[k]
       /\ \A k \in Key \cap C : IF dirty(d2, k) THEN e.before[k] = d2.before[k]
                                ELSE e.before[k] = Absent /\ e.main[k] = d2.before[k]
  BY <1>9, Rebuilt
<1> HIDE DEF e
<1>12. \A k : dirty(e, k) = dirty(d2, k)
  BY <1>11, SameQueue
<1>13. ASSUME NEW k \in Key
       PROVE  truth(e, k) = truth(d, k) /\ (~ dirty(e, k) => e.before[k] = Absent)
  <2>1. CASE k \in C
    <3>1. dirty(e, k) /\ dirty(d2, k)
      BY <1>10, <1>12, <2>1
    <3>2. e.before[k] = d1.before[k]
      BY <1>9, <1>11, <2>1, <3>1
    <3>3. e.before[k] = truth(d, k)
      BY <1>3, <2>1, <3>2 DEF Clean, truth
    <3> QED
      BY <3>1, <3>3 DEF truth
  <2>2. CASE k \notin C
    <3>1. dirty(e, k) <=> dirty(d, k)
      BY <1>10, <1>12, <2>2
    <3>2. e.main[k] = d.main[k] /\ e.before[k] = d.before[k]
      BY <1>3, <1>9, <1>11, <2>2
    <3> QED
      BY <3>1, <3>2 DEF truth, Clean
  <2> QED
    BY <2>1, <2>2
<1>14. Clean(e) /\ Truths(e) = Truths(d)
  BY <1>13 DEF Clean, Truths
<1>15. ASSUME NEW k \in Key, Shows(d, k) PROVE Shows(rebuild(d2, C), k)
  <2>1. CASE k \in C
    BY <1>9, <2>1, RebuiltShows
  <2>2. CASE k \notin C
    <3>1. OpsOn(q, k) = OpsOn(d.queue[j], k)
      BY <1>6, <2>2 DEF OpsOn, OwnOps
    <3>2. AsMuch(d.queue, d2.queue, k)
      BY <1>8, <1>9, <3>1 DEF AsMuch
    <3>3. ops_for(d2, k) = ops_for(d, k)
      BY <1>5, <1>8, <1>9, <3>2, OpsSame
    <3>4. Untouched(d, d2, k)
      BY <1>3, <1>9, <1>10, <2>2, <3>3 DEF Untouched
    <3>5. Shows(d2, k)
      BY <1>15, <3>4, UntouchedShows
    <3> QED
      BY <1>9, <3>5, RebuiltShows
  <2> QED
    BY <2>1, <2>2
<1>16. ShowsOn(d, e)
  BY <1>15 DEF ShowsOn, e
<1> QED
  BY <1>4, <1>6, <1>8, <1>9, <1>11, <1>14, <1>16 DEF Extended

LEMMA ExtendEntry ==
  ASSUME NEW d \in Database, Clean(d), NEW j \in 1..Len(d.queue)
  PROVE  Extended(d, extend_entry(d, j))
<1> DEFINE s == Deletes(d.queue[j])
           P == [i \in 0..Len(s) |-> {e \in Database : Extended(d, e)}]
<1>1. s \in Seq(RootOp) /\ Len(s) \in Nat
  BY Parts, EntryOps
<1>2. Extended(d, d)
  BY DEF Extended, ShowsOn
<1>3. d \in P[0]
  BY <1>1, <1>2
<1>4. ASSUME NEW i \in 1..Len(s), NEW v \in P[i - 1] PROVE extend(v, j, s[i]) \in P[i]
  <2>1. i - 1 \in 0..Len(s) /\ i \in 0..Len(s) /\ s[i] \in RootOp
    BY <1>1
  <2>2. v \in Database /\ Extended(d, v)
    BY <2>1
  <2>3. Clean(v) /\ j \in 1..Len(v.queue)
    BY <2>2 DEF Extended
  <2> HIDE DEF s
  <2>4. Extended(v, extend(v, j, s[i]))
    BY <2>1, <2>2, <2>3, ExtendStep
  <2>5. Extended(d, extend(v, j, s[i]))
    BY <2>2, <2>4, ExtendedTrans
  <2> QED
    BY <2>1, <2>5 DEF Extended
<1> HIDE DEF P
<1>5. extend_entry(d, j) \in P[Len(s)]
  BY <1>1, <1>3, <1>4, ExtendKeeps
<1> QED
  BY <1>1, <1>5 DEF P

LEMMA RefreshPending ==
  ASSUME NEW d \in Database, Clean(d)
  PROVE  Extended(d, refresh_pending(d))
<1> DEFINE s == [j \in DOMAIN d.queue |-> j]
           P == [i \in 0..Len(s) |-> {e \in Database : Extended(d, e)}]
<1>1. DOMAIN s = 1..Len(d.queue) /\ Len(d.queue) \in Nat /\ Len(s) = Len(d.queue)
      /\ \A i \in 1..Len(s) : s[i] = i
  BY Parts
<1>2. Extended(d, d)
  BY DEF Extended, ShowsOn
<1>3. d \in P[0]
  BY <1>1, <1>2
<1>4. ASSUME NEW i \in 1..Len(s), NEW v \in P[i - 1] PROVE extend_entry(v, s[i]) \in P[i]
  <2> HIDE DEF s
  <2>1. i - 1 \in 0..Len(s) /\ i \in 0..Len(s) /\ s[i] = i
    BY <1>1
  <2>2. v \in Database /\ Extended(d, v)
    BY <2>1
  <2>3. Clean(v) /\ s[i] \in 1..Len(v.queue)
    BY <1>1, <2>1, <2>2 DEF Extended
  <2>4. Extended(v, extend_entry(v, s[i]))
    BY <2>2, <2>3, ExtendEntry
  <2>5. Extended(d, extend_entry(v, s[i]))
    BY <2>2, <2>4, ExtendedTrans
  <2> QED
    BY <2>1, <2>5 DEF Extended
<1> HIDE DEF P
<1>5. refresh_pending(d) \in P[Len(s)]
  BY <1>1, <1>3, <1>4, RefreshKeeps
<1> QED
  BY <1>1, <1>5 DEF P

\* What is rebuilt shows its base, and what else is clean keeps its row.
LEMMA RebuildHeld ==
  ASSUME NEW d \in Database, NEW K,
         \A k \in Key \ K : ~ dirty(d, k) => d.before[k] = Absent
  PROVE  LET e == rebuild_held(d, K) IN
         /\ e \in Database /\ Clean(e) /\ e.stamp = d.stamp /\ e.cursor = d.cursor
         /\ Len(e.queue) = Len(d.queue)
         /\ \A i \in 1..Len(d.queue) : e.queue[i].ordinal = d.queue[i].ordinal
         /\ \A k \in Key : truth(e, k) = IF dirty(d, k) \/ k \in K THEN d.before[k] ELSE d.main[k]
         /\ \A k \in Key : k \in K \/ Shows(d, k) => Shows(e, k)
<1> DEFINE c == rebuild(d, K)
           e == rebuild_held(d, K)
<1>1. /\ c \in Database /\ c.stamp = d.stamp /\ c.cursor = d.cursor /\ c.queue = d.queue
      /\ \A k \in Key \ K : c.main[k] = d.main[k] /\ c.before[k] = d.before[k]
      /\ \A k \in Key \cap K : IF dirty(d, k) THEN c.before[k] = d.before[k]
                               ELSE c.before[k] = Absent /\ c.main[k] = d.before[k]
  BY Rebuilt
<1>2. e = refresh_pending(c)
  BY DEF rebuild_held
<1>7. \A k \in Key : k \in K \/ Shows(d, k) => Shows(c, k)
  BY RebuiltShows
<1> HIDE DEF c, e
<1>3. \A k : dirty(c, k) = dirty(d, k)
  BY <1>1, SameQueue
<1>4. Clean(c)
  BY <1>1, <1>3 DEF Clean
<1>5. Extended(c, e)
  BY <1>1, <1>2, <1>4, RefreshPending
<1>6. ASSUME NEW k \in Key
      PROVE  truth(e, k) = IF dirty(d, k) \/ k \in K THEN d.before[k] ELSE d.main[k]
  <2>1. truth(e, k) = truth(c, k)
    <3>1. Truths(e)[k] = truth(e, k) /\ Truths(c)[k] = truth(c, k)
      BY DEF Truths
    <3> QED
      BY <1>5, <3>1 DEF Extended
  <2>2. truth(c, k) = IF dirty(d, k) \/ k \in K THEN d.before[k] ELSE d.main[k]
    BY <1>1, <1>3 DEF truth
  <2> QED
    BY <2>1, <2>2
<1> QED
  BY <1>1, <1>5, <1>6, <1>7 DEF Extended, ShowsOn, e

Remaining(d, O) == Filtered(d.queue, {q \in ToSet(d.queue) : q.ordinal \notin O})

\* Removing mutations: a record of the rest of the queue stays dirty.
LEMMA Deleted ==
  ASSUME NEW d \in Database, NEW O
  PROVE  LET e == delete_mutations(d, O) IN
         /\ e \in Database /\ e.main = d.main /\ e.before = d.before
         /\ e.stamp = d.stamp /\ e.cursor = d.cursor
         /\ e.queue = Remaining(d, O)
         /\ \A k : dirty(e, k) => dirty(d, k)
         /\ \A k : dirty(d, k) /\ k \notin TouchedBy(d, O) => dirty(e, k)
         /\ \A k \in Key : k \notin TouchedBy(d, O) => Untouched(d, e, k)
<1> DEFINE X == {q \in ToSet(d.queue) : q.ordinal \notin O}
           Q == Filtered(d.queue, X)
           e == delete_mutations(d, O)
<1>1. d.queue \in Seq(Entry) /\ Q \in Seq(Entry) /\ ToSet(Q) = ToSet(d.queue) \cap X
  BY Parts, Picked
<1>2. e = [d EXCEPT !.queue = Q]
  BY DEF delete_mutations
<1>3. ToSet(Q) = X
  BY <1>1
<1> HIDE DEF Q
<1>4. /\ e \in Database /\ e.main = d.main /\ e.before = d.before
      /\ e.stamp = d.stamp /\ e.cursor = d.cursor /\ e.queue = Q
  BY <1>1, <1>2 DEF Database
<1> HIDE DEF e
<1>5. \A k : dirty(e, k) <=> \E q \in X : k \in Touched(q)
  BY <1>1, <1>3, <1>4 DEF dirty, ToSet
<1>6. \A k : dirty(d, k) <=> \E q \in ToSet(d.queue) : k \in Touched(q)
  BY DEF dirty, ToSet
<1>7. ToSet(Entries(d, O)) = {q \in ToSet(d.queue) : q.ordinal \in O}
  <2> DEFINE Y == {q \in ToSet(d.queue) : q.ordinal \in O}
  <2>1. ToSet(Filtered(d.queue, Y)) = ToSet(d.queue) \cap Y
    BY <1>1, Picked
  <2> QED
    BY <2>1 DEF Entries
<1>8. ASSUME NEW k, dirty(d, k), k \notin TouchedBy(d, O) PROVE dirty(e, k)
  <2>1. PICK q \in ToSet(d.queue) : k \in Touched(q)
    BY <1>6, <1>8
  <2>2. q.ordinal \notin O
    BY <1>7, <1>8, <2>1 DEF TouchedBy
  <2> QED
    BY <1>5, <2>1, <2>2
<1>9. ASSUME NEW k \in Key, k \notin TouchedBy(d, O) PROVE Untouched(d, e, k)
  <2>1. ASSUME NEW i \in 1..Len(d.queue), d.queue[i] \notin X PROVE OpsOn(d.queue[i], k) = << >>
    <3>1. d.queue[i] \in ToSet(d.queue) /\ d.queue[i] \in Entry
      BY <1>1, SetOf
    <3>2. k \notin Touched(d.queue[i])
      BY <1>7, <1>9, <2>1, <3>1 DEF TouchedBy
    <3> QED
      BY <3>1, <3>2, EntryOps
  <2>2. e.queue = Filtered(d.queue, X) /\ IdleOn(d.queue, X, k)
    BY <1>4, <2>1 DEF Q, IdleOn
  <2> HIDE DEF X
  <2>3. ops_for(e, k) = ops_for(d, k)
    BY <1>1, <2>2, OpsLess
  <2>4. dirty(e, k) => dirty(d, k)
    BY <1>3, <1>5, <1>6 DEF X
  <2> QED
    BY <1>4, <2>3, <2>4 DEF Untouched
<1> QED
  BY <1>4, <1>5, <1>6, <1>8, <1>9 DEF e, Q, Remaining

---------------------------------------------------------------------------
(* The writes of a mutation.  What each record's base is afterwards needs   *)
(* the sequence of its writes: a copy is made aside when a record is first  *)
(* touched, and again when it is touched while the base is Absent.         *)

KeysOf(s) == {s[i].key : i \in 1..Len(s)}

\* After a record is created in s, nothing in s names it again or deletes.
OnceIn(s) ==
  \A i, j \in 1..Len(s) :
    (i < j /\ s[i].kind = "create") => (s[j].key # s[i].key /\ s[j].kind # "delete")

\* w is v with one more write, that cascades to C.
Writes(v, op, w, C) ==
  /\ w.ok = TRUE /\ w.effects = v.effects \cup C /\ (op.kind # "delete" => C = {})
  /\ w = [d |-> w.d, effects |-> w.effects, ok |-> w.ok]
  /\ w.d \in Database /\ w.d.queue = v.d.queue
  /\ w.d.stamp = v.d.stamp /\ w.d.cursor = v.d.cursor
  /\ \A k \in Key :
       /\ w.d.main[k] = IF k = op.key THEN apply_to_row(v.d.main[k], op)
                        ELSE IF k \in C THEN Absent ELSE v.d.main[k]
       /\ w.d.before[k] = IF k \in C \cup {op.key} /\ ~ dirty(v.d, k) /\ v.d.before[k] = Absent
                          THEN v.d.main[k] ELSE v.d.before[k]
LEMMA WriteOpDoes ==
  ASSUME NEW v, v.d \in Database, v.effects \in SUBSET Key, v.ok, NEW op \in RootOp,
         Fits(v.d.main[op.key], op)
  PROVE  \E C \in SUBSET (Key \ (Root \cup {op.key})) : Writes(v, op, WriteOp(v, op), C)
<1> DEFINE d == v.d
           o == op.key
           d1 == hold_truth(d, {o})
           C == IF op.kind = "delete" THEN Descendants(d1, o) ELSE {}
           h == hold_truth(d1, C)
           row == apply_to_row(d.main[o], op)
           m1 == [k \in Key |-> IF k \in C THEN Absent ELSE d.main[k]]
           m == [k \in Key |-> IF k = o THEN row ELSE IF k \in C THEN Absent ELSE d.main[k]]
           d2 == [h EXCEPT !.main = m1]
           d3 == [d2 EXCEPT !.main = [m1 EXCEPT ![o] = row]]
           w == WriteOp(v, op)
<1>1. o \in Key /\ d \in Database
  BY OpFacts
<1>2. /\ d1 \in Database /\ d1.main = d.main /\ d1.stamp = d.stamp
      /\ d1.cursor = d.cursor /\ d1.queue = d.queue
      /\ \A k \in Key : d1.before[k] = IF k \in {o} /\ ~ dirty(d, k) /\ d.before[k] = Absent
                                       THEN d.main[k] ELSE d.before[k]
  BY <1>1, Holds
<1> HIDE DEF d1
<1>3. C \in SUBSET (Key \ (Root \cup {o}))
  BY <1>1, <1>2, DescendantsOf
<1>4. op.kind # "delete" => C = {}
  OBVIOUS
<1> HIDE DEF C
<1>5. /\ h \in Database /\ h.main = d.main /\ h.stamp = d.stamp
      /\ h.cursor = d.cursor /\ h.queue = d.queue
      /\ \A k \in Key : h.before[k] = IF k \in C /\ ~ dirty(d1, k) /\ d1.before[k] = Absent
                                      THEN d.main[k] ELSE d1.before[k]
  BY <1>2, Holds
<1>6. \A k : dirty(d1, k) = dirty(d, k)
  BY <1>2, SameQueue
<1>7. row \in Held(o)
  BY <1>1, Parts, Applies DEF Fits
<1> HIDE DEF row
<1>8. m \in Table
  BY <1>1, <1>7, Parts, RowFacts DEF Table
<1>9. [m1 EXCEPT ![o] = row] = m
  BY <1>1
<1> HIDE DEF m1
<1>10. d2 = [h EXCEPT !.main = m1] /\ d2.main = m1 /\ d3 = [h EXCEPT !.main = m]
  BY <1>5, <1>9 DEF Database
<1>11. WriteOp(v, op) = [d |-> d3, effects |-> v.effects \cup C, ok |-> TRUE]
  <2>1. d2 = [h EXCEPT !.main = [k \in Key |-> IF k \in C THEN Absent ELSE @[k]]]
    BY <1>5, <1>10 DEF m1, Database
  <2>2. d3 = [d2 EXCEPT !.main[o] = apply_to_row(@, op)]
    <3>1. d2.main[o] = d.main[o]
      BY <1>1, <1>3, <1>10 DEF m1
    <3>2. d2 \in [main : {m1}, before : Table, stamp : [Key -> Nat], cursor : [Channel -> Int],
                  queue : Seq(Entry)]
      BY <1>5, <1>10 DEF Database
    <3> QED
      BY <1>10, <3>1, <3>2 DEF row
  <2> QED
    BY <2>1, <2>2 DEF WriteOp, d1, C
<1> HIDE DEF h, m, d2
<1>12. /\ d3 \in Database /\ d3.main = m /\ d3.before = h.before
       /\ d3.stamp = d.stamp /\ d3.cursor = d.cursor /\ d3.queue = d.queue
  BY <1>5, <1>8, <1>10 DEF Database
<1> HIDE DEF d3
<1>13. \A k \in Key :
         /\ d3.main[k] = IF k = o THEN apply_to_row(d.main[k], op)
                         ELSE IF k \in C THEN Absent ELSE d.main[k]
         /\ d3.before[k] = IF k \in C \cup {o} /\ ~ dirty(d, k) /\ d.before[k] = Absent
                           THEN d.main[k] ELSE d.before[k]
  <2> SUFFICES ASSUME NEW k \in Key
      PROVE  /\ d3.main[k] = IF k = o THEN apply_to_row(d.main[k], op)
                             ELSE IF k \in C THEN Absent ELSE d.main[k]
             /\ d3.before[k] = IF k \in C \cup {o} /\ ~ dirty(d, k) /\ d.before[k] = Absent
                               THEN d.main[k] ELSE d.before[k]
    OBVIOUS
  <2>1. d3.main[k] = IF k = o THEN row ELSE IF k \in C THEN Absent ELSE d.main[k]
    BY <1>12 DEF m
  <2>2. dirty(d1, k) <=> dirty(d, k)
    BY <1>6
  <2>3. d3.before[k] = IF k \in C /\ ~ dirty(d, k) /\ d1.before[k] = Absent
                       THEN d.main[k] ELSE d1.before[k]
    BY <1>5, <1>12, <2>2
  <2>4. d1.before[k] = IF k = o /\ ~ dirty(d, k) /\ d.before[k] = Absent
                       THEN d.main[k] ELSE d.before[k]
    BY <1>2
  <2>5. o \notin C
    BY <1>3
  <2> QED
    BY <2>1, <2>3, <2>4, <2>5 DEF row
<1> HIDE DEF w
<1>14. w = [d |-> d3, effects |-> v.effects \cup C, ok |-> TRUE]
  BY <1>11 DEF w
<1>15. w.d = d3 /\ w.effects = v.effects \cup C /\ w.ok = TRUE
  BY <1>14
<1> QED
  BY <1>3, <1>4, <1>12, <1>13, <1>14, <1>15 DEF w, Writes

\* Nothing that a delete of s may have taken along is created after it.
LastingIn(s) ==
  \A i, j \in 1..Len(s) :
    (i < j /\ s[i].kind = "delete" /\ s[j].kind = "create") => s[j].key \in Root

\* What was taken along is gone.
Gone(s, v, i) ==
  \A k \in v.effects : /\ k \in Key \ Root /\ v.d.main[k] = Absent
                       /\ \E j \in 1..i : s[j].kind = "delete"

\* What the first i writes of s have done to d.
Base(d, s, v, i) ==
  \A k \in Key : (~ dirty(d, k) /\ k \in {s[j].key : j \in 1..i} \cup v.effects) =>
    /\ v.d.before[k] = d.main[k]
    /\ d.main[k] = Absent /\ v.d.main[k] # Absent =>
         \E j \in 1..i : s[j].kind = "create" /\ s[j].key = k
Wrote(d, s, v, i) ==
  /\ v.d.queue = d.queue /\ v.d.stamp = d.stamp /\ v.d.cursor = d.cursor
  /\ \A k \in Key : k \notin {s[j].key : j \in 1..i} \cup v.effects =>
                      v.d.main[k] = d.main[k] /\ v.d.before[k] = d.before[k]
  /\ \A k \in Key : dirty(d, k) => v.d.before[k] = d.before[k]
  /\ OnceIn(s) => Base(d, s, v, i)
  /\ LastingIn(s) => Gone(s, v, i)

LEMMA WroteNext ==
  ASSUME NEW d \in Database, Clean(d), NEW s \in Seq(RootOp), NEW i \in 1..Len(s),
         NEW v \in [d : Database, effects : SUBSET Key, ok : BOOLEAN],
         v.ok, Wrote(d, s, v, i - 1), Fits(v.d.main[s[i].key], s[i])
  PROVE  /\ WriteOp(v, s[i]) \in [d : Database, effects : SUBSET Key, ok : BOOLEAN]
         /\ Wrote(d, s, WriteOp(v, s[i]), i)
<1> DEFINE op == s[i]
           w == WriteOp(v, op)
           Before == {s[j].key : j \in 1..(i - 1)}
           Now == {s[j].key : j \in 1..i}
<1>1. op \in RootOp /\ op.key \in Key /\ op.kind \in {"create", "update", "delete"} /\ i \in Nat
  BY OpFacts
<1>2. Fits(v.d.main[op.key], op) /\ v.d \in Database /\ v.effects \in SUBSET Key /\ v.ok
  OBVIOUS
<1> HIDE DEF op
<1>3. PICK C \in SUBSET (Key \ (Root \cup {op.key})) : Writes(v, op, w, C)
  BY <1>1, <1>2, WriteOpDoes
<1> HIDE DEF w
<1>4. /\ w.ok = TRUE /\ w.effects = v.effects \cup C /\ (op.kind # "delete" => C = {})
      /\ w = [d |-> w.d, effects |-> w.effects, ok |-> w.ok]
      /\ w.d \in Database /\ w.d.queue = v.d.queue
      /\ w.d.stamp = v.d.stamp /\ w.d.cursor = v.d.cursor
      /\ \A k \in Key :
           /\ w.d.main[k] = IF k = op.key THEN apply_to_row(v.d.main[k], op)
                            ELSE IF k \in C THEN Absent ELSE v.d.main[k]
           /\ w.d.before[k] = IF k \in C \cup {op.key} /\ ~ dirty(v.d, k) /\ v.d.before[k] = Absent
                              THEN v.d.main[k] ELSE v.d.before[k]
  BY <1>3 DEF Writes
<1> USE DEF op
<1>5. Now = Before \cup {op.key}
  <2>1. 1..i = 1..(i - 1) \cup {i}
    BY <1>1
  <2> QED
    BY <2>1
<1>6. \A j \in 1..(i - 1) : j \in 1..Len(s) /\ j \in 1..i /\ j < i
  BY <1>1
<1> HIDE DEF op, Before, Now
<1>7. v.d.queue = d.queue /\ \A k : dirty(v.d, k) <=> dirty(d, k)
  BY SameQueue DEF Wrote
<1>8. /\ \A k \in Key : k \notin Before \cup v.effects =>
                      v.d.main[k] = d.main[k] /\ v.d.before[k] = d.before[k]
      /\ \A k \in Key : dirty(d, k) => v.d.before[k] = d.before[k]
  BY DEF Wrote, Before
<1>9. ASSUME NEW k \in Key, k \notin Now \cup w.effects
      PROVE  w.d.main[k] = d.main[k] /\ w.d.before[k] = d.before[k]
  BY <1>4, <1>5, <1>8, <1>9
<1>10. ASSUME NEW k \in Key, dirty(d, k) PROVE w.d.before[k] = d.before[k]
  BY <1>4, <1>7, <1>8, <1>10
<1>11. ASSUME OnceIn(s) PROVE Base(d, s, w, i)
  <2> DEFINE Created(k, n) == \E j \in 1..n : s[j].kind = "create" /\ s[j].key = k
  <2>1. \A k \in Key : (~ dirty(d, k) /\ k \in Before \cup v.effects) =>
           /\ v.d.before[k] = d.main[k]
           /\ d.main[k] = Absent /\ v.d.main[k] # Absent => Created(k, i - 1)
    BY <1>11 DEF Wrote, Base, Before
  <2>2. \A k : Created(k, i - 1) => Created(k, i)
    BY <1>6
  <2>3. \A k : Created(k, i - 1) => op.key # k /\ op.kind # "delete"
    BY <1>6, <1>11 DEF OnceIn, op
  <2>4. op.kind = "create" => Created(op.key, i)
    BY <1>1 DEF op
  <2> HIDE DEF Created
  <2> SUFFICES ASSUME NEW k \in Key, ~ dirty(d, k), k \in Now \cup w.effects
               PROVE  /\ w.d.before[k] = d.main[k]
                      /\ d.main[k] = Absent /\ w.d.main[k] # Absent => Created(k, i)
    BY DEF Base, Now, Created
  <2>5. CASE k \notin C \cup {op.key}
    <3>1. k \in Before \cup v.effects
      BY <1>4, <1>5, <2>5
    <3>2. w.d.main[k] = v.d.main[k] /\ w.d.before[k] = v.d.before[k]
      BY <1>4, <2>5
    <3> QED
      BY <2>1, <2>2, <3>1, <3>2
  <2>6. CASE k \in C \cup {op.key}
    <3>1. ~ Created(k, i - 1)
      BY <1>4, <2>3, <2>6
    <3>2. k \in Before \cup v.effects => v.d.before[k] = d.main[k]
                                         /\ (d.main[k] = Absent => v.d.main[k] = Absent)
      BY <2>1, <3>1
    <3>3. k \notin Before \cup v.effects => v.d.main[k] = d.main[k] /\ v.d.before[k] = Absent
      BY <1>8 DEF Clean
    <3>4. w.d.before[k] = IF v.d.before[k] = Absent THEN v.d.main[k] ELSE v.d.before[k]
      BY <1>4, <1>7, <2>6
    <3>5. w.d.before[k] = d.main[k]
      BY <3>2, <3>3, <3>4
    <3>6. ASSUME d.main[k] = Absent, w.d.main[k] # Absent PROVE Created(k, i)
      <4>1. k = op.key /\ w.d.main[k] = apply_to_row(v.d.main[k], op)
        BY <1>4, <2>6, <3>6
      <4>2. v.d.main[k] = Absent
        BY <3>2, <3>3, <3>6
      <4>3. op.kind # "update"
        BY <4>1, <4>2 DEF Fits, op
      <4>4. op.kind # "delete"
        BY <3>6, <4>1 DEF apply_to_row
      <4> QED
        BY <1>1, <2>4, <4>1, <4>3, <4>4
    <3> QED
      BY <3>5, <3>6
  <2> QED
    BY <2>5, <2>6
<1>12. ASSUME LastingIn(s) PROVE Gone(s, w, i)
  <2> DEFINE Deleting(n) == \E j \in 1..n : s[j].kind = "delete"
  <2>1. \A k \in v.effects : k \in Key \ Root /\ v.d.main[k] = Absent /\ Deleting(i - 1)
    BY <1>12 DEF Wrote, Gone
  <2>2. Deleting(i - 1) => Deleting(i) /\ (op.kind = "create" => op.key \in Root)
    BY <1>6, <1>12 DEF LastingIn, op
  <2>3. op.kind = "delete" => Deleting(i)
    BY <1>1 DEF op
  <2> HIDE DEF Deleting
  <2> SUFFICES ASSUME NEW k \in w.effects
               PROVE  k \in Key \ Root /\ w.d.main[k] = Absent /\ Deleting(i)
    BY DEF Gone, Deleting
  <2>4. CASE k \in C
    BY <1>1, <1>4, <2>3, <2>4
  <2>5. CASE k \in v.effects /\ k \notin C
    <3>1. k \in Key \ Root /\ v.d.main[k] = Absent /\ Deleting(i)
      BY <2>1, <2>2, <2>5
    <3>2. k = op.key => op.kind = "delete"
      <4> SUFFICES ASSUME k = op.key PROVE op.kind # "create" /\ op.kind # "update"
        BY <1>1
      <4>1. op.kind # "create"
        BY <2>1, <2>2, <2>5, <3>1
      <4> QED
        BY <1>2, <3>1, <4>1 DEF Fits
    <3>3. w.d.main[k] = Absent
      BY <1>4, <2>5, <3>1, <3>2 DEF apply_to_row
    <3> QED
      BY <3>1, <3>3
  <2> QED
    BY <1>4, <2>4, <2>5
<1>13. w \in [d : Database, effects : SUBSET Key, ok : BOOLEAN]
  BY <1>4
<1>14. w.d.queue = d.queue /\ w.d.stamp = d.stamp /\ w.d.cursor = d.cursor
  BY <1>4 DEF Wrote
<1>15. Wrote(d, s, w, i)
  BY <1>9, <1>10, <1>11, <1>14, <1>12 DEF Wrote, Now
<1> QED
  BY <1>13, <1>15 DEF w, op

LEMMA WrittenDoes ==
  ASSUME NEW d \in Database, Clean(d), NEW s \in Seq(RootOp)
  PROVE  LET end == Written(d, s) IN
           /\ end.d \in Database /\ end.effects \in SUBSET Key
           /\ end.ok => Wrote(d, s, end, Len(s))
<1> DEFINE E == [d : Database, effects : SUBSET Key, ok : BOOLEAN]
           b == [d |-> d, effects |-> {}, ok |-> TRUE]
           Ok(v, i) == v.ok => Wrote(d, s, v, i)
           P == [i \in 0..Len(s) |-> {v \in E : Ok(v, i)}]
<1>1. Len(s) \in Nat /\ b \in E
  OBVIOUS
<1>2. Wrote(d, s, b, 0)
  BY DEF Wrote, Base, Gone
<1>3. b \in P[0]
  BY <1>1, <1>2
<1>4. ASSUME NEW i \in 1..Len(s), NEW v \in P[i - 1] PROVE WriteOp(v, s[i]) \in P[i]
  <2> HIDE DEF Ok
  <2>1. i - 1 \in 0..Len(s) /\ i \in 0..Len(s)
    BY <1>1
  <2>2. v \in E /\ Ok(v, i - 1)
    BY <2>1
  <2>3. CASE v.ok /\ Fits(v.d.main[s[i].key], s[i])
    <3>1. WriteOp(v, s[i]) \in E /\ Wrote(d, s, WriteOp(v, s[i]), i)
      BY <2>2, <2>3, WroteNext DEF Ok
    <3> QED
      BY <2>1, <3>1 DEF Ok
  <2>4. CASE ~ (v.ok /\ Fits(v.d.main[s[i].key], s[i]))
    <3> DEFINE w == [v EXCEPT !.ok = FALSE]
    <3>1. WriteOp(v, s[i]) = w
      BY <2>4 DEF WriteOp
    <3>2. w \in E /\ Ok(w, i)
      BY <2>2 DEF Ok
    <3> QED
      BY <2>1, <3>1, <3>2
  <2> QED
    BY <2>3, <2>4
<1> HIDE DEF P
<1>5. Written(d, s) \in P[Len(s)]
  BY <1>1, <1>3, <1>4, WriteKeeps
<1>6. Written(d, s) \in E /\ Ok(Written(d, s), Len(s))
  <2> HIDE DEF Ok, E
  <2>1. P[Len(s)] = {v \in E : Ok(v, Len(s))}
    BY <1>1 DEF P
  <2> QED
    BY <1>5, <2>1
<1> QED
  BY <1>6


\* A mutation's writes go through databases, and nothing follows one that does
\* not fit.
Writings == [d : Database, effects : SUBSET Key, ok : BOOLEAN]
Writing(g, s, d) ==
  /\ Written(d, s) = g[Len(s)] /\ g[0].d = d
  /\ \A i \in 1..Len(s) : g[i] = WriteOp(g[i - 1], s[i])
  /\ \A i \in 0..Len(s) : g[i] \in Writings

LEMMA WriteOpType ==
  ASSUME NEW v \in Writings, NEW op \in RootOp
  PROVE  /\ WriteOp(v, op) \in Writings
         /\ WriteOp(v, op).ok => v.ok /\ Fits(v.d.main[op.key], op)
<1>1. CASE v.ok /\ Fits(v.d.main[op.key], op)
  <2>1. v.d \in Database /\ v.effects \in SUBSET Key
    BY DEF Writings
  <2>2. PICK C \in SUBSET (Key \ (Root \cup {op.key})) : Writes(v, op, WriteOp(v, op), C)
    BY <1>1, <2>1, WriteOpDoes
  <2> DEFINE w == WriteOp(v, op)
  <2> HIDE DEF w
  <2>3. w = [d |-> w.d, effects |-> w.effects, ok |-> w.ok] /\ w.d \in Database
        /\ w.effects = v.effects \cup C /\ w.ok = TRUE
    BY <2>2 DEF Writes, w
  <2>4. w.effects \in SUBSET Key
    BY <2>1, <2>3
  <2>5. w \in Writings
    BY <2>3, <2>4 DEF Writings
  <2> QED
    BY <1>1, <2>5 DEF w
<1>2. CASE ~ (v.ok /\ Fits(v.d.main[op.key], op))
  <2>1. WriteOp(v, op) = [v EXCEPT !.ok = FALSE]
    BY <1>2 DEF WriteOp
  <2>2. [v EXCEPT !.ok = FALSE] \in Writings /\ [v EXCEPT !.ok = FALSE].ok = FALSE
    BY DEF Writings
  <2> QED
    BY <2>1, <2>2
<1> QED
  BY <1>1, <1>2

LEMMA WrittenThrough ==
  ASSUME NEW d \in Database, NEW s \in Seq(RootOp)
  PROVE  \E g : Writing(g, s, d)
<1> DEFINE b == [d |-> d, effects |-> {}, ok |-> TRUE]
           P == [i \in 0..Len(s) |-> Writings]
<1>1. Len(s) \in Nat /\ b \in Writings /\ b.d = d
  BY DEF Writings
<1>2. b \in P[0]
  BY <1>1
<1>3. ASSUME NEW i \in 1..Len(s), NEW v \in P[i - 1] PROVE WriteOp(v, s[i]) \in P[i]
  <2>1. i - 1 \in 0..Len(s) /\ i \in 0..Len(s) /\ s[i] \in RootOp
    BY <1>1
  <2>2. v \in Writings /\ P[i] = Writings
    BY <2>1
  <2> HIDE DEF P
  <2> QED
    BY <2>1, <2>2, WriteOpType
<1> HIDE DEF P
<1>4. PICK g : WritesPath(g, s, d, P)
  BY <1>1, <1>2, <1>3, WritesRun
<1>5. \A i \in 0..Len(s) : g[i] \in Writings
  BY <1>4 DEF P, WritesPath
<1>6. g[0] = b
  BY <1>4 DEF WritesPath
<1> QED
  BY <1>1, <1>4, <1>5, <1>6 DEF WritesPath, Writing

\* What a mutation writes to a record that no delete of it takes along is what
\* its operations on that record make of the row.
LEMMA WritesFollow ==
  ASSUME NEW d \in Database, NEW s \in Seq(RootOp), NEW k \in Key,
         Written(d, s).ok, k \notin Written(d, s).effects, NEW X, X = {op \in ToSet(s) : op.key = k}
  PROVE  /\ Filtered(s, X) \in Seq(OpOn(k))
         /\ Replays([row |-> d.main[k], ok |-> TRUE], Filtered(s, X))
              = [row |-> Written(d, s).d.main[k], ok |-> TRUE]
<1> DEFINE n == Len(s)
           b == [row |-> d.main[k], ok |-> TRUE]
<1>1. PICK g : Writing(g, s, d)
  BY WrittenThrough
<1>2. n \in Nat /\ b \in End(k)
  BY Parts DEF End
<1>3. \A i \in 1..n : s[i] \in RootOp /\ (s[i] \in X <=> s[i].key = k)
  BY SetOf
<1> DEFINE Good(r, i) == g[i].ok /\ k \notin g[i].effects =>
                           Replays(b, r) = [row |-> g[i].d.main[k], ok |-> TRUE]
           P == [i \in 0..n |-> {r \in Seq(OpOn(k)) : Good(r, i)}]
<1>4. << >> \in P[0]
  <2>1. << >> \in Seq(OpOn(k))
    OBVIOUS
  <2> HIDE DEF b
  <2>2. Replays(b, << >>) = b
    BY <1>2, <2>1, ReplaysType
  <2> USE DEF b
  <2>3. Good(<< >>, 0)
    BY <1>1, <2>2 DEF Writing
  <2> HIDE DEF Good
  <2> QED
    BY <1>2, <2>1, <2>3
<1> HIDE DEF b
<1>5. ASSUME NEW i \in 1..n, NEW v \in P[i - 1]
      PROVE  (IF s[i] \in X THEN Append(v, s[i]) ELSE v) \in P[i]
  <2> HIDE DEF Good
  <2>1. i - 1 \in 0..n /\ i \in 0..n
    BY <1>2
  <2>2. v \in Seq(OpOn(k)) /\ Good(v, i - 1)
    BY <2>1
  <2> DEFINE r == IF s[i] \in X THEN Append(v, s[i]) ELSE v
             op == s[i]
             p == g[i - 1]
             w == g[i]
  <2>3. op \in RootOp /\ w = WriteOp(p, op) /\ p \in Writings
    BY <1>1, <1>3, <2>1 DEF Writing
  <2>4. r \in Seq(OpOn(k)) /\ (op.key = k => op \in OpOn(k) /\ r = v \o <<op>>) /\ (op.key # k => r = v)
    <3>1. CASE op.key = k
      <4>1. op \in OpOn(k) /\ r = Append(v, op)
        BY <1>3, <2>3, <3>1 DEF OpOn
      <4>2. Append(v, op) = v \o <<op>> /\ Append(v, op) \in Seq(OpOn(k))
        BY <2>2, <4>1
      <4> QED
        BY <3>1, <4>1, <4>2
    <3>2. CASE op.key # k
      BY <1>3, <2>2, <3>2
    <3> QED
      BY <3>1, <3>2
  <2> HIDE DEF r
  <2>5. Good(r, i)
    <3> SUFFICES ASSUME w.ok, k \notin w.effects
                 PROVE  Replays(b, r) = [row |-> w.d.main[k], ok |-> TRUE]
      BY DEF Good
    <3> HIDE DEF op, p, w
    <3>1. p.ok /\ Fits(p.d.main[op.key], op) /\ p.d \in Database /\ p.effects \in SUBSET Key
      BY <2>3, WriteOpType DEF Writings
    <3>2. PICK C \in SUBSET (Key \ (Root \cup {op.key})) : Writes(p, op, w, C)
      BY <2>3, <3>1, WriteOpDoes
    <3>3. /\ k \notin p.effects /\ k \notin C
          /\ w.d.main[k] = IF k = op.key THEN apply_to_row(p.d.main[k], op) ELSE p.d.main[k]
      BY <3>2 DEF Writes
    <3>4. Replays(b, v) = [row |-> p.d.main[k], ok |-> TRUE]
      BY <2>2, <3>1, <3>3 DEF Good, p
    <3>5. CASE op.key # k
      BY <2>4, <3>3, <3>4, <3>5
    <3>6. CASE op.key = k
      <4> DEFINE u == [row |-> p.d.main[k], ok |-> TRUE]
      <4>1. u \in End(k)
        BY <3>1, Parts DEF End
      <4>2. Replayed(u, op) = [row |-> w.d.main[k], ok |-> TRUE]
        BY <3>1, <3>3, <3>6 DEF Replayed
      <4> HIDE DEF u
      <4>3. op \in OpOn(k) /\ r = v \o <<op>>
        BY <2>4, <3>6
      <4> DEFINE t == <<op>>
      <4>4. t \in Seq(OpOn(k))
        BY <4>3
      <4> HIDE DEF t
      <4>5. Replays(b, v \o t) = Replays(Replays(b, v), t)
        BY <1>2, <2>2, <4>4, ReplaysOn
      <4>6. Replays(b, v) = u
        BY <3>4 DEF u
      <4>7. Replays(u, <<op>>) = Replayed(u, op)
        BY <4>1, <4>3, ReplaysOne
      <4> QED
        BY <4>2, <4>3, <4>5, <4>6, <4>7 DEF t
    <3> QED
      BY <3>5, <3>6
  <2> QED
    BY <2>1, <2>4, <2>5 DEF r
<1> HIDE DEF P
<1>6. Filtered(s, X) \in P[n]
  BY <1>2, <1>4, <1>5, FilteredKeeps
<1>7. Filtered(s, X) \in Seq(OpOn(k)) /\ Good(Filtered(s, X), n)
  <2> HIDE DEF Good
  <2>1. P[n] = {r \in Seq(OpOn(k)) : Good(r, n)}
    BY <1>2 DEF P
  <2> QED
    BY <1>6, <2>1
<1>8. g[n] = Written(d, s)
  BY <1>1 DEF Writing
<1> QED
  BY <1>7, <1>8 DEF b

\* What an entry's operations make of a row is what its writes made of it.
LEMMA EntryReplays ==
  ASSUME NEW d \in Database, Clean(d), NEW q \in Entry, NEW k \in Key,
         Written(d, OwnOps(q)).ok, q.effects = Written(d, OwnOps(q)).effects, LastingIn(OwnOps(q))
  PROVE  LET u == Replays([row |-> d.main[k], ok |-> TRUE], OpsOn(q, k)) IN
           u.ok => u.row = Written(d, OwnOps(q)).d.main[k]
<1> DEFINE s == OwnOps(q)
           X == {op \in ToSet(s) : op.key = k}
           own == Filtered(s, X)
           b == [row |-> d.main[k], ok |-> TRUE]
           end == Written(d, s)
           u == Replays(b, OpsOn(q, k))
<1>1. s \in Seq(RootOp) /\ b \in End(k)
  BY EntryOps, Parts DEF End
<1>2. /\ k \in q.effects => OpsOn(q, k) = own \o <<Delete(k)>>
      /\ k \notin q.effects => OpsOn(q, k) = own \o << >>
  BY DEF OpsOn
<1>3. own \in Seq(OpOn(k))
  <2>1. own \in Seq(RootOp \cap X)
    BY <1>1, Picked
  <2>2. RootOp \cap X \subseteq OpOn(k)
    BY DEF OpOn
  <2> QED
    BY <2>1, <2>2
<1>4. CASE k \notin q.effects
  <2>1. Replays(b, own) = [row |-> end.d.main[k], ok |-> TRUE]
    BY <1>1, <1>4, WritesFollow
  <2>2. OpsOn(q, k) = own
    BY <1>2, <1>3, <1>4
  <2> QED
    BY <2>1, <2>2
<1>5. CASE k \in q.effects
  <2>1. end.d.main[k] = Absent
    BY <1>1, <1>5, WrittenDoes DEF Wrote, Gone
  <2> DEFINE D == Delete(k)
             t == <<D>>
             w == Replays(b, own)
  <2>2. D \in OpOn(k) /\ D.kind = "delete"
    BY OpFacts DEF OpOn
  <2>3. w \in End(k)
    BY <1>1, <1>3, ReplaysType
  <2>4. t \in Seq(OpOn(k))
    BY <2>2
  <2> HIDE DEF D, b, own, w, end, s
  <2>5. Replays(w, t) = Replayed(w, D)
    BY <2>2, <2>3, ReplaysOne
  <2>6. Replayed(w, D).ok => Replayed(w, D).row = Absent
    <3>1. Fits(w.row, D) /\ apply_to_row(w.row, D) = Absent
      BY <2>2 DEF Fits, apply_to_row
    <3>2. w.ok => Replayed(w, D).row = Absent
      BY <3>1 DEF Replayed
    <3>3. ~ w.ok => ~ Replayed(w, D).ok
      BY <2>2, <2>3, ReplayedType
    <3> QED
      BY <3>2, <3>3
  <2> HIDE DEF t
  <2>7. Replays(b, own \o t) = Replays(w, t)
    BY <1>1, <1>3, <2>4, ReplaysOn DEF w
  <2>8. OpsOn(q, k) = own \o t
    BY <1>2, <1>5 DEF t, D
  <2> QED
    BY <2>1, <2>5, <2>6, <2>7, <2>8 DEF end, s, b
<1> QED
  BY <1>4, <1>5

\* A mutation joins the queue.  Its optimism does not move a base, unless it
\* names a record again that it creates.
LEMMA Enqueued ==
  ASSUME NEW d \in Database, Clean(d), NEW q \in Entry,
         Written(d, OwnOps(q)).ok, q.effects = Written(d, OwnOps(q)).effects
  PROVE  LET e == [Written(d, OwnOps(q)).d EXCEPT !.queue = Append(@, q)] IN
           /\ e \in Database /\ Clean(e) /\ e.stamp = d.stamp /\ e.cursor = d.cursor
           /\ e.queue = Append(d.queue, q)
           /\ OnceIn(OwnOps(q)) => Truths(e) = Truths(d)
           /\ OnceIn(OwnOps(q)) /\ LastingIn(OwnOps(q)) => ShowsOn(d, e)
<1> DEFINE s == OwnOps(q)
           end == Written(d, s)
           e == [end.d EXCEPT !.queue = Append(@, q)]
<1>1. s \in Seq(RootOp)
  BY EntryOps
<1>2. Touched(q) = KeysOf(s) \cup end.effects
  BY <1>1 DEF Touched, KeysOf
<1> HIDE DEF s
<1>3. end.d \in Database /\ Wrote(d, s, end, Len(s))
  BY <1>1, WrittenDoes DEF s
<1> HIDE DEF end
<1>4. d.queue \in Seq(Entry) /\ end.d.queue = d.queue
  BY <1>3, Parts DEF Wrote
<1>5. Append(d.queue, q) \in Seq(Entry)
  BY <1>4
<1>6. /\ e \in Database /\ e.main = end.d.main /\ e.before = end.d.before
      /\ e.stamp = end.d.stamp /\ e.cursor = end.d.cursor /\ e.queue = Append(d.queue, q)
  BY <1>3, <1>4, <1>5 DEF Database
<1> HIDE DEF e
<1>7. \A k : dirty(e, k) <=> dirty(d, k) \/ k \in Touched(q)
  <2> SUFFICES ASSUME NEW k PROVE dirty(e, k) <=> dirty(d, k) \/ k \in Touched(q)
    OBVIOUS
  <2> DEFINE Q == Append(d.queue, q)
             n == Len(d.queue)
  <2>1. DOMAIN Q = 1..(n + 1) /\ Q[n + 1] = q /\ n \in Nat /\ DOMAIN d.queue = 1..n
        /\ \A i \in 1..n : Q[i] = d.queue[i]
    BY <1>4
  <2> HIDE DEF Q, n
  <2>2. dirty(e, k) <=> \E i \in 1..(n + 1) : k \in Touched(Q[i])
    BY <1>6, <2>1 DEF dirty, Q
  <2>3. dirty(d, k) <=> \E i \in 1..n : k \in Touched(d.queue[i])
    BY <2>1 DEF dirty
  <2> QED
    BY <2>1, <2>2, <2>3
<1>8. ASSUME NEW k \in Key PROVE ~ dirty(e, k) => e.before[k] = Absent
  BY <1>2, <1>3, <1>6, <1>7 DEF Wrote, Clean, KeysOf
<1>9. ASSUME NEW k \in Key, OnceIn(s) PROVE truth(e, k) = truth(d, k)
  <2>1. CASE dirty(d, k)
    BY <1>3, <1>6, <1>7, <2>1 DEF Wrote, truth
  <2>2. CASE ~ dirty(d, k) /\ k \notin Touched(q)
    BY <1>2, <1>3, <1>6, <1>7, <2>2 DEF Wrote, truth, KeysOf
  <2>3. CASE ~ dirty(d, k) /\ k \in Touched(q)
    <3>1. end.d.before[k] = d.main[k]
      BY <1>2, <1>3, <1>9, <2>3 DEF Wrote, Base, KeysOf
    <3> QED
      BY <1>6, <1>7, <2>3, <3>1 DEF truth
  <2> QED
    BY <2>1, <2>2, <2>3
<1>10. Clean(e)
  BY <1>8 DEF Clean
<1>11. OnceIn(s) => Truths(e) = Truths(d)
  BY <1>9 DEF Truths
<1>12. ASSUME OnceIn(s), LastingIn(s), NEW k \in Key, Shows(d, k) PROVE Shows(e, k)
  <2> SUFFICES ASSUME dirty(e, k), Ends(e, k).ok PROVE e.main[k] = Ends(e, k).row
    BY DEF Shows
  <2> DEFINE u == [row |-> e.before[k], ok |-> TRUE]
             w == Replays(u, ops_for(d, k))
             b == [row |-> d.main[k], ok |-> TRUE]
  <2>1. u \in End(k) /\ ops_for(d, k) \in Seq(OpOn(k)) /\ OpsOn(q, k) \in Seq(OpOn(k))
    BY <1>6, Parts, EndsIs, EntryOps DEF End
  <2>2. ops_for(e, k) = ops_for(d, k) \o OpsOn(q, k)
    BY <1>4, <1>6, OpsMore
  <2>3. w \in End(k)
    BY <2>1, ReplaysType
  <2>4. w.ok => w = b
    <3>1. CASE dirty(d, k)
      <4>1. e.before[k] = d.before[k]
        BY <1>3, <1>6, <3>1 DEF Wrote
      <4>2. w = Ends(d, k)
        BY <4>1 DEF Ends
      <4> HIDE DEF w
      <4>3. w.ok => w.row = d.main[k]
        BY <1>12, <3>1, <4>2 DEF Shows
      <4> QED
        BY <2>3, <4>3 DEF End
    <3>2. CASE ~ dirty(d, k)
      <4>1. e.before[k] = d.main[k]
        BY <1>9, <1>12, <3>2 DEF truth
      <4>2. ops_for(d, k) = << >>
        BY <1>4, <3>2, OpsFor
      <4> HIDE DEF u
      <4>3. w = u
        BY <2>1, <4>2, ReplaysType
      <4> QED
        BY <4>1, <4>3 DEF u
    <3> QED
      BY <3>1, <3>2
  <2>5. Ends(e, k) = Replays(w, OpsOn(q, k))
    <3>1. Ends(e, k) = Replays(u, ops_for(d, k) \o OpsOn(q, k))
      BY <2>2 DEF Ends
    <3> HIDE DEF u
    <3> QED
      BY <2>1, <3>1, ReplaysOn
  <2> HIDE DEF u, w
  <2>6. w = b
    BY <2>1, <2>3, <2>4, <2>5, ReplaysType
  <2>7. Replays(b, OpsOn(q, k)).ok => Replays(b, OpsOn(q, k)).row = end.d.main[k]
    BY <1>12, EntryReplays DEF s, end
  <2> QED
    BY <1>6, <2>5, <2>6, <2>7
<1>13. OnceIn(s) /\ LastingIn(s) => ShowsOn(d, e)
  BY <1>12 DEF ShowsOn
<1> QED
  BY <1>3, <1>6, <1>10, <1>11, <1>13 DEF Wrote, e, end, s

\* A direct write touches one record, and no before image of a clean one.
LEMMA DirectOne ==
  ASSUME NEW d \in Database, NEW op \in RootOp, op.kind = "update" => d.main[op.key] # Absent
  PROVE  LET e == direct_one(d, op) IN
           /\ e \in Database /\ e.stamp = d.stamp /\ e.cursor = d.cursor /\ e.queue = d.queue
           /\ \A k \in Key \ {op.key} : e.main[k] = d.main[k] /\ e.before[k] = d.before[k]
           /\ \A k \in Key : ~ dirty(d, k) => e.before[k] = d.before[k]
<1> DEFINE k0 == op.key
           row == apply_to_row(d.main[k0], op)
           base == d.before[k0]
           held == IF ~ dirty(d, k0) \/ (base = Absent /\ op.kind # "create") THEN base
                   ELSE IF Fits(base, op) THEN apply_to_row(base, op) ELSE row
           m == [d.main EXCEPT ![k0] = row]
           b == [d.before EXCEPT ![k0] = held]
           e == direct_one(d, op)
<1>1. k0 \in Key /\ d.main[k0] \in Held(k0) /\ base \in Held(k0)
  BY OpFacts, Parts
<1>2. row \in Held(k0)
  BY <1>1, Applies
<1>3. Fits(base, op) => apply_to_row(base, op) \in Held(k0)
  BY <1>1, Applies DEF Fits
<1>4. held \in Held(k0)
  BY <1>1, <1>2, <1>3
<1>5. ~ dirty(d, k0) => held = base
  OBVIOUS
<1>6. e = [d EXCEPT !.main = m, !.before = b]
  BY DEF direct_one
<1> HIDE DEF row, held
<1>7. m \in Table /\ \A k \in Key : m[k] = IF k = k0 THEN row ELSE d.main[k]
  BY <1>1, <1>2, Parts, RowFacts DEF Table
<1>8. b \in Table /\ \A k \in Key : b[k] = IF k = k0 THEN held ELSE d.before[k]
  BY <1>1, <1>4, Parts, RowFacts DEF Table
<1> HIDE DEF m, b
<1>9. /\ e \in Database /\ e.main = m /\ e.before = b
      /\ e.stamp = d.stamp /\ e.cursor = d.cursor /\ e.queue = d.queue
  BY <1>6, <1>7, <1>8 DEF Database
<1> HIDE DEF e
<1> QED
  BY <1>5, <1>7, <1>8, <1>9 DEF e

LEMMA DirectDoes ==
  ASSUME NEW d \in Database, Clean(d), NEW op \in RootOp, Fits(d.main[op.key], op),
         NEW C \in SUBSET (Key \ {op.key})
  PROVE  LET e == WrittenDirectly(d, Append(Deletions(C), op)) IN
           /\ e \in Database /\ Clean(e)
           /\ e.stamp = d.stamp /\ e.cursor = d.cursor /\ e.queue = d.queue
           /\ \A k \in Key \ (C \cup {op.key}) : truth(e, k) = truth(d, k)
           /\ \A k \in Key \ (C \cup {op.key}) : Shows(d, k) => Shows(e, k)
<1> DEFINE D == Deletions(C)
           s == Append(D, op)
           n == Len(D)
           Same(v, i) == /\ v.stamp = d.stamp /\ v.cursor = d.cursor /\ v.queue = d.queue
                         /\ i <= n => v.main[op.key] = d.main[op.key]
                         /\ \A k \in Key \ (C \cup {op.key}) : v.main[k] = d.main[k] /\ v.before[k] = d.before[k]
                         /\ \A k \in Key : ~ dirty(d, k) => v.before[k] = d.before[k]
           P == [i \in 0..Len(s) |-> {v \in Database : Same(v, i)}]
<1>1. /\ D \in Seq(RootOp) /\ n \in Nat
      /\ \A i \in 1..n : D[i].key \in C /\ D[i].kind = "delete" /\ D[i] \in RootOp
  <2>1. C \in SUBSET Key
    OBVIOUS
  <2>2. /\ D \in Seq(RootOp) /\ Len(D) = Len(InOrder(C))
        /\ \A i \in 1..Len(D) : D[i] = Delete(InOrder(C)[i]) /\ InOrder(C)[i] \in C
    BY <2>1, InOrderOf
  <2> HIDE DEF D
  <2> QED
    BY <2>1, <2>2, OpFacts
<1> HIDE DEF D
<1>2. /\ Len(s) = n + 1 /\ Len(s) \in Nat /\ s[n + 1] = op /\ \A i \in 1..n : s[i] = D[i]
  BY <1>1
<1> HIDE DEF s, n
<1>3. op.key \in Key
  BY OpFacts
<1>4. d \in P[0]
  BY <1>2
<1>5. ASSUME NEW i \in 1..Len(s), NEW v \in P[i - 1] PROVE direct_one(v, s[i]) \in P[i]
  <2> HIDE DEF Same
  <2>1. i - 1 \in 0..Len(s) /\ i \in 0..Len(s)
    BY <1>2
  <2>2. v \in Database /\ Same(v, i - 1)
    BY <2>1
  <2> DEFINE w == direct_one(v, s[i])
  <2>3. \A k : dirty(v, k) <=> dirty(d, k)
    BY <2>2, SameQueue DEF Same
  <2>4. i \in 1..n \/ i = n + 1
    BY <1>1, <1>2
  <2>5. CASE i \in 1..n
    <3>1. s[i] \in RootOp /\ s[i].key \in C /\ s[i].kind = "delete"
      BY <1>1, <1>2, <2>5
    <3>2. /\ w \in Database /\ w.stamp = v.stamp /\ w.cursor = v.cursor /\ w.queue = v.queue
          /\ \A k \in Key \ {s[i].key} : w.main[k] = v.main[k] /\ w.before[k] = v.before[k]
          /\ \A k \in Key : ~ dirty(v, k) => w.before[k] = v.before[k]
      BY <2>2, <3>1, DirectOne
    <3> HIDE DEF w
    <3>3. Same(w, i)
      BY <1>1, <1>3, <2>2, <2>3, <2>5, <3>1, <3>2 DEF Same
    <3> QED
      BY <2>1, <3>2, <3>3 DEF w
  <2>6. CASE i = n + 1
    <3>1. s[i] = op /\ v.main[op.key] = d.main[op.key]
      BY <1>1, <1>2, <2>2, <2>6 DEF Same
    <3>2. op.kind = "update" => v.main[op.key] # Absent
      BY <3>1 DEF Fits
    <3>3. /\ w \in Database /\ w.stamp = v.stamp /\ w.cursor = v.cursor /\ w.queue = v.queue
          /\ \A k \in Key \ {op.key} : w.main[k] = v.main[k] /\ w.before[k] = v.before[k]
          /\ \A k \in Key : ~ dirty(v, k) => w.before[k] = v.before[k]
      BY <2>2, <3>1, <3>2, DirectOne
    <3> HIDE DEF w
    <3>4. Same(w, i)
      BY <1>1, <2>2, <2>3, <2>6, <3>3 DEF Same
    <3> QED
      BY <2>1, <3>3, <3>4 DEF w
  <2> QED
    BY <2>4, <2>5, <2>6
<1> HIDE DEF P
<1>6. WrittenDirectly(d, s) \in P[Len(s)]
  BY <1>2, <1>4, <1>5, DirectKeeps
<1> DEFINE e == WrittenDirectly(d, s)
<1> HIDE DEF e
<1>7. e \in Database /\ Same(e, Len(s))
  <2> HIDE DEF Same
  <2>1. P[Len(s)] = {v \in Database : Same(v, Len(s))}
    BY <1>2 DEF P
  <2> QED
    BY <1>6, <2>1 DEF e
<1>8. \A k : dirty(e, k) <=> dirty(d, k)
  BY <1>7, SameQueue
<1>9. Clean(e)
  BY <1>7, <1>8 DEF Clean
<1>10. \A k \in Key \ (C \cup {op.key}) : truth(e, k) = truth(d, k)
  BY <1>7, <1>8 DEF truth
<1>11. ASSUME NEW k \in Key \ (C \cup {op.key}), Shows(d, k) PROVE Shows(e, k)
  <2>1. Untouched(d, e, k)
    BY <1>7, SameQueueShows
  <2> QED
    BY <1>11, <2>1, UntouchedShows
<1> QED
  BY <1>7, <1>9, <1>10, <1>11 DEF e, s, D

---------------------------------------------------------------------------
(* Authority.  A newer version becomes the base of its record; a deletion  *)
(* takes the bases of the descendants with it.                             *)

Authority(records) ==
  /\ DOMAIN records \subseteq Key
  /\ \A k \in DOMAIN records : records[k].row \in Held(k) /\ records[k].stamp \in Nat

\* A row may be in every record of K; it is in e.
MayBe(row, K) == \A k \in K : row \in Held(k)
Based(d, K, row, e) ==
  /\ e \in Database /\ e.stamp = d.stamp /\ e.cursor = d.cursor /\ e.queue = d.queue
  /\ \A k \in Key : truth(e, k) = IF k \in K THEN row ELSE truth(d, k)
  /\ \A k \in Key : ~ dirty(d, k) => e.before[k] = d.before[k]
  /\ \A k \in Key \ K : e.main[k] = d.main[k] /\ e.before[k] = d.before[k]
LEMMA StageOne ==
  ASSUME NEW d \in Database, NEW K \in SUBSET Key, NEW row, MayBe(row, K)
  PROVE  Based(d, K, row, stage_one(d, K, row))
<1> DEFINE b == [k \in Key |-> IF k \in K /\ dirty(d, k) THEN row ELSE d.before[k]]
           m == [k \in Key |-> IF k \in K /\ ~ dirty(d, k) THEN row ELSE d.main[k]]
           e == stage_one(d, K, row)
<1>1. b \in Table /\ m \in Table
  BY Parts, RowFacts DEF Table, MayBe
<1>2. e = [d EXCEPT !.before = b, !.main = m]
  BY DEF stage_one
<1>3. /\ \A k \in Key : b[k] = IF k \in K /\ dirty(d, k) THEN row ELSE d.before[k]
      /\ \A k \in Key : m[k] = IF k \in K /\ ~ dirty(d, k) THEN row ELSE d.main[k]
  OBVIOUS
<1> HIDE DEF b, m
<1>4. /\ e \in Database /\ e.main = m /\ e.before = b
      /\ e.stamp = d.stamp /\ e.cursor = d.cursor /\ e.queue = d.queue
  BY <1>1, <1>2 DEF Database
<1> HIDE DEF e
<1>5. \A k : dirty(e, k) <=> dirty(d, k)
  BY <1>4, SameQueue
<1>6. \A k \in Key : truth(e, k) = IF k \in K THEN row ELSE truth(d, k)
  BY <1>3, <1>4, <1>5 DEF truth
<1> QED
  BY <1>3, <1>4, <1>6 DEF e, Based

\* f is acc with a record staged, whose deletion reaches C.
Stages(acc, k, record, f, C) ==
  /\ f = [d |-> f.d, held |-> f.held]
  /\ f.d \in Database /\ f.d.cursor = acc.d.cursor /\ f.d.queue = acc.d.queue
  /\ f.d.stamp = [acc.d.stamp EXCEPT ![k] = record.stamp]
  /\ \A c \in Key : truth(f.d, c) = IF c = k THEN record.row ELSE IF c \in C THEN Absent
                                    ELSE truth(acc.d, c)
  /\ \A c \in Key : ~ dirty(acc.d, c) => f.d.before[c] = acc.d.before[c]
  /\ f.held = acc.held \cup {c \in {k} \cup C : dirty(acc.d, c)}
  /\ \A c \in Key \ ({k} \cup C) : f.d.main[c] = acc.d.main[c] /\ f.d.before[c] = acc.d.before[c]

LEMMA StageAuthority ==
  ASSUME NEW acc, acc.d \in Database, NEW k \in Key, NEW record,
         record.row \in Held(k), record.stamp \in Nat, Newer(acc.d, k, record)
  PROVE  \E C \in SUBSET (Key \ (Root \cup {k})) :
           Stages(acc, k, record, stage_authority(acc, k, record), C)
<1> DEFINE d == acc.d
           d1 == stage_one(d, {k}, record.row)
           C == IF record.row = Absent THEN Descendants(d1, k) ELSE {}
           d2 == stage_one(d1, C, Absent)
           S == [d.stamp EXCEPT ![k] = record.stamp]
           d3 == [d2 EXCEPT !.stamp[k] = record.stamp]
           f == stage_authority(acc, k, record)
           H == acc.held \cup {c \in {k} \cup C : dirty(d, c)}
<1>1. f = [d |-> d3, held |-> H]
  BY DEF stage_authority
<1>2. /\ d1 \in Database /\ d1.stamp = d.stamp /\ d1.cursor = d.cursor /\ d1.queue = d.queue
      /\ \A c \in Key : truth(d1, c) = IF c \in {k} THEN record.row ELSE truth(d, c)
      /\ \A c \in Key : ~ dirty(d, c) => d1.before[c] = d.before[c]
      /\ \A c \in Key \ {k} : d1.main[c] = d.main[c] /\ d1.before[c] = d.before[c]
  <2>1. {k} \in SUBSET Key /\ MayBe(record.row, {k})
    BY DEF MayBe
  <2>2. Based(d, {k}, record.row, d1)
    BY <2>1, StageOne
  <2> HIDE DEF d1
  <2> QED
    BY <2>2 DEF Based
<1> HIDE DEF d1
<1>3. C \in SUBSET (Key \ (Root \cup {k}))
  BY <1>2, DescendantsOf
<1> HIDE DEF C
<1>4. C \in SUBSET Key /\ MayBe(Absent, C)
  BY <1>3, RowFacts DEF MayBe
<1>5. /\ d2 \in Database /\ d2.stamp = d1.stamp /\ d2.cursor = d1.cursor /\ d2.queue = d1.queue
      /\ \A c \in Key : truth(d2, c) = IF c \in C THEN Absent ELSE truth(d1, c)
      /\ \A c \in Key : ~ dirty(d1, c) => d2.before[c] = d1.before[c]
      /\ \A c \in Key \ C : d2.main[c] = d1.main[c] /\ d2.before[c] = d1.before[c]
  <2>1. Based(d1, C, Absent, d2)
    BY <1>2, <1>4, StageOne
  <2> HIDE DEF d2
  <2> QED
    BY <2>1 DEF Based
<1> HIDE DEF d2
<1>6. d.stamp \in [Key -> Nat]
  BY Parts
<1>7. S \in [Key -> Nat]
  BY <1>6
<1>8. d3 = [d2 EXCEPT !.stamp = S]
  BY <1>2, <1>5
<1> HIDE DEF S
<1>9. /\ d3 \in Database /\ d3.main = d2.main /\ d3.before = d2.before
      /\ d3.stamp = S /\ d3.cursor = d.cursor /\ d3.queue = d.queue
  BY <1>2, <1>5, <1>7, <1>8 DEF Database
<1> HIDE DEF d3
<1>10. (\A c : dirty(d1, c) <=> dirty(d, c)) /\ (\A c : dirty(d3, c) <=> dirty(d2, c))
  BY <1>2, <1>5, <1>9, SameQueue
<1>11. \A c \in Key : truth(d3, c) = truth(d2, c)
  BY <1>9, <1>10 DEF truth
<1>12. \A c \in Key : truth(d3, c) = IF c = k THEN record.row ELSE IF c \in C THEN Absent
                                     ELSE truth(d, c)
  BY <1>2, <1>3, <1>5, <1>11
<1>13. \A c \in Key : ~ dirty(d, c) => d3.before[c] = d.before[c]
  BY <1>2, <1>5, <1>9, <1>10
<1> HIDE DEF f, H
<1>14. f.d = d3 /\ f.held = H
  BY <1>1
<1>15. \A c \in Key \ ({k} \cup C) : d3.main[c] = d.main[c] /\ d3.before[c] = d.before[c]
  BY <1>2, <1>5, <1>9
<1>16. Stages(acc, k, record, f, C)
  BY <1>1, <1>9, <1>12, <1>13, <1>14, <1>15 DEF Stages, S, H
<1> QED
  BY <1>3, <1>16 DEF f

\* What a delivery of `records` makes of a record: its version, with the row it
\* has or hidden by a deletion, or what was there.
Landed(d, e, records, k) ==
  /\ e.stamp[k] = records[k].stamp /\ records[k].stamp > d.stamp[k]
  /\ truth(e, k) = records[k].row \/ (k \notin Root /\ truth(e, k) = Absent)
Kept(d, e, k) ==
  /\ e.stamp[k] = d.stamp[k]
  /\ truth(e, k) = truth(d, k) \/ (k \notin Root /\ truth(e, k) = Absent)
Delivered(d, e, records, K) ==
  /\ \A k \in Key : Kept(d, e, k) \/ (k \in K /\ Landed(d, e, records, k))
  /\ e.stamp = d.stamp => Truths(e) = Truths(d)

\* The result of staging, so far.
Staging == [d : Database, held : SUBSET Key]
Beside(d, e, K) ==
  \A k \in Key \ K : dirty(d, k) =>
    e.main[k] = d.main[k] /\ e.before[k] = d.before[k] /\ e.stamp[k] = d.stamp[k]
Staged(acc, records, K, f) ==
  /\ f \in Staging /\ f.d.cursor = acc.d.cursor /\ f.d.queue = acc.d.queue
  /\ \A k \in Key : ~ dirty(acc.d, k) => f.d.before[k] = acc.d.before[k]
  /\ acc.held \subseteq f.held
  /\ f.held \subseteq acc.held \cup {k \in Key : dirty(acc.d, k)}
  /\ Delivered(acc.d, f.d, records, K) /\ Beside(acc.d, f.d, f.held)

LEMMA StagedNext ==
  ASSUME NEW acc \in Staging, NEW records, Authority(records),
         NEW K \in SUBSET DOMAIN records, NEW k \in K, NEW v, Staged(acc, records, K, v)
  PROVE  LET w == stage_authority(v, k, records[k]) IN
           /\ Staged(acc, records, K, w)
           /\ records[k].stamp > acc.d.stamp[k] => Landed(acc.d, w.d, records, k)
           /\ \A c \in Key : Landed(acc.d, v.d, records, c) => Landed(acc.d, w.d, records, c)
<1> DEFINE w == stage_authority(v, k, records[k])
           r == records[k]
           d == acc.d
<1>1. k \in Key /\ r.row \in Held(k) /\ r.stamp \in Nat /\ v \in Staging /\ v.d \in Database
      /\ acc.d \in Database
  BY DEF Authority, Staged, Staging
<1>2. /\ \A c \in Key : d.stamp[c] \in Nat /\ v.d.stamp[c] \in Nat
      /\ d.stamp \in [Key -> Nat] /\ v.d.stamp \in [Key -> Nat]
  BY <1>1, Parts
<1>3. v.d.queue = d.queue /\ \A c : dirty(v.d, c) <=> dirty(d, c)
  BY SameQueue DEF Staged
<1>4. CASE ~ Newer(v.d, k, r)
  <2>1. w = v
    BY <1>4 DEF stage_authority
  <2>2. r.stamp > d.stamp[k] => Landed(d, v.d, records, k)
    <3> SUFFICES ASSUME r.stamp > d.stamp[k] PROVE Landed(d, v.d, records, k)
      OBVIOUS
    <3>1. ~ (v.d.stamp[k] = d.stamp[k])
      BY <1>1, <1>2, <1>4 DEF Newer
    <3> QED
      BY <1>1, <3>1 DEF Staged, Delivered, Kept
  <2> QED
    BY <2>1, <2>2
<1>5. CASE Newer(v.d, k, r)
  <2>1. PICK C \in SUBSET (Key \ (Root \cup {k})) : Stages(v, k, r, w, C)
    BY <1>1, <1>5, StageAuthority
  <2> HIDE DEF w, r
  <2>2. /\ w.d \in Database /\ w.d.cursor = v.d.cursor /\ w.d.queue = v.d.queue
        /\ w.d.stamp = [v.d.stamp EXCEPT ![k] = r.stamp]
        /\ \A c \in Key : truth(w.d, c) = IF c = k THEN r.row ELSE IF c \in C THEN Absent
                                          ELSE truth(v.d, c)
        /\ \A c \in Key : ~ dirty(v.d, c) => w.d.before[c] = v.d.before[c]
        /\ w.held = v.held \cup {c \in {k} \cup C : dirty(v.d, c)}
        /\ \A c \in Key \ ({k} \cup C) : w.d.main[c] = v.d.main[c] /\ w.d.before[c] = v.d.before[c]
    BY <2>1 DEF Stages
  <2>3. \A c \in Key : w.d.stamp[c] = IF c = k THEN r.stamp ELSE v.d.stamp[c]
    BY <1>2, <2>2
  <2>4. r.stamp > v.d.stamp[k] /\ v.d.stamp[k] >= d.stamp[k]
    <3>1. r.stamp > v.d.stamp[k]
      BY <1>5 DEF Newer
    <3>2. v.d.stamp[k] = d.stamp[k] \/ v.d.stamp[k] = r.stamp
      BY <1>1 DEF Staged, Delivered, Kept, Landed, r
    <3> QED
      BY <1>1, <1>2, <3>1, <3>2
  <2>5. Landed(d, w.d, records, k)
    BY <1>1, <1>2, <2>2, <2>3, <2>4 DEF Landed, r
  <2>6. ASSUME NEW c \in Key, c # k
        PROVE  /\ Landed(d, v.d, records, c) => Landed(d, w.d, records, c)
               /\ Kept(d, v.d, c) => Kept(d, w.d, c)
    <3>1. w.d.stamp[c] = v.d.stamp[c]
      BY <2>3, <2>6
    <3>2. truth(w.d, c) = truth(v.d, c) \/ (c \notin Root /\ truth(w.d, c) = Absent)
      BY <2>1, <2>2, <2>6
    <3> QED
      BY <3>1, <3>2 DEF Landed, Kept
  <2>7. \A c \in Key : Landed(d, v.d, records, c) => Landed(d, w.d, records, c)
    BY <2>5, <2>6
  <2>8. \A c \in Key : Kept(d, w.d, c) \/ (c \in K /\ Landed(d, w.d, records, c))
    BY <2>5, <2>6 DEF Staged, Delivered
  <2>9. w.d.stamp # d.stamp
    <3>1. w.d.stamp[k] > d.stamp[k]
      BY <1>1, <1>2, <2>3, <2>4 DEF r
    <3> QED
      BY <1>1, <1>2, <3>1
  <2>10. Delivered(d, w.d, records, K)
    BY <2>8, <2>9 DEF Delivered
  <2>11. Beside(d, w.d, w.held)
    <3> SUFFICES ASSUME NEW c \in Key \ w.held, dirty(d, c)
                 PROVE  w.d.main[c] = d.main[c] /\ w.d.before[c] = d.before[c] /\ w.d.stamp[c] = d.stamp[c]
      BY DEF Beside
    <3>1. c \notin {k} \cup C /\ c \notin v.held
      BY <1>3, <2>2
    <3>2. v.d.main[c] = d.main[c] /\ v.d.before[c] = d.before[c] /\ v.d.stamp[c] = d.stamp[c]
      BY <3>1 DEF Staged, Beside
    <3> QED
      BY <2>2, <2>3, <3>1, <3>2
  <2>12. Staged(acc, records, K, w)
    <3>1. w = [d |-> w.d, held |-> w.held]
      BY <2>1 DEF Stages
    <3>2. w.held \in SUBSET Key
      BY <1>1, <2>1, <2>2 DEF Staging
    <3>3. w \in Staging
      BY <2>2, <3>1, <3>2 DEF Staging
    <3> QED
      BY <1>1, <1>3, <2>1, <2>2, <2>10, <2>11, <3>3 DEF Staged
  <2> QED
    BY <2>5, <2>7, <2>12 DEF w, r
<1> QED
  BY <1>4, <1>5

\* A delivery that skips some records: the others are all at its versions.
LEMMA StageIsolated ==
  ASSUME NEW acc \in Staging, NEW records, Authority(records), NEW skipped
  PROVE  LET f == stage_isolated(acc, records, skipped)
             K == DOMAIN records \ skipped IN
           /\ Staged(acc, records, K, f)
           /\ \A k \in K : records[k].stamp > acc.d.stamp[k] => Landed(acc.d, f.d, records, k)
           /\ K = {} => f = acc
<1> DEFINE K == DOMAIN records \ skipped
           s == InOrder(K)
           Done(v, i) == \A j \in 1..i : records[s[j]].stamp > acc.d.stamp[s[j]] =>
                                           Landed(acc.d, v.d, records, s[j])
           Good(v, i) == Staged(acc, records, K, v) /\ Done(v, i) /\ (i = 0 => v = acc)
           P == [i \in 0..Len(s) |-> {v \in Staging : Good(v, i)}]
<1>1. K \in SUBSET Key /\ K \in SUBSET DOMAIN records
  BY DEF Authority
<1>2. s \in Seq(K) /\ Len(s) \in Nat /\ ToSet(s) = K
  BY <1>1, InOrderOf
<1>3. Staged(acc, records, K, acc)
  BY DEF Staged, Staging, Delivered, Kept, Beside
<1>4. acc \in P[0]
  BY <1>2, <1>3
<1>5. ASSUME NEW i \in 1..Len(s), NEW v \in P[i - 1]
      PROVE  stage_authority(v, s[i], records[s[i]]) \in P[i]
  <2> HIDE DEF Good, K
  <2>1. i - 1 \in 0..Len(s) /\ i \in 0..Len(s) /\ s[i] \in K /\ i # 0
    BY <1>2
  <2>2. v \in Staging /\ Good(v, i - 1)
    BY <2>1
  <2> HIDE DEF P, s
  <2> DEFINE k == s[i]
             w == stage_authority(v, k, records[k])
  <2>3. /\ Staged(acc, records, K, w)
        /\ records[k].stamp > acc.d.stamp[k] => Landed(acc.d, w.d, records, k)
        /\ \A c \in Key : Landed(acc.d, v.d, records, c) => Landed(acc.d, w.d, records, c)
    BY <1>1, <2>1, <2>2, StagedNext DEF Good
  <2> HIDE DEF w
  <2>4. Done(w, i)
    <3> SUFFICES ASSUME NEW j \in 1..i, records[s[j]].stamp > acc.d.stamp[s[j]]
                 PROVE  Landed(acc.d, w.d, records, s[j])
      OBVIOUS
    <3>1. CASE j = i
      BY <2>3, <3>1
    <3>2. CASE j \in 1..(i - 1)
      <4>1. Landed(acc.d, v.d, records, s[j])
        BY <2>2, <3>2 DEF Good
      <4>2. s[j] \in Key
        BY <1>1, <1>2
      <4> QED
        BY <2>3, <4>1, <4>2
    <3> QED
      BY <3>1, <3>2
  <2>5. w \in Staging /\ Good(w, i)
    BY <2>1, <2>3, <2>4 DEF Good, Staged
  <2> QED
    BY <2>1, <2>5 DEF P, w
<1> HIDE DEF P
<1>6. stage_isolated(acc, records, skipped) \in P[Len(s)]
  <2> USE DEF K
  <2> QED
    BY <1>2, <1>4, <1>5, StageKeeps
<1> DEFINE f == stage_isolated(acc, records, skipped)
<1> HIDE DEF f
<1>7. f \in Staging /\ Good(f, Len(s))
  <2> HIDE DEF Good, s
  <2>1. P[Len(s)] = {v \in Staging : Good(v, Len(s))}
    BY <1>2 DEF P
  <2> QED
    BY <1>6, <2>1 DEF f
<1> HIDE DEF s, K
<1>8. ASSUME NEW k \in K, records[k].stamp > acc.d.stamp[k] PROVE Landed(acc.d, f.d, records, k)
  <2>1. PICK j \in 1..Len(s) : s[j] = k
    BY <1>2, SetOf
  <2> QED
    BY <1>7, <1>8, <2>1
<1>9. K = {} => f = acc
  <2> SUFFICES ASSUME K = {} PROVE Len(s) = 0
    BY <1>7
  <2>1. \A j \in 1..Len(s) : s[j] \in K
    BY <1>2
  <2> QED
    BY <1>2, <2>1
<1> QED
  BY <1>7, <1>8, <1>9 DEF f, K

LEMMA TouchedByIs ==
  ASSUME NEW d \in Database, NEW O
  PROVE  /\ \A k : k \in TouchedBy(d, O) <=>
                     \E q \in ToSet(d.queue) : q.ordinal \in O /\ k \in Touched(q)
         /\ \A k \in TouchedBy(d, O) : k \in Key /\ dirty(d, k)
<1> DEFINE Y == {q \in ToSet(d.queue) : q.ordinal \in O}
<1>1. d.queue \in Seq(Entry)
  BY Parts
<1>2. ToSet(Filtered(d.queue, Y)) = ToSet(d.queue) \cap Y
  BY <1>1, Picked
<1>3. ToSet(Entries(d, O)) = Y
  BY <1>2 DEF Entries
<1>4. \A k : k \in TouchedBy(d, O) <=> \E q \in ToSet(d.queue) : q.ordinal \in O /\ k \in Touched(q)
  BY <1>3 DEF TouchedBy
<1>5. ToSet(d.queue) \subseteq Entry
  BY <1>1, SetOf
<1>6. ASSUME NEW k \in TouchedBy(d, O) PROVE k \in Key /\ dirty(d, k)
  <2>1. PICK q \in ToSet(d.queue) : k \in Touched(q)
    BY <1>4
  <2>2. q \in Entry
    BY <1>5
  <2>3. k \in Key
    BY <2>1, <2>2, EntryOps
  <2>4. dirty(d, k)
    BY <2>1 DEF dirty, ToSet
  <2> QED
    BY <2>3, <2>4
<1> QED
  BY <1>4, <1>6

\* Delivered looks at stamps and truths only.
LEMMA DeliveredAs ==
  ASSUME NEW c, NEW d, NEW e, NEW f, NEW records, NEW K,
         Truths(d) = Truths(c), d.stamp = c.stamp, Truths(f) = Truths(e), f.stamp = e.stamp
  PROVE  /\ Delivered(d, e, records, K) => Delivered(c, f, records, K)
         /\ \A k \in Key : Landed(d, e, records, k) => Landed(c, f, records, k)
<1>1. \A k \in Key : truth(d, k) = truth(c, k) /\ truth(f, k) = truth(e, k)
  <2> SUFFICES ASSUME NEW k \in Key PROVE truth(d, k) = truth(c, k) /\ truth(f, k) = truth(e, k)
    OBVIOUS
  <2>1. /\ Truths(d)[k] = truth(d, k) /\ Truths(c)[k] = truth(c, k)
        /\ Truths(e)[k] = truth(e, k) /\ Truths(f)[k] = truth(f, k)
    BY DEF Truths
  <2> QED
    BY <2>1
<1> QED
  BY <1>1 DEF Delivered, Kept, Landed

\* What is not held to be rebuilt shows what it showed.
Showing(d, e) == \A k \in Key : Shows(d, k) \/ e.stamp[k] # d.stamp[k] => Shows(e, k)
LEMMA StagedShows ==
  ASSUME NEW acc \in Staging, NEW records, NEW K, NEW f, Staged(acc, records, K, f),
         NEW k \in Key, k \notin f.held, Shows(acc.d, k) \/ f.d.stamp[k] # acc.d.stamp[k]
  PROVE  Shows(f.d, k)
<1>1. acc.d \in Database /\ f.d \in Database /\ f.d.queue = acc.d.queue /\ Beside(acc.d, f.d, f.held)
  BY DEF Staging, Staged
<1>2. dirty(f.d, k) <=> dirty(acc.d, k)
  BY <1>1, SameQueue
<1>3. CASE dirty(acc.d, k)
  <2>1. /\ f.d.main[k] = acc.d.main[k] /\ f.d.before[k] = acc.d.before[k]
        /\ f.d.stamp[k] = acc.d.stamp[k]
    BY <1>1, <1>3 DEF Beside
  <2>2. Untouched(acc.d, f.d, k)
    BY <1>1, <2>1, SameQueueShows
  <2> QED
    BY <2>1, <2>2, UntouchedShows
<1>4. CASE ~ dirty(acc.d, k)
  BY <1>2, <1>4 DEF Shows
<1> QED
  BY <1>3, <1>4

\* Records of a page: what is clean stays so, and what lands is its version.
LEMMA ApplyRecords ==
  ASSUME NEW d \in Database, Clean(d), NEW records, Authority(records), NEW skipped
  PROVE  LET e == apply_records(d, records, skipped)
             K == DOMAIN records \ skipped IN
           /\ e \in Database /\ Clean(e) /\ e.cursor = d.cursor
           /\ Len(e.queue) = Len(d.queue)
           /\ \A i \in 1..Len(d.queue) : e.queue[i].ordinal = d.queue[i].ordinal
           /\ Delivered(d, e, records, K)
           /\ \A k \in K : records[k].stamp > d.stamp[k] => Landed(d, e, records, k)
           /\ Showing(d, e)
<1> DEFINE K == DOMAIN records \ skipped
           acc == [d |-> d, held |-> {}]
           f == stage_isolated(acc, records, skipped)
           e == apply_records(d, records, skipped)
<1>1. e = rebuild_held(f.d, f.held)
  BY DEF apply_records
<1>2. acc \in Staging /\ acc.d = d /\ acc.held = {}
  BY DEF Staging
<1> HIDE DEF acc
<1>3. /\ Staged(acc, records, K, f)
      /\ \A k \in K : records[k].stamp > acc.d.stamp[k] => Landed(acc.d, f.d, records, k)
  BY <1>2, StageIsolated
<1> HIDE DEF f, e
<1>4. /\ f.d \in Database /\ f.d.cursor = d.cursor /\ f.d.queue = d.queue
      /\ \A k \in Key : ~ dirty(d, k) => f.d.before[k] = d.before[k]
      /\ f.held \subseteq {k \in Key : dirty(d, k)}
      /\ Delivered(d, f.d, records, K)
      /\ \A k \in K : records[k].stamp > d.stamp[k] => Landed(d, f.d, records, k)
  BY <1>2, <1>3 DEF Staged, Staging
<1>5. \A k : dirty(f.d, k) <=> dirty(d, k)
  BY <1>4, SameQueue
<1>6. \A k \in Key \ f.held : ~ dirty(f.d, k) => f.d.before[k] = Absent
  BY <1>4, <1>5 DEF Clean
<1>7. /\ e \in Database /\ Clean(e) /\ e.stamp = f.d.stamp /\ e.cursor = f.d.cursor
      /\ Len(e.queue) = Len(f.d.queue)
      /\ \A i \in 1..Len(f.d.queue) : e.queue[i].ordinal = f.d.queue[i].ordinal
      /\ \A k \in Key : truth(e, k) = IF dirty(f.d, k) \/ k \in f.held THEN f.d.before[k] ELSE f.d.main[k]
      /\ \A k \in Key : k \in f.held \/ Shows(f.d, k) => Shows(e, k)
  BY <1>1, <1>4, <1>6, RebuildHeld
<1>8. \A k \in Key : truth(e, k) = truth(f.d, k)
  BY <1>4, <1>5, <1>7 DEF truth
<1>9. Truths(e) = Truths(f.d)
  BY <1>8 DEF Truths
<1>10. K \subseteq Key
  BY DEF Authority
<1>11. Delivered(d, e, records, K) /\ \A k \in Key : Landed(d, f.d, records, k) => Landed(d, e, records, k)
  BY <1>4, <1>7, <1>9, DeliveredAs
<1>12. Showing(d, e)
  BY <1>2, <1>3, <1>7, StagedShows DEF Showing
<1> HIDE DEF K
<1> QED
  BY <1>4, <1>7, <1>10, <1>11, <1>12 DEF e, K

---------------------------------------------------------------------------
(* Settlement.  The companions of accepted mutations move bases, of the    *)
(* records they are folded into only; a clean record has none to move.     *)

Folding == [d : Database, folded : SUBSET Key]
Fold(d, covered, v) ==
  /\ v \in Folding /\ v.d.main = d.main /\ v.d.stamp = d.stamp
  /\ v.d.cursor = d.cursor /\ v.d.queue = d.queue
  /\ v.folded \cap covered = {}
  /\ \A k \in Key : k \notin v.folded \/ ~ dirty(d, k) => v.d.before[k] = d.before[k]

LEMMA FoldStep ==
  ASSUME NEW d \in Database, Clean(d), NEW covered, NEW v, Fold(d, covered, v),
         NEW op \in RootOp, dirty(d, op.key) \/ op.kind = "delete"
  PROVE  Fold(d, covered, fold(v, op, covered))
<1>1. CASE op.key \in covered
  BY <1>1 DEF fold
<1>2. CASE op.key \notin covered
  <2> DEFINE k0 == op.key
             base == v.d.before[k0]
             new == IF Fits(base, op) THEN apply_to_row(base, op) ELSE base
             b == [v.d.before EXCEPT ![k0] = new]
             e == [v.d EXCEPT !.before = b]
             w == fold(v, op, covered)
  <2>1. k0 \in Key /\ v.d \in Database /\ v.folded \in SUBSET Key
    BY OpFacts DEF Fold, Folding
  <2>2. base \in Held(k0)
    BY <2>1, Parts
  <2>3. new \in Held(k0)
    BY <2>2, Applies DEF Fits
  <2>4. ~ dirty(d, k0) => new = base
    <3> SUFFICES ASSUME ~ dirty(d, k0) PROVE new = base
      OBVIOUS
    <3>1. base = Absent
      BY <2>1 DEF Fold, Clean
    <3> QED
      BY <3>1 DEF apply_to_row
  <2>5. w = [d |-> e, folded |-> v.folded \cup {k0}]
    BY <1>2, <2>1 DEF fold, Database
  <2> HIDE DEF new
  <2>6. b \in Table /\ \A k \in Key : b[k] = IF k = k0 THEN new ELSE v.d.before[k]
    BY <2>1, <2>3, Parts, RowFacts DEF Table
  <2> HIDE DEF b
  <2>7. /\ e \in Database /\ e.main = v.d.main /\ e.before = b
        /\ e.stamp = v.d.stamp /\ e.cursor = v.d.cursor /\ e.queue = v.d.queue
    BY <2>1, <2>6 DEF Database
  <2> HIDE DEF e, w
  <2>8. w \in Folding /\ w.d = e /\ w.folded = v.folded \cup {k0}
    BY <2>1, <2>5, <2>7 DEF Folding
  <2>9. \A k \in Key : k \notin w.folded \/ ~ dirty(d, k) => w.d.before[k] = d.before[k]
    BY <2>4, <2>6, <2>7, <2>8 DEF Fold
  <2>10. Fold(d, covered, w)
    BY <1>2, <2>7, <2>8, <2>9 DEF Fold
  <2> QED
    BY <2>10 DEF w
<1> QED
  BY <1>1, <1>2

LEMMA Behind ==
  ASSUME NEW S, NEW s \in Seq(S), NEW t \in Seq(S), NEW i \in 1..Len(t)
  PROVE  Len(s) + i \in DOMAIN (s \o t) /\ (s \o t)[Len(s) + i] = t[i]
<1>1. Len(s) \in Nat /\ Len(t) \in Nat /\ i \in Nat /\ i >= 1 /\ i <= Len(t)
  OBVIOUS
<1>2. Len(s) + i \in 1..(Len(s) + Len(t)) /\ ~ (Len(s) + i <= Len(s)) /\ Len(s) + i - Len(s) = i
  BY <1>1
<1> QED
  BY <1>1, <1>2

LEMMA FoldEntry ==
  ASSUME NEW d \in Database, Clean(d), NEW covered, NEW v, Fold(d, covered, v),
         NEW q \in ToSet(d.queue), NEW wire
  PROVE  Fold(d, covered, fold_entry(v, q, wire, covered))
<1> DEFINE X == {o \in ToSet(q.companion) : o.kind = "delete" /\ o.key \notin wire}
           C == UNION {Descendants(v.d, op.key) : op \in X}
           s == LocalOps(v.d, q, wire)
           P == [i \in 0..Len(s) |-> {w \in Folding : Fold(d, covered, w)}]
<1>1. v.d \in Database /\ q \in Entry /\ q.companion \in Seq(RootOp)
  <2>1. d.queue \in Seq(Entry)
    BY Parts
  <2>2. q \in Entry
    BY <2>1, SetOf
  <2> QED
    BY <2>2 DEF Fold, Folding, Entry
<1>2. C \in SUBSET Key
  <2>1. \A op \in X : op.key \in Key
    BY <1>1, SetOf, OpFacts
  <2>2. \A op \in X : Descendants(v.d, op.key) \subseteq Key
    BY <1>1, <2>1, DescendantsOf
  <2> QED
    BY <2>2
<1>3. s = q.companion \o Deletions(C)
  BY DEF LocalOps
<1> HIDE DEF C
<1>4. /\ Deletions(C) \in Seq(RootOp) /\ \A i \in 1..Len(Deletions(C)) : Deletions(C)[i].kind = "delete"
  <2>1. /\ Deletions(C) \in Seq(RootOp)
        /\ \A i \in 1..Len(Deletions(C)) : Deletions(C)[i] = Delete(InOrder(C)[i]) /\ InOrder(C)[i] \in C
    BY <1>2, InOrderOf
  <2> QED
    BY <1>2, <2>1, OpFacts
<1>5. \A i \in 1..Len(q.companion) : dirty(d, q.companion[i].key)
  <2> SUFFICES ASSUME NEW i \in 1..Len(q.companion) PROVE dirty(d, q.companion[i].key)
    OBVIOUS
  <2> DEFINE n == Len(q.wire)
  <2>1. q.wire \in Seq(RootOp) /\ n \in Nat /\ Len(q.companion) \in Nat
    BY <1>1 DEF Entry
  <2> HIDE DEF n
  <2>2. Len(q.wire) + i \in DOMAIN OwnOps(q) /\ OwnOps(q)[Len(q.wire) + i] = q.companion[i]
    BY <1>1, <2>1, Behind DEF OwnOps
  <2>3. q.companion[i].key \in Touched(q)
    BY <2>2 DEF Touched
  <2> QED
    BY <2>3 DEF dirty, ToSet
<1> HIDE DEF s
<1>6. s \in Seq(RootOp) /\ Len(s) \in Nat /\ \A i \in 1..Len(s) : s[i] \in RootOp /\ (dirty(d, s[i].key) \/ s[i].kind = "delete")
  <2> DEFINE D == Deletions(C)
             n == Len(q.companion)
  <2>1. D \in Seq(RootOp) /\ \A i \in 1..Len(D) : D[i].kind = "delete"
    BY <1>4
  <2> HIDE DEF D
  <2>2. s = q.companion \o D
    BY <1>3 DEF D
  <2>3. n \in Nat /\ Len(D) \in Nat /\ Len(s) = n + Len(D) /\ s \in Seq(RootOp)
        /\ \A i \in 1..Len(s) : s[i] = IF i <= n THEN q.companion[i] ELSE D[i - n]
    BY <1>1, <2>1, <2>2
  <2>4. ASSUME NEW i \in 1..Len(s) PROVE s[i] \in RootOp /\ (dirty(d, s[i].key) \/ s[i].kind = "delete")
    <3>1. CASE i <= n
      <4>1. i \in 1..n /\ s[i] = q.companion[i] /\ s[i] \in RootOp
        BY <2>3, <3>1
      <4> QED
        BY <1>5, <4>1
    <3>2. CASE i > n
      <4>1. i - n \in 1..Len(D) /\ s[i] = D[i - n] /\ s[i] \in RootOp
        BY <2>3, <3>2
      <4> QED
        BY <2>1, <4>1
    <3> QED
      BY <2>3, <3>1, <3>2
  <2> QED
    BY <2>3, <2>4
<1>7. v \in P[0]
  BY <1>6 DEF Fold
<1>8. ASSUME NEW i \in 1..Len(s), NEW w \in P[i - 1] PROVE fold(w, s[i], covered) \in P[i]
  <2>1. i - 1 \in 0..Len(s) /\ i \in 0..Len(s)
    BY <1>6
  <2>2. Fold(d, covered, w)
    BY <2>1
  <2>3. Fold(d, covered, fold(w, s[i], covered))
    BY <1>6, <2>2, FoldStep
  <2>4. fold(w, s[i], covered) \in Folding
    BY <2>3 DEF Fold
  <2> QED
    BY <2>1, <2>3, <2>4
<1> HIDE DEF P
<1>9. fold_entry(v, q, wire, covered) \in P[Len(s)]
  BY <1>6, <1>7, <1>8, FoldKeeps DEF s
<1> QED
  BY <1>6, <1>9 DEF P

LEMMA FoldsDo ==
  ASSUME NEW d \in Database, Clean(d), NEW accepted, NEW covered
  PROVE  /\ Fold(d, covered, FoldCompanions(d, accepted, covered))
         /\ accepted = {} => FoldCompanions(d, accepted, covered) = [d |-> d, folded |-> {}]
<1> DEFINE b == [d |-> d, folded |-> {}]
           s == Entries(d, accepted)
           Good(w, i) == Fold(d, covered, w) /\ (i = 0 => w = b)
           P == [i \in 0..Len(s) |-> {w \in Folding : Good(w, i)}]
           X == {q \in ToSet(d.queue) : q.ordinal \in accepted}
<1>1. s \in Seq(Entry \cap X) /\ ToSet(s) \subseteq ToSet(d.queue) /\ Len(s) \in Nat
      /\ \A i \in 1..Len(s) : s[i] \in ToSet(d.queue)
  <2>1. d.queue \in Seq(Entry)
    BY Parts
  <2>2. s = Filtered(d.queue, X)
    BY DEF Entries
  <2> HIDE DEF s
  <2>3. s \in Seq(Entry \cap X)
    BY <2>1, <2>2, Picked
  <2> HIDE DEF X
  <2>4. Len(s) \in Nat /\ \A i \in 1..Len(s) : s[i] \in X
    BY <2>3
  <2>5. ToSet(s) \subseteq X
    BY <2>3, SetOf
  <2> QED
    BY <2>3, <2>4, <2>5 DEF X
<1> HIDE DEF s
<1>2. b \in Folding /\ Fold(d, covered, b)
  BY DEF Fold, Folding
<1>3. b \in P[0]
  BY <1>1, <1>2
<1>4. ASSUME NEW i \in 1..Len(s), NEW w \in P[i - 1]
      PROVE  fold_entry(w, s[i], Wired(d, accepted), covered) \in P[i]
  <2> HIDE DEF Good
  <2>1. i - 1 \in 0..Len(s) /\ i \in 0..Len(s) /\ i # 0
    BY <1>1
  <2>2. Good(w, i - 1)
    BY <2>1
  <2>3. Fold(d, covered, fold_entry(w, s[i], Wired(d, accepted), covered))
    BY <1>1, <2>2, FoldEntry DEF Good
  <2>4. fold_entry(w, s[i], Wired(d, accepted), covered) \in Folding
    BY <2>3 DEF Fold
  <2> QED
    BY <2>1, <2>3, <2>4 DEF Good
<1> HIDE DEF P
<1>5. FoldCompanions(d, accepted, covered) \in P[Len(s)]
  BY <1>1, <1>3, <1>4, CompanionsKeep DEF s
<1>6. Good(FoldCompanions(d, accepted, covered), Len(s))
  <2> HIDE DEF Good
  <2>1. P[Len(s)] = {w \in Folding : Good(w, Len(s))}
    BY <1>1 DEF P
  <2> QED
    BY <1>5, <2>1
<1>7. accepted = {} => Len(s) = 0
  <2> SUFFICES ASSUME accepted = {} PROVE Len(s) = 0
    OBVIOUS
  <2>1. Entry \cap X = {}
    OBVIOUS
  <2>2. s \in Seq({})
    BY <1>1, <2>1
  <2> QED
    BY <2>2
<1> QED
  BY <1>6, <1>7

\* The queue of e is part of the queue of d, as far as ordinals tell.
Thinned(d, e) ==
  /\ \A i \in 1..Len(e.queue) : \E j \in 1..Len(d.queue) : e.queue[i].ordinal = d.queue[j].ordinal
  /\ OrdinalsDiffer(d.queue) => OrdinalsDiffer(e.queue)

LEMMA ThinnedSame ==
  ASSUME NEW d \in Database, NEW e \in Database, Len(e.queue) = Len(d.queue),
         \A i \in 1..Len(d.queue) : e.queue[i].ordinal = d.queue[i].ordinal
  PROVE  Thinned(d, e)
BY DEF Thinned, OrdinalsDiffer

LEMMA ThinnedTrans ==
  ASSUME NEW c, NEW d, NEW e, Thinned(c, d), Thinned(d, e)
  PROVE  Thinned(c, e)
<1>1. ASSUME NEW i \in 1..Len(e.queue)
      PROVE  \E j \in 1..Len(c.queue) : e.queue[i].ordinal = c.queue[j].ordinal
  <2>1. PICK m \in 1..Len(d.queue) : e.queue[i].ordinal = d.queue[m].ordinal
    BY DEF Thinned
  <2>2. PICK j \in 1..Len(c.queue) : d.queue[m].ordinal = c.queue[j].ordinal
    BY DEF Thinned
  <2> QED
    BY <2>1, <2>2
<1> QED
  BY <1>1 DEF Thinned

LEMMA ThinnedDeleted ==
  ASSUME NEW d \in Database, NEW O
  PROVE  Thinned(d, delete_mutations(d, O))
<1> DEFINE Q == Remaining(d, O)
           e == delete_mutations(d, O)
<1>1. d.queue \in Seq(Entry)
  BY Parts
<1>2. e.queue = Q
  BY Deleted
<1> DEFINE X == {q \in ToSet(d.queue) : q.ordinal \notin O}
<1>3. Q = Filtered(d.queue, X)
  BY DEF Remaining
<1> HIDE DEF X, Q
<1>4. Q \in Seq(Entry) /\ ToSet(Q) \subseteq ToSet(d.queue)
  <2>1. Filtered(d.queue, X) \in Seq(Entry) /\ ToSet(Filtered(d.queue, X)) = ToSet(d.queue) \cap X
    BY <1>1, Picked
  <2> QED
    BY <1>3, <2>1
<1>5. OrdinalsDiffer(d.queue) => OrdinalsDiffer(Q)
  BY <1>1, <1>3, FilteredDiffers
<1> HIDE DEF Q, e
<1>6. ASSUME NEW i \in 1..Len(Q) PROVE \E j \in 1..Len(d.queue) : Q[i].ordinal = d.queue[j].ordinal
  <2>1. Q[i] \in ToSet(d.queue)
    BY <1>4, SetOf
  <2> QED
    BY <1>1, <2>1, SetOf
<1> QED
  BY <1>2, <1>5, <1>6 DEF Thinned, e

\* Dropping mutations and rebuilding what they touched moves no base.
LEMMA Dropped ==
  ASSUME NEW d \in Database, Clean(d), NEW O
  PROVE  LET e == rebuild_held(delete_mutations(d, O), TouchedBy(d, O)) IN
           /\ e \in Database /\ Clean(e) /\ e.stamp = d.stamp /\ e.cursor = d.cursor
           /\ Truths(e) = Truths(d) /\ Thinned(d, e) /\ ShowsOn(d, e)
<1> DEFINE c == delete_mutations(d, O)
           K == TouchedBy(d, O)
           e == rebuild_held(c, K)
<1>1. /\ c \in Database /\ c.main = d.main /\ c.before = d.before
      /\ c.stamp = d.stamp /\ c.cursor = d.cursor
      /\ \A k : dirty(c, k) => dirty(d, k)
      /\ \A k : dirty(d, k) /\ k \notin K => dirty(c, k)
      /\ \A k \in Key : k \notin K => Untouched(d, c, k)
  BY Deleted
<1>2. Thinned(d, c)
  BY ThinnedDeleted
<1>3. \A k \in K : dirty(d, k)
  BY TouchedByIs
<1> HIDE DEF c, K
<1>4. \A k \in Key \ K : ~ dirty(c, k) => c.before[k] = Absent
  BY <1>1 DEF Clean
<1>5. /\ e \in Database /\ Clean(e) /\ e.stamp = c.stamp /\ e.cursor = c.cursor
      /\ Len(e.queue) = Len(c.queue)
      /\ \A i \in 1..Len(c.queue) : e.queue[i].ordinal = c.queue[i].ordinal
      /\ \A k \in Key : truth(e, k) = IF dirty(c, k) \/ k \in K THEN c.before[k] ELSE c.main[k]
      /\ \A k \in Key : k \in K \/ Shows(c, k) => Shows(e, k)
  BY <1>1, <1>4, RebuildHeld
<1> HIDE DEF e
<1>6. \A k \in Key : truth(e, k) = truth(d, k)
  BY <1>1, <1>3, <1>5 DEF truth
<1>7. Truths(e) = Truths(d)
  BY <1>6 DEF Truths
<1>8. Thinned(d, e)
  BY <1>1, <1>2, <1>5, ThinnedSame, ThinnedTrans
<1>9. ShowsOn(d, e)
  BY <1>1, <1>5, UntouchedShows DEF ShowsOn
<1> QED
  BY <1>1, <1>5, <1>7, <1>8, <1>9 DEF e, c, K

\* The stamps that a delivery moves, it moves to its own newer ones.
Stamped(d, e, records, K) ==
  \A k \in Key : \/ e.stamp[k] = d.stamp[k]
                 \/ k \in K /\ e.stamp[k] = records[k].stamp /\ records[k].stamp > d.stamp[k]

\* Completing a batch: the bases of records no companion was folded into are
\* kept, or the version of the receipt lands.
LEMMA Settles ==
  ASSUME NEW d \in Database, Clean(d), NEW r, Authority(r.records), NEW skipped
  PROVE  LET e == Settled(d, r, skipped)
             D == DOMAIN r.records \ skipped
             folded == FoldCompanions(d, r.batch \ r.rejected, DOMAIN r.records).folded IN
           /\ e \in Database /\ Clean(e) /\ e.cursor = d.cursor /\ Thinned(d, e)
           /\ folded \cap DOMAIN r.records = {}
           /\ Stamped(d, e, r.records, D)
           /\ \A k \in Key \ folded : Kept(d, e, k) \/ (k \in D /\ Landed(d, e, r.records, k))
           /\ \A k \in D : r.records[k].stamp > d.stamp[k] => Landed(d, e, r.records, k)
           /\ r.batch \ r.rejected = {} /\ DOMAIN r.records = {} => Truths(e) = Truths(d)
           /\ Showing(d, e)
<1> DEFINE accepted == r.batch \ r.rejected
           gone == Doomed(d, r.rejected)
           D == DOMAIN r.records \ skipped
           F == FoldCompanions(d, accepted, DOMAIN r.records)
           acc == [d |-> F.d, held |-> TouchedBy(d, r.batch) \cup F.folded]
           S == stage_isolated(acc, r.records, skipped)
           c == delete_mutations(S.d, gone \cup accepted)
           K == S.held \cup TouchedBy(d, gone)
           e == Settled(d, r, skipped)
<1>1. e = rebuild_held(c, K)
  BY DEF Settled
<1>2. /\ Fold(d, DOMAIN r.records, F)
      /\ accepted = {} => F = [d |-> d, folded |-> {}]
  BY FoldsDo
<1>3. D \subseteq Key /\ D \subseteq DOMAIN r.records
  BY DEF Authority
<1> HIDE DEF e, F, D
<1>4. /\ F.d \in Database /\ F.d.main = d.main /\ F.d.stamp = d.stamp
      /\ F.d.cursor = d.cursor /\ F.d.queue = d.queue
      /\ F.folded \in SUBSET Key /\ F.folded \cap DOMAIN r.records = {}
      /\ \A k \in Key : k \notin F.folded \/ ~ dirty(d, k) => F.d.before[k] = d.before[k]
  BY <1>2 DEF Fold, Folding
<1>5. acc \in Staging /\ acc.d = F.d /\ acc.held = TouchedBy(d, r.batch) \cup F.folded
  BY <1>4, TouchedByIs DEF Staging
<1> HIDE DEF acc
<1>6. /\ Staged(acc, r.records, D, S)
      /\ \A k \in D : r.records[k].stamp > acc.d.stamp[k] => Landed(acc.d, S.d, r.records, k)
      /\ D = {} => S = acc
  BY <1>5, StageIsolated DEF D
<1> HIDE DEF S
<1>7. \A k : dirty(F.d, k) <=> dirty(d, k)
  BY <1>4, SameQueue
<1>8. /\ S.d \in Database /\ S.d.cursor = d.cursor /\ S.d.queue = d.queue
      /\ \A k \in Key : ~ dirty(d, k) => S.d.before[k] = d.before[k]
      /\ acc.held \subseteq S.held /\ S.held \subseteq acc.held \cup {k \in Key : dirty(d, k)}
      /\ Delivered(F.d, S.d, r.records, D)
  BY <1>4, <1>5, <1>6, <1>7 DEF Staged, Staging
<1>9. \A k : dirty(S.d, k) <=> dirty(d, k)
  BY <1>8, SameQueue
<1>10. /\ c \in Database /\ c.main = S.d.main /\ c.before = S.d.before
       /\ c.stamp = S.d.stamp /\ c.cursor = S.d.cursor
       /\ \A k : dirty(c, k) => dirty(S.d, k)
       /\ \A k : dirty(S.d, k) /\ k \notin TouchedBy(S.d, gone \cup accepted) => dirty(c, k)
       /\ \A k \in Key : k \notin TouchedBy(S.d, gone \cup accepted) => Untouched(S.d, c, k)
  <2> HIDE DEF gone, accepted
  <2> DEFINE O == gone \cup accepted
  <2> HIDE DEF O
  <2>1. /\ c \in Database /\ c.main = S.d.main /\ c.before = S.d.before
        /\ c.stamp = S.d.stamp /\ c.cursor = S.d.cursor
        /\ \A k : dirty(c, k) => dirty(S.d, k)
        /\ \A k : dirty(S.d, k) /\ k \notin TouchedBy(S.d, O) => dirty(c, k)
        /\ \A k \in Key : k \notin TouchedBy(S.d, O) => Untouched(S.d, c, k)
    <3>1. c = delete_mutations(S.d, O)
      BY DEF O
    <3> HIDE DEF c
    <3> QED
      BY <1>8, <3>1, Deleted
  <2> QED
    BY <2>1 DEF O
<1>11. Thinned(d, c)
  <2>1. Thinned(S.d, c)
    BY <1>8, ThinnedDeleted
  <2>2. Thinned(d, S.d)
    BY <1>8, ThinnedSame
  <2> HIDE DEF c
  <2> QED
    BY <2>1, <2>2, ThinnedTrans
<1> HIDE DEF c
<1>12. \A k \in TouchedBy(S.d, gone \cup accepted) : k \in K
  <2> HIDE DEF gone
  <2> SUFFICES ASSUME NEW k \in TouchedBy(S.d, gone \cup accepted) PROVE k \in K
    OBVIOUS
  <2>1. PICK q \in ToSet(S.d.queue) : q.ordinal \in gone \cup accepted /\ k \in Touched(q)
    BY <1>8, TouchedByIs
  <2>2. q \in ToSet(d.queue)
    BY <1>8, <2>1
  <2>3. q.ordinal \in gone => k \in TouchedBy(d, gone)
    BY <2>1, <2>2, TouchedByIs
  <2>4. q.ordinal \in r.batch => k \in TouchedBy(d, r.batch)
    BY <2>1, <2>2, TouchedByIs
  <2> QED
    BY <1>5, <1>8, <2>1, <2>3, <2>4
<1>13. S.held \subseteq K
  OBVIOUS
<1>14. \A k \in K : dirty(d, k) \/ k \in F.folded
  BY <1>5, <1>8, TouchedByIs
<1> HIDE DEF K
<1>15. \A k \in Key \ K : dirty(d, k) => dirty(c, k)
  BY <1>9, <1>10, <1>12
<1>16. \A k \in Key \ K : ~ dirty(c, k) => c.before[k] = Absent
  BY <1>8, <1>10, <1>15 DEF Clean
<1>17. /\ e \in Database /\ Clean(e) /\ e.stamp = c.stamp /\ e.cursor = c.cursor
       /\ Len(e.queue) = Len(c.queue)
       /\ \A i \in 1..Len(c.queue) : e.queue[i].ordinal = c.queue[i].ordinal
       /\ \A k \in Key : truth(e, k) = IF dirty(c, k) \/ k \in K THEN c.before[k] ELSE c.main[k]
       /\ \A k \in Key : k \in K \/ Shows(c, k) => Shows(e, k)
  BY <1>1, <1>10, <1>16, RebuildHeld
<1>18. Thinned(d, e)
  BY <1>10, <1>11, <1>17, ThinnedSame, ThinnedTrans
<1>19. ASSUME NEW k \in Key \ F.folded PROVE truth(e, k) = truth(S.d, k) /\ truth(F.d, k) = truth(d, k)
  <2>1. CASE dirty(d, k)
    BY <1>4, <1>7, <1>9, <1>10, <1>15, <1>17, <2>1 DEF truth
  <2>2. CASE ~ dirty(d, k)
    BY <1>4, <1>7, <1>9, <1>10, <1>14, <1>17, <2>2 DEF truth
  <2> QED
    BY <2>1, <2>2
<1>20. ASSUME NEW k \in Key \ F.folded
       PROVE  /\ Kept(F.d, S.d, k) => Kept(d, e, k)
              /\ Landed(F.d, S.d, r.records, k) => Landed(d, e, r.records, k)
  BY <1>4, <1>10, <1>17, <1>19 DEF Kept, Landed
<1>21. \A k \in Key \ F.folded : Kept(d, e, k) \/ (k \in D /\ Landed(d, e, r.records, k))
  BY <1>8, <1>20 DEF Delivered
<1>22. \A k \in D : r.records[k].stamp > d.stamp[k] => Landed(d, e, r.records, k)
  BY <1>3, <1>4, <1>5, <1>6, <1>20
<1>23. Stamped(d, e, r.records, D)
  <2> SUFFICES ASSUME NEW k \in Key
               PROVE  S.d.stamp[k] = F.d.stamp[k] \/ (k \in D /\ Landed(F.d, S.d, r.records, k))
    BY <1>4, <1>10, <1>17 DEF Stamped, Landed
  <2> QED
    BY <1>8 DEF Delivered, Kept
<1>24. ASSUME accepted = {}, DOMAIN r.records = {} PROVE Truths(e) = Truths(d)
  <2>1. F.d = d /\ F.folded = {} /\ S = acc
    BY <1>2, <1>3, <1>6, <1>24
  <2>2. \A k \in Key : truth(e, k) = truth(d, k)
    BY <1>5, <1>19, <2>1
  <2> QED
    BY <2>2 DEF Truths
<1>25. ASSUME NEW k \in Key, Shows(d, k) \/ e.stamp[k] # d.stamp[k] PROVE Shows(e, k)
  <2>1. CASE k \in K
    BY <1>17, <2>1
  <2>2. CASE k \notin K
    <3>1. k \notin S.held /\ k \notin F.folded
      BY <1>5, <1>8, <1>13, <2>2
    <3>2. Untouched(d, F.d, k)
      BY <1>4, <3>1, SameQueueShows
    <3>3. Shows(acc.d, k) \/ S.d.stamp[k] # acc.d.stamp[k]
      BY <1>4, <1>5, <1>10, <1>17, <1>25, <3>2, UntouchedShows
    <3>4. Shows(S.d, k)
      BY <1>5, <1>6, <3>1, <3>3, StagedShows
    <3>5. Untouched(S.d, c, k)
      BY <1>10, <1>12, <2>2
    <3>6. Shows(c, k)
      BY <3>4, <3>5, UntouchedShows
    <3> QED
      BY <1>17, <3>6
  <2> QED
    BY <2>1, <2>2
<1>26. Showing(d, e)
  BY <1>25 DEF Showing
<1> QED
  BY <1>4, <1>8, <1>10, <1>17, <1>18, <1>21, <1>22, <1>23, <1>24, <1>26 DEF e, F, D

\* Freezing sends entries and changes nothing else.
Frozen(d, free) ==
  [d EXCEPT !.queue = [i \in DOMAIN d.queue |->
     [d.queue[i] EXCEPT !.sent = d.queue[i].sent \/ d.queue[i].ordinal \in free]]]
LEMMA FrozenDoes ==
  ASSUME NEW d \in Database, Clean(d), NEW free
  PROVE  LET e == Frozen(d, free) IN
           /\ e \in Database /\ Clean(e) /\ e.stamp = d.stamp /\ e.cursor = d.cursor
           /\ Truths(e) = Truths(d) /\ Thinned(d, e) /\ ShowsOn(d, e)
<1> DEFINE e == Frozen(d, free)
           sent(i) == d.queue[i].sent \/ d.queue[i].ordinal \in free
           Q == [i \in DOMAIN d.queue |-> [d.queue[i] EXCEPT !.sent = sent(i)]]
<1>1. d.queue \in Seq(Entry) /\ DOMAIN d.queue = 1..Len(d.queue) /\ Len(d.queue) \in Nat
  BY Parts
<1>2. e = [d EXCEPT !.queue = Q]
  BY DEF Frozen
<1> HIDE DEF e
<1>3. \A i \in 1..Len(d.queue) : sent(i) \in BOOLEAN
  BY <1>1 DEF Entry
<1> HIDE DEF sent
<1>4. ASSUME NEW i \in 1..Len(d.queue)
      PROVE  /\ Q[i] \in Entry /\ Q[i].ordinal = d.queue[i].ordinal
             /\ Touched(Q[i]) = Touched(d.queue[i])
             /\ \A k : OpsOn(Q[i], k) = OpsOn(d.queue[i], k)
  <2>1. Q[i] = [d.queue[i] EXCEPT !.sent = sent(i)] /\ d.queue[i] \in Entry
    BY <1>1
  <2> HIDE DEF Q
  <2>2. /\ Q[i] \in Entry /\ Q[i].ordinal = d.queue[i].ordinal /\ Q[i].effects = d.queue[i].effects
        /\ Q[i].wire = d.queue[i].wire /\ Q[i].companion = d.queue[i].companion
    BY <1>3, <2>1 DEF Entry
  <2> QED
    BY <2>2 DEF Touched, OpsOn, OwnOps
<1>5. DOMAIN Q = DOMAIN d.queue
  OBVIOUS
<1> HIDE DEF Q
<1>6. \A i \in 1..Len(d.queue) : Q[i] \in Entry
  BY <1>4
<1>7. Q = [i \in 1..Len(d.queue) |-> Q[i]]
  BY <1>1, <1>5 DEF Q
<1>8. Q \in Seq(Entry) /\ Len(Q) = Len(d.queue) /\ DOMAIN Q = DOMAIN d.queue
  <2> DEFINE n == Len(d.queue)
  <2>1. n \in Nat /\ DOMAIN Q = 1..n /\ \A i \in 1..n : Q[i] \in Entry
    BY <1>1, <1>5, <1>6
  <2>2. Q = [i \in 1..n |-> Q[i]]
    BY <1>7
  <2> HIDE DEF n
  <2>3. Q \in [1..n -> Entry]
    BY <2>1, <2>2
  <2>4. Q \in Seq(Entry)
    BY <2>1, <2>3
  <2>5. Len(Q) = n
    BY <2>1, <2>4
  <2> QED
    BY <1>5, <2>4, <2>5 DEF n
<1> HIDE DEF Q
<1>9. /\ e \in Database /\ e.main = d.main /\ e.before = d.before
      /\ e.stamp = d.stamp /\ e.cursor = d.cursor /\ e.queue = Q
  BY <1>2, <1>8 DEF Database
<1>10. \A k : dirty(e, k) <=> dirty(d, k)
  BY <1>1, <1>4, <1>8, <1>9 DEF dirty
<1> HIDE DEF sent
<1>11. Clean(e) /\ \A k \in Key : truth(e, k) = truth(d, k)
  <2>1. \A k \in Key : truth(e, k) = truth(d, k)
    BY <1>9, <1>10 DEF truth
  <2>2. Clean(e)
    BY <1>9, <1>10 DEF Clean
  <2> QED
    BY <2>1, <2>2
<1>12. Truths(e) = Truths(d)
  BY <1>11 DEF Truths
<1>13. Thinned(d, e)
  BY <1>4, <1>8, <1>9, ThinnedSame
<1>14. ASSUME NEW k \in Key, Shows(d, k) PROVE Shows(e, k)
  <2>1. AsMuch(d.queue, e.queue, k)
    BY <1>4, <1>8, <1>9 DEF AsMuch
  <2>2. ops_for(e, k) = ops_for(d, k)
    BY <1>1, <1>8, <1>9, <2>1, OpsSame
  <2>3. Untouched(d, e, k)
    BY <1>9, <1>10, <2>2 DEF Untouched
  <2> QED
    BY <1>14, <2>3, UntouchedShows
<1> QED
  BY <1>9, <1>11, <1>12, <1>13, <1>14 DEF e, ShowsOn
---------------------------------------------------------------------------
(* The server.  Histories only grow, and a record that changes moves to    *)
(* the end of every channel it is published on.                            *)

Histories ==
  {h \in [Key -> Seq(Row \cup {Absent})] : \A k \in Key : \A i \in 1..Len(h[k]) : h[k][i] \in Held(k)}
Serving == [history : Histories, head : [Channel -> Nat], cursor : [Channel -> [Key -> Nat]]]

AtIn(s, k, n) == IF n = 0 THEN Absent ELSE s.history[k][n]
Authentic(s, k, record) == record.stamp \in 1..Version(s, k) /\ record.row = AtIn(s, k, record.stamp)
Grown(s, t) ==
  \A k \in Key : /\ Version(s, k) <= Version(t, k)
                 /\ \A i \in 1..Version(s, k) : t.history[k][i] = s.history[k][i]

\* Positions of a channel are not shared, nor beyond its head, and only records
\* published there, that have a version, have one.
Placed(s) ==
  \A c \in Channel :
    /\ \A k \in Key : /\ s.cursor[c][k] <= s.head[c]
                      /\ s.cursor[c][k] > 0 => c \in App.home[k] /\ Version(s, k) > 0
    /\ \A j, k \in Key : (j # k /\ s.cursor[c][j] = s.cursor[c][k]) => s.cursor[c][k] = 0

\* From s to t, a record that changed went past what had been the head.
Advanced(s, t) ==
  \A c \in Channel :
    /\ s.head[c] <= t.head[c]
    /\ \A k \in Key :
         \/ t.cursor[c][k] > s.head[c]
         \/ t.cursor[c][k] = s.cursor[c][k] /\ (t.cursor[c][k] > 0 => Version(t, k) = Version(s, k))

LEMMA ServingParts ==
  ASSUME NEW s \in Serving
  PROVE  /\ s.history \in Histories /\ s.history \in [Key -> Seq(Row \cup {Absent})]
         /\ s.head \in [Channel -> Nat] /\ s.cursor \in [Channel -> [Key -> Nat]]
         /\ \A c \in Channel : s.head[c] \in Nat /\ \A k \in Key : s.cursor[c][k] \in Nat
         /\ \A k \in Key : /\ s.history[k] \in Seq(Row \cup {Absent}) /\ Version(s, k) \in Nat
                           /\ Version(s, k) = Len(s.history[k])
                           /\ \A i \in 1..Version(s, k) : s.history[k][i] \in Held(k)
                           /\ Content(s, k) = AtIn(s, k, Version(s, k)) /\ Content(s, k) \in Held(k)
<1>1. ASSUME NEW k \in Key
      PROVE  /\ s.history[k] \in Seq(Row \cup {Absent}) /\ Version(s, k) \in Nat
             /\ Version(s, k) = Len(s.history[k])
             /\ \A i \in 1..Version(s, k) : s.history[k][i] \in Held(k)
             /\ Content(s, k) = AtIn(s, k, Version(s, k)) /\ Content(s, k) \in Held(k)
  <2>1. s.history[k] \in Seq(Row \cup {Absent}) /\ \A i \in 1..Len(s.history[k]) : s.history[k][i] \in Held(k)
    BY DEF Serving, Histories
  <2>2. Version(s, k) = Len(s.history[k]) /\ Version(s, k) \in Nat
    BY <2>1 DEF Version
  <2>3. CASE s.history[k] = << >>
    BY <2>1, <2>2, <2>3, RowFacts DEF Content, AtIn
  <2>4. CASE s.history[k] # << >>
    <3>1. Len(s.history[k]) \in 1..Len(s.history[k])
      BY <2>1, <2>4
    <3>2. Content(s, k) = s.history[k][Len(s.history[k])]
      BY <2>4 DEF Content, Last
    <3> QED
      BY <2>1, <2>2, <3>1, <3>2 DEF AtIn
  <2> QED
    BY <2>1, <2>2, <2>3, <2>4
<1> QED
  BY <1>1 DEF Serving, Histories

LEMMA GrownTrans ==
  ASSUME NEW s \in Serving, NEW t \in Serving, NEW u \in Serving, Grown(s, t), Grown(t, u)
  PROVE  Grown(s, u)
<1> SUFFICES ASSUME NEW k \in Key
             PROVE  /\ Version(s, k) <= Version(u, k)
                    /\ \A i \in 1..Version(s, k) : u.history[k][i] = s.history[k][i]
  BY DEF Grown
<1>1. Version(s, k) \in Nat /\ Version(t, k) \in Nat /\ Version(u, k) \in Nat
  BY ServingParts
<1>2. Version(s, k) <= Version(t, k) /\ Version(t, k) <= Version(u, k)
  BY DEF Grown
<1>3. \A i \in 1..Version(s, k) : i \in 1..Version(t, k)
  BY <1>1, <1>2
<1> QED
  BY <1>1, <1>2, <1>3 DEF Grown

LEMMA AdvancedTrans ==
  ASSUME NEW s \in Serving, NEW t \in Serving, NEW u \in Serving, Advanced(s, t), Advanced(t, u)
  PROVE  Advanced(s, u)
<1> SUFFICES ASSUME NEW c \in Channel
             PROVE  /\ s.head[c] <= u.head[c]
                    /\ \A k \in Key :
                         \/ u.cursor[c][k] > s.head[c]
                         \/ u.cursor[c][k] = s.cursor[c][k]
                            /\ (u.cursor[c][k] > 0 => Version(u, k) = Version(s, k))
  BY DEF Advanced
<1>1. s.head[c] \in Nat /\ t.head[c] \in Nat /\ u.head[c] \in Nat
      /\ \A k \in Key : s.cursor[c][k] \in Nat /\ t.cursor[c][k] \in Nat /\ u.cursor[c][k] \in Nat
  BY ServingParts
<1>2. s.head[c] <= t.head[c] /\ t.head[c] <= u.head[c]
  BY DEF Advanced
<1>3. ASSUME NEW k \in Key, ~ (u.cursor[c][k] > s.head[c])
      PROVE  /\ u.cursor[c][k] = s.cursor[c][k]
             /\ u.cursor[c][k] > 0 => Version(u, k) = Version(s, k)
  <2>1. ~ (u.cursor[c][k] > t.head[c])
    BY <1>1, <1>2, <1>3
  <2>2. u.cursor[c][k] = t.cursor[c][k] /\ (u.cursor[c][k] > 0 => Version(u, k) = Version(t, k))
    BY <2>1 DEF Advanced
  <2>3. t.cursor[c][k] = s.cursor[c][k] /\ (t.cursor[c][k] > 0 => Version(t, k) = Version(s, k))
    BY <1>3, <2>2 DEF Advanced
  <2> QED
    BY <2>2, <2>3
<1> QED
  BY <1>1, <1>2, <1>3

\* What a delivery carries stays what the server had.
LEMMA StillAuthentic ==
  ASSUME NEW s \in Serving, NEW t \in Serving, Grown(s, t), NEW k \in Key, NEW n \in 0..Version(s, k)
  PROVE  /\ AtIn(t, k, n) = AtIn(s, k, n)
         /\ \A record : Authentic(s, k, record) => Authentic(t, k, record)
<1>1. Version(s, k) \in Nat /\ Version(t, k) \in Nat /\ Version(s, k) <= Version(t, k)
  BY ServingParts DEF Grown
<1>2. \A m \in 0..Version(s, k) : AtIn(t, k, m) = AtIn(s, k, m)
  BY <1>1 DEF AtIn, Grown
<1>3. ASSUME NEW record, Authentic(s, k, record) PROVE Authentic(t, k, record)
  <2>1. record.stamp \in 1..Version(s, k) /\ record.stamp \in 0..Version(s, k)
    BY <1>1, <1>3 DEF Authentic
  <2>2. record.stamp \in 1..Version(t, k)
    BY <1>1, <2>1
  <2> QED
    BY <1>2, <1>3, <2>1, <2>2 DEF Authentic
<1> QED
  BY <1>2, <1>3

\* Ranks of the elements of a set of records.
Rank(S, k) == Cardinality({j \in S : j <= k})
LEMMA Ranks ==
  ASSUME NEW S \in SUBSET Key
  PROVE  /\ Cardinality(S) \in Nat
         /\ \A k \in S : Rank(S, k) \in 1..Cardinality(S)
         /\ \A j, k \in S : j # k => Rank(S, j) # Rank(S, k)
<1>1. IsFiniteSet(S) /\ Cardinality(S) \in Nat
  BY KeyFacts, FS_Subset, FS_CardinalityType
<1>2. ASSUME NEW k \in S PROVE Rank(S, k) \in 1..Cardinality(S)
  <2> DEFINE T == {j \in S : j <= k}
  <2>1. T \in SUBSET S /\ k \in T
    BY KeyFacts
  <2>2. IsFiniteSet(T) /\ Cardinality(T) <= Cardinality(S)
    BY <1>1, <2>1, FS_Subset
  <2>3. Cardinality(T) \in Nat /\ Cardinality(T) # 0
    BY <2>1, <2>2, FS_CardinalityType, FS_EmptySet
  <2> QED
    BY <1>1, <2>2, <2>3 DEF Rank
<1>3. ASSUME NEW j \in S, NEW k \in S, j < k PROVE Rank(S, j) # Rank(S, k)
  <2> DEFINE T == {i \in S : i <= j}
             U == {i \in S : i <= k}
  <2>0. j \in Nat /\ k \in Nat /\ \A i \in S : i \in Nat
    BY KeyFacts
  <2>1. T \in SUBSET U /\ U \in SUBSET S
    <3>1. \A i \in S : i <= j => i <= k
      BY <1>3, <2>0
    <3> QED
      BY <3>1
  <2>2. IsFiniteSet(U)
    BY <1>1, <2>1, FS_Subset
  <2>3. k \in U /\ k \notin T
    BY <1>3, KeyFacts
  <2> HIDE DEF T, U
  <2>4. Cardinality(T) # Cardinality(U)
    BY <2>1, <2>2, <2>3, FS_Subset
  <2> QED
    BY <2>4 DEF Rank, T, U
<1>4. \A j, k \in S : j # k => j < k \/ k < j
  BY KeyFacts
<1> QED
  BY <1>1, <1>2, <1>3, <1>4

LEMMA Settling ==
  ASSUME NEW s \in Serving, NEW write, DOMAIN write \subseteq Key,
         \A k \in DOMAIN write : write[k] \in Held(k)
  PROVE  LET t == settle(s, write) IN
           /\ t \in Serving /\ Grown(s, t)
           /\ \A k \in DOMAIN write : Version(t, k) = Version(s, k) + 1
           /\ Placed(s) => Placed(t) /\ Advanced(s, t)
<1> DEFINE K == DOMAIN write
           t == settle(s, write)
           h == [k \in Key |-> IF k \in K THEN Append(s.history[k], write[k]) ELSE s.history[k]]
           H == [c \in Channel |-> s.head[c] + Cardinality(Published(K, c))]
           C == [c \in Channel |-> [k \in Key |-> IF k \in Published(K, c)
                                                  THEN s.head[c] + Rank(Published(K, c), k)
                                                  ELSE s.cursor[c][k]]]
<1>1. t = [history |-> h, head |-> H, cursor |-> C]
  BY DEF settle, Rank
<1>2. ASSUME NEW k \in Key
      PROVE  /\ h[k] \in Seq(Row \cup {Absent}) /\ Len(h[k]) = Version(s, k) + (IF k \in K THEN 1 ELSE 0)
             /\ \A i \in 1..Len(h[k]) : h[k][i] \in Held(k)
             /\ \A i \in 1..Version(s, k) : h[k][i] = s.history[k][i]
  <2>1. /\ s.history[k] \in Seq(Row \cup {Absent}) /\ Version(s, k) \in Nat
        /\ Version(s, k) = Len(s.history[k])
        /\ \A i \in 1..Version(s, k) : s.history[k][i] \in Held(k)
    BY ServingParts
  <2>2. CASE k \notin K
    <3>1. h[k] = s.history[k]
      BY <2>2
    <3> QED
      BY <2>1, <2>2, <3>1
  <2>3. CASE k \in K
    <3> DEFINE g == Append(s.history[k], write[k])
    <3>1. h[k] = g /\ write[k] \in Held(k) /\ write[k] \in Row \cup {Absent}
      BY <2>3, RowFacts
    <3>2. /\ g \in Seq(Row \cup {Absent}) /\ Len(g) = Version(s, k) + 1
          /\ \A i \in 1..Version(s, k) : g[i] = s.history[k][i]
          /\ g[Version(s, k) + 1] = write[k]
      BY <2>1, <3>1
    <3> HIDE DEF h, g, K
    <3>3. \A i \in 1..(Version(s, k) + 1) : i \in 1..Version(s, k) \/ i = Version(s, k) + 1
      BY <2>1
    <3>4. \A i \in 1..(Version(s, k) + 1) : g[i] \in Held(k)
      BY <2>1, <3>1, <3>2, <3>3
    <3> QED
      BY <2>3, <3>1, <3>2, <3>4
  <2> QED
    BY <2>2, <2>3
<1>3. h \in Histories
  <2>1. DOMAIN h = Key /\ h = [k \in Key |-> h[k]]
    OBVIOUS
  <2> HIDE DEF h
  <2> QED
    BY <1>2, <2>1 DEF Histories
<1>4. \A c \in Channel : Published(K, c) \in SUBSET Key /\ Published(K, c) \subseteq K
  BY DEF Published
<1>5. \A c \in Channel : /\ s.head[c] \in Nat /\ Cardinality(Published(K, c)) \in Nat
                         /\ \A k \in Key : s.cursor[c][k] \in Nat
                         /\ \A k \in Published(K, c) : Rank(Published(K, c), k) \in 1..Cardinality(Published(K, c))
                         /\ \A j, k \in Published(K, c) :
                              j # k => Rank(Published(K, c), j) # Rank(Published(K, c), k)
  BY <1>4, Ranks, ServingParts
<1>6. H \in [Channel -> Nat] /\ \A c \in Channel : H[c] = s.head[c] + Cardinality(Published(K, c))
  BY <1>5
<1>7. \A c \in Channel : \A k \in Key :
        C[c][k] = IF k \in Published(K, c) THEN s.head[c] + Rank(Published(K, c), k) ELSE s.cursor[c][k]
  OBVIOUS
<1>8. C \in [Channel -> [Key -> Nat]]
  BY <1>5
<1> HIDE DEF h, H, C
<1>9. t \in Serving /\ t.history = h /\ t.head = H /\ t.cursor = C
  BY <1>1, <1>3, <1>6, <1>8 DEF Serving
<1> HIDE DEF t
<1>10. \A k \in Key : Version(t, k) = Version(s, k) + (IF k \in K THEN 1 ELSE 0) /\ Version(s, k) \in Nat
  BY <1>2, <1>9, ServingParts DEF Version
<1>11. Grown(s, t)
  BY <1>2, <1>9, <1>10 DEF Grown
<1>12. \A k \in K : Version(t, k) = Version(s, k) + 1
  BY <1>10
<1> HIDE DEF K
<1>13. ASSUME Placed(s) PROVE Placed(t) /\ Advanced(s, t)
  <2>1. ASSUME NEW c \in Channel, NEW k \in Key
        PROVE  /\ C[c][k] <= H[c] /\ s.head[c] <= H[c]
               /\ C[c][k] > 0 => c \in App.home[k] /\ Version(t, k) > 0
               /\ \/ C[c][k] > s.head[c]
                  \/ C[c][k] = s.cursor[c][k] /\ (C[c][k] > 0 => Version(t, k) = Version(s, k))
    <3>1. CASE k \in Published(K, c)
      <4>1. c \in App.home[k] /\ k \in K /\ Version(t, k) > 0
        BY <1>10, <3>1 DEF Published
      <4>2. C[c][k] = s.head[c] + Rank(Published(K, c), k) /\ H[c] = s.head[c] + Cardinality(Published(K, c))
        BY <1>6, <1>7, <3>1
      <4> QED
        BY <1>5, <3>1, <4>1, <4>2
    <3>2. CASE k \notin Published(K, c)
      <4>1. C[c][k] = s.cursor[c][k] /\ H[c] = s.head[c] + Cardinality(Published(K, c))
        BY <1>6, <1>7, <3>2
      <4>2. s.cursor[c][k] <= s.head[c] /\ (s.cursor[c][k] > 0 => c \in App.home[k] /\ Version(s, k) > 0)
        BY <1>13 DEF Placed
      <4>3. c \in App.home[k] => k \notin K
        BY <3>2 DEF Published
      <4> QED
        BY <1>5, <1>10, <4>1, <4>2, <4>3
    <3> QED
      BY <3>1, <3>2
  <2>2. ASSUME NEW c \in Channel, NEW j \in Key, NEW k \in Key, j # k, C[c][j] = C[c][k] PROVE C[c][k] = 0
    <3> DEFINE S == Published(K, c)
    <3>1. s.cursor[c][j] <= s.head[c] /\ s.cursor[c][k] <= s.head[c]
          /\ (s.cursor[c][j] = s.cursor[c][k] => s.cursor[c][k] = 0)
      BY <1>13, <2>2 DEF Placed
    <3>2. /\ s.head[c] \in Nat /\ s.cursor[c][j] \in Nat /\ s.cursor[c][k] \in Nat
          /\ \A i \in S : Rank(S, i) \in Nat /\ Rank(S, i) >= 1
          /\ j \in S /\ k \in S => Rank(S, j) # Rank(S, k)
      BY <1>5, <2>2
    <3>3. /\ C[c][j] = IF j \in S THEN s.head[c] + Rank(S, j) ELSE s.cursor[c][j]
          /\ C[c][k] = IF k \in S THEN s.head[c] + Rank(S, k) ELSE s.cursor[c][k]
      BY <1>7
    <3> HIDE DEF S
    <3>4. CASE j \in S /\ k \in S
      <4>1. s.head[c] + Rank(S, j) = s.head[c] + Rank(S, k)
        BY <2>2, <3>3, <3>4
      <4> QED
        BY <3>2, <3>4, <4>1
    <3>5. CASE j \in S /\ k \notin S
      <4>1. s.head[c] + Rank(S, j) = s.cursor[c][k]
        BY <2>2, <3>3, <3>5
      <4> QED
        BY <3>1, <3>2, <3>5, <4>1
    <3>6. CASE j \notin S /\ k \in S
      <4>1. s.cursor[c][j] = s.head[c] + Rank(S, k)
        BY <2>2, <3>3, <3>6
      <4> QED
        BY <3>1, <3>2, <3>6, <4>1
    <3>7. CASE j \notin S /\ k \notin S
      BY <2>2, <3>1, <3>3, <3>7
    <3> QED
      BY <3>4, <3>5, <3>6, <3>7
  <2>3. Placed(t)
    <3>1. \A c \in Channel : \A j, k \in Key : (j # k /\ C[c][j] = C[c][k]) => C[c][k] = 0
      BY <2>2
    <3>2. \A c \in Channel : \A k \in Key :
            C[c][k] <= H[c] /\ (C[c][k] > 0 => c \in App.home[k] /\ Version(t, k) > 0)
      BY <2>1
    <3> QED
      BY <1>9, <3>1, <3>2 DEF Placed
  <2>4. Advanced(s, t)
    <3>1. \A c \in Channel : s.head[c] <= H[c]
      BY <1>5, <1>6
    <3> QED
      BY <1>9, <2>1, <3>1 DEF Advanced
  <2> QED
    BY <2>3, <2>4
<1> QED
  BY <1>9, <1>11, <1>12, <1>13 DEF t, K

---------------------------------------------------------------------------
(* A batch at the server.                                                  *)

Running == [rows : Table, changed : SUBSET Key, ok : BOOLEAN]

LEMMA HandleType ==
  ASSUME NEW run \in Running, NEW op \in RootOp
  PROVE  Handle(run, op) \in Running
<1>1. CASE ~ (run.ok /\ Admits(run.rows, op))
  <2>1. Handle(run, op) = [run EXCEPT !.ok = FALSE]
    BY <1>1 DEF Handle
  <2> QED
    BY <2>1 DEF Running
<1>2. CASE run.ok /\ Admits(run.rows, op)
  <2> DEFINE K == IF op.kind = "delete" THEN ServerCascade(run.rows, op.key) \cap
                       {k \in Key : run.rows[k] # Absent} ELSE {}
             row == apply_to_row(run.rows[op.key], op)
             new == [k \in Key |-> IF k = op.key THEN apply_to_row(run.rows[k], op)
                                   ELSE IF k \in K THEN Absent ELSE run.rows[k]]
  <2>1. Handle(run, op) = [rows |-> new, changed |-> run.changed \cup K \cup {op.key}, ok |-> TRUE]
    BY <1>2 DEF Handle
  <2>2. op.key \in Key /\ K \subseteq Key
    BY OpFacts
  <2> HIDE DEF K
  <2>3. run.rows \in Table /\ run.changed \subseteq Key /\ \A k \in Key : run.rows[k] \in Held(k)
    BY DEF Running, Table
  <2>4. row \in Held(op.key)
    BY <1>2, <2>2, <2>3, Applies DEF Admits, Fits
  <2> HIDE DEF row
  <2>5. \A k \in Key : new[k] = IF k = op.key THEN row ELSE IF k \in K THEN Absent ELSE run.rows[k]
    BY DEF row
  <2>6. \A k \in Key : new[k] \in Held(k)
    BY <2>3, <2>4, <2>5, RowFacts
  <2>7. DOMAIN new = Key /\ new = [k \in Key |-> new[k]]
    OBVIOUS
  <2> HIDE DEF new
  <2>8. new \in Table
    BY <2>6, <2>7, RowFacts DEF Table
  <2> QED
    BY <2>1, <2>2, <2>3, <2>8 DEF Running
<1> QED
  BY <1>1, <1>2

LEMMA HandledType ==
  ASSUME NEW rows \in Table, NEW s \in Seq(RootOp)
  PROVE  Handled(rows, s) \in Running
<1> DEFINE b == [rows |-> rows, changed |-> {}, ok |-> TRUE]
           P == [i \in 0..Len(s) |-> Running]
<1>0. b \in Running
  <2>1. {} \in SUBSET Key
    OBVIOUS
  <2> QED
    BY <2>1 DEF Running
<1>1. Len(s) \in Nat /\ b \in P[0]
  BY <1>0
<1>2. ASSUME NEW i \in 1..Len(s), NEW v \in P[i - 1] PROVE Handle(v, s[i]) \in P[i]
  <2>1. i - 1 \in 0..Len(s) /\ i \in 0..Len(s) /\ s[i] \in RootOp
    BY <1>1
  <2> QED
    BY <2>1, HandleType
<1> HIDE DEF P
<1>3. Handled(rows, s) \in P[Len(s)]
  BY <1>1, <1>2, HandleKeeps
<1> QED
  BY <1>1, <1>3 DEF P

Deliveries == UNION {[S -> [stamp : Nat, row : Row \cup {Absent}]] : S \in SUBSET Key}
Executing == [s : Serving, rejected : SUBSET Nat, records : Deliveries]

\* What the mutations so far have made of the server t.
Ran(t, v) ==
  /\ Grown(t, v.s)
  /\ Placed(t) => Placed(v.s) /\ Advanced(t, v.s)
  /\ \A k \in DOMAIN v.records : Authentic(v.s, k, v.records[k])
Judged(s, v, i) ==
  /\ \A o \in v.rejected : \E j \in 1..i : o = s[j].ordinal
  /\ DOMAIN v.records # {} => \E j \in 1..i : s[j].ordinal \notin v.rejected

LEMMA ExecuteStep ==
  ASSUME NEW t \in Serving, NEW v \in Executing, Ran(t, v), NEW q \in Entry, NEW refused
  PROVE  LET w == Execute(v, q, refused) IN
           /\ w \in Executing /\ Ran(t, w)
           /\ \/ w.rejected = v.rejected
              \/ w.rejected = v.rejected \cup {q.ordinal} /\ w.records = v.records
<1> DEFINE w == Execute(v, q, refused)
           run == Handled(Rows(v.s), q.wire)
           write == [k \in run.changed |-> run.rows[k]]
           s == settle(v.s, write)
           D == run.changed \cup DOMAIN v.records
           R == [k \in D |-> IF k \in run.changed THEN [stamp |-> Version(s, k), row |-> Content(s, k)]
                             ELSE v.records[k]]
<1>1. v.s \in Serving /\ v.rejected \in SUBSET Nat /\ v.records \in Deliveries
  BY DEF Executing
<1>2. CASE q.ordinal \in refused \/ ~ run.ok
  <2>1. w = [v EXCEPT !.rejected = @ \cup {q.ordinal}]
    BY <1>2 DEF Execute, Handled
  <2> HIDE DEF w
  <2>2. q.ordinal \in Nat
    BY DEF Entry
  <2>3. w \in Executing /\ w.s = v.s /\ w.records = v.records /\ w.rejected = v.rejected \cup {q.ordinal}
    BY <2>1, <2>2 DEF Executing
  <2>4. Ran(t, w)
    BY <2>3 DEF Ran
  <2> QED
    BY <2>3, <2>4 DEF w
<1>3. CASE ~ (q.ordinal \in refused \/ ~ run.ok)
  <2>1. w = [s |-> s, rejected |-> v.rejected, records |-> R]
    BY <1>3 DEF Execute, Handled
  <2>2. Rows(v.s) \in Table
    <3>1. \A k \in Key : Content(v.s, k) \in Held(k)
      BY <1>1, ServingParts
    <3> QED
      BY <3>1, RowFacts DEF Rows, Table
  <2>3. q.wire \in Seq(RootOp)
    BY DEF Entry
  <2>4. run \in Running
    BY <2>2, <2>3, HandledType
  <2> HIDE DEF run
  <2>5. DOMAIN write \subseteq Key /\ DOMAIN write = run.changed /\ \A k \in DOMAIN write : write[k] \in Held(k)
    BY <2>4 DEF Running, Table
  <2> HIDE DEF write
  <2>6. /\ s \in Serving /\ Grown(v.s, s)
        /\ \A k \in DOMAIN write : Version(s, k) = Version(v.s, k) + 1
        /\ Placed(v.s) => Placed(s) /\ Advanced(v.s, s)
    BY <1>1, <2>5, Settling
  <2> HIDE DEF s
  <2>7. DOMAIN v.records \subseteq Key /\ \A k \in DOMAIN v.records : v.records[k] \in [stamp : Nat, row : Row \cup {Absent}]
    BY <1>1 DEF Deliveries
  <2>8. \A k \in Key : Content(s, k) = AtIn(s, k, Version(s, k)) /\ Content(s, k) \in Held(k)
                       /\ Version(s, k) \in Nat /\ Version(v.s, k) \in Nat
    BY <1>1, <2>6, ServingParts
  <2>9. ASSUME NEW k \in D
        PROVE  R[k] \in [stamp : Nat, row : Row \cup {Absent}] /\ Authentic(s, k, R[k])
    <3>1. CASE k \in run.changed
      <4>1. R[k] = [stamp |-> Version(s, k), row |-> Content(s, k)] /\ k \in Key
        BY <2>5, <3>1
      <4> HIDE DEF R
      <4>2. Version(s, k) \in 1..Version(s, k)
        BY <2>5, <2>6, <2>8, <3>1, <4>1
      <4>3. Content(s, k) \in Row \cup {Absent}
        BY <2>8, <4>1, RowFacts
      <4> QED
        BY <2>8, <4>1, <4>2, <4>3 DEF Authentic
    <3>2. CASE k \notin run.changed
      <4>1. R[k] = v.records[k] /\ k \in DOMAIN v.records /\ k \in Key
        BY <2>7, <3>2
      <4> HIDE DEF R
      <4>2. Authentic(v.s, k, v.records[k])
        BY <4>1 DEF Ran
      <4>3. Authentic(s, k, v.records[k])
        <5>1. 0 \in 0..Version(v.s, k)
          BY <2>8, <4>1
        <5> QED
          BY <1>1, <2>6, <4>1, <4>2, <5>1, StillAuthentic
      <4> QED
        BY <2>7, <4>1, <4>3
    <3> QED
      BY <3>1, <3>2
  <2>10. D \in SUBSET Key /\ DOMAIN R = D /\ R = [k \in D |-> R[k]]
    BY <2>5, <2>7
  <2> HIDE DEF D, R
  <2>11. R \in [D -> [stamp : Nat, row : Row \cup {Absent}]]
    BY <2>9, <2>10
  <2>12. R \in Deliveries
    BY <2>10, <2>11 DEF Deliveries
  <2> HIDE DEF w
  <2>13. w \in Executing /\ w.s = s /\ w.rejected = v.rejected /\ w.records = R
    BY <1>1, <2>1, <2>6, <2>12 DEF Executing
  <2>14. Grown(t, s) /\ (Placed(t) => Placed(s) /\ Advanced(t, s))
    <3>1. Grown(t, s)
      BY <1>1, <2>6, GrownTrans DEF Ran
    <3>2. Placed(t) => Placed(s) /\ Advanced(t, s)
      BY <1>1, <2>6, AdvancedTrans DEF Ran
    <3> QED
      BY <3>1, <3>2
  <2>15. Ran(t, w)
    BY <2>9, <2>10, <2>13, <2>14 DEF Ran
  <2> QED
    BY <2>13, <2>15 DEF w
<1> QED
  BY <1>2, <1>3

\* A batch whose every mutation was refused has no authority to deliver.
LEMMA ExecutedDoes ==
  ASSUME NEW t \in Serving, NEW s \in Seq(Entry), OrdinalsDiffer(s), NEW refused
  PROVE  LET end == Executed(t, s, refused) IN
           end \in Executing /\ Ran(t, end) /\ Judged(s, end, Len(s))
<1> DEFINE b == [s |-> t, rejected |-> {}, records |-> << >>]
           Good(v, i) == Ran(t, v) /\ Judged(s, v, i)
           P == [i \in 0..Len(s) |-> {v \in Executing : Good(v, i)}]
<1>1. Len(s) \in Nat
  OBVIOUS
<1>2. b \in Executing /\ b.s = t /\ b.rejected = {} /\ DOMAIN b.records = {}
  <2>1. << >> \in [{} -> [stamp : Nat, row : Row \cup {Absent}]]
    OBVIOUS
  <2>2. {} \in SUBSET Key
    OBVIOUS
  <2>3. << >> \in Deliveries
    BY <2>1, <2>2 DEF Deliveries
  <2> QED
    BY <2>3 DEF Executing
<1> HIDE DEF b
<1>3. Grown(t, t) /\ Advanced(t, t)
  <2>1. \A k \in Key : Version(t, k) \in Nat
    BY ServingParts
  <2>2. \A c \in Channel : t.head[c] \in Nat
    BY ServingParts
  <2> QED
    BY <2>1, <2>2 DEF Grown, Advanced
<1>4. b \in P[0]
  BY <1>1, <1>2, <1>3 DEF Ran, Judged
<1>5. ASSUME NEW i \in 1..Len(s), NEW v \in P[i - 1] PROVE Execute(v, s[i], refused) \in P[i]
  <2> HIDE DEF Good
  <2>1. i - 1 \in 0..Len(s) /\ i \in 0..Len(s) /\ s[i] \in Entry
    BY <1>1
  <2>2. v \in Executing /\ Good(v, i - 1)
    BY <2>1
  <2> DEFINE w == Execute(v, s[i], refused)
  <2>3. /\ w \in Executing /\ Ran(t, w)
        /\ \/ w.rejected = v.rejected
           \/ w.rejected = v.rejected \cup {s[i].ordinal} /\ w.records = v.records
    BY <2>1, <2>2, ExecuteStep DEF Good
  <2> HIDE DEF w
  <2>4. \A j \in 1..(i - 1) : j \in 1..Len(s) /\ j \in 1..i /\ j # i
    BY <1>1
  <2>5. i \in 1..i /\ i \notin 1..(i - 1)
    BY <1>1
  <2>6. \A j \in 1..(i - 1) : s[j].ordinal # s[i].ordinal
    BY <2>4 DEF OrdinalsDiffer
  <2>7. s[i].ordinal \notin v.rejected
    BY <2>2, <2>6 DEF Good, Judged
  <2>8. Judged(s, w, i)
    <3>1. CASE w.rejected = v.rejected
      BY <2>2, <2>4, <2>5, <2>7, <3>1 DEF Good, Judged
    <3>2. CASE w.rejected = v.rejected \cup {s[i].ordinal} /\ w.records = v.records
      BY <2>2, <2>4, <2>5, <2>6, <3>2 DEF Good, Judged
    <3> QED
      BY <2>3, <3>1, <3>2
  <2> QED
    BY <2>1, <2>3, <2>8 DEF Good, w
<1> HIDE DEF P
<1>6. Executed(t, s, refused) \in P[Len(s)]
  BY <1>1, <1>4, <1>5, ExecuteKeeps DEF b
<1>7. P[Len(s)] = {v \in Executing : Good(v, Len(s))}
  <2> HIDE DEF Good
  <2> QED
    BY <1>1 DEF P
<1> QED
  BY <1>6, <1>7

---------------------------------------------------------------------------
(* Pages.  A page has every record of its channels between its bounds, at  *)
(* the version the server has, and goes on having it: a record that        *)
(* changes leaves those bounds.                                            *)

PageGood(s, p) ==
  /\ DOMAIN p.to \subseteq Channel /\ DOMAIN p.from = DOMAIN p.to
  /\ \A c \in DOMAIN p.to : /\ p.from[c] \in Nat /\ p.to[c] \in Nat
                            /\ p.to[c] <= s.head[c]
                            /\ \A k \in Key : (p.from[c] < s.cursor[c][k] /\ s.cursor[c][k] <= p.to[c]) =>
                                 k \in DOMAIN p.changes /\ p.changes[k].stamp = Version(s, k)
  /\ DOMAIN p.changes \subseteq Key
  /\ \A k \in DOMAIN p.changes : Authentic(s, k, p.changes[k])

LEMMA ScanWhole ==
  ASSUME NEW s \in Serving, Placed(s), NEW c \in Channel, NEW n \in Nat, n <= s.head[c]
  PROVE  LET to == ScanTo(s, c, Scan(s, c, n)) IN
           /\ to \in Nat /\ to <= s.head[c]
           /\ \A k \in Key : (n < s.cursor[c][k] /\ s.cursor[c][k] <= to) => k \in Scan(s, c, n)
<1> DEFINE Position(k) == s.cursor[c][k]
           Upto(k) == {j \in Key : n < Position(j) /\ Position(j) <= Position(k)}
           S == Scan(s, c, n)
           to == ScanTo(s, c, S)
           last == CHOOSE k \in S : \A j \in S : Position(j) <= Position(k)
<1>1. /\ s.head[c] \in Nat /\ \A k \in Key : Position(k) \in Nat /\ Position(k) <= s.head[c]
      /\ \A j, k \in Key : (j # k /\ Position(j) = Position(k)) => Position(k) = 0
  BY ServingParts DEF Placed
<1>2. PullChanges \in Nat /\ PullChanges > 0
  BY RecordsAssumption
<1>3. S = {k \in Key : Position(k) > n /\ Cardinality(Upto(k)) <= PullChanges}
  BY DEF Scan
<1>4. to = IF Cardinality(S) = PullChanges THEN Position(last) ELSE s.head[c]
  BY DEF ScanTo
<1> HIDE DEF S, to, last, Position
<1>5. S \in SUBSET Key /\ IsFiniteSet(S) /\ Cardinality(S) \in Nat
  <2>1. S \in SUBSET Key
    BY <1>3
  <2> QED
    BY <2>1, KeyFacts, FS_Subset, FS_CardinalityType
<1>6. ASSUME NEW k \in Key
      PROVE  IsFiniteSet(Upto(k)) /\ Cardinality(Upto(k)) \in Nat /\ Upto(k) \in SUBSET Key
  <2>1. Upto(k) \in SUBSET Key
    OBVIOUS
  <2> QED
    BY <2>1, KeyFacts, FS_Subset, FS_CardinalityType
<1>7. S # {} => last \in S /\ \A j \in S : Position(j) <= Position(last)
  <2> SUFFICES ASSUME S # {} PROVE \E k \in S : \A j \in S : Position(j) <= Position(k)
    BY DEF last
  <2> DEFINE T == {s.head[c] - Position(k) : k \in S}
  <2>1. \A k \in S : s.head[c] - Position(k) \in Nat
    BY <1>1, <1>5
  <2>2. T \subseteq Nat /\ T # {}
    BY <2>1
  <2>3. PICK t \in T : \A u \in T : t <= u
    BY <2>2, Least
  <2>4. PICK k \in S : t = s.head[c] - Position(k)
    OBVIOUS
  <2>5. ASSUME NEW j \in S PROVE Position(j) <= Position(k)
    <3>1. t <= s.head[c] - Position(j)
      BY <2>3
    <3>2. Position(j) \in Nat /\ Position(k) \in Nat
      BY <1>1, <1>5
    <3> QED
      BY <1>1, <2>4, <3>1, <3>2
  <2> QED
    BY <2>5
<1>8. Cardinality(S) <= PullChanges
  <2>1. CASE S = {}
    <3>1. Cardinality(S) = 0
      BY <2>1, FS_EmptySet
    <3> QED
      BY <1>2, <3>1
  <2>2. CASE S # {}
    <3>1. last \in Key /\ Cardinality(Upto(last)) <= PullChanges
      BY <1>3, <1>7, <2>2
    <3>2. S \in SUBSET Upto(last)
      BY <1>3, <1>7, <2>2
    <3>3. Cardinality(S) <= Cardinality(Upto(last))
      BY <1>6, <3>1, <3>2, FS_Subset
    <3> QED
      BY <1>2, <1>5, <1>6, <3>1, <3>3
  <2> QED
    BY <2>1, <2>2
<1>9. CASE Cardinality(S) = PullChanges
  <2>1. S # {}
    <3> SUFFICES ASSUME S = {} PROVE FALSE
      OBVIOUS
    <3>1. Cardinality(S) = 0
      BY FS_EmptySet
    <3> QED
      BY <1>2, <1>9, <3>1
  <2>2. to = Position(last) /\ last \in Key /\ Cardinality(Upto(last)) <= PullChanges
    BY <1>3, <1>4, <1>7, <1>9, <2>1
  <2>3. ASSUME NEW k \in Key, n < Position(k), Position(k) <= to PROVE k \in S
    <3>1. Upto(k) \in SUBSET Upto(last)
      <4>1. \A j \in Key : Position(j) \in Nat
        BY <1>1
      <4> QED
        BY <2>2, <2>3, <4>1
    <3>2. Cardinality(Upto(k)) <= Cardinality(Upto(last))
      BY <1>6, <2>2, <3>1, FS_Subset
    <3>3. Cardinality(Upto(k)) <= PullChanges
      BY <1>2, <1>6, <2>2, <3>2
    <3> QED
      BY <1>1, <1>3, <2>3, <3>3
  <2>4. to \in Nat /\ to <= s.head[c]
    BY <1>1, <2>2
  <2> QED
    BY <2>3, <2>4 DEF to, S, Position
<1>10. CASE Cardinality(S) # PullChanges
  <2>1. to = s.head[c]
    BY <1>4, <1>10
  <2>2. ASSUME NEW k \in Key, n < Position(k), k \notin S PROVE FALSE
    <3> DEFINE M == {j \in Key : n < Position(j) /\ j \notin S}
               T == {Position(j) : j \in M}
    <3>1. T \subseteq Nat /\ T # {}
      BY <1>1, <2>2
    <3>2. PICK t \in T : \A u \in T : t <= u
      BY <3>1, Least
    <3>3. PICK l \in M : t = Position(l)
      OBVIOUS
    <3>4. l \in Key /\ n < Position(l) /\ l \notin S /\ \A j \in M : Position(l) <= Position(j)
      BY <3>2, <3>3
    <3>5. Upto(l) \ {l} \in SUBSET S
      <4> SUFFICES ASSUME NEW j \in Upto(l) \ {l}, j \notin S PROVE FALSE
        OBVIOUS
      <4>1. j \in M /\ j # l /\ Position(j) <= Position(l)
        OBVIOUS
      <4>2. Position(l) <= Position(j) /\ Position(l) \in Nat /\ Position(j) \in Nat
        BY <1>1, <3>4, <4>1
      <4>3. Position(l) = Position(j)
        BY <4>1, <4>2
      <4>4. Position(l) = 0
        BY <1>1, <3>4, <4>1, <4>3
      <4> QED
        BY <3>4, <4>4
    <3>6. l \in Upto(l)
      BY <1>1, <3>4
    <3>7. IsFiniteSet(Upto(l)) /\ Cardinality(Upto(l)) \in Nat
      BY <1>6, <3>4
    <3>8. Cardinality(Upto(l) \ {l}) = Cardinality(Upto(l)) - 1
      BY <3>6, <3>7, FS_RemoveElement
    <3>9. Cardinality(Upto(l) \ {l}) <= Cardinality(S)
      BY <1>5, <3>5, FS_Subset
    <3>10. ~ (Cardinality(Upto(l)) <= PullChanges)
      BY <1>1, <1>3, <3>4
    <3> QED
      BY <1>2, <1>5, <1>8, <1>10, <3>7, <3>8, <3>9, <3>10
  <2> QED
    BY <1>1, <2>1, <2>2 DEF to, S, Position
<1> QED
  BY <1>9, <1>10

LEMMA PageOf ==
  ASSUME NEW s \in Serving, Placed(s), NEW C \in SUBSET Channel, NEW from \in [C -> Nat],
         \A c \in C : from[c] <= s.head[c]
  PROVE  PageGood(s, Page(s, from))
<1> DEFINE p == Page(s, from)
           K == UNION {Scan(s, c, from[c]) : c \in DOMAIN from}
           to == [c \in DOMAIN from |-> ScanTo(s, c, Scan(s, c, from[c]))]
           changes == [k \in K |-> [stamp |-> Version(s, k), row |-> Content(s, k)]]
<1>1. p = [from |-> from, to |-> to, changes |-> changes]
  BY DEF Page
<1>2. DOMAIN from = C /\ DOMAIN to = C /\ DOMAIN changes = K
  OBVIOUS
<1>3. ASSUME NEW c \in C
      PROVE  /\ to[c] \in Nat /\ to[c] <= s.head[c]
             /\ \A k \in Key : (from[c] < s.cursor[c][k] /\ s.cursor[c][k] <= to[c]) => k \in K
  <2>1. c \in Channel /\ from[c] \in Nat /\ from[c] <= s.head[c] /\ c \in DOMAIN from
    OBVIOUS
  <2>2. LET e == ScanTo(s, c, Scan(s, c, from[c])) IN
          /\ e \in Nat /\ e <= s.head[c]
          /\ \A k \in Key : (from[c] < s.cursor[c][k] /\ s.cursor[c][k] <= e) => k \in Scan(s, c, from[c])
    BY <2>1, ScanWhole
  <2>3. to[c] = ScanTo(s, c, Scan(s, c, from[c])) /\ Scan(s, c, from[c]) \subseteq K
    BY <2>1
  <2> HIDE DEF to, K
  <2> QED
    BY <2>2, <2>3
<1>4. ASSUME NEW k \in K
      PROVE  /\ k \in Key /\ Version(s, k) > 0
             /\ changes[k].stamp = Version(s, k) /\ changes[k].row = Content(s, k)
  <2>1. PICK c \in C : k \in Scan(s, c, from[c])
    BY <1>2
  <2>2. k \in Key /\ s.cursor[c][k] > from[c]
    BY <2>1 DEF Scan
  <2>3. s.cursor[c][k] \in Nat /\ from[c] \in Nat /\ c \in Channel
    BY <2>2, ServingParts
  <2>4. s.cursor[c][k] > 0
    BY <2>2, <2>3
  <2> QED
    BY <2>2, <2>3, <2>4 DEF Placed
<1> HIDE DEF to, changes, K
<1>5. p.from = from /\ p.to = to /\ p.changes = changes
  BY <1>1
<1> HIDE DEF p
<1>6. \A k \in K : Authentic(s, k, changes[k])
  <2> SUFFICES ASSUME NEW k \in K PROVE Authentic(s, k, changes[k])
    OBVIOUS
  <2>1. k \in Key /\ Version(s, k) > 0 /\ changes[k].stamp = Version(s, k) /\ changes[k].row = Content(s, k)
    BY <1>4
  <2>2. Version(s, k) \in Nat /\ Content(s, k) = AtIn(s, k, Version(s, k))
    BY <2>1, ServingParts
  <2> QED
    BY <2>1, <2>2 DEF Authentic
<1>7. PageGood(s, p)
  BY <1>2, <1>3, <1>4, <1>5, <1>6 DEF PageGood
<1> QED
  BY <1>7 DEF p

LEMMA PageStays ==
  ASSUME NEW s \in Serving, NEW t \in Serving, Grown(s, t), Advanced(s, t),
         NEW p, PageGood(s, p)
  PROVE  PageGood(t, p)
<1>1. ASSUME NEW c \in DOMAIN p.to
      PROVE  /\ p.to[c] <= t.head[c]
             /\ \A k \in Key : (p.from[c] < t.cursor[c][k] /\ t.cursor[c][k] <= p.to[c]) =>
                  k \in DOMAIN p.changes /\ p.changes[k].stamp = Version(t, k)
  <2>1. c \in Channel /\ p.from[c] \in Nat /\ p.to[c] \in Nat /\ p.to[c] <= s.head[c]
    BY DEF PageGood
  <2>2. s.head[c] \in Nat /\ t.head[c] \in Nat /\ s.head[c] <= t.head[c]
    BY <2>1, ServingParts DEF Advanced
  <2>3. ASSUME NEW k \in Key, p.from[c] < t.cursor[c][k], t.cursor[c][k] <= p.to[c]
        PROVE  k \in DOMAIN p.changes /\ p.changes[k].stamp = Version(t, k)
    <3>1. t.cursor[c][k] \in Nat /\ s.cursor[c][k] \in Nat
      BY <2>1, ServingParts
    <3>2. ~ (t.cursor[c][k] > s.head[c]) /\ t.cursor[c][k] > 0
      BY <2>1, <2>2, <2>3, <3>1
    <3>3. t.cursor[c][k] = s.cursor[c][k] /\ Version(t, k) = Version(s, k)
      BY <2>1, <3>2 DEF Advanced
    <3> QED
      BY <2>3, <3>3 DEF PageGood
  <2> QED
    BY <2>1, <2>2, <2>3
<1>2. ASSUME NEW k \in DOMAIN p.changes PROVE Authentic(t, k, p.changes[k])
  <2>1. k \in Key /\ Authentic(s, k, p.changes[k])
    BY DEF PageGood
  <2>2. 0 \in 0..Version(s, k)
    BY <2>1, ServingParts
  <2> QED
    BY <2>1, <2>2, StillAuthentic
<1> QED
  BY <1>1, <1>2 DEF PageGood

\* Authority that the server has is a row that may be there.
LEMMA AuthenticIs ==
  ASSUME NEW s \in Serving, NEW records, DOMAIN records \subseteq Key,
         \A k \in DOMAIN records : Authentic(s, k, records[k])
  PROVE  Authority(records)
<1> SUFFICES ASSUME NEW k \in DOMAIN records PROVE records[k].row \in Held(k) /\ records[k].stamp \in Nat
  BY DEF Authority
<1>1. k \in Key /\ records[k].stamp \in 1..Version(s, k) /\ records[k].row = AtIn(s, k, records[k].stamp)
  BY DEF Authentic
<1>2. Version(s, k) \in Nat /\ \A i \in 1..Version(s, k) : s.history[k][i] \in Held(k)
  BY <1>1, ServingParts
<1> QED
  BY <1>1, <1>2 DEF AtIn


---------------------------------------------------------------------------
(* The invariant                                                           *)

\* A mutation does not name again a record that it creates, nor delete after a
\* create.
OnceNamed == \A a \in DOMAIN Application : \A m \in Application[a].mutations : OnceIn(m.wire \o m.companion)

\* A mutation that deletes creates nothing afterwards that has an owner: what
\* it took along is not revived.
NoneRevived == \A a \in DOMAIN Application : \A m \in Application[a].mutations : LastingIn(m.wire \o m.companion)

\* Of every record not written directly, readers see the replay.
Visible(d, M) == \A k \in Key \ M : Shows(d, k)

TypeInv ==
  /\ app \in DOMAIN Application
  /\ db \in Database /\ nextOrdinal \in Nat /\ server \in Serving
  /\ moved \in SUBSET Key /\ missed \in [Key -> Nat]

\* Ordinals are handed out once, and in order.
QueueIs(d, n) == OrdinalsDiffer(d.queue) /\ \A i \in 1..Len(d.queue) : d.queue[i].ordinal < n

\* A receipt has records of the server, and none if it accepts nothing.
ReceiptIs(s, r) ==
  /\ DOMAIN r.records \subseteq Key /\ \A k \in DOMAIN r.records : Authentic(s, k, r.records[k])
  /\ r.batch \ r.rejected = {} => DOMAIN r.records = {}

PagesAre(s, P) == \A p \in P : PageGood(s, p)
Reached(s, d) ==
  /\ \A c \in Channel : -1 <= d.cursor[c] /\ d.cursor[c] <= s.head[c]
  /\ \A k \in Key : d.stamp[k] <= Version(s, k)

\* The base of a record is the version of its stamp, or hidden with its owner.
BaseIs(s, d, k) == truth(d, k) = AtIn(s, k, d.stamp[k]) \/ (k \notin Root /\ truth(d, k) = Absent)
BasesAre(s, d, M) == \A k \in Key \ M : BaseIs(s, d, k)

\* Of a record that changed up to a cursor, the client has the last version or
\* knows that it could not apply it.
Covers(s, d, ms) ==
  \A c \in Channel : \A k \in Key :
    (0 < s.cursor[c][k] /\ s.cursor[c][k] <= d.cursor[c]) =>
      (d.stamp[k] >= Version(s, k) \/ ms[k] >= Version(s, k))

IInv ==
  /\ TypeInv
  /\ Clean(db) /\ QueueIs(db, nextOrdinal)
  /\ Placed(server) /\ ReceiptIs(server, receipt) /\ PagesAre(server, pages)
  /\ Reached(server, db) /\ Covers(server, db, missed)
  /\ OnceNamed => BasesAre(server, db, moved)
  /\ OnceNamed /\ NoneRevived => Visible(db, moved)

\* What an application does, it does to its own records.
LEMMA AppFacts ==
  ASSUME app \in DOMAIN Application
  PROVE  /\ App.channels \subseteq Channel /\ App.direct \subseteq RootOp /\ App.external \subseteq RootOp
         /\ App.seed \in [Key -> Row \cup {Absent}] /\ \A k \in Key : App.seed[k] \in Held(k)
         /\ \A m \in App.mutations : /\ m.wire \in Seq(RootOp) /\ m.companion \in Seq(RootOp)
                                     /\ OnceNamed => OnceIn(m.wire \o m.companion)
                                     /\ NoneRevived => LastingIn(m.wire \o m.companion)
<1>1. /\ App.channels \subseteq Channel
      /\ App.seed \in [Key -> Row \cup {Absent}]
      /\ \A m \in App.mutations : m.wire \in Seq(Op) /\ m.companion \in Seq(Op)
      /\ App.direct \subseteq Op /\ App.external \subseteq Op
  BY RecordsAssumption DEF App
<1>2. \A op \in Op : op \in Ops(App) => op \in RootOp
  <2> SUFFICES ASSUME NEW op \in Op, op \in Ops(App), op.key \in Root, "owner" \in DOMAIN op.patch
               PROVE  op.patch.owner = 0
    BY DEF RootOp
  <2>1. \A o \in Ops(Application[app]) : (o.key = op.key /\ "owner" \in DOMAIN o.patch) => o.patch.owner = 0
    BY DEF Root
  <2> QED
    BY <2>1 DEF App
<1>3. ASSUME NEW k \in Key PROVE App.seed[k] \in Held(k)
  <2>1. k \in Root /\ App.seed[k] # Absent => App.seed[k].owner = 0
    BY DEF Root, App
  <2> QED
    BY <1>1, <2>1 DEF Held
<1>4. ASSUME NEW m \in App.mutations, NEW s \in {m.wire, m.companion} PROVE s \in Seq(RootOp)
  <2>1. s \in Seq(Op) /\ Len(s) \in Nat /\ s = [i \in 1..Len(s) |-> s[i]] /\ \A i \in 1..Len(s) : s[i] \in Op
    BY <1>1, <1>4
  <2>2. \A i \in 1..Len(s) : s[i] \in ToSet(m.wire) \cup ToSet(m.companion)
    BY <1>4, <2>1 DEF ToSet
  <2>3. \A i \in 1..Len(s) : s[i] \in RootOp
    BY <1>2, <2>1, <2>2 DEF Ops
  <2> QED
    BY <2>1, <2>3
<1>5. App.direct \subseteq RootOp /\ App.external \subseteq RootOp
  BY <1>1, <1>2 DEF Ops
<1>6. OnceNamed => \A m \in App.mutations : OnceIn(m.wire \o m.companion)
  BY DEF OnceNamed, App
<1>7. NoneRevived => \A m \in App.mutations : LastingIn(m.wire \o m.companion)
  BY DEF NoneRevived, App
<1> QED
  BY <1>1, <1>3, <1>4, <1>5, <1>6, <1>7

\* An empty database and an empty server.
LEMMA Empty ==
  ASSUME app \in DOMAIN Application
  PROVE  LET s == [history |-> [k \in Key |-> << >>], head |-> [c \in Channel |-> 0],
                   cursor |-> [c \in Channel |-> [k \in Key |-> 0]]] IN
           /\ s \in Serving /\ Placed(s)
           /\ NoDb \in Database /\ Clean(NoDb) /\ NoDb.queue = << >>
           /\ \A k \in Key : truth(NoDb, k) = Absent /\ NoDb.stamp[k] = 0
           /\ \A c \in Channel : NoDb.cursor[c] \in {-1, 0}
<1> DEFINE s == [history |-> [k \in Key |-> << >>], head |-> [c \in Channel |-> 0],
                 cursor |-> [c \in Channel |-> [k \in Key |-> 0]]]
<1>1. s \in Serving /\ Placed(s)
  <2>1. [k \in Key |-> << >>] \in Histories
    BY DEF Histories
  <2>2. s \in Serving
    BY <2>1 DEF Serving
  <2>3. Placed(s)
    BY DEF Placed
  <2> QED
    BY <2>2, <2>3
<1>2. /\ NoDb.main = [k \in Key |-> Absent] /\ NoDb.before = [k \in Key |-> Absent]
      /\ NoDb.stamp = [k \in Key |-> 0] /\ NoDb.queue = << >>
      /\ NoDb.cursor = [c \in Channel |-> IF c \in App.channels THEN 0 ELSE -1]
      /\ NoDb = [main |-> NoDb.main, before |-> NoDb.before, stamp |-> NoDb.stamp,
                 cursor |-> NoDb.cursor, queue |-> NoDb.queue]
  BY DEF NoDb, Unsubscribed
<1>3. [k \in Key |-> Absent] \in Table
  BY RowFacts DEF Table
<1>4. NoDb \in Database
  <2>1. NoDb.cursor \in [Channel -> Int] /\ NoDb.stamp \in [Key -> Nat] /\ NoDb.queue \in Seq(Entry)
    BY <1>2
  <2> QED
    BY <1>2, <1>3, <2>1 DEF Database
<1>5. \A k \in Key : NoDb.main[k] = Absent /\ NoDb.before[k] = Absent /\ NoDb.stamp[k] = 0
  BY <1>2
<1>6. Clean(NoDb) /\ \A k \in Key : truth(NoDb, k) = Absent
  BY <1>5 DEF Clean, truth
<1>7. \A c \in Channel : NoDb.cursor[c] \in {-1, 0}
  BY <1>2
<1> QED
  BY <1>1, <1>2, <1>4, <1>5, <1>6, <1>7

LEMMA InitInv == Init => IInv
<1> SUFFICES ASSUME Init PROVE IInv
  OBVIOUS
<1> DEFINE s == [history |-> [k \in Key |-> << >>], head |-> [c \in Channel |-> 0],
                 cursor |-> [c \in Channel |-> [k \in Key |-> 0]]]
           seeded == {k \in Key : App.seed[k] # Absent}
           write == [k \in seeded |-> App.seed[k]]
<1>1. /\ app \in DOMAIN Application /\ db = NoDb /\ nextOrdinal = 1 /\ receipt = NoReceipt
      /\ pages = {} /\ server = settle(s, write) /\ moved = {} /\ missed = [k \in Key |-> 0]
  BY DEF Init
<1>2. /\ s \in Serving /\ Placed(s)
      /\ NoDb \in Database /\ Clean(NoDb) /\ NoDb.queue = << >>
      /\ \A k \in Key : truth(NoDb, k) = Absent /\ NoDb.stamp[k] = 0
      /\ \A c \in Channel : NoDb.cursor[c] \in {-1, 0}
  BY <1>1, Empty
<1> HIDE DEF s
<1>3. DOMAIN write \subseteq Key /\ \A k \in DOMAIN write : write[k] \in Held(k)
  BY <1>1, AppFacts
<1> HIDE DEF write
<1>4. server \in Serving /\ Placed(server)
  <2>1. settle(s, write) \in Serving /\ Placed(settle(s, write))
    BY <1>2, <1>3, Settling
  <2> QED
    BY <1>1, <2>1
<1>5. /\ \A c \in Channel : server.head[c] \in Nat
      /\ \A k \in Key : Version(server, k) \in Nat
  BY <1>4, ServingParts
<1>6. TypeInv
  <2>1. moved \in SUBSET Key /\ missed \in [Key -> Nat] /\ nextOrdinal \in Nat
    BY <1>1
  <2> QED
    BY <1>1, <1>2, <1>4, <2>1 DEF TypeInv
<1>7. QueueIs(db, nextOrdinal)
  BY <1>1, <1>2 DEF QueueIs, OrdinalsDiffer
<1>8. ReceiptIs(server, receipt)
  BY <1>1 DEF ReceiptIs, NoReceipt
<1>9. PagesAre(server, pages)
  BY <1>1 DEF PagesAre
<1>10. Reached(server, db)
  <2>1. ASSUME NEW c \in Channel PROVE -1 <= db.cursor[c] /\ db.cursor[c] <= server.head[c]
    <3>1. db.cursor[c] = -1 \/ db.cursor[c] = 0
      BY <1>1, <1>2
    <3>2. server.head[c] \in Nat
      BY <1>5
    <3> QED
      BY <3>1, <3>2
  <2>2. \A k \in Key : db.stamp[k] = 0
    BY <1>1, <1>2
  <2> QED
    BY <1>5, <2>1, <2>2 DEF Reached
<1>11. Covers(server, db, missed)
  <2> SUFFICES ASSUME NEW c \in Channel, NEW k \in Key, 0 < server.cursor[c][k],
                      server.cursor[c][k] <= db.cursor[c]
               PROVE  FALSE
    BY DEF Covers
  <2>1. server.cursor[c][k] \in Nat
    BY <1>4, ServingParts
  <2>2. db.cursor[c] = -1 \/ db.cursor[c] = 0
    BY <1>1, <1>2
  <2> QED
    BY <2>1, <2>2
<1>12. BasesAre(server, db, moved)
  BY <1>1, <1>2 DEF BasesAre, BaseIs, AtIn
<1>13. Visible(db, moved)
  <2>1. \A k : ~ dirty(db, k)
    BY <1>1, <1>2 DEF dirty
  <2> QED
    BY <2>1 DEF Visible, Shows
<1> QED
  BY <1>1, <1>2, <1>4, <1>6, <1>7, <1>8, <1>9, <1>10, <1>11, <1>12, <1>13 DEF IInv

---------------------------------------------------------------------------
(* Steps of the client                                                     *)

\* Steps that leave authority alone and move bases of direct writes only.
Local ==
  /\ UNCHANGED <<app, receipt, pages, server, missed>>
  /\ db' \in Database /\ Clean(db') /\ db'.stamp = db.stamp /\ db'.cursor = db.cursor
  /\ nextOrdinal' \in Nat /\ QueueIs(db', nextOrdinal')
  /\ moved' \in SUBSET Key /\ moved \subseteq moved'
  /\ OnceNamed => \A k \in Key \ moved' : truth(db', k) = truth(db, k)
  /\ OnceNamed /\ NoneRevived => \A k \in Key \ moved' : Shows(db, k) => Shows(db', k)

LEMMA LocalKeeps ==
  ASSUME IInv, Local
  PROVE  IInv'
<1>1. TypeInv'
  BY DEF IInv, TypeInv, Local
<1>2. Clean(db)' /\ QueueIs(db, nextOrdinal)'
  BY DEF Local
<1>3. Placed(server)' /\ ReceiptIs(server, receipt)' /\ PagesAre(server, pages)'
  <2>1. Placed(server)'
    BY DEF IInv, Local, Placed, App
  <2> QED
    BY <2>1 DEF IInv, Local
<1>4. Reached(server, db)' /\ Covers(server, db, missed)'
  BY DEF IInv, Local, Reached, Covers
<1>5. OnceNamed => BasesAre(server, db, moved)'
  BY DEF IInv, Local, BasesAre, BaseIs
<1>6. OnceNamed /\ NoneRevived => Visible(db, moved)'
  BY DEF IInv, Local, Visible
<1> QED
  BY <1>1, <1>2, <1>3, <1>4, <1>5, <1>6 DEF IInv

LEMMA ThinnedQueue ==
  ASSUME NEW d \in Database, NEW e \in Database, Thinned(d, e), NEW n, QueueIs(d, n)
  PROVE  QueueIs(e, n)
BY DEF Thinned, QueueIs

\* Freezing and dropping move nothing but the queue.
LEMMA QueueStep ==
  ASSUME IInv, app' = app, freeze \/ \E o \in Ordinals(db) : drop_mutation(o)
  PROVE  Local /\ Truths(db') = Truths(db)
<1>1. db \in Database /\ Clean(db) /\ QueueIs(db, nextOrdinal) /\ nextOrdinal \in Nat /\ moved \in SUBSET Key
  BY DEF IInv, TypeInv
<1>2. UNCHANGED <<app, nextOrdinal, receipt, pages, server, moved, missed>>
  BY DEF freeze, drop_mutation
<1>3. /\ db' \in Database /\ Clean(db') /\ db'.stamp = db.stamp /\ db'.cursor = db.cursor
      /\ Truths(db') = Truths(db) /\ Thinned(db, db') /\ ShowsOn(db, db')
  <2>1. CASE freeze
    <3> DEFINE free == {q.ordinal : q \in {p \in ToSet(db.queue) : p.lifecycle \cap Ordinals(db) = {}}}
    <3>1. db' = Frozen(db, free)
      BY <2>1 DEF freeze, Frozen
    <3> HIDE DEF free
    <3> QED
      BY <1>1, <3>1, FrozenDoes
  <2>2. ASSUME NEW o \in Ordinals(db), drop_mutation(o)
        PROVE  /\ db' \in Database /\ Clean(db') /\ db'.stamp = db.stamp /\ db'.cursor = db.cursor
               /\ Truths(db') = Truths(db) /\ Thinned(db, db') /\ ShowsOn(db, db')
    <3>1. db' = rebuild_held(delete_mutations(db, Doomed(db, {o})), TouchedBy(db, Doomed(db, {o})))
      BY <2>2 DEF drop_mutation
    <3> QED
      BY <1>1, <3>1, Dropped
  <2> QED
    BY <2>1, <2>2
<1>4. QueueIs(db', nextOrdinal')
  BY <1>1, <1>2, <1>3, ThinnedQueue
<1>5. \A k \in Key : truth(db', k) = truth(db, k)
  BY <1>3 DEF Truths
<1>6. \A k \in Key : Shows(db, k) => Shows(db', k)
  BY <1>3 DEF ShowsOn
<1> QED
  BY <1>1, <1>2, <1>3, <1>4, <1>5, <1>6 DEF Local

LEMMA EnqueueStep ==
  ASSUME IInv, app' = app, NEW m \in App.mutations, enqueue(m)
  PROVE  Local /\ (OnceNamed => Truths(db') = Truths(db))
<1>1. /\ app \in DOMAIN Application /\ db \in Database /\ Clean(db) /\ QueueIs(db, nextOrdinal)
      /\ nextOrdinal \in Nat /\ moved \in SUBSET Key
  BY DEF IInv, TypeInv
<1>2. UNCHANGED <<app, receipt, pages, server, moved, missed>> /\ nextOrdinal' = nextOrdinal + 1
  BY DEF enqueue
<1> DEFINE s == m.wire \o m.companion
           end == Written(db, s)
           q == [ordinal |-> nextOrdinal, wire |-> m.wire, companion |-> m.companion,
                 effects |-> end.effects, lifecycle |-> derive(end.d, m.wire), sent |-> FALSE]
<1>3. end.ok /\ db' = [end.d EXCEPT !.queue = Append(@, q)]
  BY DEF enqueue, Written
<1>4. /\ m.wire \in Seq(RootOp) /\ m.companion \in Seq(RootOp) /\ s \in Seq(RootOp)
      /\ OnceNamed => OnceIn(s)
      /\ NoneRevived => LastingIn(s)
  BY <1>1, AppFacts
<1>5. end.d \in Database /\ end.effects \in SUBSET Key
  BY <1>1, <1>4, WrittenDoes
<1> HIDE DEF end
<1>6. derive(end.d, m.wire) \in SUBSET Nat
  <2>1. \A p \in ToSet(end.d.queue) : p.ordinal \in Nat
    BY <1>5, Parts DEF ToSet, Entry
  <2> QED
    BY <2>1 DEF derive
<1>7. q \in Entry /\ OwnOps(q) = s /\ q.effects = end.effects /\ q.ordinal = nextOrdinal
  BY <1>1, <1>4, <1>5, <1>6 DEF Entry, OwnOps
<1> HIDE DEF q, s
<1>8. /\ db' \in Database /\ Clean(db') /\ db'.stamp = db.stamp /\ db'.cursor = db.cursor
      /\ db'.queue = Append(db.queue, q)
      /\ OnceIn(s) => Truths(db') = Truths(db)
      /\ OnceIn(s) /\ LastingIn(s) => ShowsOn(db, db')
  <2>1. Written(db, OwnOps(q)) = end
    BY <1>7 DEF end
  <2>2. LET e == [Written(db, OwnOps(q)).d EXCEPT !.queue = Append(@, q)] IN
           /\ e \in Database /\ Clean(e) /\ e.stamp = db.stamp /\ e.cursor = db.cursor
           /\ e.queue = Append(db.queue, q)
           /\ OnceIn(OwnOps(q)) => Truths(e) = Truths(db)
           /\ OnceIn(OwnOps(q)) /\ LastingIn(OwnOps(q)) => ShowsOn(db, e)
    BY <1>1, <1>3, <1>7, <2>1, Enqueued
  <2> QED
    BY <1>3, <1>7, <2>1, <2>2
<1>9. QueueIs(db', nextOrdinal')
  <2>1. /\ db.queue \in Seq(Entry) /\ Len(db.queue) \in Nat
        /\ \A i \in 1..Len(db.queue) : db.queue[i].ordinal \in Nat
    BY <1>1, Parts DEF Entry
  <2>2. /\ Len(db'.queue) = Len(db.queue) + 1
        /\ \A i \in 1..Len(db.queue) : db'.queue[i] = db.queue[i]
        /\ db'.queue[Len(db.queue) + 1] = q
    BY <1>7, <1>8, <2>1
  <2>3. \A i \in 1..Len(db'.queue) : i \in 1..Len(db.queue) \/ i = Len(db.queue) + 1
    BY <2>1, <2>2
  <2>4. \A i \in 1..Len(db.queue) : db.queue[i].ordinal < nextOrdinal /\ db'.queue[i].ordinal < nextOrdinal
    BY <1>1, <2>2 DEF QueueIs
  <2>5. \A i \in 1..Len(db'.queue) : db'.queue[i].ordinal < nextOrdinal'
    <3> SUFFICES ASSUME NEW i \in 1..Len(db'.queue) PROVE db'.queue[i].ordinal < nextOrdinal + 1
      BY <1>2
    <3>1. i \in 1..Len(db.queue) => db'.queue[i] = db.queue[i] /\ db'.queue[i].ordinal \in Nat
      BY <2>1, <2>2
    <3>2. i = Len(db.queue) + 1 => db'.queue[i].ordinal = nextOrdinal
      BY <1>7, <2>2
    <3> QED
      BY <1>1, <2>3, <2>4, <3>1, <3>2
  <2>6. ASSUME NEW i \in 1..Len(db'.queue), NEW j \in 1..Len(db'.queue), i # j
        PROVE  db'.queue[i].ordinal # db'.queue[j].ordinal
    <3>1. CASE i \in 1..Len(db.queue) /\ j \in 1..Len(db.queue)
      BY <1>1, <2>2, <2>6, <3>1 DEF QueueIs, OrdinalsDiffer
    <3>2. CASE i \in 1..Len(db.queue) /\ j = Len(db.queue) + 1
      BY <1>1, <1>7, <2>1, <2>2, <2>4, <3>2
    <3>3. CASE j \in 1..Len(db.queue) /\ i = Len(db.queue) + 1
      BY <1>1, <1>7, <2>1, <2>2, <2>4, <3>3
    <3> QED
      BY <2>3, <2>6, <3>1, <3>2, <3>3
  <2> QED
    BY <2>5, <2>6 DEF QueueIs, OrdinalsDiffer
<1>10. OnceNamed => \A k \in Key : truth(db', k) = truth(db, k)
  BY <1>4, <1>8 DEF Truths
<1>11. OnceNamed /\ NoneRevived => \A k \in Key : Shows(db, k) => Shows(db', k)
  BY <1>4, <1>8 DEF ShowsOn
<1> QED
  BY <1>1, <1>2, <1>4, <1>8, <1>9, <1>10, <1>11 DEF Local

LEMMA DirectStep ==
  ASSUME IInv, app' = app, NEW op \in App.direct, direct(op)
  PROVE  Local /\ nextOrdinal' = nextOrdinal /\ db'.queue = db.queue
<1>1. /\ app \in DOMAIN Application /\ db \in Database /\ Clean(db) /\ QueueIs(db, nextOrdinal)
      /\ nextOrdinal \in Nat /\ moved \in SUBSET Key
  BY DEF IInv, TypeInv
<1>2. op \in RootOp /\ op.key \in Key /\ Fits(db.main[op.key], op)
  BY <1>1, AppFacts, OpFacts DEF direct
<1> DEFINE C == IF op.kind = "delete" THEN Descendants(db, op.key) ELSE {}
<1>3. /\ UNCHANGED <<app, nextOrdinal, receipt, pages, server, missed>>
      /\ db' = WrittenDirectly(db, Append(Deletions(C), op)) /\ moved' = moved \cup C \cup {op.key}
  BY DEF direct, WrittenDirectly
<1>4. C \in SUBSET (Key \ {op.key})
  BY <1>1, <1>2, DescendantsOf
<1> HIDE DEF C
<1>5. /\ db' \in Database /\ Clean(db') /\ db'.stamp = db.stamp /\ db'.cursor = db.cursor
      /\ db'.queue = db.queue
      /\ \A k \in Key \ (C \cup {op.key}) : truth(db', k) = truth(db, k)
      /\ \A k \in Key \ (C \cup {op.key}) : Shows(db, k) => Shows(db', k)
  BY <1>1, <1>2, <1>3, <1>4, DirectDoes
<1>6. QueueIs(db', nextOrdinal')
  BY <1>1, <1>3, <1>5 DEF QueueIs
<1> QED
  BY <1>1, <1>2, <1>3, <1>4, <1>5, <1>6 DEF Local

\* A subscription starts before everything.
LEMMA SubscribeStep ==
  ASSUME IInv, app' = app, NEW c \in App.channels, subscribe(c) \/ unsubscribe(c)
  PROVE  IInv' /\ nextOrdinal' = nextOrdinal /\ db'.queue = db.queue
<1>1. /\ app \in DOMAIN Application /\ db \in Database /\ Clean(db) /\ QueueIs(db, nextOrdinal)
      /\ nextOrdinal \in Nat /\ moved \in SUBSET Key /\ server \in Serving /\ missed \in [Key -> Nat]
      /\ Reached(server, db) /\ Covers(server, db, missed)
  BY DEF IInv, TypeInv
<1>2. UNCHANGED <<app, nextOrdinal, receipt, pages, server, moved, missed>>
  BY DEF subscribe, unsubscribe
<1>3. PICK n \in {-1, 0} : db' = [db EXCEPT !.cursor[c] = n]
  BY DEF subscribe, unsubscribe, Unsubscribed
<1>4. c \in Channel
  BY <1>1, AppFacts
<1>5. /\ db.cursor \in [Channel -> Int]
      /\ \A x \in Channel : server.head[x] \in Nat /\ \A k \in Key : server.cursor[x][k] \in Nat
  BY <1>1, Parts, ServingParts
<1>6. /\ db' \in Database /\ db'.main = db.main /\ db'.before = db.before /\ db'.stamp = db.stamp
      /\ db'.queue = db.queue /\ db'.cursor = [db.cursor EXCEPT ![c] = n]
  <2>1. [db.cursor EXCEPT ![c] = n] \in [Channel -> Int]
    BY <1>3, <1>5, n \in Int
  <2> QED
    BY <1>1, <1>3, <2>1 DEF Database
<1>7. \A x \in Channel : db'.cursor[x] = IF x = c THEN n ELSE db.cursor[x]
  BY <1>5, <1>6
<1>8. \A k : (dirty(db', k) <=> dirty(db, k)) /\ truth(db', k) = truth(db, k)
  <2>1. \A k : dirty(db', k) <=> dirty(db, k)
    BY <1>1, <1>6, SameQueue
  <2> QED
    BY <1>6, <2>1 DEF truth
<1>9. Clean(db') /\ QueueIs(db', nextOrdinal')
  BY <1>1, <1>2, <1>6, <1>8 DEF Clean, QueueIs
<1>10. Reached(server, db')
  BY <1>1, <1>3, <1>5, <1>6, <1>7 DEF Reached
<1>11. Covers(server, db', missed)
  <2> SUFFICES ASSUME NEW x \in Channel, NEW k \in Key, 0 < server.cursor[x][k],
                      server.cursor[x][k] <= db'.cursor[x]
               PROVE  db.stamp[k] >= Version(server, k) \/ missed[k] >= Version(server, k)
    BY <1>6 DEF Covers
  <2>1. x # c
    BY <1>3, <1>5, <1>7
  <2> QED
    BY <1>1, <1>7, <2>1 DEF Covers
<1>12. TypeInv'
  BY <1>1, <1>2, <1>6 DEF TypeInv
<1>13. Placed(server)' /\ ReceiptIs(server, receipt)' /\ PagesAre(server, pages)'
  <2>1. Placed(server)'
    BY <1>2 DEF IInv, Placed, App
  <2> QED
    BY <1>2, <2>1 DEF IInv
<1>14. OnceNamed => BasesAre(server, db, moved)'
  BY <1>2, <1>6, <1>8 DEF IInv, BasesAre, BaseIs
<1>15. Reached(server, db)' /\ Covers(server, db, missed)'
  BY <1>2, <1>10, <1>11
<1>16. \A k \in Key : Shows(db, k) => Shows(db', k)
  BY <1>1, <1>6, SameQueueShows, UntouchedShows
<1>17. OnceNamed /\ NoneRevived => Visible(db, moved)'
  BY <1>2, <1>16 DEF IInv, Visible
<1> QED
  BY <1>2, <1>6, <1>9, <1>12, <1>13, <1>14, <1>15, <1>17 DEF IInv

---------------------------------------------------------------------------
(* Deliveries                                                              *)

LEMMA MissedIs ==
  ASSUME missed \in [Key -> Nat], NEW records, Authority(records), NEW K \in SUBSET DOMAIN records
  PROVE  /\ Missed(K, records) \in [Key -> Nat]
         /\ \A k \in Key : /\ Missed(K, records)[k] >= missed[k]
                           /\ k \in K => Missed(K, records)[k] >= records[k].stamp
<1> DEFINE f == [k \in Key |-> IF k \in K /\ records[k].stamp > missed[k] THEN records[k].stamp ELSE missed[k]]
<1>1. Missed(K, records) = f
  BY DEF Missed
<1>2. ASSUME NEW k \in Key
      PROVE  f[k] \in Nat /\ f[k] >= missed[k] /\ (k \in K => f[k] >= records[k].stamp)
  BY DEF Authority
<1> QED
  BY <1>1, <1>2

\* What a receipt or a page does.  F are the records that companions are folded
\* into; what a moved cursor newly covers is in the delivery.
Delivering(records, skipped, F) ==
  /\ UNCHANGED <<app, nextOrdinal, pages, server>> /\ receipt' \in {receipt, NoReceipt}
  /\ DOMAIN records \subseteq Key /\ \A k \in DOMAIN records : Authentic(server, k, records[k])
  /\ db' \in Database /\ Clean(db') /\ Thinned(db, db')
  /\ Stamped(db, db', records, DOMAIN records \ skipped)
  /\ \A k \in DOMAIN records \ skipped : records[k].stamp > db.stamp[k] => Landed(db, db', records, k)
  /\ Showing(db, db')
  /\ F \subseteq Key
  /\ \A k \in Key \ F : Kept(db, db', k) \/ (k \in DOMAIN records \ skipped /\ Landed(db, db', records, k))
  /\ moved' = (moved \cup F) \ (Wanted(db, records) \ skipped)
  /\ missed' = Missed(Wanted(db, records) \cap skipped, records)
  /\ \A c \in Channel : -1 <= db'.cursor[c] /\ db'.cursor[c] <= server.head[c]
  /\ \A c \in Channel : \A k \in Key : 0 < server.cursor[c][k] /\ server.cursor[c][k] <= db'.cursor[c] =>
       \/ server.cursor[c][k] <= db.cursor[c]
       \/ k \in DOMAIN records /\ records[k].stamp = Version(server, k)

LEMMA DeliveringKeeps ==
  ASSUME IInv, NEW records, NEW skipped, NEW F, Delivering(records, skipped, F)
  PROVE  IInv'
<1> DEFINE D == DOMAIN records \ skipped
           W == Wanted(db, records)
<1>1. /\ db \in Database /\ db' \in Database /\ Clean(db') /\ QueueIs(db, nextOrdinal)
      /\ server \in Serving /\ missed \in [Key -> Nat] /\ nextOrdinal \in Nat
      /\ Reached(server, db) /\ Covers(server, db, missed)
      /\ DOMAIN records \subseteq Key /\ \A k \in DOMAIN records : Authentic(server, k, records[k])
      /\ UNCHANGED <<app, nextOrdinal, pages, server>>
  BY DEF IInv, TypeInv, Delivering
<1>2. Authority(records)
  BY <1>1, AuthenticIs
<1>3. /\ \A k \in Key : db.stamp[k] \in Nat /\ db'.stamp[k] \in Nat /\ Version(server, k) \in Nat
      /\ \A k \in Key : db.stamp[k] <= Version(server, k)
  BY <1>1, Parts, ServingParts DEF Reached
<1>4. W \subseteq DOMAIN records /\ \A k \in DOMAIN records : k \in W <=> records[k].stamp > db.stamp[k]
  BY DEF Wanted
<1>5. /\ missed' \in [Key -> Nat]
      /\ \A k \in Key : missed'[k] >= missed[k] /\ (k \in W \cap skipped => missed'[k] >= records[k].stamp)
  <2>1. W \cap skipped \in SUBSET DOMAIN records /\ missed' = Missed(W \cap skipped, records)
    BY <1>4 DEF Delivering
  <2> HIDE DEF W
  <2> QED
    BY <1>1, <1>2, <2>1, MissedIs
<1>6. \A k \in Key : db'.stamp[k] >= db.stamp[k] /\ db'.stamp[k] <= Version(server, k)
  <2> SUFFICES ASSUME NEW k \in Key PROVE db'.stamp[k] >= db.stamp[k] /\ db'.stamp[k] <= Version(server, k)
    OBVIOUS
  <2>1. CASE db'.stamp[k] = db.stamp[k]
    BY <1>3, <2>1
  <2>2. CASE k \in D /\ db'.stamp[k] = records[k].stamp /\ records[k].stamp > db.stamp[k]
    <3>1. records[k].stamp \in 1..Version(server, k)
      BY <1>1, <2>2 DEF Authentic
    <3> QED
      BY <1>3, <2>2, <3>1
  <2> QED
    BY <2>1, <2>2 DEF Delivering, Stamped
<1>7. TypeInv'
  <2>1. moved' \in SUBSET Key
    BY DEF IInv, TypeInv, Delivering
  <2> QED
    BY <1>1, <1>5, <2>1 DEF IInv, TypeInv
<1>8. Clean(db)' /\ QueueIs(db, nextOrdinal)'
  <2>1. Thinned(db, db')
    BY DEF Delivering
  <2> QED
    BY <1>1, <2>1, ThinnedQueue
<1>9. Placed(server)' /\ ReceiptIs(server, receipt)' /\ PagesAre(server, pages)'
  <2>1. Placed(server)'
    BY <1>1 DEF IInv, Placed, App
  <2>2. ReceiptIs(server, NoReceipt)
    BY DEF ReceiptIs, NoReceipt
  <2> QED
    BY <1>1, <2>1, <2>2 DEF IInv, Delivering
<1>10. Reached(server, db)'
  BY <1>1, <1>6 DEF Reached, Delivering
<1>11. Covers(server, db, missed)'
  <2> SUFFICES ASSUME NEW c \in Channel, NEW k \in Key, 0 < server.cursor[c][k],
                      server.cursor[c][k] <= db'.cursor[c]
               PROVE  db'.stamp[k] >= Version(server, k) \/ missed'[k] >= Version(server, k)
    BY <1>1 DEF Covers
  <2>1. CASE server.cursor[c][k] <= db.cursor[c]
    <3>1. db.stamp[k] >= Version(server, k) \/ missed[k] >= Version(server, k)
      BY <1>1, <2>1 DEF Covers
    <3>2. missed[k] \in Nat /\ missed'[k] \in Nat
      BY <1>1, <1>5
    <3> QED
      BY <1>3, <1>5, <1>6, <3>1, <3>2
  <2>2. CASE k \in DOMAIN records /\ records[k].stamp = Version(server, k)
    <3>1. CASE k \notin W
      BY <1>3, <1>4, <1>6, <2>2, <3>1
    <3>2. CASE k \in W /\ k \in skipped
      BY <1>5, <2>2, <3>2
    <3>3. CASE k \in W /\ k \notin skipped
      <4>1. Landed(db, db', records, k)
        BY <1>4, <2>2, <3>3 DEF Delivering
      <4> QED
        BY <1>3, <2>2, <4>1 DEF Landed
    <3> QED
      BY <3>1, <3>2, <3>3
  <2> QED
    BY <2>1, <2>2 DEF Delivering
<1>12. ASSUME OnceNamed PROVE BasesAre(server, db', moved')
  <2> SUFFICES ASSUME NEW k \in Key, k \notin moved' PROVE BaseIs(server, db', k)
    BY DEF BasesAre
  <2>1. CASE k \in D /\ Landed(db, db', records, k)
    <3>1. /\ Authentic(server, k, records[k]) /\ db'.stamp[k] = records[k].stamp
          /\ truth(db', k) = records[k].row \/ (k \notin Root /\ truth(db', k) = Absent)
      BY <1>1, <2>1 DEF Landed
    <3> QED
      BY <3>1 DEF Authentic, BaseIs
  <2>2. CASE ~ (k \in D /\ Landed(db, db', records, k))
    <3>1. k \notin W \/ k \in skipped
      BY <1>4, <2>2 DEF Delivering
    <3>2. k \notin moved /\ k \notin F
      BY <3>1 DEF Delivering
    <3>3. Kept(db, db', k)
      BY <2>2, <3>2 DEF Delivering
    <3>4. BaseIs(server, db, k)
      BY <1>12, <3>2 DEF IInv, BasesAre
    <3> QED
      BY <3>3, <3>4 DEF Kept, BaseIs
  <2> QED
    BY <2>1, <2>2
<1>13. OnceNamed => BasesAre(server, db, moved)'
  BY <1>1, <1>12
<1>14. ASSUME OnceNamed, NoneRevived PROVE Visible(db', moved')
  <2> SUFFICES ASSUME NEW k \in Key, k \notin moved' PROVE Shows(db', k)
    BY DEF Visible
  <2>1. Shows(db, k) \/ db'.stamp[k] # db.stamp[k] => Shows(db', k)
    BY DEF Delivering, Showing
  <2>2. CASE k \in W /\ k \notin skipped
    <3>1. Landed(db, db', records, k)
      BY <1>4, <2>2 DEF Delivering
    <3> QED
      BY <1>3, <2>1, <3>1 DEF Landed
  <2>3. CASE k \notin W \/ k \in skipped
    <3>1. k \notin moved
      BY <2>3 DEF Delivering
    <3> QED
      BY <1>14, <2>1, <3>1 DEF IInv, Visible
  <2> QED
    BY <2>2, <2>3
<1>15. OnceNamed /\ NoneRevived => Visible(db, moved)'
  BY <1>14
<1> QED
  BY <1>7, <1>8, <1>9, <1>10, <1>11, <1>13, <1>15 DEF IInv

LEMMA AcknowledgeStep ==
  ASSUME IInv, app' = app, NEW skipped, acknowledge(skipped)
  PROVE  /\ IInv' /\ nextOrdinal' = nextOrdinal /\ receipt # NoReceipt /\ receipt' = NoReceipt
         /\ receipt.batch \ receipt.rejected = {} => Truths(db') = Truths(db)
<1> DEFINE records == receipt.records
           accepted == receipt.batch \ receipt.rejected
           F == FoldCompanions(db, accepted, DOMAIN receipt.records).folded
<1>1. /\ db \in Database /\ Clean(db) /\ server \in Serving /\ ReceiptIs(server, receipt)
      /\ Reached(server, db)
  BY DEF IInv, TypeInv
<1>2. /\ DOMAIN records \subseteq Key /\ \A k \in DOMAIN records : Authentic(server, k, records[k])
      /\ accepted = {} => DOMAIN records = {}
  BY <1>1 DEF ReceiptIs
<1>3. Authority(records)
  BY <1>1, <1>2, AuthenticIs
<1>4. /\ receipt # NoReceipt /\ receipt' = NoReceipt /\ db' = Settled(db, receipt, skipped)
      /\ moved' = (moved \cup F) \ (Wanted(db, records) \ skipped)
      /\ missed' = Missed(Wanted(db, records) \cap skipped, records)
      /\ UNCHANGED <<app, nextOrdinal, pages, server>>
  BY DEF acknowledge
<1>5. F \subseteq Key
  BY <1>1, FoldsDo DEF Fold, Folding
<1>6. LET e == Settled(db, receipt, skipped)
          D == DOMAIN receipt.records \ skipped
          folded == FoldCompanions(db, receipt.batch \ receipt.rejected, DOMAIN receipt.records).folded IN
        /\ e \in Database /\ Clean(e) /\ e.cursor = db.cursor /\ Thinned(db, e)
        /\ Stamped(db, e, receipt.records, D)
        /\ \A k \in Key \ folded : Kept(db, e, k) \/ (k \in D /\ Landed(db, e, receipt.records, k))
        /\ \A k \in D : receipt.records[k].stamp > db.stamp[k] => Landed(db, e, receipt.records, k)
        /\ receipt.batch \ receipt.rejected = {} /\ DOMAIN receipt.records = {} => Truths(e) = Truths(db)
        /\ Showing(db, e)
  BY <1>1, <1>3, Settles
<1>7. /\ db' \in Database /\ Clean(db') /\ db'.cursor = db.cursor /\ Thinned(db, db')
      /\ Stamped(db, db', records, DOMAIN records \ skipped)
      /\ \A k \in Key \ F : Kept(db, db', k) \/ (k \in DOMAIN records \ skipped /\ Landed(db, db', records, k))
      /\ \A k \in DOMAIN records \ skipped : records[k].stamp > db.stamp[k] => Landed(db, db', records, k)
      /\ accepted = {} /\ DOMAIN records = {} => Truths(db') = Truths(db)
      /\ Showing(db, db')
  BY <1>4, <1>6
<1> HIDE DEF records, F, accepted
<1>8. \A c \in Channel : -1 <= db'.cursor[c] /\ db'.cursor[c] <= server.head[c]
  BY <1>1, <1>7 DEF Reached
<1>9. Delivering(records, skipped, F)
  BY <1>2, <1>4, <1>5, <1>7, <1>8 DEF Delivering
<1> QED
  BY <1>2, <1>4, <1>7, <1>9, DeliveringKeeps DEF accepted

LEMMA ReceiveStep ==
  ASSUME IInv, app' = app, NEW p \in pages, NEW skipped, receive_downlink(p, skipped)
  PROVE  /\ IInv' /\ nextOrdinal' = nextOrdinal /\ receipt' = receipt
         /\ db'.stamp = db.stamp => Truths(db') = Truths(db)
<1> DEFINE records == p.changes
           K == DOMAIN records \ skipped
           M == moving_channels(db, p)
           a == apply_records(db, p.changes, skipped)
<1>1. /\ db \in Database /\ Clean(db) /\ server \in Serving /\ PageGood(server, p)
      /\ Reached(server, db) /\ missed \in [Key -> Nat]
  BY DEF IInv, TypeInv, PagesAre
<1>2. DOMAIN records \subseteq Key /\ \A k \in DOMAIN records : Authentic(server, k, records[k])
  BY <1>1 DEF PageGood
<1>3. Authority(records)
  BY <1>1, <1>2, AuthenticIs
<1>4. /\ Gaps(db, p) = {} /\ db' = apply_page(db, p, skipped)
      /\ moved' = (moved \cup {}) \ (Wanted(db, records) \ skipped)
      /\ missed' = Missed(Wanted(db, records) \cap skipped, records)
      /\ UNCHANGED <<app, nextOrdinal, receipt, pages, server>>
  BY DEF receive_downlink, Applicable
<1>5. /\ a \in Database /\ Clean(a) /\ a.cursor = db.cursor
      /\ Len(a.queue) = Len(db.queue)
      /\ \A i \in 1..Len(db.queue) : a.queue[i].ordinal = db.queue[i].ordinal
      /\ Delivered(db, a, records, K)
      /\ \A k \in K : records[k].stamp > db.stamp[k] => Landed(db, a, records, k)
      /\ Showing(db, a)
  BY <1>1, <1>3, ApplyRecords
<1> DEFINE cursor == [c \in Channel |-> IF c \in M THEN p.to[c] ELSE db.cursor[c]]
<1>6. db' = [a EXCEPT !.cursor = cursor]
  <2>1. db' = [a EXCEPT !.cursor = [c \in Channel |-> IF c \in M THEN p.to[c] ELSE a.cursor[c]]]
    BY <1>4 DEF apply_page
  <2> HIDE DEF a, M
  <2> QED
    BY <1>5, <2>1
<1>7. /\ \A c \in M : /\ c \in DOMAIN p.to /\ c \in Channel /\ p.to[c] \in Nat /\ p.from[c] \in Nat
                      /\ db.cursor[c] < p.to[c] /\ p.from[c] <= db.cursor[c]
                      /\ p.to[c] <= server.head[c]
      /\ \A c \in Channel : db.cursor[c] \in Int
  <2>1. \A c \in Channel : db.cursor[c] \in Int
    BY <1>1, Parts
  <2>2. ASSUME NEW c \in M
        PROVE  /\ c \in DOMAIN p.to /\ c \in Channel /\ p.to[c] \in Nat /\ p.from[c] \in Nat
               /\ db.cursor[c] < p.to[c] /\ p.from[c] <= db.cursor[c]
               /\ p.to[c] <= server.head[c]
    <3>1. c \in DOMAIN p.to /\ p.to[c] > db.cursor[c] /\ c \in M
      BY DEF moving_channels
    <3>2. c \in Channel /\ p.to[c] \in Nat /\ p.from[c] \in Nat /\ p.to[c] <= server.head[c]
      BY <1>1, <3>1 DEF PageGood
    <3>3. ~ (p.from[c] > db.cursor[c])
      BY <1>4, <3>1 DEF Gaps
    <3> QED
      BY <2>1, <3>1, <3>2, <3>3
  <2> QED
    BY <2>1, <2>2
<1> HIDE DEF records, K, M, a
<1>8. cursor \in [Channel -> Int] /\ \A c \in Channel : cursor[c] = IF c \in M THEN p.to[c] ELSE db.cursor[c]
  BY <1>7
<1> HIDE DEF cursor
<1>9. /\ db' \in Database /\ db'.main = a.main /\ db'.before = a.before /\ db'.stamp = a.stamp
      /\ db'.queue = a.queue /\ db'.cursor = cursor
  BY <1>5, <1>6, <1>8 DEF Database
<1>10. \A k : (dirty(db', k) <=> dirty(a, k)) /\ truth(db', k) = truth(a, k)
  <2>1. \A k : dirty(db', k) <=> dirty(a, k)
    BY <1>9, SameQueue
  <2> QED
    BY <1>9, <2>1 DEF truth
<1>11. Truths(db') = Truths(a)
  BY <1>10 DEF Truths
<1>12. Clean(db')
  BY <1>5, <1>9, <1>10 DEF Clean
<1>13. /\ Delivered(db, db', records, K)
       /\ \A k \in Key : Landed(db, a, records, k) => Landed(db, db', records, k)
  BY <1>5, <1>9, <1>11, DeliveredAs
<1>14. Stamped(db, db', records, K)
  BY <1>13 DEF Delivered, Stamped, Kept, Landed
<1>15. Thinned(db, db')
  BY <1>1, <1>5, <1>9, ThinnedSame
<1>16. \A c \in Channel : -1 <= db'.cursor[c] /\ db'.cursor[c] <= server.head[c]
  <2> SUFFICES ASSUME NEW c \in Channel PROVE -1 <= cursor[c] /\ cursor[c] <= server.head[c]
    BY <1>9
  <2>1. CASE c \in M
    BY <1>7, <1>8, <2>1
  <2>2. CASE c \notin M
    BY <1>1, <1>8, <2>2 DEF Reached
  <2> QED
    BY <2>1, <2>2
<1>17. ASSUME NEW c \in Channel, NEW k \in Key, 0 < server.cursor[c][k], server.cursor[c][k] <= db'.cursor[c],
              ~ (server.cursor[c][k] <= db.cursor[c])
       PROVE  k \in DOMAIN records /\ records[k].stamp = Version(server, k)
  <2>1. server.cursor[c][k] \in Nat
    BY <1>1, ServingParts
  <2>2. c \in M
    BY <1>8, <1>9, <1>17
  <2>3. server.cursor[c][k] <= p.to[c] /\ p.from[c] < server.cursor[c][k]
    BY <1>7, <1>8, <1>9, <1>17, <2>1, <2>2
  <2> QED
    BY <1>1, <1>7, <2>2, <2>3 DEF PageGood, records
<1>18. Delivering(records, skipped, {})
  <2>1. \A k \in K : records[k].stamp > db.stamp[k] => Landed(db, db', records, k)
    BY <1>2, <1>5, <1>13 DEF K
  <2>2. \A k \in Key \ {} : Kept(db, db', k) \/ (k \in K /\ Landed(db, db', records, k))
    BY <1>13 DEF Delivered
  <2>3. Showing(db, db')
    <3>1. \A k \in Key : Shows(a, k) => Shows(db', k)
      BY <1>5, <1>9, SameQueueShows, UntouchedShows
    <3> QED
      BY <1>5, <1>9, <3>1 DEF Showing
  <2> QED
    BY <1>2, <1>4, <1>9, <1>12, <1>14, <1>15, <1>16, <1>17, <2>1, <2>2, <2>3 DEF Delivering, K
<1>19. db'.stamp = db.stamp => Truths(db') = Truths(db)
  BY <1>13 DEF Delivered
<1> QED
  BY <1>4, <1>18, <1>19, DeliveringKeeps

---------------------------------------------------------------------------
(* Steps of the server                                                     *)

\* The server goes on, and what is in transit stays true of it.
Serves ==
  /\ UNCHANGED <<app, db, nextOrdinal, moved, missed>>
  /\ server' \in Serving /\ Grown(server, server') /\ Advanced(server, server')
  /\ Placed(server)' /\ ReceiptIs(server', receipt') /\ PagesAre(server', pages')

LEMMA ServesKeeps ==
  ASSUME IInv, Serves
  PROVE  IInv'
<1>1. /\ db \in Database /\ server \in Serving /\ server' \in Serving
      /\ Grown(server, server') /\ Advanced(server, server')
      /\ Reached(server, db) /\ Covers(server, db, missed)
      /\ UNCHANGED <<app, db, nextOrdinal, moved, missed>>
  BY DEF IInv, TypeInv, Serves
<1>2. /\ \A k \in Key : /\ db.stamp[k] \in Nat /\ Version(server, k) \in Nat /\ Version(server', k) \in Nat
                        /\ db.stamp[k] <= Version(server, k) /\ Version(server, k) <= Version(server', k)
      /\ \A c \in Channel : /\ db.cursor[c] \in Int /\ server.head[c] \in Nat /\ server'.head[c] \in Nat
                            /\ db.cursor[c] <= server.head[c] /\ server.head[c] <= server'.head[c]
                            /\ \A k \in Key : server.cursor[c][k] \in Nat /\ server'.cursor[c][k] \in Nat
  BY <1>1, Parts, ServingParts DEF Reached, Grown, Advanced
<1>3. TypeInv'
  BY <1>1 DEF IInv, TypeInv
<1>4. Reached(server', db)
  BY <1>1, <1>2 DEF Reached
<1>5. Covers(server', db, missed)
  <2> SUFFICES ASSUME NEW c \in Channel, NEW k \in Key, 0 < server'.cursor[c][k],
                      server'.cursor[c][k] <= db.cursor[c]
               PROVE  db.stamp[k] >= Version(server', k) \/ missed[k] >= Version(server', k)
    BY DEF Covers
  <2>1. ~ (server'.cursor[c][k] > server.head[c])
    BY <1>2
  <2>2. server'.cursor[c][k] = server.cursor[c][k] /\ Version(server', k) = Version(server, k)
    BY <1>1, <2>1 DEF Advanced
  <2> QED
    BY <1>1, <2>2 DEF Covers
<1>6. ASSUME BasesAre(server, db, moved) PROVE BasesAre(server', db, moved)
  <2> SUFFICES ASSUME NEW k \in Key \ moved PROVE BaseIs(server', db, k)
    BY DEF BasesAre
  <2>1. db.stamp[k] \in 0..Version(server, k)
    BY <1>2
  <2>2. AtIn(server', k, db.stamp[k]) = AtIn(server, k, db.stamp[k])
    BY <1>1, <2>1, StillAuthentic
  <2> QED
    BY <1>6, <2>2 DEF BasesAre, BaseIs
<1>7. Reached(server, db)' /\ Covers(server, db, missed)' /\ (OnceNamed => BasesAre(server, db, moved)')
  BY <1>1, <1>4, <1>5, <1>6 DEF IInv
<1>8. /\ Clean(db)' /\ QueueIs(db, nextOrdinal)'
      /\ OnceNamed /\ NoneRevived => Visible(db, moved)'
  BY <1>1 DEF IInv
<1>9. Placed(server)' /\ ReceiptIs(server, receipt)' /\ PagesAre(server, pages)'
  BY DEF Serves
<1> QED
  BY <1>3, <1>7, <1>8, <1>9 DEF IInv

\* What is in transit stays true.
LEMMA TransitStays ==
  ASSUME NEW s \in Serving, NEW t \in Serving, Grown(s, t), Advanced(s, t)
  PROVE  /\ \A r : ReceiptIs(s, r) => ReceiptIs(t, r)
         /\ \A P : PagesAre(s, P) => PagesAre(t, P)
<1>1. ASSUME NEW r, ReceiptIs(s, r) PROVE ReceiptIs(t, r)
  <2> SUFFICES ASSUME NEW k \in DOMAIN r.records PROVE Authentic(t, k, r.records[k])
    BY <1>1 DEF ReceiptIs
  <2>1. k \in Key /\ Authentic(s, k, r.records[k])
    BY <1>1 DEF ReceiptIs
  <2>2. 0 \in 0..Version(s, k)
    BY <2>1, ServingParts
  <2> QED
    BY <2>1, <2>2, StillAuthentic
<1>2. ASSUME NEW P, PagesAre(s, P) PROVE PagesAre(t, P)
  BY <1>2, PageStays DEF PagesAre
<1> QED
  BY <1>1, <1>2

LEMMA PushStep ==
  ASSUME IInv, app' = app, process_push
  PROVE  Serves
<1>1. /\ db \in Database /\ QueueIs(db, nextOrdinal) /\ server \in Serving /\ Placed(server)
      /\ PagesAre(server, pages)
  BY DEF IInv, TypeInv
<1> DEFINE s == Entries(db, in_flight(db))
<1>2. PICK refused \in SUBSET in_flight(db) :
        LET end == Executed(server, s, refused) IN
          /\ server' = end.s
          /\ receipt' = [rejected |-> end.rejected, records |-> end.records, batch |-> in_flight(db)]
  BY DEF process_push, Executed
<1> DEFINE end == Executed(server, s, refused)
<1>3. /\ s \in Seq(Entry) /\ OrdinalsDiffer(s)
      /\ \A i \in 1..Len(s) : s[i].ordinal \in in_flight(db)
  <2> DEFINE X == {q \in ToSet(db.queue) : q.ordinal \in in_flight(db)}
  <2>1. s = Filtered(db.queue, X)
    BY DEF Entries
  <2>2. db.queue \in Seq(Entry) /\ OrdinalsDiffer(db.queue)
    BY <1>1, Parts DEF QueueIs
  <2>3. \A q \in X : q.ordinal \in in_flight(db)
    OBVIOUS
  <2> HIDE DEF X, s
  <2>4. s \in Seq(Entry) /\ s \in Seq(Entry \cap X)
    BY <2>1, <2>2, Picked
  <2>5. OrdinalsDiffer(s)
    BY <2>1, <2>2, FilteredDiffers
  <2>6. \A i \in 1..Len(s) : s[i] \in X
    BY <2>4
  <2> QED
    BY <2>3, <2>4, <2>5, <2>6
<1> HIDE DEF s
<1>4. end \in Executing /\ Ran(server, end) /\ Judged(s, end, Len(s))
  BY <1>1, <1>3, ExecutedDoes
<1>5. /\ server' = end.s /\ receipt'.rejected = end.rejected /\ receipt'.records = end.records
      /\ receipt'.batch = in_flight(db)
  BY <1>2
<1> HIDE DEF end
<1>6. /\ server' \in Serving /\ Grown(server, server') /\ Placed(server') /\ Advanced(server, server')
      /\ \A k \in DOMAIN end.records : Authentic(server', k, end.records[k])
      /\ DOMAIN end.records \subseteq Key
  <2>1. end.s \in Serving /\ end.records \in Deliveries
    BY <1>4 DEF Executing
  <2>2. DOMAIN end.records \subseteq Key
    BY <2>1 DEF Deliveries
  <2> QED
    BY <1>1, <1>4, <1>5, <2>1, <2>2 DEF Ran
<1>7. Placed(server)'
  BY <1>6 DEF Placed, App
<1>8. ReceiptIs(server', receipt')
  <2>1. receipt'.batch \ receipt'.rejected = {} => DOMAIN receipt'.records = {}
    <3> SUFFICES ASSUME DOMAIN end.records # {} PROVE \E o \in in_flight(db) : o \notin end.rejected
      BY <1>5
    <3>1. PICK j \in 1..Len(s) : s[j].ordinal \notin end.rejected
      BY <1>4 DEF Judged
    <3> QED
      BY <1>3, <3>1
  <2> QED
    BY <1>5, <1>6, <2>1 DEF ReceiptIs
<1>9. UNCHANGED <<app, db, nextOrdinal, pages, moved, missed>>
  BY DEF process_push
<1>10. PagesAre(server', pages')
  BY <1>1, <1>6, <1>9, TransitStays
<1> QED
  BY <1>6, <1>7, <1>8, <1>9, <1>10 DEF Serves

LEMMA ExternalStep ==
  ASSUME IInv, app' = app, NEW op \in App.external, settle_external(op)
  PROVE  Serves
<1>1. /\ app \in DOMAIN Application /\ server \in Serving /\ Placed(server)
      /\ ReceiptIs(server, receipt) /\ PagesAre(server, pages)
  BY DEF IInv, TypeInv
<1> DEFINE b == [rows |-> Rows(server), changed |-> {}, ok |-> TRUE]
           run == Handle(b, op)
           write == [k \in run.changed |-> run.rows[k]]
<1>2. server' = settle(server, write) /\ UNCHANGED <<app, db, nextOrdinal, receipt, pages, moved, missed>>
  BY DEF settle_external
<1>3. b \in Running
  <2>1. Rows(server) \in Table
    BY <1>1, ServingParts, RowFacts DEF Rows, Table
  <2>2. {} \in SUBSET Key
    OBVIOUS
  <2> QED
    BY <2>1, <2>2 DEF Running
<1> HIDE DEF b
<1>4. run \in Running
  BY <1>1, <1>3, AppFacts, HandleType
<1> HIDE DEF run
<1>5. DOMAIN write \subseteq Key /\ \A k \in DOMAIN write : write[k] \in Held(k)
  BY <1>4 DEF Running, Table
<1> HIDE DEF write
<1>6. /\ server' \in Serving /\ Grown(server, server')
      /\ Placed(server') /\ Advanced(server, server')
  <2>1. LET t == settle(server, write) IN
          t \in Serving /\ Grown(server, t) /\ (Placed(server) => Placed(t) /\ Advanced(server, t))
    BY <1>1, <1>5, Settling
  <2> QED
    BY <1>1, <1>2, <2>1
<1>7. Placed(server)'
  BY <1>2, <1>6 DEF Placed, App
<1>8. ReceiptIs(server', receipt') /\ PagesAre(server', pages')
  BY <1>1, <1>2, <1>6, TransitStays
<1> QED
  BY <1>2, <1>6, <1>7, <1>8 DEF Serves

\* A server that only answers a pull, or loses the answer.
LEMMA PageStep ==
  ASSUME IInv, app' = app, process_pull \/ \E p \in pages : LosePage(p)
  PROVE  Serves
<1>1. /\ db \in Database /\ server \in Serving /\ Placed(server)
      /\ ReceiptIs(server, receipt) /\ PagesAre(server, pages) /\ Reached(server, db)
  BY DEF IInv, TypeInv
<1>2. UNCHANGED <<app, db, nextOrdinal, receipt, server, moved, missed>>
  BY DEF process_pull, LosePage
<1>3. PagesAre(server, pages')
  <2>1. CASE process_pull
    <3> DEFINE starts(c) == {db.cursor[c]} \cup {p.to[c] : p \in {q \in pages : c \in DOMAIN q.to}}
    <3>0. PICK C \in SUBSET {c \in Channel : db.cursor[c] # Unsubscribed} :
            \E from \in [C -> UNION {starts(c) : c \in C}] :
              /\ \A c \in C : from[c] \in starts(c)
              /\ pages' = pages \cup {Page(server, from)}
      BY <2>1 DEF process_pull
    <3>1. PICK from \in [C -> UNION {starts(c) : c \in C}] :
            /\ \A c \in C : from[c] \in starts(c)
            /\ pages' = pages \cup {Page(server, from)}
      BY <3>0
    <3>2. C \in SUBSET Channel /\ \A c \in C : c \in Channel /\ db.cursor[c] # -1
      BY <3>0 DEF Unsubscribed
    <3>3. ASSUME NEW c \in C PROVE from[c] \in Nat /\ from[c] <= server.head[c]
      <4>1. CASE from[c] = db.cursor[c]
        <5>1. c \in Channel /\ db.cursor[c] \in Int /\ db.cursor[c] # -1
          BY <1>1, <3>2, Parts
        <5>2. -1 <= db.cursor[c] /\ db.cursor[c] <= server.head[c]
          BY <1>1, <5>1 DEF Reached
        <5> QED
          BY <4>1, <5>1, <5>2
      <4>2. ASSUME NEW p \in pages, c \in DOMAIN p.to, from[c] = p.to[c]
            PROVE  from[c] \in Nat /\ from[c] <= server.head[c]
        BY <1>1, <4>2 DEF PagesAre, PageGood
      <4> QED
        BY <3>1, <4>1, <4>2
    <3>4. from \in [C -> Nat]
      BY <3>1, <3>3
    <3>5. PageGood(server, Page(server, from))
      BY <1>1, <3>2, <3>3, <3>4, PageOf
    <3> QED
      BY <1>1, <3>1, <3>5 DEF PagesAre
  <2>2. CASE \E p \in pages : LosePage(p)
    BY <1>1, <2>2 DEF PagesAre, LosePage
  <2> QED
    BY <2>1, <2>2
<1>4. Placed(server)'
  BY <1>1, <1>2 DEF Placed, App
<1>5. Grown(server, server) /\ Advanced(server, server)
  <2>1. \A k \in Key : Version(server, k) \in Nat
    BY <1>1, ServingParts
  <2>2. \A c \in Channel : server.head[c] \in Nat
    BY <1>1, ServingParts
  <2> QED
    BY <2>1, <2>2 DEF Grown, Advanced
<1> QED
  BY <1>1, <1>2, <1>3, <1>4, <1>5 DEF Serves

---------------------------------------------------------------------------
(* The theorems                                                            *)

LEMMA Stutter == ASSUME IInv, UNCHANGED vars PROVE IInv'
<1>1. UNCHANGED <<app, db, nextOrdinal, receipt, pages, server, moved, missed>>
  BY DEF vars
<1>2. TypeInv' /\ Placed(server)'
  BY <1>1 DEF IInv, TypeInv, Placed, App
<1> QED
  BY <1>1, <1>2 DEF IInv

\* What a step does: it keeps the invariant, and where optimism alone is at
\* work it moves no base.
LEMMA Steps ==
  ASSUME IInv, [Next]_vars
  PROVE  IInv' /\ (OnceNamed => Shallow)
<1>1. ASSUME Truths(db') = Truths(db) PROVE SameTruth
  BY <1>1 DEF SameTruth, Truths
<1>2. CASE UNCHANGED vars
  BY <1>2, Stutter DEF vars, Shallow
<1>3. CASE app' = app /\ ClientNext
  <2>1. CASE freeze \/ \E o \in Ordinals(db) : drop_mutation(o)
    BY <1>1, <1>3, <2>1, QueueStep, LocalKeeps DEF Shallow
  <2>2. CASE \E m \in App.mutations : enqueue(m)
    BY <1>1, <1>3, <2>2, EnqueueStep, LocalKeeps DEF Shallow
  <2>3. CASE \E op \in App.direct : direct(op)
    <3>1. PICK op \in App.direct : direct(op)
      BY <2>3
    <3>2. Local /\ nextOrdinal' = nextOrdinal /\ db'.queue = db.queue
      BY <1>3, <3>1, DirectStep
    <3>3. receipt' = receipt
      BY <3>2 DEF Local
    <3> QED
      BY <3>2, <3>3, LocalKeeps DEF Shallow
  <2>4. CASE \E c \in App.channels : subscribe(c) \/ unsubscribe(c)
    <3>1. PICK c \in App.channels : subscribe(c) \/ unsubscribe(c)
      BY <2>4
    <3>2. IInv' /\ nextOrdinal' = nextOrdinal /\ db'.queue = db.queue
      BY <1>3, <3>1, SubscribeStep
    <3>3. receipt' = receipt
      BY <3>1 DEF subscribe, unsubscribe
    <3> QED
      BY <3>2, <3>3 DEF Shallow
  <2> QED
    BY <1>3, <2>1, <2>2, <2>3, <2>4 DEF ClientNext
<1>4. CASE app' = app /\ Delivery
  <2>1. ASSUME NEW skipped, acknowledge(skipped) PROVE IInv' /\ Shallow
    <3>1. /\ IInv' /\ nextOrdinal' = nextOrdinal /\ receipt # NoReceipt /\ receipt' = NoReceipt
          /\ receipt.batch \ receipt.rejected = {} => Truths(db') = Truths(db)
      BY <1>4, <2>1, AcknowledgeStep
    <3>2. receipt.rejected = receipt.batch => receipt.batch \ receipt.rejected = {}
      OBVIOUS
    <3> QED
      BY <1>1, <3>1, <3>2 DEF Shallow
  <2>2. ASSUME NEW skipped, NEW p \in pages, receive_downlink(p, skipped) PROVE IInv' /\ Shallow
    BY <1>1, <1>4, <2>2, ReceiveStep DEF Shallow
  <2> QED
    BY <1>4, <2>1, <2>2 DEF Delivery
<1>5. CASE app' = app /\ ServerNext
  <2>1. Serves
    BY <1>5, PushStep, ExternalStep, PageStep DEF ServerNext
  <2>2. IInv'
    BY <2>1, ServesKeeps
  <2>3. db' = db /\ nextOrdinal' = nextOrdinal
    BY <2>1 DEF Serves
  <2> QED
    BY <2>2, <2>3 DEF Shallow, SameTruth
<1> QED
  BY <1>2, <1>3, <1>4, <1>5 DEF Next

THEOREM Inductive == Spec => []IInv
<1>1. ASSUME IInv, [Next]_vars PROVE IInv'
  BY <1>1, Steps
<1> QED
  BY InitInv, <1>1, PTL DEF Spec

\* The next mutation of a record nothing is pending on replays over its newest
\* authority, whatever was dropped, rejected, completed or delivered before.
THEOREM NoStaleBeforeHolds == Spec => []NoStaleBefore
<1>1. IInv => NoStaleBefore
  BY DEF IInv, Clean, NoStaleBefore
<1> QED
  BY Inductive, <1>1, PTL

\* Optimism never reaches the base, if a mutation does not name a record again
\* that it creates.
THEOREM OptimismIsShallowHolds == OnceNamed => (Spec => OptimismIsShallow)
<1> SUFFICES ASSUME OnceNamed PROVE Spec => OptimismIsShallow
  OBVIOUS
<1>1. ASSUME IInv, [Next]_vars PROVE [Shallow]_vars
  BY <1>1, Steps
<1> QED
  BY Inductive, <1>1, PTL DEF Spec, OptimismIsShallow

\* After every step, readers see the base with the pending edits replayed, of
\* every record not written directly; if besides a mutation does not create,
\* after a delete, a record that can have an owner.
THEOREM VisibleIsReplayHolds == OnceNamed /\ NoneRevived => (Spec => []VisibleIsReplay)
<1> SUFFICES ASSUME OnceNamed, NoneRevived PROVE Spec => []VisibleIsReplay
  OBVIOUS
<1>1. ASSUME IInv PROVE VisibleIsReplay
  <2>1. db \in Database /\ Visible(db, moved)
    BY <1>1 DEF IInv, TypeInv
  <2> SUFFICES ASSUME NEW k \in Key \ moved
               PROVE  LET end == Replay(db.before[k], ops_for(db, k)) IN
                        dirty(db, k) /\ end.ok => db.main[k] = end.row
    BY DEF VisibleIsReplay
  <2>2. Ends(db, k) = Replay(db.before[k], ops_for(db, k)) /\ Shows(db, k)
    BY <2>1, EndsIs DEF Visible
  <2> QED
    BY <2>2 DEF Shows
<1> QED
  BY Inductive, <1>1, PTL

\* The base of a record is the server's content at the client's stamp, or
\* hidden by the deletion of an owner; a record that never has an owner is never
\* hidden.
BaseIsVersion ==
  \A k \in Key \ moved : \/ truth(db, k) = At(k, db.stamp[k])
                         \/ k \notin Root /\ truth(db, k) = Absent
THEOREM BaseIsVersionHolds == OnceNamed => (Spec => []BaseIsVersion)
<1> SUFFICES ASSUME OnceNamed PROVE Spec => []BaseIsVersion
  OBVIOUS
<1>1. IInv => BaseIsVersion
  BY DEF IInv, BasesAre, BaseIs, AtIn, At, BaseIsVersion
<1> QED
  BY Inductive, <1>1, PTL

\* Without owners, the base is exactly that version.
THEOREM TruthIsServerVersionHolds == OnceNamed /\ Root = Key => (Spec => []TruthIsServerVersion)
<1> SUFFICES ASSUME OnceNamed, Root = Key PROVE Spec => []TruthIsServerVersion
  OBVIOUS
<1>1. BaseIsVersion => TruthIsServerVersion
  BY DEF BaseIsVersion, TruthIsServerVersion
<1> QED
  BY BaseIsVersionHolds, <1>1, PTL

\* A client with nothing pending that has reached the head of a channel shows,
\* of every record there that never has an owner, what the server has; of the
\* others that, or nothing.
Agrees(k) == db.main[k] = Content(server, k) \/ (k \notin Root /\ db.main[k] = Absent)
ConvergedOnRoots ==
  db.queue = << >> =>
    \A c \in Channel : db.cursor[c] = server.head[c] =>
      \A k \in Key \ moved : server.cursor[c][k] > 0 /\ missed[k] <= db.stamp[k] => Agrees(k)
THEOREM ConvergedOnRootsHolds == OnceNamed => (Spec => []ConvergedOnRoots)
<1> SUFFICES ASSUME OnceNamed PROVE Spec => []ConvergedOnRoots
  OBVIOUS
<1>1. ASSUME IInv PROVE ConvergedOnRoots
  <2> SUFFICES ASSUME db.queue = << >>, NEW c \in Channel, db.cursor[c] = server.head[c],
                      NEW k \in Key \ moved, server.cursor[c][k] > 0, missed[k] <= db.stamp[k]
               PROVE  Agrees(k)
    BY DEF ConvergedOnRoots
  <2>1. /\ db \in Database /\ server \in Serving /\ missed \in [Key -> Nat] /\ Placed(server)
        /\ Reached(server, db) /\ Covers(server, db, missed) /\ BaseIs(server, db, k)
    BY <1>1 DEF IInv, TypeInv, BasesAre
  <2>2. server.cursor[c][k] \in Nat /\ server.cursor[c][k] <= server.head[c]
    BY <2>1, ServingParts DEF Placed
  <2>3. db.stamp[k] >= Version(server, k) \/ missed[k] >= Version(server, k)
    BY <2>1, <2>2 DEF Covers
  <2>4. /\ db.stamp[k] \in Nat /\ Version(server, k) \in Nat /\ missed[k] \in Nat
        /\ db.stamp[k] <= Version(server, k) /\ Content(server, k) = AtIn(server, k, Version(server, k))
    BY <2>1, Parts, ServingParts DEF Reached
  <2>5. db.stamp[k] = Version(server, k)
    BY <2>3, <2>4
  <2>6. truth(db, k) = db.main[k]
    BY DEF truth, dirty
  <2> QED
    BY <2>1, <2>4, <2>5, <2>6 DEF BaseIs, Agrees
<1> QED
  BY Inductive, <1>1, PTL

\* Without owners, the client converges.
THEOREM ConvergedHolds == OnceNamed /\ Root = Key => (Spec => []Converged)
<1> SUFFICES ASSUME OnceNamed, Root = Key PROVE Spec => []Converged
  OBVIOUS
<1>1. ConvergedOnRoots => Converged
  BY DEF ConvergedOnRoots, Converged, Agrees
<1> QED
  BY ConvergedOnRootsHolds, <1>1, PTL

=============================================================================
