------------------------- MODULE ServerLiveProofs -------------------------
(***************************************************************************)
(* Proofs about a live socket of the server for any finite set of          *)
(* channels, any page size and any number of commits.                      *)
(***************************************************************************)
EXTENDS ServerLive, FiniteSetTheorems, TLAPS

---------------------------------------------------------------------------
(* The inductive invariant *)

Scope == [cursor : Nat, pending : BOOLEAN]
Span == [from : Nat, to : Nat, head : Nat]
Event == [type : {"committed"}, scope : Channel]
           \cup [type : {"pulled"}, page : UNION {[C -> Span] : C \in SUBSET Channel}]

\* The session's own state; a cursor never passes the committed head.
SessionInv ==
  /\ head \in [Channel -> 0..MaxHead]
  /\ \A n \in unnotified : n.channels \subseteq Channel
  /\ socket \in {"open", "closing", "closed"}
  /\ phase \in {"handshake", "negotiated", "open", "released"}
  /\ DOMAIN scopes \subseteq Channel /\ scopes \in [DOMAIN scopes -> Scope]
  /\ \A c \in DOMAIN scopes : scopes[c].cursor <= head[c]
  /\ closed \in BOOLEAN /\ (socket # "closed" => closed = FALSE)

\* What may exist before the socket is open, and what negotiation leaves.
PhaseInv ==
  /\ phase \in {"handshake", "negotiated"} =>
       scopes = None /\ running = None /\ pulls = << >> /\ jobs = << >> /\ told = None
  /\ phase = "negotiated" =>
       /\ DOMAIN heads \in (SUBSET Channel) \ {{}} /\ heads \in [DOMAIN heads -> 0..MaxHead]
       /\ \A c \in DOMAIN heads : heads[c] <= head[c]

\* What the transaction of the outstanding pull reads, once it has begun.
Snapshot == pulls[1].snapshot

\* The session takes a pull to be outstanding exactly from its scopes' cursors;
\* a snapshot lies between these and the heads, which may have moved on.
RunningInv ==
  /\ DOMAIN running \subseteq DOMAIN scopes /\ running \in [DOMAIN running -> Nat]
  /\ \A c \in DOMAIN running : running[c] = scopes[c].cursor
  /\ \/ pulls = << >>
     \/ /\ running # None /\ pulls = <<[asked |-> running, snapshot |-> Snapshot]>>
        /\ \/ Snapshot = None
           \/ /\ Snapshot \in [DOMAIN running -> Nat]
              /\ \A c \in DOMAIN running : running[c] <= Snapshot[c] /\ Snapshot[c] <= head[c]

\* A wake waiting for the event loop names a subscribed channel; a page answers
\* the pull outstanding, there is only one, and nothing is being read any more.
JobsInv ==
  /\ jobs \in Seq(Event)
  /\ \A i \in 1..Len(jobs) : jobs[i].type = "committed" => jobs[i].scope \in DOMAIN scopes
  /\ \A i \in 1..Len(jobs) : jobs[i].type = "pulled" =>
       /\ pulls = << >> /\ running # None /\ Answers(jobs[i].page)
       /\ \A c \in DOMAIN jobs[i].page :
            LET r == jobs[i].page[c] IN
              r.from <= r.to /\ r.to <= r.head /\ r.head <= head[c]
       /\ \A j \in 1..Len(jobs) : jobs[j].type = "pulled" => i = j

\* Nothing is told ahead of, or behind, the session.
ToldInv ==
  phase = "open" /\ socket = "open" =>
    told = [c \in DOMAIN scopes |-> scopes[c].cursor]

IInv == SessionInv /\ PhaseInv /\ RunningInv /\ JobsInv /\ ToldInv /\ NoLostWake

---------------------------------------------------------------------------
(* Lemmas about the operators *)

\* Before anything is asked, there is nothing of any channel.
LEMMA Nothing == DOMAIN None = {} /\ \A S : None \in [{} -> S]
  BY DEF None

\* A set of channels is listed without leaving one out.
LEMMA Listed ==
  ASSUME NEW S, IsFiniteSet(S)
  PROVE  /\ SetToSeq(S) \in Seq(S)
         /\ \A x \in S : \E i \in 1..Len(SetToSeq(S)) : SetToSeq(S)[i] = x
<1> DEFINE n == Cardinality(S)
<1>1. n \in Nat /\ ExistsBijection(1..n, S)
  BY FS_CardinalityType
<1>2. \E f \in [1..n -> S] : IsInjective(f)
  BY <1>1 DEF ExistsBijection, Bijection, Injection
<1>3. PICK f \in [1..n -> S] : f = SetToSeq(S) /\ IsInjective(f)
  BY <1>2 DEF SetToSeq
<1>4. f \in Seq(S) /\ Len(f) = n
  BY <1>1
<1>5. f \in Injection(1..n, S)
  BY <1>3 DEF Injection
<1>6. IsFiniteSet(1..n) /\ Cardinality(1..n) = n
  BY <1>1, FS_Interval
<1>7. f \in Surjection(1..n, S)
  BY <1>5, <1>6, FS_Injection
<1>8. \A x \in S : \E i \in 1..n : f[i] = x
  BY <1>7 DEF Surjection
<1> QED BY <1>3, <1>4, <1>8

\* New jobs go behind the ones that wait.
LEMMA Behind ==
  ASSUME NEW s \in Seq(Event), NEW w \in Seq(Event)
  PROVE  /\ s \o w \in Seq(Event) /\ Len(s \o w) = Len(s) + Len(w)
         /\ \A i \in 1..Len(s) : (s \o w)[i] = s[i]
         /\ \A i \in 1..Len(w) : (s \o w)[Len(s) + i] = w[i]
         /\ \A i \in 1..Len(w) : Len(s) + i \in 1..Len(s \o w)
         /\ \A i \in 1..Len(s \o w) :
              i \in 1..Len(s) \/ (i - Len(s) \in 1..Len(w) /\ (s \o w)[i] = w[i - Len(s)])
         /\ Len(s) \in Nat /\ Len(w) \in Nat
  OBVIOUS

\* A commit that publishes on some of the subscribed channels wakes each.
Wakes(S) == LET C == SetToSeq(S) IN [i \in DOMAIN C |-> Committed(C[i])]

\* Wakes queues an event for each channel of a set, and no other.
LEMMA WakesOf ==
  ASSUME NEW S \in SUBSET Channel
  PROVE  /\ Wakes(S) \in Seq(Event)
         /\ \A i \in 1..Len(Wakes(S)) : \E c \in S : Wakes(S)[i] = Committed(c)
         /\ \A c \in S : \E i \in 1..Len(Wakes(S)) : Wakes(S)[i] = Committed(c)
<1> DEFINE C == SetToSeq(S)
           W == [i \in DOMAIN C |-> Committed(C[i])]
<1>1. IsFiniteSet(S)
  BY ServerLiveAssumption, FS_Subset
<1>2. C \in Seq(S) /\ \A x \in S : \E i \in 1..Len(C) : C[i] = x
  BY <1>1, Listed
<1>3. \A c \in Channel : Committed(c) \in Event
  BY DEF Committed, Event
<1>4. W \in Seq(Event) /\ Len(W) = Len(C) /\ \A i \in 1..Len(C) : W[i] = Committed(C[i])
  <2>1. DOMAIN C = 1..Len(C) /\ Len(C) \in Nat
    BY <1>2
  <2>2. \A i \in 1..Len(C) : Committed(C[i]) \in Event
    BY <1>2, <1>3
  <2>3. W \in [1..Len(C) -> Event]
    BY <2>1, <2>2
  <2> QED BY <2>1, <2>3
<1>5. \A i \in 1..Len(C) : C[i] \in S
  BY <1>2
<1>6. W = Wakes(S)
  BY DEF Wakes
<1> HIDE DEF C, W
<1> QED BY <1>2, <1>4, <1>5, <1>6

\* The wakes go behind what waits already.
LEMMA Woken ==
  ASSUME NEW s \in Seq(Event), NEW S \in SUBSET Channel
  PROVE  LET u == s \o Wakes(S) IN
         /\ u \in Seq(Event)
         /\ \A i \in 1..Len(s) : u[i] = s[i] /\ i \in 1..Len(u)
         /\ \A i \in 1..Len(u) : i \in 1..Len(s) \/ \E c \in S : u[i] = Committed(c)
         /\ \A c \in S : \E i \in 1..Len(u) : u[i] = Committed(c)
<1> DEFINE w == Wakes(S)
           u == s \o w
<1>1. /\ w \in Seq(Event)
      /\ \A i \in 1..Len(w) : \E c \in S : w[i] = Committed(c)
      /\ \A c \in S : \E i \in 1..Len(w) : w[i] = Committed(c)
  BY WakesOf
<1> HIDE DEF w
<1>3. /\ u \in Seq(Event) /\ Len(u) = Len(s) + Len(w)
      /\ \A i \in 1..Len(s) : u[i] = s[i]
      /\ \A i \in 1..Len(w) : u[Len(s) + i] = w[i] /\ Len(s) + i \in 1..Len(u)
      /\ \A i \in 1..Len(u) : i \in 1..Len(s) \/ (i - Len(s) \in 1..Len(w) /\ u[i] = w[i - Len(s)])
      /\ Len(s) \in Nat /\ Len(w) \in Nat
  BY <1>1, Behind
<1> HIDE DEF u
<1>4. \A i \in 1..Len(s) : i \in 1..Len(u)
  BY <1>3
<1>5. ASSUME NEW i \in 1..Len(u), i \notin 1..Len(s) PROVE \E c \in S : u[i] = Committed(c)
  <2>1. i - Len(s) \in 1..Len(w) /\ u[i] = w[i - Len(s)]
    BY <1>3, <1>5
  <2>2. PICK c \in S : w[i - Len(s)] = Committed(c)
    BY <1>1, <2>1
  <2> QED BY <2>1, <2>2
<1>6. ASSUME NEW c \in S PROVE \E i \in 1..Len(u) : u[i] = Committed(c)
  <2>1. PICK i \in 1..Len(w) : w[i] = Committed(c)
    BY <1>1
  <2>2. Len(s) + i \in 1..Len(u) /\ u[Len(s) + i] = Committed(c)
    BY <2>1, <1>3
  <2> QED BY <2>2
<1> QED BY <1>3, <1>4, <1>5, <1>6 DEF u, w

\* The page of a finished pull comes last.
LEMMA Queued ==
  ASSUME NEW s \in Seq(Event), NEW e \in Event
  PROVE  /\ Append(s, e) \in Seq(Event) /\ Len(Append(s, e)) = Len(s) + 1
         /\ \A i \in 1..Len(s) : Append(s, e)[i] = s[i]
         /\ Append(s, e)[Len(s) + 1] = e
         /\ \A i \in 1..Len(Append(s, e)) : i \in 1..Len(s) \/ i = Len(s) + 1
         /\ Len(s) \in Nat
  OBVIOUS

\* The event loop takes the first job.
LEMMA Taken ==
  ASSUME NEW s \in Seq(Event), s # << >>
  PROVE  /\ Tail(s) \in Seq(Event) /\ Len(Tail(s)) = Len(s) - 1
         /\ Head(s) = s[1] /\ 1 \in 1..Len(s) /\ Head(s) \in Event
         /\ \A i \in 1..Len(Tail(s)) : Tail(s)[i] = s[i + 1] /\ i + 1 \in 1..Len(s) /\ i + 1 # 1
         /\ \A i \in 1..Len(s) : i # 1 => i - 1 \in 1..Len(Tail(s)) /\ Tail(s)[i - 1] = s[i]
         /\ \A i, j \in 1..Len(Tail(s)) : i + 1 = j + 1 => i = j
<1>1. Len(s) \in Nat /\ Len(s) # 0
  OBVIOUS
<1>2. Tail(s) \in Seq(Event) /\ Len(Tail(s)) = Len(s) - 1 /\ Head(s) = s[1] /\ Head(s) \in Event
  BY <1>1
<1>3. \A i \in 1..Len(Tail(s)) : Tail(s)[i] = s[i + 1] /\ i + 1 \in 1..Len(s) /\ i + 1 # 1
  BY <1>1, <1>2
<1>4. \A i \in 1..Len(s) : i # 1 => i - 1 \in 1..Len(Tail(s)) /\ Tail(s)[i - 1] = s[i]
  <2> SUFFICES ASSUME NEW i \in 1..Len(s), i # 1
               PROVE  i - 1 \in 1..Len(Tail(s)) /\ Tail(s)[i - 1] = s[i]
    OBVIOUS
  <2>1. i - 1 \in 1..Len(Tail(s)) /\ (i - 1) + 1 = i
    BY <1>1, <1>2
  <2>2. Tail(s)[i - 1] = s[(i - 1) + 1]
    BY <1>3, <2>1
  <2> QED BY <2>1, <2>2
<1> QED BY <1>1, <1>2, <1>3, <1>4

\* Ending the one pull leaves none.
LEMMA LastPull == ASSUME NEW x PROVE RemoveAt(<<x>>, 1) = << >>
  BY DEF RemoveAt

\* What waits for the event loop, by its place.
LEMMA Waiting ==
  ASSUME jobs \in Seq(Event)
  PROVE  /\ \A c : Committed(c) \in ToSet(jobs) <=> \E i \in 1..Len(jobs) : jobs[i] = Committed(c)
         /\ \A c : PageComing(c) <=>
              \E i \in 1..Len(jobs) : /\ jobs[i].type = "pulled" /\ c \in DOMAIN jobs[i].page
                                      /\ (jobs[i].page[c].to = head[c] \/ Continues(jobs[i].page[c]))
<1>1. DOMAIN jobs = 1..Len(jobs)
  OBVIOUS
<1>2. ToSet(jobs) = {jobs[i] : i \in 1..Len(jobs)}
  BY <1>1 DEF ToSet
<1> QED BY <1>2 DEF PageComing

---------------------------------------------------------------------------
(* The steps of other requests *)

\* A commit moves heads away from the session, and leaves a wake to come.
LEMMA CommitStep ==
  ASSUME IInv, NEW C \in (SUBSET Channel) \ {{}}, commit(C)
  PROVE  IInv'
<1>1. /\ \A c \in C : head[c] < MaxHead
      /\ head' = [c \in Channel |-> IF c \in C THEN head[c] + 1 ELSE head[c]]
      /\ unnotified' = unnotified \cup {[channels |-> C, at |-> head']}
      /\ UNCHANGED <<socket, phase, heads, scopes, running, closed, pulls, jobs, told>>
  BY DEF commit, session
<1>2. head \in [Channel -> 0..MaxHead] /\ MaxHead \in Nat
  BY ServerLiveAssumption DEF IInv, SessionInv
<1>3. /\ head' \in [Channel -> 0..MaxHead]
      /\ \A c \in Channel : head[c] <= head'[c] /\ head[c] \in Nat /\ head'[c] \in Nat
      /\ \A c \in Channel : c \notin C => head'[c] = head[c]
  BY <1>1, <1>2
<1>4. DOMAIN scopes \subseteq Channel
  BY DEF IInv, SessionInv
<1>5. SessionInv'
  <2>1. \A c \in DOMAIN scopes : scopes[c].cursor <= head'[c]
    <3>1. \A c \in DOMAIN scopes : scopes[c].cursor \in Nat /\ scopes[c].cursor <= head[c]
      BY DEF IInv, SessionInv, Scope
    <3> QED BY <3>1, <1>3, <1>4
  <2> QED BY <1>1, <1>3, <2>1 DEF IInv, SessionInv
<1>6. PhaseInv'
  <2>1. phase = "negotiated" => \A c \in DOMAIN heads : heads[c] <= head'[c]
    <3>1. phase = "negotiated" =>
             \A c \in DOMAIN heads : c \in Channel /\ heads[c] \in Nat /\ heads[c] <= head[c]
      BY <1>2 DEF IInv, PhaseInv
    <3> QED BY <3>1, <1>3
  <2> QED BY <1>1, <2>1 DEF IInv, PhaseInv
<1>7. RunningInv' /\ ToldInv'
  <2>1. ASSUME pulls # << >>, Snapshot # None
        PROVE  \A c \in DOMAIN running : Snapshot[c] <= head'[c]
    <3>1. \A c \in DOMAIN running : c \in Channel /\ Snapshot[c] \in Nat /\ Snapshot[c] <= head[c]
      BY <2>1, <1>4 DEF IInv, RunningInv
    <3> QED BY <3>1, <1>3
  <2>2. Snapshot' = Snapshot
    BY <1>1 DEF Snapshot
  <2> QED BY <1>1, <2>1, <2>2 DEF IInv, RunningInv, ToldInv
<1>8. JobsInv'
  <2>1. ASSUME NEW i \in 1..Len(jobs), jobs[i].type = "pulled", NEW c \in DOMAIN jobs[i].page
        PROVE  jobs[i].page[c].head <= head'[c]
    <3>1. c \in Channel /\ jobs[i].page[c].head <= head[c]
      BY <2>1, <1>4 DEF IInv, JobsInv, RunningInv, Answers
    <3>2. jobs[i].page[c].head \in Nat
      BY <2>1 DEF IInv, JobsInv, Event, Span
    <3> QED BY <3>1, <3>2, <1>3
  <2> QED BY <1>1, <2>1 DEF IInv, JobsInv, Answers
<1>9. NoLostWake'
  <2> SUFFICES ASSUME phase = "open", socket = "open", NEW c \in DOMAIN scopes
               PROVE  \/ scopes[c].cursor = head'[c]
                      \/ running # None /\ (scopes[c].pending \/ \E i \in DOMAIN pulls : Reads(pulls[i], c)')
                      \/ PageComing(c)'
                      \/ WakeComing(c)'
    BY <1>1 DEF NoLostWake, Reads
  <2>1. CASE c \in C
    <3> DEFINE m == [channels |-> C, at |-> head']
    <3>1. m \in unnotified' /\ m.channels = C
      BY <1>1
    <3> HIDE DEF m
    <3> QED BY <2>1, <3>1 DEF WakeComing
  <2>2. CASE c \notin C
    <3>1. head'[c] = head[c]
      BY <2>2, <1>3, <1>4
    <3> QED BY <3>1, <1>1 DEF IInv, NoLostWake, Reads, PageComing, WakeComing
  <2> QED BY <2>1, <2>2
<1> QED BY <1>5, <1>6, <1>7, <1>8, <1>9 DEF IInv

\* The continuation of the commit turns the wake to come into one that waits
\* for the event loop.
LEMMA NotifyStep ==
  ASSUME IInv, NEW n \in unnotified, notify(n)
  PROVE  IInv'
<1> DEFINE S == n.channels \cap DOMAIN scopes
<1>1. /\ unnotified' = unnotified \ {n}
      /\ phase = "open" => jobs' = jobs \o Wakes(S)
      /\ phase # "open" => jobs' = jobs \o << >>
      /\ UNCHANGED <<head, socket, phase, heads, scopes, running, closed, pulls, told>>
  BY DEF notify, session, Wakes
<1>2. S \in SUBSET Channel /\ jobs \in Seq(Event)
  BY DEF IInv, SessionInv, JobsInv
<1>3. /\ jobs' \in Seq(Event)
      /\ \A i \in 1..Len(jobs) : jobs'[i] = jobs[i] /\ i \in 1..Len(jobs')
      /\ \A i \in 1..Len(jobs') : i \in 1..Len(jobs) \/ \E c \in S : jobs'[i] = Committed(c)
      /\ phase = "open" => \A c \in S : \E i \in 1..Len(jobs') : jobs'[i] = Committed(c)
  <2>1. CASE phase = "open"
    <3>1. jobs' = jobs \o Wakes(S)
      BY <2>1, <1>1
    <3> HIDE DEF S
    <3> DEFINE u == jobs \o Wakes(S)
    <3>2. /\ u \in Seq(Event)
          /\ \A i \in 1..Len(jobs) : u[i] = jobs[i] /\ i \in 1..Len(u)
          /\ \A i \in 1..Len(u) : i \in 1..Len(jobs) \/ \E c \in S : u[i] = Committed(c)
          /\ \A c \in S : \E i \in 1..Len(u) : u[i] = Committed(c)
      BY <1>2, Woken
    <3> HIDE DEF u
    <3>3. jobs' = u
      BY <3>1 DEF u
    <3> QED BY <3>2, <3>3
  <2>2. CASE phase # "open"
    BY <2>2, <1>1, <1>2
  <2> QED BY <2>1, <2>2
<1>4. SessionInv' /\ RunningInv' /\ ToldInv'
  BY <1>1 DEF IInv, SessionInv, RunningInv, Snapshot, ToldInv
<1>5. PhaseInv'
  <2>1. phase \in {"handshake", "negotiated"} => jobs' = << >>
    BY <1>1 DEF IInv, PhaseInv
  <2> QED BY <2>1, <1>1 DEF IInv, PhaseInv
<1>6. JobsInv'
  <2>1. \A i \in 1..Len(jobs') :
          i \in 1..Len(jobs) \/ (jobs'[i].type = "committed" /\ jobs'[i].scope \in DOMAIN scopes)
    <3>1. \A c \in S : Committed(c).type = "committed" /\ Committed(c).scope \in DOMAIN scopes
      BY DEF Committed
    <3> HIDE DEF S
    <3> QED BY <3>1, <1>3
  <2>2. \A i \in 1..Len(jobs') : jobs'[i].type = "pulled" => i \in 1..Len(jobs)
    BY <2>1
  <2>3. \A i \in 1..Len(jobs') : jobs'[i].type = "committed" => jobs'[i].scope \in DOMAIN scopes
    BY <2>1, <1>3 DEF IInv, JobsInv
  <2>4. ASSUME NEW i \in 1..Len(jobs'), jobs'[i].type = "pulled"
        PROVE  /\ pulls = << >> /\ running # None /\ Answers(jobs'[i].page)
               /\ \A c \in DOMAIN jobs'[i].page :
                    LET r == jobs'[i].page[c] IN
                      r.from <= r.to /\ r.to <= r.head /\ r.head <= head[c]
               /\ \A j \in 1..Len(jobs') : jobs'[j].type = "pulled" => i = j
    <3>1. i \in 1..Len(jobs) /\ jobs'[i] = jobs[i] /\ jobs[i].type = "pulled"
      BY <2>2, <2>4, <1>3
    <3>2. \A j \in 1..Len(jobs') : jobs'[j].type = "pulled" => j \in 1..Len(jobs) /\ jobs[j].type = "pulled"
      BY <2>2, <1>3
    <3> QED BY <3>1, <3>2 DEF IInv, JobsInv
  <2> QED BY <1>1, <1>3, <2>3, <2>4 DEF JobsInv, Answers
<1>7. NoLostWake'
  <2> SUFFICES ASSUME phase = "open", socket = "open", NEW c \in DOMAIN scopes
               PROVE  \/ scopes[c].cursor = head[c]
                      \/ running # None /\ (scopes[c].pending \/ \E i \in DOMAIN pulls : Reads(pulls[i], c))
                      \/ PageComing(c)'
                      \/ WakeComing(c)'
    BY <1>1 DEF NoLostWake, Reads
  <2>1. ASSUME \E i \in 1..Len(jobs') : jobs'[i] = Committed(c) PROVE WakeComing(c)'
    <3>1. DOMAIN jobs' = 1..Len(jobs')
      BY <1>3
    <3> QED BY <2>1, <3>1 DEF WakeComing, ToSet
  <2>2. CASE WakeComing(c)
    <3>1. CASE c \in n.channels
      BY <3>1, <1>3, <2>1
    <3>2. ASSUME NEW m \in unnotified, c \in m.channels, m # n PROVE WakeComing(c)'
      BY <3>2, <1>1 DEF WakeComing
    <3>3. CASE \E i \in 1..Len(jobs) : jobs[i] = Committed(c)
      BY <3>3, <1>3, <2>1
    <3> QED BY <2>2, <3>1, <3>2, <3>3, <1>2, Waiting DEF WakeComing
  <2>3. CASE PageComing(c)
    <3>1. PICK i \in 1..Len(jobs) : /\ jobs[i].type = "pulled" /\ c \in DOMAIN jobs[i].page
                                    /\ (jobs[i].page[c].to = head[c] \/ Continues(jobs[i].page[c]))
      BY <2>3, <1>2, Waiting
    <3>2. jobs[i] \in ToSet(jobs')
      <4>1. DOMAIN jobs' = 1..Len(jobs') /\ i \in 1..Len(jobs') /\ jobs'[i] = jobs[i]
        BY <1>3
      <4> QED BY <4>1 DEF ToSet
    <3> QED BY <3>1, <3>2, <1>1 DEF PageComing
  <2> QED BY <2>2, <2>3 DEF IInv, NoLostWake
<1> QED BY <1>4, <1>5, <1>6, <1>7 DEF IInv

---------------------------------------------------------------------------
(* The steps of the handshake and of the end of the socket *)

\* A step that moves only the phase or the socket, towards the end, or fixes
\* the negotiated heads, keeps what the session knows.
LEMMA SocketStep ==
  ASSUME IInv, PhaseInv',
         UNCHANGED <<head, unnotified, scopes, running, closed, pulls, jobs, told>>,
         phase' \in {"handshake", "negotiated", "open", "released"},
         socket' \in {"open", "closing", "closed"},
         socket' # "closed" => socket # "closed",
         phase' = "open" /\ socket' = "open" => phase = "open" /\ socket = "open"
  PROVE  IInv'
<1>1. SessionInv' /\ RunningInv' /\ ToldInv'
  BY DEF IInv, SessionInv, RunningInv, Snapshot, ToldInv
<1>2. JobsInv'
  BY DEF IInv, JobsInv, Answers
<1>3. NoLostWake'
  BY DEF IInv, NoLostWake, Reads, PageComing, WakeComing
<1> QED BY <1>1, <1>2, <1>3 DEF IInv

\* negotiate keeps the invariant.
LEMMA NegotiateStep ==
  ASSUME IInv, NEW C \in (SUBSET Channel) \ {{}}, negotiate(C)
  PROVE  IInv'
<1>1. /\ phase = "handshake" /\ phase' = "negotiated" /\ heads' = [c \in C |-> head[c]]
      /\ UNCHANGED <<head, unnotified, socket, scopes, running, closed, pulls, jobs, told>>
  BY DEF negotiate, session
<1>2. /\ DOMAIN heads' \in (SUBSET Channel) \ {{}} /\ heads' \in [DOMAIN heads' -> 0..MaxHead]
      /\ \A c \in DOMAIN heads' : heads'[c] <= head[c]
  <2>1. \A c \in C : head[c] \in 0..MaxHead /\ head[c] \in Nat
    BY DEF IInv, SessionInv
  <2> QED BY <1>1, <2>1
<1>3. PhaseInv'
  BY <1>1, <1>2 DEF IInv, PhaseInv
<1> QED BY <1>1, <1>3, SocketStep DEF IInv, SessionInv

\* The end of a socket keeps it.
LEMMA SocketEnds ==
  ASSUME IInv, refuse \/ second_frame \/ release
  PROVE  IInv'
<1>1. /\ UNCHANGED <<head, unnotified, heads, scopes, running, closed, pulls, jobs, told>>
      /\ phase' \in {phase, "released"}
      /\ socket' \in {socket, "closing"} /\ (socket' = "closing" => socket # "closed")
  BY DEF refuse, second_frame, release, session
<1>2. PhaseInv'
  BY <1>1 DEF IInv, PhaseInv
<1> QED BY <1>1, <1>2, SocketStep DEF IInv, SessionInv

\* Opening asks for every scope at once, so whatever was committed since the
\* negotiation is going to be pulled.
LEMMA OpenStep == IInv /\ open => IInv'
<1> SUFFICES ASSUME IInv, open PROVE IInv'
  OBVIOUS
<1>1. phase = "negotiated" /\ UNCHANGED <<head, unnotified, socket, heads, jobs>>
  BY DEF open
<1>2. /\ scopes = None /\ running = None /\ pulls = << >> /\ jobs = << >> /\ told = None
      /\ DOMAIN heads \in (SUBSET Channel) \ {{}} /\ heads \in [DOMAIN heads -> 0..MaxHead]
      /\ \A c \in DOMAIN heads : heads[c] <= head[c]
  BY <1>1 DEF IInv, PhaseInv
<1>3. CASE socket # "open"
  <2>1. phase' = "released" /\ UNCHANGED <<scopes, running, closed, pulls, told>>
    BY <1>3 DEF open, session
  <2>2. PhaseInv'
    BY <2>1 DEF PhaseInv
  <2> QED BY <1>1, <1>3, <2>1, <2>2, SocketStep DEF IInv, SessionInv
<1>4. CASE socket = "open"
  <2>1. /\ phase' = "open" /\ closed' = closed
        /\ scopes' = [c \in DOMAIN heads |-> [cursor |-> heads[c], pending |-> FALSE]]
        /\ running' = heads /\ pulls' = <<Pull(heads)>> /\ told' = heads
    BY <1>4 DEF open, FirstPull
  <2>2. heads # None
    <3>0. DOMAIN heads \in (SUBSET Channel) \ {{}}
      BY <1>2
    <3>1. DOMAIN heads # {}
      BY <3>0
    <3> QED BY <3>1, Nothing
  <2>3. /\ DOMAIN scopes' = DOMAIN heads
        /\ \A c \in DOMAIN heads : scopes'[c] \in Scope /\ scopes'[c].cursor = heads[c]
    <3>1. \A c \in DOMAIN heads : heads[c] \in Nat
      BY <1>2
    <3> QED BY <2>1, <3>1 DEF Scope
  <2>4. SessionInv'
    <3>1. scopes' \in [DOMAIN scopes' -> Scope]
      BY <2>1, <2>3
    <3> QED BY <1>1, <1>2, <2>1, <2>3, <3>1 DEF IInv, SessionInv
  <2>5. PhaseInv'
    BY <2>1 DEF PhaseInv
  <2>6. RunningInv'
    <3>1. running' \in [DOMAIN running' -> Nat]
      BY <1>2, <2>1
    <3>2. Snapshot' = None /\ pulls' = <<[asked |-> running', snapshot |-> None]>>
      BY <2>1 DEF Snapshot, Pull
    <3> QED BY <2>1, <2>2, <2>3, <3>1, <3>2 DEF RunningInv
  <2>7. JobsInv'
    BY <1>1, <1>2 DEF IInv, JobsInv
  <2>8. ToldInv'
    <3>1. heads = [c \in DOMAIN heads |-> heads[c]]
      BY <1>2
    <3>2. [c \in DOMAIN scopes' |-> scopes'[c].cursor] = [c \in DOMAIN heads |-> heads[c]]
      BY <2>3
    <3> QED BY <2>1, <3>1, <3>2 DEF ToldInv
  <2>9. NoLostWake'
    <3>1. 1 \in DOMAIN pulls' /\ pulls'[1].asked = heads /\ pulls'[1].snapshot = None
      BY <2>1 DEF Pull
    <3>2. \A c \in DOMAIN scopes' : running' # None /\ \E i \in DOMAIN pulls' : Reads(pulls[i], c)'
      BY <2>1, <2>2, <2>3, <3>1 DEF Reads
    <3> QED BY <3>2 DEF NoLostWake
  <2> QED BY <2>4, <2>5, <2>6, <2>7, <2>8, <2>9 DEF IInv
<1> QED BY <1>3, <1>4

\* The end of the socket silences the session; nothing more is owed to it.
LEMMA ClosedStep == IInv /\ socket_closed => IInv'
<1> SUFFICES ASSUME IInv, socket_closed PROVE IInv'
  OBVIOUS
<1>1. /\ socket' = "closed" /\ closed' = (closed \/ phase = "open") /\ scopes' = Silent(scopes)
      /\ UNCHANGED <<head, unnotified, phase, heads, running, pulls, jobs, told>>
  BY DEF socket_closed
<1>2. scopes \in [DOMAIN scopes -> Scope]
  BY DEF IInv, SessionInv
<1>3. /\ DOMAIN scopes' = DOMAIN scopes
      /\ \A c \in DOMAIN scopes : scopes'[c] \in Scope /\ scopes'[c].cursor = scopes[c].cursor
  <2>1. \A c \in DOMAIN scopes : [scopes[c] EXCEPT !.pending = FALSE] \in Scope
                              /\ [scopes[c] EXCEPT !.pending = FALSE].cursor = scopes[c].cursor
    BY <1>2 DEF Scope
  <2> QED BY <1>1, <2>1 DEF Silent
<1>4. scopes' \in [DOMAIN scopes' -> Scope]
  BY <1>1, <1>3 DEF Silent
<1>5. SessionInv'
  BY <1>1, <1>3, <1>4 DEF IInv, SessionInv
<1>6. PhaseInv'
  <2>1. scopes = None => scopes' = None
    <3>1. scopes = None => scopes' \in [{} -> Scope] /\ scopes \in [{} -> Scope]
      BY <1>3, <1>4, Nothing
    <3> QED BY <3>1
  <2> QED BY <1>1, <2>1 DEF IInv, PhaseInv
<1>7. RunningInv'
  BY <1>1, <1>3 DEF IInv, RunningInv, Snapshot
<1>8. JobsInv' /\ ToldInv' /\ NoLostWake'
  BY <1>1, <1>3 DEF IInv, JobsInv, ToldInv, NoLostWake, Answers
<1> QED BY <1>5, <1>6, <1>7, <1>8 DEF IInv

---------------------------------------------------------------------------
(* The steps of a pull *)

\* Only the one outstanding pull can begin, be read or fail.
LEMMA OnePull ==
  ASSUME IInv, NEW i \in DOMAIN pulls
  PROVE  /\ i = 1 /\ DOMAIN pulls = {1} /\ pulls = <<[asked |-> running, snapshot |-> Snapshot]>>
         /\ running # None /\ pulls[i].asked = running /\ pulls[i].snapshot = Snapshot
         /\ RemoveAt(pulls, i) = << >>
<1>1. pulls = <<[asked |-> running, snapshot |-> Snapshot]>> /\ running # None
  BY DEF IInv, RunningInv
<1>2. i = 1 /\ DOMAIN pulls = {1}
  BY <1>1
<1>3. pulls[1].asked = running /\ pulls[1].snapshot = Snapshot
  BY <1>1
<1>4. PICK p : pulls = <<p>>
  BY <1>1
<1> QED BY <1>1, <1>2, <1>3, <1>4, LastPull

\* A transaction that begins has the heads as they are in its snapshot.
LEMMA BeginStep ==
  ASSUME IInv, NEW i \in DOMAIN pulls, begin(i)
  PROVE  IInv'
<1> DEFINE now == [c \in DOMAIN running |-> head[c]]
<1>1. /\ i = 1 /\ DOMAIN pulls = {1} /\ pulls = <<[asked |-> running, snapshot |-> Snapshot]>>
      /\ running # None /\ pulls[i].asked = running /\ pulls[i].snapshot = Snapshot
  BY OnePull
<1>2. /\ Snapshot = None /\ pulls' = [pulls EXCEPT ![1].snapshot = now]
      /\ UNCHANGED <<head, unnotified, socket, phase, heads, scopes, running, closed, jobs, told>>
  BY <1>1 DEF begin, session
<1>3. \A c \in DOMAIN running :
        /\ now[c] = head[c] /\ head[c] \in Nat /\ running[c] \in Nat /\ running[c] <= head[c]
  BY DEF IInv, RunningInv, SessionInv
<1>4. now \in [DOMAIN running -> Nat]
  BY <1>3
<1> HIDE DEF now
<1>5. pulls' = <<[asked |-> running, snapshot |-> now]>> /\ Snapshot' = now
  <2>1. [pulls[1] EXCEPT !.snapshot = now] = [asked |-> running, snapshot |-> now]
    BY <1>1
  <2>2. pulls' = <<[asked |-> running, snapshot |-> now]>>
    BY <1>1, <1>2, <2>1
  <2> QED BY <2>2 DEF Snapshot
<1>6. RunningInv'
  <2>1. \A c \in DOMAIN running : running[c] <= now[c] /\ now[c] <= head[c]
    BY <1>3
  <2> QED BY <1>1, <1>2, <1>4, <1>5, <2>1 DEF IInv, RunningInv
<1>7. SessionInv' /\ ToldInv'
  BY <1>2 DEF IInv, SessionInv, ToldInv
<1>8. PhaseInv' /\ JobsInv'
  <2>1. phase \notin {"handshake", "negotiated"} /\ \A k \in 1..Len(jobs) : jobs[k].type # "pulled"
    BY <1>1 DEF IInv, PhaseInv, JobsInv
  <2> QED BY <1>2, <2>1 DEF IInv, PhaseInv, JobsInv
<1>9. NoLostWake'
  <2>1. \A c : Reads(pulls[1], c) => Reads(pulls[1], c)'
    BY <1>1, <1>2, <1>3, <1>5 DEF Reads
  <2>2. DOMAIN pulls' = {1}
    BY <1>5
  <2> QED BY <1>1, <1>2, <2>1, <2>2 DEF IInv, NoLostWake, PageComing, WakeComing
<1> QED BY <1>6, <1>7, <1>8, <1>9 DEF IInv

\* A failed pull keeps it.
LEMMA PullFailedStep ==
  ASSUME IInv, NEW i \in DOMAIN pulls, pull_failed(i)
  PROVE  IInv'
<1>1. /\ pulls' = << >> /\ socket' = IF socket = "open" THEN "closing" ELSE socket
      /\ UNCHANGED <<head, unnotified, phase, heads, scopes, running, closed, jobs, told>>
  BY OnePull DEF pull_failed, session
<1>2. SessionInv' /\ PhaseInv' /\ RunningInv' /\ ToldInv' /\ NoLostWake'
  BY <1>1 DEF IInv, SessionInv, PhaseInv, RunningInv, ToldInv, NoLostWake
<1>3. JobsInv'
  BY <1>1 DEF IInv, JobsInv, Answers
<1> QED BY <1>2, <1>3 DEF IInv

\* What is read goes to the head in the snapshot, or says that it stops short.
LEMMA ReadStep ==
  ASSUME IInv, NEW i \in DOMAIN pulls, read(i)
  PROVE  IInv'
<1>1. /\ pulls = <<[asked |-> running, snapshot |-> Snapshot]>> /\ DOMAIN pulls = {1}
      /\ running # None /\ pulls[i].asked = running /\ pulls[i].snapshot = Snapshot
      /\ pulls[1].asked = running /\ pulls[1].snapshot = Snapshot
      /\ RemoveAt(pulls, i) = << >>
  BY OnePull
<1>2. PICK to \in [DOMAIN running -> 0..MaxHead] :
        /\ \A c \in DOMAIN running : to[c] \in Ends(running[c], Snapshot[c])
        /\ jobs' = Append(jobs, Pulled([c \in DOMAIN running |->
                      [from |-> running[c], to |-> to[c], head |-> Snapshot[c]]]))
  BY <1>1 DEF read
<1>3. /\ pulls' = << >> /\ Snapshot # None
      /\ UNCHANGED <<head, unnotified, socket, phase, heads, scopes, running, closed, told>>
  BY <1>1 DEF read, session
<1> DEFINE page == [c \in DOMAIN running |-> [from |-> running[c], to |-> to[c], head |-> Snapshot[c]]]
<1>4. \A c \in DOMAIN running :
        /\ c \in DOMAIN scopes /\ c \in Channel /\ head[c] \in Nat /\ to[c] \in Nat /\ running[c] \in Nat
        /\ Snapshot[c] \in Nat /\ running[c] <= Snapshot[c] /\ Snapshot[c] <= head[c]
        /\ running[c] = scopes[c].cursor
  BY <1>1, <1>2, <1>3 DEF IInv, RunningInv, SessionInv
<1>5. \A c \in DOMAIN running : running[c] <= to[c] /\ to[c] <= Snapshot[c]
  BY <1>2, <1>4, ServerLiveAssumption DEF Ends
<1>6. Pulled(page) \in Event /\ Pulled(page).type = "pulled" /\ Pulled(page).page = page
  <2>1. page \in [DOMAIN running -> Span]
    BY <1>4 DEF Span
  <2>2. DOMAIN running \in SUBSET Channel
    BY <1>4
  <2> QED BY <2>1, <2>2 DEF Pulled, Event
<1>7. /\ DOMAIN page = DOMAIN running
      /\ \A c \in DOMAIN page : /\ page[c].from = running[c] /\ page[c].from <= page[c].to
                                /\ page[c].to <= page[c].head /\ page[c].head = Snapshot[c]
                                /\ page[c].head <= head[c]
  BY <1>4, <1>5
<1> HIDE DEF page
<1>8. jobs \in Seq(Event) /\ jobs' = Append(jobs, Pulled(page))
  BY <1>2 DEF IInv, JobsInv, page
<1>9. \A k \in 1..Len(jobs) : jobs[k].type # "pulled"
  BY <1>1 DEF IInv, JobsInv
<1>10. /\ jobs' \in Seq(Event) /\ Len(jobs) + 1 \in 1..Len(jobs')
       /\ \A k \in 1..Len(jobs) : jobs'[k] = jobs[k] /\ k \in 1..Len(jobs')
       /\ jobs'[Len(jobs) + 1] = Pulled(page)
       /\ \A k \in 1..Len(jobs') : k \in 1..Len(jobs) \/ k = Len(jobs) + 1
  BY <1>6, <1>8, Queued
<1>11. JobsInv'
  <2>1. \A k \in 1..Len(jobs') : jobs'[k].type = "pulled" => k = Len(jobs) + 1 /\ jobs'[k].page = page
    BY <1>6, <1>9, <1>10
  <2>2. \A k \in 1..Len(jobs') : jobs'[k].type = "committed" => jobs'[k].scope \in DOMAIN scopes
    BY <1>6, <1>10 DEF IInv, JobsInv
  <2>3. DOMAIN page = DOMAIN running' /\ \A c \in DOMAIN page : page[c].from = running'[c]
    BY <1>3, <1>7
  <2>4. ASSUME NEW k \in 1..Len(jobs'), jobs'[k].type = "pulled"
        PROVE  /\ pulls' = << >> /\ running' # None /\ Answers(jobs[k].page)'
               /\ \A c \in DOMAIN jobs'[k].page :
                    LET r == jobs'[k].page[c] IN
                      r.from <= r.to /\ r.to <= r.head /\ r.head <= head'[c]
               /\ \A j \in 1..Len(jobs') : jobs'[j].type = "pulled" => k = j
    <3>1. jobs'[k].page = page
      BY <2>1, <2>4
    <3>2. Answers(jobs[k].page)'
      BY <2>3, <3>1 DEF Answers
    <3>3. \A j \in 1..Len(jobs') : jobs'[j].type = "pulled" => k = j
      BY <2>1, <2>4
    <3> QED BY <1>1, <1>3, <1>7, <3>1, <3>2, <3>3
  <2>5. jobs' \in Seq(Event)
    BY <1>10
  <2> QED BY <1>3, <2>2, <2>4, <2>5 DEF JobsInv
<1>12. SessionInv' /\ RunningInv' /\ ToldInv'
  BY <1>3 DEF IInv, SessionInv, RunningInv, ToldInv
<1>13. PhaseInv'
  <2>1. phase \notin {"handshake", "negotiated"}
    BY <1>1 DEF IInv, PhaseInv
  <2> QED BY <2>1, <1>3 DEF PhaseInv
<1>14. NoLostWake'
  <2>0. DOMAIN jobs' = 1..Len(jobs') /\ DOMAIN jobs = 1..Len(jobs)
    BY <1>8, <1>10
  <2>1. ToSet(jobs') = ToSet(jobs) \cup {Pulled(page)}
    BY <2>0, <1>10 DEF ToSet
  <2> SUFFICES ASSUME phase = "open", socket = "open", NEW c \in DOMAIN scopes
               PROVE  \/ scopes[c].cursor = head[c]
                      \/ running # None /\ scopes[c].pending
                      \/ PageComing(c)'
                      \/ WakeComing(c)'
    BY <1>3 DEF NoLostWake
  <2>2. CASE c \in DOMAIN running
    <3>1. CASE Reads(pulls[1], c)
      <4>1. Snapshot[c] = head[c]
        BY <3>1, <1>1, <1>3 DEF Reads
      <4>2. to[c] = head[c] \/ to[c] < Snapshot[c]
        BY <2>2, <4>1, <1>4, <1>5
      <4>3. page[c].to = head[c] \/ Continues(page[c])
        BY <2>2, <4>2, <1>7 DEF Continues, page
      <4> QED BY <2>1, <2>2, <4>3, <1>3, <1>6, <1>7 DEF PageComing
    <3>2. CASE ~ Reads(pulls[1], c)
      <4>1. \A k \in DOMAIN pulls : ~ Reads(pulls[k], c)
        BY <3>2, <1>1
      <4>2. PageComing(c) => PageComing(c)'
        BY <2>1, <1>3 DEF PageComing
      <4>3. WakeComing(c) => WakeComing(c)'
        BY <2>1, <1>3 DEF WakeComing
      <4> QED BY <4>1, <4>2, <4>3 DEF IInv, NoLostWake
    <3> QED BY <3>1, <3>2
  <2>3. CASE c \notin DOMAIN running
    <3>1. \A k \in DOMAIN pulls : ~ Reads(pulls[k], c)
      BY <2>3, <1>1 DEF Reads
    <3>2. PageComing(c) => PageComing(c)'
      BY <2>1, <1>3 DEF PageComing
    <3>3. WakeComing(c) => WakeComing(c)'
      BY <2>1, <1>3 DEF WakeComing
    <3> QED BY <3>1, <3>2, <3>3 DEF IInv, NoLostWake
  <2> QED BY <2>2, <2>3
<1> QED BY <1>11, <1>12, <1>13, <1>14 DEF IInv

---------------------------------------------------------------------------
(* The events of the session *)

\* What the session asks for next is every pending scope from its cursor, and
\* it asks for nothing only when nothing is pending.
LEMMA Asked ==
  ASSUME NEW s, s \in [DOMAIN s -> Scope], next_pull(s), pulls = << >>
  PROVE  /\ scopes' \in [DOMAIN s -> Scope] /\ DOMAIN scopes' = DOMAIN s
         /\ \A c \in DOMAIN s : scopes'[c].cursor = s[c].cursor
         /\ DOMAIN running' \subseteq DOMAIN s /\ running' \in [DOMAIN running' -> Nat]
         /\ \A c \in DOMAIN running' : running'[c] = s[c].cursor
         /\ pulls' = << >> \/ (pulls' = <<Pull(running')>> /\ running' # None)
         /\ \A c \in DOMAIN s : s[c].pending =>
              running' # None /\ \E i \in DOMAIN pulls' : Reads(pulls[i], c)'
<1> DEFINE P == {c \in DOMAIN s : s[c].pending}
           asked == [c \in P |-> s[c].cursor]
<1>1. CASE P = {}
  <2>1. scopes' = s /\ running' = None /\ pulls' = << >>
    BY <1>1 DEF next_pull
  <2>2. DOMAIN running' = {} /\ running' \in [DOMAIN running' -> Nat]
    BY <2>1, Nothing
  <2> QED BY <1>1, <2>1, <2>2
<1>2. CASE P # {}
  <2>1. scopes' = Cleared(s) /\ running' = asked /\ pulls' = Append(pulls, Pull(asked))
    BY <1>2 DEF next_pull
  <2>2. \A c \in DOMAIN s : [s[c] EXCEPT !.pending = FALSE] \in Scope
                         /\ [s[c] EXCEPT !.pending = FALSE].cursor = s[c].cursor
    BY DEF Scope
  <2>3. scopes' \in [DOMAIN s -> Scope] /\ \A c \in DOMAIN s : scopes'[c].cursor = s[c].cursor
    BY <2>1, <2>2 DEF Cleared
  <2>4. \A c \in DOMAIN s : s[c].cursor \in Nat
    BY DEF Scope
  <2>5. /\ DOMAIN asked = P /\ asked \in [DOMAIN asked -> Nat]
        /\ \A c \in DOMAIN asked : asked[c] = s[c].cursor /\ c \in DOMAIN s
    BY <2>4
  <2>6. asked # None
    BY <1>2, <2>5, Nothing
  <2>7. /\ pulls' = <<Pull(asked)>> /\ 1 \in DOMAIN pulls'
        /\ pulls'[1].asked = asked /\ pulls'[1].snapshot = None
    <3>1. PICK p : p = Pull(asked)
      OBVIOUS
    <3>2. pulls' = <<p>> /\ 1 \in DOMAIN pulls' /\ pulls'[1] = p
      BY <2>1, <3>1
    <3> QED BY <3>1, <3>2 DEF Pull
  <2>8. \A c \in DOMAIN s : s[c].pending => c \in DOMAIN asked
    BY <2>5
  <2> HIDE DEF asked, P
  <2>9. \A c \in DOMAIN asked : Reads(pulls[1], c)'
    BY <2>7 DEF Reads
  <2> QED BY <2>1, <2>3, <2>5, <2>6, <2>7, <2>8, <2>9
<1> QED BY <1>1, <1>2

\* Taking a job off the queue keeps what is known of the others.
LEMMA OthersWait ==
  ASSUME IInv, jobs # << >>, NEW rest, rest = Tail(jobs)
  PROVE  /\ rest \in Seq(Event) /\ Head(jobs) = jobs[1] /\ 1 \in 1..Len(jobs) /\ Head(jobs) \in Event
         /\ \A i \in 1..Len(rest) : i + 1 \in 1..Len(jobs) /\ i + 1 # 1 /\ rest[i] = jobs[i + 1]
         /\ \A e \in ToSet(jobs) : e = Head(jobs) \/ e \in ToSet(rest)
         /\ Head(jobs).type = "pulled" => \A i \in 1..Len(rest) : rest[i].type = "committed"
<1>1. jobs \in Seq(Event)
  BY DEF IInv, JobsInv
<1>2. /\ rest \in Seq(Event) /\ Head(jobs) = jobs[1] /\ 1 \in 1..Len(jobs) /\ Head(jobs) \in Event
      /\ \A i \in 1..Len(rest) : i + 1 \in 1..Len(jobs) /\ i + 1 # 1 /\ rest[i] = jobs[i + 1]
      /\ \A i \in 1..Len(jobs) : i # 1 => i - 1 \in 1..Len(rest) /\ rest[i - 1] = jobs[i]
  BY <1>1, Taken
<1>3. \A e \in ToSet(jobs) : e = Head(jobs) \/ e \in ToSet(rest)
  <2>1. DOMAIN jobs = 1..Len(jobs) /\ DOMAIN rest = 1..Len(rest)
    BY <1>1, <1>2
  <2> SUFFICES ASSUME NEW i \in 1..Len(jobs), i # 1 PROVE jobs[i] \in ToSet(rest)
    BY <2>1, <1>2 DEF ToSet
  <2>2. i - 1 \in DOMAIN rest /\ rest[i - 1] = jobs[i]
    BY <1>2, <2>1
  <2> QED BY <2>2 DEF ToSet
<1>4. ASSUME Head(jobs).type = "pulled", NEW i \in 1..Len(rest) PROVE rest[i].type = "committed"
  <2>1. jobs[i + 1].type # "pulled"
    BY <1>2, <1>4 DEF IInv, JobsInv
  <2>2. rest[i] \in Event
    BY <1>2
  <2> QED BY <1>2, <2>1, <2>2 DEF Event
<1> QED BY <1>2, <1>3, <1>4

\* A job is taken when the listeners are off: the session does not change.
LEMMA DroppedStep ==
  ASSUME IInv, jobs # << >>, jobs' = Tail(jobs), phase = "released",
         UNCHANGED <<head, unnotified, socket, phase, heads, scopes, running, closed, pulls, told>>
  PROVE  IInv'
<1>1. /\ jobs' \in Seq(Event)
      /\ \A i \in 1..Len(jobs') : i + 1 \in 1..Len(jobs) /\ jobs'[i] = jobs[i + 1]
      /\ \A i, j \in 1..Len(jobs') : i + 1 = j + 1 => i = j
  <2>1. PICK rest : rest = Tail(jobs)
    OBVIOUS
  <2>2. rest \in Seq(Event) /\ \A i \in 1..Len(rest) : i + 1 \in 1..Len(jobs) /\ rest[i] = jobs[i + 1]
    BY <2>1, OthersWait
  <2> QED BY <2>1, <2>2
<1>2. JobsInv'
  BY <1>1 DEF IInv, JobsInv, Answers
<1>3. SessionInv' /\ PhaseInv' /\ RunningInv' /\ ToldInv' /\ NoLostWake'
  BY DEF IInv, SessionInv, PhaseInv, RunningInv, Snapshot, ToldInv, NoLostWake
<1> QED BY <1>2, <1>3 DEF IInv

\* A wake is remembered by a session that is pulling, and answered with a pull
\* of everything pending by one that is not.
LEMMA CommittedStep ==
  ASSUME IInv, jobs # << >>, jobs' = Tail(jobs), Head(jobs).type = "committed",
         committed(Head(jobs).scope),
         UNCHANGED <<head, unnotified, phase, heads, closed>>
  PROVE  IInv'
<1> DEFINE w == Head(jobs).scope
<1>0. PICK rest : rest = Tail(jobs)
  OBVIOUS
<1>1. /\ rest \in Seq(Event) /\ Head(jobs) = jobs[1] /\ 1 \in 1..Len(jobs) /\ Head(jobs) \in Event
      /\ \A i \in 1..Len(rest) : i + 1 \in 1..Len(jobs) /\ rest[i] = jobs[i + 1]
      /\ \A e \in ToSet(jobs) : e = Head(jobs) \/ e \in ToSet(rest)
      /\ jobs' = rest
  BY <1>0, OthersWait
<1>2. w \in DOMAIN scopes
  BY <1>1 DEF IInv, JobsInv
<1>3. PICK m : m = Marked(w)
  OBVIOUS
<1>4. /\ m \in [DOMAIN m -> Scope] /\ DOMAIN m = DOMAIN scopes
      /\ m[w].pending /\ \A c \in DOMAIN scopes : m[c].cursor = scopes[c].cursor
      /\ \A c \in DOMAIN scopes : scopes[c].pending => m[c].pending
  <2>1. scopes \in [DOMAIN scopes -> Scope]
    BY DEF IInv, SessionInv
  <2>2. m = [scopes EXCEPT ![w].pending = TRUE]
    BY <1>3 DEF Marked
  <2>3. [scopes[w] EXCEPT !.pending = TRUE] \in Scope
    BY <1>2, <2>1 DEF Scope
  <2>4. m = [c \in DOMAIN scopes |-> IF c = w THEN [scopes[w] EXCEPT !.pending = TRUE] ELSE scopes[c]]
    BY <1>2, <2>1, <2>2
  <2>5. /\ [scopes[w] EXCEPT !.pending = TRUE].pending
        /\ [scopes[w] EXCEPT !.pending = TRUE].cursor = scopes[w].cursor
    BY <1>2, <2>1 DEF Scope
  <2> HIDE DEF w
  <2> QED BY <1>2, <2>1, <2>3, <2>4, <2>5
<1>5. phase \notin {"handshake", "negotiated"} /\ socket' = socket /\ told' = told
  BY DEF IInv, PhaseInv, committed
<1>6. PhaseInv'
  BY <1>5 DEF PhaseInv
<1>7. ASSUME DOMAIN scopes' = DOMAIN scopes, scopes' \in [DOMAIN scopes -> Scope],
             \A c \in DOMAIN scopes : scopes'[c].cursor = scopes[c].cursor
      PROVE  SessionInv' /\ ToldInv'
  <2>1. SessionInv'
    BY <1>5, <1>7 DEF IInv, SessionInv
  <2>2. [c \in DOMAIN scopes' |-> scopes'[c].cursor] = [c \in DOMAIN scopes |-> scopes[c].cursor]
    BY <1>7
  <2> QED BY <1>5, <2>1, <2>2 DEF IInv, ToldInv
<1>8. ASSUME NEW c \in DOMAIN scopes, c # w
      PROVE  /\ WakeComing(c) => WakeComing(c)'
             /\ PageComing(c) => PageComing(c)'
  <2>1. Head(jobs) # Committed(c)
    BY <1>8 DEF Committed
  <2>2. Committed(c) \in ToSet(jobs) => Committed(c) \in ToSet(rest)
    BY <1>1, <2>1
  <2>3. \A e \in ToSet(jobs) : e.type = "pulled" => e \in ToSet(rest)
    BY <1>1
  <2> QED BY <1>1, <2>2, <2>3 DEF WakeComing, PageComing
<1>9. CASE Busy
  <2>1. scopes' = m /\ UNCHANGED <<running, pulls>>
    BY <1>3, <1>9 DEF committed
  <2>2. SessionInv' /\ ToldInv'
    BY <1>4, <1>7, <2>1
  <2>3. RunningInv'
    BY <1>4, <2>1 DEF IInv, RunningInv, Snapshot
  <2>4. JobsInv'
    <3>1. \A i, j \in 1..Len(rest) : i + 1 = j + 1 => i = j
      BY <1>1
    <3> QED BY <1>1, <1>4, <2>1, <3>1 DEF IInv, JobsInv, Answers
  <2>5. NoLostWake'
    <3> SUFFICES ASSUME phase = "open", socket = "open", NEW c \in DOMAIN scopes
                 PROVE  \/ m[c].cursor = head[c]
                        \/ running # None /\ (m[c].pending \/ \E i \in DOMAIN pulls : Reads(pulls[i], c))
                        \/ PageComing(c)'
                        \/ WakeComing(c)'
      BY <1>4, <1>5, <2>1 DEF NoLostWake, Reads
    <3>1. running # None
      BY <1>9 DEF Busy, IInv, SessionInv
    <3>2. CASE c = w
      BY <1>4, <3>1, <3>2
    <3>3. CASE c # w
      BY <1>4, <1>8, <3>3 DEF IInv, NoLostWake
    <3> QED BY <3>2, <3>3
  <2> QED BY <1>6, <2>2, <2>3, <2>4, <2>5 DEF IInv
<1>10. CASE ~ Busy
  <2>1. running = None /\ next_pull(m)
    BY <1>3, <1>10 DEF committed, Busy
  <2>2. pulls = << >> /\ \A i \in 1..Len(jobs) : jobs[i].type # "pulled"
    BY <2>1 DEF IInv, RunningInv, JobsInv
  <2>3. /\ scopes' \in [DOMAIN m -> Scope] /\ DOMAIN scopes' = DOMAIN m
        /\ \A c \in DOMAIN m : scopes'[c].cursor = m[c].cursor
        /\ DOMAIN running' \subseteq DOMAIN m /\ running' \in [DOMAIN running' -> Nat]
        /\ \A c \in DOMAIN running' : running'[c] = m[c].cursor
        /\ pulls' = << >> \/ (pulls' = <<Pull(running')>> /\ running' # None)
        /\ \A c \in DOMAIN m : m[c].pending =>
             running' # None /\ \E i \in DOMAIN pulls' : Reads(pulls[i], c)'
    BY <1>4, <2>1, <2>2, Asked
  <2>4. SessionInv' /\ ToldInv'
    BY <1>4, <1>7, <2>3
  <2>5. RunningInv'
    BY <2>3 DEF RunningInv, Snapshot, Pull
  <2>6. JobsInv'
    <3>1. \A i \in 1..Len(rest) : rest[i].type # "pulled"
      BY <1>1, <2>2
    <3> QED BY <1>1, <1>4, <2>3, <3>1 DEF IInv, JobsInv
  <2>7. NoLostWake'
    <3> SUFFICES ASSUME phase = "open", socket = "open", NEW c \in DOMAIN scopes
                 PROVE  \/ scopes'[c].cursor = head[c]
                        \/ running' # None /\ \E i \in DOMAIN pulls' : Reads(pulls[i], c)'
                        \/ PageComing(c)'
                        \/ WakeComing(c)'
      BY <1>4, <1>5, <2>3 DEF NoLostWake
    <3>2. CASE c = w
      BY <1>4, <2>3, <3>2
    <3>3. CASE c # w
      BY <1>4, <1>8, <2>1, <2>3, <3>3 DEF IInv, NoLostWake
    <3> QED BY <3>2, <3>3
  <2> QED BY <1>6, <2>4, <2>5, <2>6, <2>7 DEF IInv
<1> QED BY <1>9, <1>10

\* What the session makes of a page, before it asks for more.
Advanced(page) ==
  [c \in DOMAIN scopes |->
     IF c \in DOMAIN page
     THEN [cursor |-> page[c].to, pending |-> scopes[c].pending \/ Continues(page[c])]
     ELSE scopes[c]]

\* The page at the head of the queue is the answer to the pull outstanding.
LEMMA PageAnswers ==
  ASSUME IInv, jobs # << >>, Head(jobs).type = "pulled"
  PROVE  LET page == Head(jobs).page IN
         /\ running # None /\ pulls = << >> /\ Answers(page)
         /\ DOMAIN page \subseteq DOMAIN scopes /\ DOMAIN page \in SUBSET Channel
         /\ page \in [DOMAIN page -> Span]
         /\ \A c \in DOMAIN page :
              /\ page[c].from = scopes[c].cursor /\ page[c].from <= page[c].to
              /\ page[c].to <= page[c].head /\ page[c].head <= head[c] /\ page[c].to <= head[c]
<1> DEFINE page == Head(jobs).page
<1>1. Head(jobs) = jobs[1] /\ 1 \in 1..Len(jobs) /\ Head(jobs) \in Event
  BY OthersWait
<1>2. /\ running # None /\ pulls = << >> /\ Answers(page)
      /\ \A c \in DOMAIN page : /\ page[c].from <= page[c].to
                                /\ page[c].to <= page[c].head /\ page[c].head <= head[c]
  BY <1>1 DEF IInv, JobsInv
<1>3. page \in [DOMAIN page -> Span] /\ DOMAIN page \in SUBSET Channel
  BY <1>1 DEF Event
<1>4. DOMAIN page \subseteq DOMAIN scopes /\ \A c \in DOMAIN page : page[c].from = scopes[c].cursor
  BY <1>2 DEF Answers, IInv, RunningInv
<1>5. \A c \in DOMAIN page : page[c].to <= head[c]
  <2>1. \A c \in DOMAIN page : page[c].to \in Nat /\ page[c].head \in Nat /\ head[c] \in Nat
    BY <1>3 DEF Span, IInv, SessionInv
  <2> QED BY <1>2, <2>1
<1> QED BY <1>2, <1>3, <1>4, <1>5

\* A pull moves the positions it covers, and no other.
LEMMA AdvancedScopes ==
  ASSUME IInv, jobs # << >>, Head(jobs).type = "pulled"
  PROVE  LET page == Head(jobs).page
             s == Advanced(page) IN
         /\ s \in [DOMAIN s -> Scope] /\ DOMAIN s = DOMAIN scopes
         /\ \A c \in DOMAIN scopes :
              /\ s[c].cursor = IF c \in DOMAIN page THEN page[c].to ELSE scopes[c].cursor
              /\ s[c].cursor <= head[c]
              /\ scopes[c].pending => s[c].pending
              /\ c \in DOMAIN page /\ Continues(page[c]) => s[c].pending
<1> DEFINE page == Head(jobs).page
<1>1. /\ scopes \in [DOMAIN scopes -> Scope]
      /\ \A c \in DOMAIN scopes : scopes[c].cursor <= head[c]
  BY DEF IInv, SessionInv
<1>2. /\ page \in [DOMAIN page -> Span]
      /\ \A c \in DOMAIN page : page[c].to <= head[c]
  BY PageAnswers
<1> HIDE DEF page
<1>3. \A c \in DOMAIN scopes : c \in DOMAIN page =>
        [cursor |-> page[c].to, pending |-> scopes[c].pending \/ Continues(page[c])] \in Scope
  <2> SUFFICES ASSUME NEW c \in DOMAIN scopes, c \in DOMAIN page
               PROVE  page[c].to \in Nat /\ (scopes[c].pending \/ Continues(page[c])) \in BOOLEAN
    BY DEF Scope
  <2> QED BY <1>2 DEF Span
<1>4. Advanced(page) \in [DOMAIN scopes -> Scope]
  BY <1>1, <1>3 DEF Advanced
<1>5. \A c \in DOMAIN scopes :
        /\ c \in DOMAIN page => Advanced(page)[c] = [cursor |-> page[c].to, pending |-> scopes[c].pending \/ Continues(page[c])]
        /\ c \notin DOMAIN page => Advanced(page)[c] = scopes[c]
  BY DEF Advanced
<1>6. ASSUME NEW c \in DOMAIN scopes
      PROVE  /\ Advanced(page)[c].cursor = IF c \in DOMAIN page THEN page[c].to ELSE scopes[c].cursor
             /\ scopes[c].pending => Advanced(page)[c].pending
             /\ c \in DOMAIN page /\ Continues(page[c]) => Advanced(page)[c].pending
  <2>1. CASE c \in DOMAIN page
    <3> DEFINE p == scopes[c].pending \/ Continues(page[c])
    <3>1. Advanced(page)[c] = [cursor |-> page[c].to, pending |-> p]
      BY <2>1, <1>5
    <3>2. Advanced(page)[c].cursor = page[c].to /\ Advanced(page)[c].pending = p
      BY <3>1
    <3> QED BY <2>1, <3>2
  <2>2. CASE c \notin DOMAIN page
    <3>1. Advanced(page)[c] = scopes[c]
      BY <2>2, <1>5
    <3> QED BY <2>2, <3>1
  <2> QED BY <2>1, <2>2
<1>7. \A c \in DOMAIN scopes : Advanced(page)[c].cursor <= head[c]
  BY <1>1, <1>2, <1>6
<1>8. DOMAIN Advanced(page) = DOMAIN scopes
  BY DEF Advanced
<1> QED BY <1>4, <1>6, <1>7, <1>8 DEF page

\* What the frame of a page tells the client is where the session then is.
LEMMA ToldPage ==
  ASSUME IInv, jobs # << >>, Head(jobs).type = "pulled", phase = "open", socket = "open",
         told' = IF socket = "open" /\ \E c \in DOMAIN Head(jobs).page :
                                          Head(jobs).page[c].to > Head(jobs).page[c].from
                 THEN Follow(Head(jobs).page) ELSE told
  PROVE  told' = [c \in DOMAIN scopes |-> IF c \in DOMAIN Head(jobs).page
                                          THEN Head(jobs).page[c].to ELSE scopes[c].cursor]
<1>1. PICK page : page = Head(jobs).page
  OBVIOUS
<1>2. /\ DOMAIN page \subseteq DOMAIN scopes /\ page \in [DOMAIN page -> Span]
      /\ \A c \in DOMAIN page : page[c].from = scopes[c].cursor /\ page[c].from <= page[c].to
  BY <1>1, PageAnswers
<1>3. told = [c \in DOMAIN scopes |-> scopes[c].cursor]
  BY DEF IInv, ToldInv
<1>4. CASE \E c \in DOMAIN page : page[c].to > page[c].from
  <2>1. told' = Follow(page)
    BY <1>1, <1>4
  <2>2. \A c \in DOMAIN page : c \in DOMAIN told /\ page[c].from = told[c]
    BY <1>2, <1>3
  <2>3. told' = [c \in DOMAIN told |-> IF c \in DOMAIN page THEN page[c].to ELSE told[c]]
    BY <2>1, <2>2 DEF Follow
  <2> QED BY <1>1, <1>3, <2>3
<1>5. CASE ~ \E c \in DOMAIN page : page[c].to > page[c].from
  <2>1. \A c \in DOMAIN page : page[c].to \in Nat /\ page[c].from \in Nat
    BY <1>2 DEF Span
  <2>2. \A c \in DOMAIN page : page[c].to = scopes[c].cursor
    BY <1>2, <1>5, <2>1
  <2>3. told' = told
    BY <1>1, <1>5
  <2> QED BY <1>1, <1>3, <2>2, <2>3
<1> QED BY <1>4, <1>5

\* A page moves its channels, and the session pulls again whatever it stopped
\* short of or was woken for meanwhile.
LEMMA PulledStep ==
  ASSUME IInv, jobs # << >>, jobs' = Tail(jobs), Head(jobs).type = "pulled",
         phase # "released", pulled(Head(jobs).page),
         UNCHANGED <<head, unnotified, phase, heads, closed>>
  PROVE  IInv'
<1>0. PICK rest : rest = Tail(jobs)
  OBVIOUS
<1>1. PICK page : page = Head(jobs).page
  OBVIOUS
<1>2. /\ rest \in Seq(Event) /\ jobs' = rest
      /\ \A i \in 1..Len(rest) : i + 1 \in 1..Len(jobs) /\ rest[i] = jobs[i + 1] /\ rest[i].type = "committed"
      /\ \A e \in ToSet(jobs) : e = Head(jobs) \/ e \in ToSet(rest)
  BY <1>0, OthersWait
<1>3. /\ running # None /\ pulls = << >> /\ Answers(page)
      /\ DOMAIN page \subseteq DOMAIN scopes
      /\ \A c \in DOMAIN page : /\ page[c].from = scopes[c].cursor /\ page[c].from <= page[c].to
                                /\ page[c].to <= page[c].head /\ page[c].head <= head[c]
                                /\ page[c].to <= head[c]
  BY <1>1, PageAnswers
<1>4. phase = "open" /\ PhaseInv'
  BY DEF IInv, PhaseInv, SessionInv
<1>5. socket' = socket
  BY <1>1, <1>3 DEF pulled
<1>6. ASSUME DOMAIN scopes' = DOMAIN scopes PROVE JobsInv'
  <2>1. \A i \in 1..Len(rest) : rest[i].scope \in DOMAIN scopes
    BY <1>2 DEF IInv, JobsInv
  <2>2. \A i \in 1..Len(rest) : rest[i].type # "pulled"
    BY <1>2
  <2> QED BY <1>2, <1>6, <2>1, <2>2 DEF JobsInv
<1>7. CASE closed
  <2>1. running' = None /\ UNCHANGED <<scopes, pulls, told>>
    BY <1>1, <1>3, <1>7 DEF pulled
  <2>2. SessionInv' /\ JobsInv'
    BY <1>5, <1>6, <2>1 DEF IInv, SessionInv
  <2>3. RunningInv'
    BY <1>3, <2>1, Nothing DEF RunningInv
  <2>4. ToldInv' /\ NoLostWake'
    BY <1>5, <1>7 DEF IInv, SessionInv, ToldInv, NoLostWake
  <2> QED BY <1>4, <2>2, <2>3, <2>4 DEF IInv
<1>8. CASE ~ closed
  <2>1. PICK s : s = Advanced(page)
    OBVIOUS
  <2>2. next_pull(s)
    BY <1>1, <1>3, <1>8, <2>1 DEF pulled, Advanced
  <2>3. told' = IF socket = "open" /\ \E c \in DOMAIN page : page[c].to > page[c].from
                THEN Follow(page) ELSE told
    BY <1>1, <1>3, <1>8 DEF pulled
  <2>4. /\ s \in [DOMAIN s -> Scope] /\ DOMAIN s = DOMAIN scopes
        /\ \A c \in DOMAIN scopes :
             /\ s[c].cursor = IF c \in DOMAIN page THEN page[c].to ELSE scopes[c].cursor
             /\ s[c].cursor <= head[c]
             /\ scopes[c].pending => s[c].pending
             /\ c \in DOMAIN page /\ Continues(page[c]) => s[c].pending
    BY <1>1, <2>1, AdvancedScopes
  <2>5. /\ scopes' \in [DOMAIN s -> Scope] /\ DOMAIN scopes' = DOMAIN s
        /\ \A c \in DOMAIN s : scopes'[c].cursor = s[c].cursor
        /\ DOMAIN running' \subseteq DOMAIN s /\ running' \in [DOMAIN running' -> Nat]
        /\ \A c \in DOMAIN running' : running'[c] = s[c].cursor
        /\ pulls' = << >> \/ (pulls' = <<Pull(running')>> /\ running' # None)
        /\ \A c \in DOMAIN s : s[c].pending =>
             running' # None /\ \E i \in DOMAIN pulls' : Reads(pulls[i], c)'
    BY <1>3, <2>2, <2>4, Asked
  <2>6. SessionInv'
    BY <1>5, <2>4, <2>5 DEF IInv, SessionInv
  <2>7. RunningInv'
    BY <2>5 DEF RunningInv, Snapshot, Pull
  <2>8. JobsInv'
    BY <1>6, <2>4, <2>5
  <2>9. ToldInv'
    <3> SUFFICES ASSUME phase = "open", socket = "open"
                 PROVE  told' = [c \in DOMAIN scopes' |-> scopes'[c].cursor]
      BY <1>5 DEF ToldInv
    <3>1. told' = [c \in DOMAIN scopes |-> IF c \in DOMAIN page THEN page[c].to ELSE scopes[c].cursor]
      BY <1>1, <2>3, ToldPage
    <3> QED BY <3>1, <2>4, <2>5
  <2>10. NoLostWake'
    <3> SUFFICES ASSUME phase = "open", socket = "open", NEW c \in DOMAIN scopes
                 PROVE  \/ scopes'[c].cursor = head[c]
                        \/ running' # None /\ \E i \in DOMAIN pulls' : Reads(pulls[i], c)'
                        \/ WakeComing(c)'
      BY <1>5, <2>4, <2>5 DEF NoLostWake
    <3>1. s[c].pending => running' # None /\ \E i \in DOMAIN pulls' : Reads(pulls[i], c)'
      BY <2>4, <2>5
    <3>2. scopes'[c].cursor = IF c \in DOMAIN page THEN page[c].to ELSE scopes[c].cursor
      BY <2>4, <2>5
    <3>3. WakeComing(c) => WakeComing(c)'
      <4>1. Head(jobs) # Committed(c)
        BY DEF Committed
      <4> QED BY <4>1, <1>2 DEF WakeComing
    <3>4. PageComing(c) => c \in DOMAIN page /\ (page[c].to = head[c] \/ Continues(page[c]))
      <4>1. \A e \in ToSet(rest) : e.type = "committed"
        <5>1. DOMAIN rest = 1..Len(rest)
          BY <1>2
        <5> QED BY <5>1, <1>2 DEF ToSet
      <4>2. \A e \in ToSet(jobs) : e.type = "pulled" => e = Head(jobs)
        BY <4>1, <1>2
      <4> QED BY <4>2, <1>1 DEF PageComing
    <3>5. CASE scopes[c].cursor = head[c]
      <4>1. c \in DOMAIN page => page[c].to = head[c]
        <5>1. head[c] \in Nat
          BY DEF IInv, SessionInv
        <5>2. c \in DOMAIN page => page[c].to \in Nat
          BY <1>1, PageAnswers DEF Span
        <5> QED BY <5>1, <5>2, <1>3, <3>5
      <4> QED BY <4>1, <3>2, <3>5
    <3>6. CASE PageComing(c)
      BY <3>1, <3>2, <3>4, <3>6, <2>4
    <3>7. \A i \in DOMAIN pulls : FALSE
      BY <1>3
    <3> QED BY <3>1, <3>3, <3>5, <3>6, <3>7, <2>4 DEF IInv, NoLostWake
  <2> QED BY <1>4, <2>6, <2>7, <2>8, <2>9, <2>10 DEF IInv
<1> QED BY <1>7, <1>8

\* dispatch keeps it.
LEMMA DispatchStep == IInv /\ dispatch => IInv'
<1> SUFFICES ASSUME IInv, dispatch PROVE IInv'
  OBVIOUS
<1>1. jobs # << >> /\ jobs' = Tail(jobs) /\ UNCHANGED <<head, unnotified, phase, heads>>
  BY DEF dispatch
<1>2. CASE phase = "released"
  BY <1>1, <1>2, DroppedStep DEF dispatch, session
<1>3. CASE phase # "released"
  <2>1. /\ \/ Head(jobs).type = "committed" /\ committed(Head(jobs).scope)
           \/ Head(jobs).type = "pulled" /\ pulled(Head(jobs).page)
        /\ UNCHANGED closed
    BY <1>3 DEF dispatch
  <2> QED BY <1>1, <1>3, <2>1, CommittedStep, PulledStep
<1> QED BY <1>2, <1>3

---------------------------------------------------------------------------
(* The theorems *)

\* The invariant holds in every reachable state.
THEOREM Inductive == Spec => []IInv
<1>1. Init => IInv
  <2> SUFFICES ASSUME Init PROVE IInv
    OBVIOUS
  <2> USE ServerLiveAssumption, Nothing DEF Init
  <2>1. SessionInv
    <3>1. head \in [Channel -> 0..MaxHead]
      OBVIOUS
    <3> QED BY <3>1 DEF SessionInv
  <2>2. PhaseInv /\ RunningInv /\ ToldInv /\ NoLostWake
    BY DEF PhaseInv, RunningInv, ToldInv, NoLostWake
  <2>3. JobsInv
    BY DEF JobsInv
  <2> QED BY <2>1, <2>2, <2>3 DEF IInv
<1>2. IInv /\ [Next]_vars => IInv'
  <2> SUFFICES ASSUME IInv, [Next]_vars PROVE IInv'
    OBVIOUS
  <2>1. CASE UNCHANGED vars
    BY <2>1 DEF vars, session, IInv, SessionInv, PhaseInv, RunningInv, Snapshot, JobsInv, ToldInv,
                NoLostWake, Reads, PageComing, WakeComing, Answers
  <2>2. CASE Next
    BY <2>2, CommitStep, NotifyStep, NegotiateStep, SocketEnds, OpenStep, ClosedStep,
       BeginStep, PullFailedStep, ReadStep, DispatchStep DEF Next
  <2> QED BY <2>1, <2>2
<1> QED BY <1>1, <1>2, PTL DEF Spec

\* Positions stay within the heads, and the host runs at most the one pull the
\* session takes to be outstanding.
THEOREM TypeCorrect == Spec => []TypeOK
<1>1. IInv => TypeOK
  <2> SUFFICES ASSUME IInv PROVE TypeOK
    OBVIOUS
  <2>1. \A c \in DOMAIN scopes : scopes[c].cursor \in 0..head[c] /\ scopes[c].pending \in BOOLEAN
    BY DEF IInv, SessionInv, Scope
  <2>2. (\A i \in DOMAIN pulls : pulls[i].asked = running) /\ Len(pulls) <= 1
    <3>1. CASE pulls = << >>
      BY <3>1
    <3>2. CASE pulls = <<[asked |-> running, snapshot |-> Snapshot]>>
      <4>1. PICK p : pulls = <<p>> /\ p.asked = running
        BY <3>2
      <4> QED BY <4>1
    <3> QED BY <3>1, <3>2 DEF IInv, RunningInv
  <2> QED BY <2>1, <2>2 DEF IInv, SessionInv, TypeOK
<1> QED BY <1>1, Inductive, PTL

\* However commits, wakes, the snapshots of pulls and the two kinds of events
\* interleave, what a subscribed channel holds beyond the cursor is always going
\* to be pulled.
THEOREM NoWakeIsLost == Spec => []NoLostWake
<1>1. IInv => NoLostWake
  BY DEF IInv
<1> QED BY <1>1, Inductive, PTL

---------------------------------------------------------------------------
(* The socket implements LiveStream *)

\* The stage LiveStream sees, and that it only ends while nothing is told.
Stage == IF socket # "open" \/ phase = "released" THEN "ended"
         ELSE IF phase = "open" THEN "open" ELSE "connecting"

\* The abstract socket does not see a step that leaves its state alone.
LEMMA Unseen ==
  ASSUME UNCHANGED <<head, told>>, Stage' = Stage
  PROVE  [Stream!Next]_(Stream!vars)
  BY DEF Stage, Stream!vars

\* The end of a socket is the abstract one's.
LEMMA StreamEnds ==
  ASSUME UNCHANGED <<head, told>>, Stage' \in {Stage, "ended"}
  PROVE  [Stream!Next]_(Stream!vars)
<1>1. CASE Stage' = Stage
  BY <1>1, Unseen
<1>2. CASE Stage' # Stage
  <2>1. Stream!End
    BY <1>2 DEF Stage, Stream!End
  <2> QED BY <2>1 DEF Stream!Next
<1> QED BY <1>1, <1>2

\* A step of the socket commits, acknowledges, sends a page that follows on,
\* ends the stream, or does nothing its client can see.
LEMMA StepRefines ==
  ASSUME IInv, Next
  PROVE  [Stream!Next]_(Stream!vars)
<1>1. ASSUME NEW C \in (SUBSET Channel) \ {{}}, commit(C) PROVE Stream!Next
  <2>1. Stream!Commit(C)
    BY <1>1 DEF commit, Stream!Commit
  <2> QED BY <2>1 DEF Stream!Next
<1>2. ASSUME NEW C \in (SUBSET Channel) \ {{}}, negotiate(C) PROVE [Stream!Next]_(Stream!vars)
  BY <1>2, Unseen DEF negotiate, Stage
<1>3. ASSUME NEW n \in unnotified, notify(n) PROVE [Stream!Next]_(Stream!vars)
  BY <1>3, Unseen DEF notify, Stage
<1>4. CASE refuse \/ second_frame \/ socket_closed \/ release
  <2>1. UNCHANGED <<head, told>> /\ Stage' \in {Stage, "ended"}
    BY <1>4 DEF refuse, second_frame, socket_closed, release, Stage
  <2> QED BY <2>1, StreamEnds
<1>5. ASSUME NEW i \in DOMAIN pulls, begin(i) \/ read(i) \/ pull_failed(i) PROVE [Stream!Next]_(Stream!vars)
  <2>1. UNCHANGED <<head, told>> /\ Stage' \in {Stage, "ended"}
    BY <1>5 DEF begin, read, pull_failed, Stage
  <2> QED BY <2>1, StreamEnds
<1>6. CASE open
  <2>1. CASE socket # "open"
    BY <1>6, <2>1, Unseen DEF open, Stage
  <2>2. CASE socket = "open"
    <3>1. /\ phase = "negotiated" /\ phase' = "open" /\ told' = heads
          /\ UNCHANGED <<head, socket>>
      BY <1>6, <2>2 DEF open
    <3>2. /\ DOMAIN heads \in (SUBSET Channel) \ {{}} /\ heads \in [DOMAIN heads -> 0..MaxHead]
          /\ \A c \in DOMAIN heads : heads[c] <= head[c]
      BY <3>1 DEF IInv, PhaseInv
    <3>3. heads \in Stream!Positions
      BY <3>2 DEF Stream!Positions
    <3>4. Stream!Acknowledge(heads)
      BY <2>2, <3>1, <3>2 DEF Stream!Acknowledge
    <3> QED BY <3>3, <3>4 DEF Stream!Next
  <2> QED BY <2>1, <2>2
<1>7. CASE dispatch
  <2>0. jobs # << >> /\ UNCHANGED <<head, phase>>
    BY <1>7 DEF dispatch
  <2>1. CASE phase = "released"
    BY <1>7, <2>0, <2>1, Unseen DEF dispatch, Stage
  <2>2. CASE phase # "released" /\ Head(jobs).type = "committed"
    <3>1. committed(Head(jobs).scope)
      BY <1>7, <2>2 DEF dispatch
    <3> QED BY <3>1, <2>0, Unseen DEF committed, Stage
  <2>3. CASE phase # "released" /\ Head(jobs).type = "pulled"
    <3>1. pulled(Head(jobs).page)
      BY <1>7, <2>3 DEF dispatch
    <3>2. PICK page : page = Head(jobs).page
      OBVIOUS
    <3>3. /\ running # None /\ Answers(page)
          /\ DOMAIN page \subseteq DOMAIN scopes /\ DOMAIN page \in SUBSET Channel
          /\ page \in [DOMAIN page -> Span]
          /\ \A c \in DOMAIN page :
               page[c].from = scopes[c].cursor /\ page[c].from <= page[c].to /\ page[c].to <= head[c]
      BY <2>0, <2>3, <3>2, PageAnswers
    <3>4. /\ socket' = socket
          /\ told' = IF ~ closed /\ socket = "open" /\ \E c \in DOMAIN page : page[c].to > page[c].from
                     THEN Follow(page) ELSE told
      BY <3>1, <3>2, <3>3 DEF pulled
    <3>5. phase = "open"
      BY <2>0, <2>3 DEF IInv, SessionInv, PhaseInv
    <3>6. CASE ~ closed /\ socket = "open" /\ \E c \in DOMAIN page : page[c].to > page[c].from
      <4> DEFINE to == [c \in DOMAIN page |-> page[c].to]
      <4>1. told = [c \in DOMAIN scopes |-> scopes[c].cursor]
        BY <3>5, <3>6 DEF IInv, ToldInv
      <4>2. \A c \in DOMAIN page : c \in DOMAIN told /\ page[c].from = told[c]
        BY <3>3, <4>1
      <4>3. told' = [c \in DOMAIN told |-> IF c \in DOMAIN page THEN page[c].to ELSE told[c]]
        BY <3>4, <3>6, <4>2 DEF Follow
      <4>4. \A c \in DOMAIN page : to[c] \in 0..MaxHead
        <5>1. \A c \in DOMAIN page : page[c].to \in Nat /\ head[c] \in 0..MaxHead
          BY <3>3 DEF Span, IInv, SessionInv
        <5> QED BY <5>1, <3>3, ServerLiveAssumption
      <4>5. DOMAIN page # {}
        BY <3>6
      <4>6. to \in Stream!Positions
        <5>1. to \in [DOMAIN page -> 0..MaxHead]
          BY <4>4
        <5>2. DOMAIN page \in (SUBSET Channel) \ {{}}
          BY <3>3, <4>5
        <5> HIDE DEF to
        <5> QED BY <5>1, <5>2 DEF Stream!Positions
      <4>7. /\ DOMAIN to \subseteq DOMAIN told
            /\ \A c \in DOMAIN to : told[c] <= to[c] /\ to[c] <= head[c]
            /\ \E c \in DOMAIN to : told[c] < to[c]
        <5>1. \A c \in DOMAIN page : page[c].to \in Nat /\ page[c].from \in Nat
          BY <3>3 DEF Span
        <5> QED BY <5>1, <3>3, <3>6, <4>2
      <4>8. told' = [c \in DOMAIN told |-> IF c \in DOMAIN to THEN to[c] ELSE told[c]]
        BY <4>3
      <4> HIDE DEF to
      <4>9. Stream!Page(to)
        BY <2>0, <3>4, <3>5, <3>6, <4>7, <4>8 DEF Stream!Page
      <4> QED BY <4>6, <4>9 DEF Stream!Next
    <3>7. CASE ~ (~ closed /\ socket = "open" /\ \E c \in DOMAIN page : page[c].to > page[c].from)
      BY <2>0, <3>4, <3>7, Unseen DEF Stage
    <3> QED BY <3>6, <3>7
  <2>4. Head(jobs).type \in {"committed", "pulled"}
    BY <2>0, OthersWait DEF Event
  <2> QED BY <2>1, <2>2, <2>3, <2>4
<1> QED BY <1>1, <1>2, <1>3, <1>4, <1>5, <1>6, <1>7 DEF Next

\* An acknowledgement no commit can overtake, then pages that follow on without
\* a gap, and nothing after the end: every behaviour of the socket is one of
\* the abstract stream.
THEOREM SocketStreams == Spec => Streams
<1>1. Init => Stream!Init
  BY DEF Init, Stream!Init, Stream!Nowhere, None
<1>2. IInv /\ [Next]_vars => [Stream!Next]_(Stream!vars)
  <2>1. UNCHANGED vars => [Stream!Next]_(Stream!vars)
    BY Unseen DEF vars, Stage
  <2> QED BY <2>1, StepRefines
<1> QED BY <1>1, <1>2, Inductive, PTL DEF Spec, Streams, Stream!Spec

===========================================================================
