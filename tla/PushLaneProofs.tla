--------------------------- MODULE PushLaneProofs ---------------------------
(***************************************************************************)
(* A connection that is paused is quiet (PausedIsQuiet), for any number of *)
(* connections, mutations, controls and failures.  What could go wrong is  *)
(* a step decided before the pause and run after it.  The invariant says   *)
(* where every decision still under way is: a loop has one call waiting    *)
(* and stands where that call left it, the cycle has one call waiting or a *)
(* request at the network, and the loop it belongs to awaits it.           *)
(***************************************************************************)
EXTENDS PushLane, SequenceTheorems, TLAPS

Fields == {"at", "stirred", "reply", "outcome", "stopped", "paused", "aborted", "pausing", "quiet", "closed"}
LoopOps == {"start", "next", "success", "failure"}
CycleOps == {"startSync", "request", "complete"}
Others == {"pause", "wake", "resume", "stop", "live"}

\* Commands are of a connection, except an application's mutation.
Command == [op : LoopOps \cup CycleOps \cup Others, of : Conn] \cup [op : {"mutate"}, of : {0}]

\* Where a loop stands while a command of it waits.
Place(op) ==
  CASE op = "start" -> "starting" [] op = "next" -> "asking" [] OTHER -> "reporting"

Loop(e) == e.op \in LoopOps
Cyclic(e) == e.op \in CycleOps

\* What the commands q still to be run say of the connections k and the cycle s.
Waiting(q, k, s) ==
  /\ \A i \in DOMAIN q : Loop(q[i]) => k[q[i].of].at = Place(q[i].op)
  /\ \A i \in DOMAIN q : Cyclic(q[i]) => s.at \in {"starting", "completing"} /\ s.of = q[i].of
  /\ \A i, j \in DOMAIN q : i # j =>
       /\ ~ (Loop(q[i]) /\ Loop(q[j]) /\ q[i].of = q[j].of)
       /\ ~ (Cyclic(q[i]) /\ Cyclic(q[j]))

ShapeInv ==
  /\ DOMAIN conn = Conn /\ \A c \in Conn : DOMAIN conn[c] = Fields
  /\ calls \in Seq(Command)
  /\ sync \in [at : {"none", "starting", "sent", "completing"}, of : Conn \cup {0}]
  /\ listening \in Conn \cup {0}

\* The cycle under way is awaited by its loop, which is nowhere else.
CycleInv == sync # NoSync => sync.of \in Conn /\ conn[sync.of].at = "syncing"

QuietInv == \A c \in Conn : conn[c].quiet => conn[c].paused /\ sync # [at |-> "sent", of |-> c]

IInv == ShapeInv /\ Waiting(calls, conn, sync) /\ CycleInv /\ QuietInv

---------------------------------------------------------------------------
(* The queue of commands *)

\* The queue without its head.
LEMMA Popped ==
  ASSUME NEW q \in Seq(Command), q # << >>, NEW k, NEW s, Waiting(q, k, s)
  PROVE  /\ Tail(q) \in Seq(Command) /\ Head(q) \in Command /\ Waiting(Tail(q), k, s)
         /\ Loop(Head(q)) => /\ k[Head(q).of].at = Place(Head(q).op)
                             /\ \A i \in DOMAIN Tail(q) : Loop(Tail(q)[i]) => Tail(q)[i].of # Head(q).of
         /\ Cyclic(Head(q)) => /\ s.at \in {"starting", "completing"} /\ s.of = Head(q).of
                               /\ \A i \in DOMAIN Tail(q) : ~ Cyclic(Tail(q)[i])
<1> DEFINE r == Tail(q)
<1>1. /\ r \in Seq(Command) /\ Head(q) = q[1] /\ Head(q) \in Command /\ 1 \in DOMAIN q
      /\ \A i \in DOMAIN r : r[i] = q[i + 1] /\ i + 1 \in DOMAIN q /\ i + 1 # 1
      /\ \A i, j \in DOMAIN r : i # j => i + 1 # j + 1
  OBVIOUS
<1> HIDE DEF r
<1>2. Waiting(r, k, s)
  BY <1>1 DEF Waiting
<1>3. /\ Loop(q[1]) => /\ k[q[1].of].at = Place(q[1].op)
                       /\ \A i \in DOMAIN r : Loop(r[i]) => r[i].of # q[1].of
      /\ Cyclic(q[1]) => /\ s.at \in {"starting", "completing"} /\ s.of = q[1].of
                         /\ \A i \in DOMAIN r : ~ Cyclic(r[i])
  BY <1>1 DEF Waiting
<1> QED
  BY <1>1, <1>2, <1>3 DEF r

\* A command is queued: a loop's when none of that loop waits, a cycle's when
\* none of any cycle does.
LEMMA Queued ==
  ASSUME NEW q \in Seq(Command), NEW e \in Command, NEW k, NEW s, Waiting(q, k, s),
         Loop(e) => /\ k[e.of].at = Place(e.op)
                    /\ \A i \in DOMAIN q : Loop(q[i]) => q[i].of # e.of,
         Cyclic(e) => /\ s.at \in {"starting", "completing"} /\ s.of = e.of
                      /\ \A i \in DOMAIN q : ~ Cyclic(q[i])
  PROVE  q \o <<e>> \in Seq(Command) /\ Waiting(q \o <<e>>, k, s)
<1> DEFINE r == q \o <<e>>
<1>1. /\ r \in Seq(Command) /\ Len(r) = Len(q) + 1 /\ DOMAIN r = 1..(Len(q) + 1)
      /\ Len(q) \in Nat /\ DOMAIN q = 1..Len(q)
      /\ r[Len(q) + 1] = e /\ \A i \in 1..Len(q) : r[i] = q[i]
  OBVIOUS
<1> HIDE DEF r
<1>2. \A i \in DOMAIN r : (i \in DOMAIN q /\ r[i] = q[i]) \/ (i = Len(q) + 1 /\ r[i] = e)
  BY <1>1
<1>3. Waiting(r, k, s)
  BY <1>2 DEF Waiting
<1> QED
  BY <1>1, <1>3 DEF r

\* The connections and the cycle move where no command of theirs waits.
LEMMA Elsewhere ==
  ASSUME NEW q, NEW k, NEW s, NEW l, NEW r, Waiting(q, k, s),
         \A i \in DOMAIN q : Loop(q[i]) => l[q[i].of].at = k[q[i].of].at,
         r = s \/ \A i \in DOMAIN q : ~ Cyclic(q[i])
  PROVE  Waiting(q, l, r)
BY DEF Waiting

\* Nothing to queue leaves the queue as it was.
LEMMA NoCall == \A q \in Seq(Command) : q \o << >> = q
OBVIOUS

\* A loop that stands elsewhere has no command waiting.
LEMMA Free ==
  ASSUME NEW q \in Seq(Command), NEW k, NEW s, Waiting(q, k, s), NEW c,
         k[c].at \notin {"starting", "asking", "reporting"}
  PROVE  \A i \in DOMAIN q : Loop(q[i]) => q[i].of # c
<1>1. \A op : Place(op) \in {"starting", "asking", "reporting"}
  BY DEF Place
<1> QED
  BY <1>1 DEF Waiting

\* At its top a loop asks, unless it was stopped.
LEMMA AtTop ==
  ASSUME NEW k, DOMAIN k = Fields
  PROVE  /\ DOMAIN Top(k) = Fields /\ Top(k).quiet = k.quiet /\ Top(k).paused = k.paused
         /\ Top(k).stopped = k.stopped
         /\ Top(k).at = IF k.stopped THEN "over" ELSE "asking"
BY DEF Top, Over, Fields

\* A connection that asks for its next step queues the one call of its loop.
LEMMA Asked ==
  ASSUME NEW q \in Seq(Command), NEW k, NEW s, Waiting(q, k, s), NEW c \in Conn, NEW l,
         \A i \in DOMAIN q : Loop(q[i]) => q[i].of # c,
         \A d \in Conn \ {c} : l[d].at = k[d].at,
         l[c].at = IF k[c].stopped THEN "over" ELSE "asking"
  PROVE  q \o Asks(k[c], c) \in Seq(Command) /\ Waiting(q \o Asks(k[c], c), l, s)
<1>1. \A i \in DOMAIN q : Loop(q[i]) => q[i].of \in Conn \ {c}
  <2>1. \A i \in DOMAIN q : q[i] \in Command
    OBVIOUS
  <2> QED
    BY <2>1 DEF Command, Loop, LoopOps
<1>2. Waiting(q, l, s)
  BY <1>1, Elsewhere
<1>3. CASE k[c].stopped
  <2>1. q \o Asks(k[c], c) = q
    BY <1>3, NoCall DEF Asks
  <2> QED
    BY <1>2, <2>1
<1>4. CASE ~ k[c].stopped
  <2> DEFINE e == [op |-> "next", of |-> c]
  <2>1. e \in Command /\ Loop(e) /\ ~ Cyclic(e) /\ Place(e.op) = "asking" /\ e.of = c
    BY DEF Command, Loop, LoopOps, Cyclic, CycleOps, Place
  <2>2. Asks(k[c], c) = <<e>>
    BY <1>4 DEF Asks, Call
  <2> HIDE DEF e
  <2> QED
    BY <1>2, <1>4, <2>1, <2>2, Queued
<1> QED
  BY <1>3, <1>4

---------------------------------------------------------------------------
(* What steps do to the connections *)

\* The connections l are those of now but for where they stand.
Steady(l) ==
  /\ DOMAIN l = Conn
  /\ \A d \in Conn : DOMAIN l[d] = Fields /\ l[d].quiet = conn[d].quiet /\ l[d].paused = conn[d].paused

\* A step that leaves every connection's place in its loop alone keeps the
\* invariant.
LEMMA SteadyKeeps ==
  ASSUME IInv, Steady(conn'), sync' = sync, listening' \in Conn \cup {0}, calls' \in Seq(Command),
         Waiting(calls', conn', sync'),
         \A d \in Conn : conn[d].at = "syncing" => conn'[d].at = "syncing"
  PROVE  IInv'
BY DEF IInv, ShapeInv, CycleInv, QuietInv, Steady

\* The cycle under way ends.
LEMMA EndKeeps ==
  ASSUME IInv, NEW k, DOMAIN k = Conn, NEW outcome,
         \A d \in Conn : DOMAIN k[d] = Fields /\ (k[d].quiet => k[d].paused),
         conn' = Ended(k, outcome), sync' = NoSync, listening' \in Conn \cup {0},
         calls' \in Seq(Command), Waiting(calls', k, sync),
         \A i \in DOMAIN calls' : ~ Cyclic(calls'[i])
  PROVE  IInv'
<1>1. /\ DOMAIN conn' = Conn
      /\ \A d \in Conn : /\ DOMAIN conn'[d] = Fields
                         /\ conn'[d].quiet = k[d].quiet /\ conn'[d].paused = k[d].paused
                         /\ conn'[d].at = IF k[d].at = "syncing" THEN "synced" ELSE k[d].at
  BY DEF Ended, Fields
<1>2. ShapeInv'
  BY <1>1 DEF ShapeInv, NoSync
<1>3. \A i \in DOMAIN calls' : Loop(calls'[i]) => conn'[calls'[i].of].at = k[calls'[i].of].at
  <2> SUFFICES ASSUME NEW i \in DOMAIN calls', Loop(calls'[i])
               PROVE  conn'[calls'[i].of].at = k[calls'[i].of].at
    OBVIOUS
  <2>1. calls'[i] \in Command
    OBVIOUS
  <2>2. calls'[i].of \in Conn
    BY <2>1 DEF Command, Loop, LoopOps
  <2>3. k[calls'[i].of].at \in {"starting", "asking", "reporting"}
    BY DEF Waiting, Place
  <2> QED
    BY <1>1, <2>2, <2>3
<1>4. Waiting(calls', conn', sync')
  BY <1>3, Elsewhere
<1>5. CycleInv' /\ QuietInv'
  BY <1>1 DEF CycleInv, QuietInv, NoSync
<1> QED
  BY <1>2, <1>4, <1>5 DEF IInv

---------------------------------------------------------------------------
(* The commands *)

\* The loop of c, which has none of the commands q waiting, goes to its top.
LEMMA TopKeeps ==
  ASSUME IInv, NEW c \in Conn, conn[c].at # "syncing", NEW q \in Seq(Command),
         Waiting(q, conn, sync), \A i \in DOMAIN q : Loop(q[i]) => q[i].of # c,
         conn' = [conn EXCEPT ![c] = Top(conn[c])], sync' = sync, listening' \in Conn \cup {0},
         \/ calls' = q \o Asks(conn[c], c)
         \/ calls' = q \o Asks(conn[c], c) \o Call("live", c)
  PROVE  IInv'
<1>1. DOMAIN conn = Conn /\ \A d \in Conn : DOMAIN conn[d] = Fields
  BY DEF IInv, ShapeInv
<1>2. /\ conn'[c] = Top(conn[c]) /\ DOMAIN conn' = Conn
      /\ \A d \in Conn \ {c} : conn'[d] = conn[d]
  BY <1>1
<1>3. /\ DOMAIN conn'[c] = Fields /\ conn'[c].quiet = conn[c].quiet /\ conn'[c].paused = conn[c].paused
      /\ conn'[c].at = IF conn[c].stopped THEN "over" ELSE "asking"
  BY <1>1, <1>2, AtTop
<1>4. Steady(conn')
  BY <1>1, <1>2, <1>3 DEF Steady
<1> DEFINE r == q \o Asks(conn[c], c)
           e == [op |-> "live", of |-> c]
<1>5. r \in Seq(Command) /\ Waiting(r, conn', sync)
  BY <1>2, <1>3, Asked
<1>6. e \in Command /\ ~ Loop(e) /\ ~ Cyclic(e) /\ Call("live", c) = <<e>>
  BY DEF Command, Others, Loop, LoopOps, Cyclic, CycleOps, Call
<1>7. calls' \in Seq(Command) /\ Waiting(calls', conn', sync)
  <2>1. calls' = r \/ calls' = r \o <<e>>
    BY <1>6
  <2> HIDE DEF r, e
  <2> QED
    BY <1>5, <1>6, <2>1, Queued
<1> QED
  BY <1>2, <1>4, <1>7, SteadyKeeps

\* A connection changes its flags only, and stands where it stood or, if none
\* of the commands q is its loop's, elsewhere.
LEMMA FlagsKeep ==
  ASSUME IInv, NEW c \in Conn, NEW k, DOMAIN k = Fields, k.quiet = conn[c].quiet,
         k.paused = conn[c].paused, conn[c].at = "syncing" => k.at = "syncing",
         conn' = [conn EXCEPT ![c] = k], sync' = sync, listening' \in Conn \cup {0},
         calls' \in Seq(Command), Waiting(calls', conn, sync),
         k.at = conn[c].at \/ \A i \in DOMAIN calls' : Loop(calls'[i]) => calls'[i].of # c
  PROVE  IInv'
<1>1. DOMAIN conn = Conn /\ \A d \in Conn : DOMAIN conn[d] = Fields
  BY DEF IInv, ShapeInv
<1>2. conn'[c] = k /\ DOMAIN conn' = Conn /\ \A d \in Conn \ {c} : conn'[d] = conn[d]
  BY <1>1
<1>3. Steady(conn')
  BY <1>1, <1>2 DEF Steady
<1>4. \A i \in DOMAIN calls' : Loop(calls'[i]) => conn'[calls'[i].of].at = conn[calls'[i].of].at
  <2> SUFFICES ASSUME NEW i \in DOMAIN calls', Loop(calls'[i])
               PROVE  conn'[calls'[i].of].at = conn[calls'[i].of].at
    OBVIOUS
  <2>1. calls'[i] \in Command
    OBVIOUS
  <2>2. calls'[i].of \in Conn
    BY <2>1 DEF Command, Loop, LoopOps
  <2> QED
    BY <1>2, <2>2
<1>5. Waiting(calls', conn', sync')
  BY <1>4, Elsewhere
<1> QED
  BY <1>2, <1>3, <1>5, SteadyKeeps

\* What a wait turns into when it is stirred.
LEMMA AtStirred ==
  ASSUME NEW k, DOMAIN k = Fields
  PROVE  /\ k.at = "waiting" => Stirred(k) = Top(k)
         /\ k.at # "waiting" => /\ DOMAIN Stirred(k) = Fields /\ Stirred(k).at = k.at
                                /\ Stirred(k).quiet = k.quiet /\ Stirred(k).paused = k.paused
BY DEF Stirred, Fields

\* So does one that stirs a connection.
LEMMA StirKeeps ==
  ASSUME IInv, NEW c \in Conn, NEW q \in Seq(Command), Waiting(q, conn, sync),
         conn' = [conn EXCEPT ![c] = Stirred(conn[c])], sync' = sync, listening' \in Conn \cup {0},
         calls' = q \o Wakes(conn[c], c)
  PROVE  IInv'
<1>1. DOMAIN conn[c] = Fields
  BY DEF IInv, ShapeInv
<1>2. CASE conn[c].at = "waiting"
  <2>1. Stirred(conn[c]) = Top(conn[c]) /\ Wakes(conn[c], c) = Asks(conn[c], c)
    BY <1>2 DEF Stirred, Wakes
  <2>2. \A i \in DOMAIN q : Loop(q[i]) => q[i].of # c
    BY <1>2, Free
  <2> QED
    BY <1>2, <2>1, <2>2, TopKeeps
<1>3. CASE conn[c].at # "waiting"
  <2>1. calls' = q
    BY <1>3, NoCall DEF Wakes
  <2> QED
    <3>1. /\ DOMAIN Stirred(conn[c]) = Fields /\ Stirred(conn[c]).at = conn[c].at
          /\ Stirred(conn[c]).quiet = conn[c].quiet /\ Stirred(conn[c]).paused = conn[c].paused
      BY <1>1, <1>3, AtStirred
    <3>2. calls' \in Seq(Command) /\ Waiting(calls', conn, sync)
      BY <2>1
    <3> QED
      BY <3>1, <3>2, FlagsKeep
<1> QED
  BY <1>2, <1>3

\* A call of a connection's loop, or one of its controls, runs.
LEMMA ControlKeeps ==
  ASSUME IInv, calls # << >>, NEW c \in Conn, Head(calls).of = c, Head(calls).op \in LoopOps \cup Others,
         Control(Head(calls).op, c), UNCHANGED <<queue, sync>>
  PROVE  IInv'
<1> DEFINE q == Tail(calls)
           op == Head(calls).op
<1>1. /\ q \in Seq(Command) /\ Waiting(q, conn, sync)
      /\ op \in LoopOps => /\ conn[c].at = Place(op)
                           /\ \A i \in DOMAIN q : Loop(q[i]) => q[i].of # c
  BY Popped DEF IInv, ShapeInv, Loop
<1>2. DOMAIN conn[c] = Fields /\ listening \in Conn \cup {0} /\ sync' = sync /\ DOMAIN conn = Conn
  BY DEF IInv, ShapeInv
<1>3. Control(op, c) /\ IInv /\ op \in LoopOps \cup Others /\ calls = calls
  OBVIOUS
<1>4. Tail(calls) = q
  OBVIOUS
<1> HIDE DEF q, op
<1>5. CASE op = "start"
  <2>1. conn[c].at = "starting"
    BY <1>1, <1>5 DEF Place, LoopOps
  <2>2. /\ conn' = [conn EXCEPT ![c] = Top(conn[c])] /\ listening' = listening
        /\ calls' = q \o Asks(conn[c], c) \o Call("live", c)
    BY <1>3, <1>4, <1>5 DEF Control
  <2> QED
    BY <1>1, <1>2, <1>5, <2>1, <2>2, TopKeeps DEF LoopOps
<1>6. CASE op \in {"success", "failure"}
  <2>1. conn[c].at = "reporting"
    BY <1>1, <1>6 DEF Place, LoopOps
  <2>2. /\ conn' = [conn EXCEPT ![c] = Top(conn[c])] /\ listening' = listening
        /\ calls' = q \o Asks(conn[c], c)
    BY <1>3, <1>4, <1>6 DEF Control
  <2> QED
    BY <1>1, <1>2, <1>6, <2>1, <2>2, TopKeeps DEF LoopOps
<1>7. CASE op = "next"
  <2> DEFINE k == [conn[c] EXCEPT !.at = "told", !.reply = next(driver)]
  <2>1. conn[c].at = "asking"
    BY <1>1, <1>7 DEF Place, LoopOps
  <2>2. /\ conn' = [conn EXCEPT ![c] = k] /\ listening' = listening /\ calls' = q
    BY <1>2, <1>3, <1>4, <1>7 DEF Control
  <2>3. DOMAIN k = Fields /\ k.quiet = conn[c].quiet /\ k.paused = conn[c].paused
    BY <1>2 DEF Fields
  <2> HIDE DEF k
  <2> QED
    BY <1>1, <1>2, <1>7, <2>1, <2>2, <2>3, FlagsKeep DEF LoopOps
<1>8. CASE op = "pause"
  <2> DEFINE k == [conn[c] EXCEPT !.pausing = "settling"]
  <2>1. /\ conn' = [conn EXCEPT ![c] = k] /\ listening' = listening /\ calls' = q
    BY <1>3, <1>4, <1>8 DEF Control
  <2>2. DOMAIN k = Fields /\ k.quiet = conn[c].quiet /\ k.paused = conn[c].paused /\ k.at = conn[c].at
    BY <1>2 DEF Fields
  <2> HIDE DEF k
  <2> QED
    BY <1>1, <1>2, <2>1, <2>2, FlagsKeep
<1>9. CASE op = "stop"
  <2> DEFINE k == [conn[c] EXCEPT !.closed = TRUE]
  <2>1. /\ conn' = [conn EXCEPT ![c] = k] /\ listening' = listening /\ calls' = q
    BY <1>3, <1>4, <1>9 DEF Control
  <2>2. DOMAIN k = Fields /\ k.quiet = conn[c].quiet /\ k.paused = conn[c].paused /\ k.at = conn[c].at
    BY <1>2 DEF Fields
  <2> HIDE DEF k
  <2> QED
    BY <1>1, <1>2, <2>1, <2>2, FlagsKeep
<1>10. CASE op \in {"wake", "resume"}
  <2>1. /\ conn' = [conn EXCEPT ![c] = Stirred(conn[c])] /\ listening' = listening
        /\ calls' = q \o Wakes(conn[c], c)
    BY <1>3, <1>4, <1>10 DEF Control
  <2> QED
    BY <1>1, <1>2, <2>1, StirKeeps
<1>11. CASE op = "live"
  <2>1. conn' = conn /\ listening' = c /\ calls' = q
    BY <1>3, <1>4, <1>11 DEF Control
  <2>2. Steady(conn')
    BY <2>1 DEF Steady, IInv, ShapeInv
  <2> QED
    BY <1>1, <1>2, <2>1, <2>2, SteadyKeeps
<1> QED
  BY <1>3, <1>5, <1>6, <1>7, <1>8, <1>9, <1>10, <1>11 DEF LoopOps, Others

\* A request goes out only while its connection is not paused.
LEMMA RequestKeeps ==
  ASSUME IInv, NEW c \in Conn, sync.at \in {"starting", "completing"}, sync.of = c, Request(c),
         UNCHANGED listening, calls' \in Seq(Command), Waiting(calls', conn, sync),
         \A i \in DOMAIN calls' : ~ Cyclic(calls'[i])
  PROVE  IInv'
<1>1. ShapeInv /\ CycleInv /\ QuietInv
  BY DEF IInv
<1>2. ASSUME NEW outcome, sync' = NoSync, conn' = Ended(conn, outcome) PROVE IInv'
  BY <1>1, <1>2, EndKeeps DEF ShapeInv, QuietInv
<1>3. CASE ~ Refuses(conn[c]) /\ sync' = [sync EXCEPT !.at = "sent"] /\ UNCHANGED conn
  <2>1. sync' = [at |-> "sent", of |-> c]
    BY <1>1, <1>3 DEF ShapeInv
  <2>2. ~ conn[c].paused
    BY <1>3 DEF Refuses
  <2>3. sync # NoSync
    BY DEF NoSync
  <2>4. Waiting(calls', conn', sync')
    BY <1>3, Elsewhere
  <2>5. ShapeInv'
    BY <1>1, <1>3, <2>1 DEF ShapeInv
  <2>6. CycleInv'
    BY <1>1, <1>3, <2>1, <2>3 DEF CycleInv
  <2>7. QuietInv'
    BY <1>1, <1>3, <2>1, <2>2 DEF QuietInv
  <2> QED
    BY <2>4, <2>5, <2>6, <2>7 DEF IInv
<1> QED
  BY <1>2, <1>3 DEF Request

\* A call of the cycle in flight runs.
LEMMA CycleKeeps ==
  ASSUME IInv, calls # << >>, NEW c \in Conn, Head(calls).of = c, Head(calls).op \in CycleOps,
         Cycle(Head(calls).op, c), UNCHANGED <<driver, listening>>
  PROVE  IInv'
<1> DEFINE q == Tail(calls)
           op == Head(calls).op
           e == [op |-> "request", of |-> c]
<1>1. /\ q \in Seq(Command) /\ Waiting(q, conn, sync)
      /\ sync.at \in {"starting", "completing"} /\ sync.of = c
      /\ \A i \in DOMAIN q : ~ Cyclic(q[i])
  BY Popped DEF IInv, ShapeInv, Cyclic
<1>2. ShapeInv /\ CycleInv /\ QuietInv /\ listening' = listening
  BY DEF IInv
<1>3. e \in Command /\ ~ Loop(e) /\ Cyclic(e) /\ Call("request", c) = <<e>> /\ e.of = c
  BY DEF Command, Loop, LoopOps, Cyclic, CycleOps, Call
<1>4. Cycle(op, c) /\ op \in CycleOps /\ Tail(calls) = q
  OBVIOUS
<1> HIDE DEF q, op, e
<1>5. CASE op = "startSync"
  <2>1. calls' = q \o <<e>> /\ conn' = conn /\ sync' = sync
    BY <1>3, <1>4, <1>5 DEF Cycle
  <2>2. calls' \in Seq(Command) /\ Waiting(calls', conn', sync')
    BY <1>1, <1>3, <2>1, Queued
  <2> QED
    BY <1>2, <2>1, <2>2 DEF IInv, ShapeInv, CycleInv, QuietInv
<1>6. CASE op = "request"
  <2>1. Request(c) /\ calls' = q
    BY <1>4, <1>6 DEF Cycle
  <2> QED
    BY <1>1, <1>2, <2>1, RequestKeeps
<1>7. CASE op = "complete"
  <2>1. calls' = q \o <<e>> /\ conn' = conn /\ sync' = [sync EXCEPT !.at = "starting"]
    BY <1>3, <1>4, <1>7 DEF Cycle
  <2>2. sync' = [at |-> "starting", of |-> c] /\ sync # NoSync
    BY <1>1, <1>2, <2>1 DEF ShapeInv, NoSync
  <2>3. Waiting(q, conn, sync')
    BY <1>1, Elsewhere
  <2>4. calls' \in Seq(Command) /\ Waiting(calls', conn', sync')
    BY <1>1, <1>3, <2>1, <2>2, <2>3, Queued
  <2>5. ShapeInv'
    BY <1>2, <2>1, <2>2, <2>4 DEF ShapeInv
  <2>6. CycleInv'
    BY <1>1, <1>2, <2>1, <2>2 DEF CycleInv
  <2>7. QuietInv'
    BY <1>2, <2>1, <2>2 DEF QuietInv
  <2> QED
    BY <2>4, <2>5, <2>6, <2>7 DEF IInv
<1> QED
  BY <1>4, <1>5, <1>6, <1>7 DEF CycleOps

\* The head of the queue runs.
LEMMA RunKeeps == ASSUME IInv, run PROVE IInv'
<1> DEFINE op == Head(calls).op
           c == Head(calls).of
<1>1. calls # << >> /\ ShapeInv /\ calls \in Seq(Command) /\ Head(calls) \in Command
  BY Popped DEF run, IInv, ShapeInv
<1>2. c \in Conn \/ op = "mutate"
  BY <1>1 DEF Command
<1>3. CASE op \in LoopOps \cup Others /\ Control(op, c) /\ UNCHANGED <<queue, sync>>
  <2>1. c \in Conn
    BY <1>2, <1>3 DEF LoopOps, Others
  <2> QED
    BY <1>1, <1>3, <2>1, ControlKeeps
<1>4. CASE op \in CycleOps /\ Cycle(op, c) /\ UNCHANGED <<driver, listening>>
  <2>1. c \in Conn
    BY <1>2, <1>4 DEF CycleOps
  <2> QED
    BY <1>1, <1>4, <2>1, CycleKeeps
<1>5. CASE /\ op = "mutate" /\ UNCHANGED <<driver, conn, sync, listening>>
           /\ calls' = Tail(calls) \o (IF listening = 0 THEN << >> ELSE Call("wake", listening))
  <2> DEFINE q == Tail(calls)
             e == [op |-> "wake", of |-> listening]
  <2>1. q \in Seq(Command) /\ Waiting(q, conn, sync)
    BY <1>1, Popped DEF IInv
  <2>2. CASE listening = 0
    <3>1. calls' = q
      BY <1>5, <2>1, <2>2, NoCall
    <3> QED
      BY <1>5, <2>1, <3>1 DEF IInv, ShapeInv, CycleInv, QuietInv
  <2>3. CASE listening # 0
    <3>1. e \in Command /\ ~ Loop(e) /\ ~ Cyclic(e) /\ Call("wake", listening) = <<e>>
      BY <1>1, <2>3 DEF ShapeInv, Command, Others, Loop, LoopOps, Cyclic, CycleOps, Call
    <3>2. calls' = q \o <<e>>
      BY <1>5, <2>3, <3>1
    <3> HIDE DEF q, e
    <3>3. calls' \in Seq(Command) /\ Waiting(calls', conn, sync)
      BY <2>1, <3>1, <3>2, Queued
    <3> QED
      BY <1>5, <3>3 DEF IInv, ShapeInv, CycleInv, QuietInv
  <2> QED
    BY <2>2, <2>3
<1> QED
  BY <1>3, <1>4, <1>5 DEF run, LoopOps, Others, CycleOps

---------------------------------------------------------------------------
(* The host loop, the network and the application *)

\* A command that neither a loop nor a cycle waits for is queued.
LEMMA Told ==
  ASSUME NEW c \in Conn, NEW op \in Others, NEW q \in Seq(Command), NEW k, NEW s, Waiting(q, k, s)
  PROVE  q \o Call(op, c) \in Seq(Command) /\ Waiting(q \o Call(op, c), k, s)
<1> DEFINE e == [op |-> op, of |-> c]
<1>1. e \in Command /\ ~ Loop(e) /\ ~ Cyclic(e) /\ Call(op, c) = <<e>>
  BY DEF Command, Others, Loop, LoopOps, Cyclic, CycleOps, Call
<1> HIDE DEF e
<1> QED
  BY <1>1, Queued

\* A connection takes the driver's decision.
LEMMA DecideKeeps == ASSUME IInv, NEW c \in Conn, decide(c) PROVE IInv'
<1>1. /\ ShapeInv /\ CycleInv /\ QuietInv /\ calls \in Seq(Command) /\ Waiting(calls, conn, sync)
      /\ DOMAIN conn[c] = Fields /\ listening \in Conn \cup {0} /\ DOMAIN conn = Conn
      /\ listening' = listening /\ conn[c].at = "told"
  BY DEF IInv, ShapeInv, decide
<1>2. \A i \in DOMAIN calls : Loop(calls[i]) => calls[i].of # c
  BY <1>1, Free
<1>3. ASSUME NEW k, DOMAIN k = Fields, k.quiet = conn[c].quiet, k.paused = conn[c].paused,
             conn' = [conn EXCEPT ![c] = k], UNCHANGED <<calls, sync>>
      PROVE  IInv'
  BY <1>1, <1>2, <1>3, FlagsKeep
<1>4. DOMAIN Over(conn[c]) = Fields /\ Over(conn[c]).quiet = conn[c].quiet /\ Over(conn[c]).paused = conn[c].paused
  BY <1>1 DEF Over, Fields
<1>5. CASE conn' = [conn EXCEPT ![c] = Over(conn[c])] /\ UNCHANGED <<calls, sync>>
  BY <1>3, <1>4, <1>5
<1>6. CASE conn' = [conn EXCEPT ![c].at = "waiting"] /\ UNCHANGED <<calls, sync>>
  <2> DEFINE k == [conn[c] EXCEPT !.at = "waiting"]
  <2>1. conn' = [conn EXCEPT ![c] = k]
    BY <1>6
  <2>2. DOMAIN k = Fields /\ k.quiet = conn[c].quiet /\ k.paused = conn[c].paused
    BY <1>1 DEF Fields
  <2> HIDE DEF k
  <2> QED
    BY <1>3, <1>6, <2>1, <2>2
<1>7. CASE /\ conn' = [conn EXCEPT ![c].at = "syncing", ![c].aborted = FALSE]
           /\ IF sync = NoSync
                THEN sync' = [at |-> "starting", of |-> c] /\ calls' = calls \o Call("startSync", c)
                ELSE UNCHANGED <<sync, calls>>
  <2>1. /\ DOMAIN conn' = Conn /\ \A d \in Conn \ {c} : conn'[d] = conn[d]
        /\ DOMAIN conn'[c] = Fields /\ conn'[c].quiet = conn[c].quiet
        /\ conn'[c].paused = conn[c].paused /\ conn'[c].at = "syncing"
    BY <1>1, <1>7 DEF Fields
  <2>2. Steady(conn')
    BY <1>1, <2>1 DEF Steady, ShapeInv
  <2>3. \A i \in DOMAIN calls : Loop(calls[i]) => conn'[calls[i].of].at = conn[calls[i].of].at
    <3> SUFFICES ASSUME NEW i \in DOMAIN calls, Loop(calls[i])
                 PROVE  conn'[calls[i].of].at = conn[calls[i].of].at
      OBVIOUS
    <3>1. calls[i] \in Command
      BY <1>1
    <3>2. calls[i].of \in Conn
      BY <3>1 DEF Command, Loop, LoopOps
    <3> QED
      BY <1>2, <2>1, <3>2
  <2>4. CASE sync = NoSync
    <3> DEFINE e == [op |-> "startSync", of |-> c]
               s == [at |-> "starting", of |-> c]
    <3>1. sync' = s /\ calls' = calls \o <<e>>
      BY <1>7, <2>4 DEF Call
    <3>2. /\ e \in Command /\ ~ Loop(e) /\ Cyclic(e) /\ e.of = c /\ s.at = "starting" /\ s.of = c
          /\ s # [at |-> "sent", of |-> c] /\ s # NoSync
          /\ s \in [at : {"none", "starting", "sent", "completing"}, of : Conn \cup {0}]
      BY DEF Command, Loop, LoopOps, Cyclic, CycleOps, NoSync
    <3>3. \A i \in DOMAIN calls : ~ Cyclic(calls[i])
      BY <1>1, <2>4 DEF Waiting, NoSync
    <3> HIDE DEF e, s
    <3>4. Waiting(calls, conn', s)
      BY <1>1, <2>3, <3>3, Elsewhere
    <3>5. calls' \in Seq(Command) /\ Waiting(calls', conn', sync')
      BY <1>1, <3>1, <3>2, <3>3, <3>4, Queued
    <3>6. s.at # "sent"
      BY <3>2
    <3>7. ShapeInv' /\ CycleInv'
      BY <1>1, <2>1, <2>2, <3>1, <3>2, <3>5 DEF ShapeInv, CycleInv, Steady
    <3>8. QuietInv'
      BY <1>1, <2>2, <3>1, <3>6 DEF QuietInv, Steady
    <3> QED
      BY <3>5, <3>7, <3>8 DEF IInv
  <2>5. CASE sync # NoSync
    <3>1. sync' = sync /\ calls' = calls
      BY <1>7, <2>5
    <3>2. Waiting(calls', conn', sync')
      BY <1>1, <2>3, <3>1, Elsewhere
    <3> QED
      BY <1>1, <2>1, <2>2, <3>1, <3>2, SteadyKeeps
  <2> QED
    BY <2>4, <2>5
<1>8. CASE conn' = [conn EXCEPT ![c] = Top(conn[c])] /\ calls' = calls \o Asks(conn[c], c) /\ UNCHANGED sync
  BY <1>1, <1>2, <1>8, TopKeeps
<1> QED
  BY <1>5, <1>6, <1>7, <1>8 DEF decide

\* The loop reports to its driver.
LEMMA ReportKeeps ==
  ASSUME IInv, NEW c \in Conn, conn[c].at \in {"synced", "refreshing"}, NEW success \in BOOLEAN,
         Report(c, success), UNCHANGED <<sync, listening>>
  PROVE  IInv'
<1> DEFINE k == [conn[c] EXCEPT !.at = "reporting", !.outcome = "none"]
           e == [op |-> IF success THEN "success" ELSE "failure", of |-> c]
<1>1. /\ calls \in Seq(Command) /\ Waiting(calls, conn, sync) /\ DOMAIN conn[c] = Fields
      /\ DOMAIN conn = Conn /\ listening \in Conn \cup {0} /\ \A d \in Conn : DOMAIN conn[d] = Fields
  BY DEF IInv, ShapeInv
<1>2. \A i \in DOMAIN calls : Loop(calls[i]) => calls[i].of # c
  BY <1>1, Free
<1>3. conn' = [conn EXCEPT ![c] = k] /\ calls' = calls \o <<e>>
  BY <1>1 DEF Report, Call
<1>4. DOMAIN k = Fields /\ k.quiet = conn[c].quiet /\ k.paused = conn[c].paused /\ k.at = "reporting"
  BY <1>1 DEF Fields
<1>5. e \in Command /\ Loop(e) /\ ~ Cyclic(e) /\ Place(e.op) = "reporting" /\ e.of = c
  BY DEF Command, Loop, LoopOps, Cyclic, CycleOps, Place
<1> HIDE DEF k, e
<1>6. /\ DOMAIN conn' = Conn /\ conn'[c] = k /\ \A d \in Conn \ {c} : conn'[d] = conn[d]
  BY <1>1, <1>3
<1>7. Steady(conn')
  BY <1>1, <1>4, <1>6 DEF Steady
<1>8. \A i \in DOMAIN calls : Loop(calls[i]) => conn'[calls[i].of].at = conn[calls[i].of].at
  <2> SUFFICES ASSUME NEW i \in DOMAIN calls, Loop(calls[i])
               PROVE  conn'[calls[i].of].at = conn[calls[i].of].at
    OBVIOUS
  <2>1. calls[i] \in Command
    BY <1>1
  <2>2. calls[i].of \in Conn
    BY <2>1 DEF Command, Loop, LoopOps
  <2> QED
    BY <1>2, <1>6, <2>2
<1>9. Waiting(calls, conn', sync)
  BY <1>1, <1>8, Elsewhere
<1>10. calls' \in Seq(Command) /\ Waiting(calls', conn', sync)
  BY <1>1, <1>2, <1>3, <1>4, <1>5, <1>6, <1>9, Queued
<1> QED
  BY <1>1, <1>6, <1>7, <1>10, SteadyKeeps

\* The loop of c, with no command of its own waiting, goes where no command is.
LEMMA StandKeeps ==
  ASSUME IInv, NEW c \in Conn, conn[c].at \in {"synced", "refreshing", "waiting"}, NEW k,
         DOMAIN k = Fields, k.quiet = conn[c].quiet, k.paused = conn[c].paused,
         conn' = [conn EXCEPT ![c] = k], UNCHANGED <<calls, sync, listening>>
  PROVE  IInv'
<1>1. calls \in Seq(Command) /\ Waiting(calls, conn, sync) /\ listening \in Conn \cup {0}
  BY DEF IInv, ShapeInv
<1>2. \A i \in DOMAIN calls : Loop(calls[i]) => calls[i].of # c
  BY <1>1, Free
<1> QED
  BY <1>1, <1>2, FlagsKeep

\* A cycle settles, or its authorisation is renewed.
LEMMA SettleKeeps == ASSUME IInv, NEW c \in Conn, settle(c) \/ refreshAuth(c) PROVE IInv'
<1>1. DOMAIN conn[c] = Fields /\ DOMAIN conn = Conn
  BY DEF IInv, ShapeInv
<1>2. conn[c].at \in {"synced", "refreshing"} /\ UNCHANGED <<sync, listening>>
  BY DEF settle, refreshAuth
<1>3. ASSUME NEW k, DOMAIN k = Fields, k.quiet = conn[c].quiet, k.paused = conn[c].paused,
             conn' = [conn EXCEPT ![c] = k], UNCHANGED calls
      PROVE  IInv'
  BY <1>2, <1>3, StandKeeps
<1>4. CASE conn' = [conn EXCEPT ![c] = Over(conn[c])] /\ UNCHANGED calls
  <2> DEFINE k == Over(conn[c])
  <2>1. DOMAIN k = Fields /\ k.quiet = conn[c].quiet /\ k.paused = conn[c].paused
    BY <1>1 DEF Over, Fields
  <2>2. conn' = [conn EXCEPT ![c] = k]
    BY <1>4
  <2> HIDE DEF k
  <2> QED
    BY <1>3, <1>4, <2>1, <2>2
<1>5. CASE conn' = [conn EXCEPT ![c].at = "refreshing", ![c].outcome = "none"] /\ UNCHANGED calls
  <2> DEFINE k == [conn[c] EXCEPT !.at = "refreshing", !.outcome = "none"]
  <2>1. DOMAIN k = Fields /\ k.quiet = conn[c].quiet /\ k.paused = conn[c].paused
    BY <1>1 DEF Fields
  <2>2. conn' = [conn EXCEPT ![c] = k]
    BY <1>1, <1>5
  <2> HIDE DEF k
  <2> QED
    BY <1>3, <1>5, <2>1, <2>2
<1>6. CASE \E success \in BOOLEAN : Report(c, success)
  BY <1>2, <1>6, ReportKeeps
<1> QED
  BY <1>4, <1>5, <1>6 DEF settle, refreshAuth

\* The retry falls due.
LEMMA TimerKeeps == ASSUME IInv, NEW c \in Conn, timer(c) PROVE IInv'
<1>1. /\ calls \in Seq(Command) /\ Waiting(calls, conn, sync) /\ listening \in Conn \cup {0}
      /\ conn[c].at = "waiting" /\ UNCHANGED <<sync, listening>>
      /\ conn' = [conn EXCEPT ![c] = Top(conn[c])] /\ calls' = calls \o Asks(conn[c], c)
  BY DEF IInv, ShapeInv, timer
<1>2. \A i \in DOMAIN calls : Loop(calls[i]) => calls[i].of # c
  BY <1>1, Free
<1> QED
  BY <1>1, <1>2, TopKeeps

\* pause has returned: its connection has no request at the network, since its
\* loop awaits no cycle.
LEMMA PausedKeeps == ASSUME IInv, NEW c \in Conn, paused(c) PROVE IInv'
<1> DEFINE x == Stirred(conn[c])
           k == [x EXCEPT !.pausing = "no", !.quiet = conn[c].paused]
<1>1. /\ calls \in Seq(Command) /\ Waiting(calls, conn, sync) /\ listening \in Conn \cup {0}
      /\ DOMAIN conn = Conn /\ \A d \in Conn : DOMAIN conn[d] = Fields
      /\ CycleInv /\ QuietInv /\ ShapeInv
  BY DEF IInv, ShapeInv
<1>2. /\ conn[c].at \notin {"syncing", "synced"} /\ UNCHANGED <<sync, listening>>
      /\ conn' = [conn EXCEPT ![c] = k] /\ calls' = calls \o Wakes(conn[c], c)
  BY DEF paused
<1>3. /\ DOMAIN x = Fields /\ x.quiet = conn[c].quiet /\ x.paused = conn[c].paused
      /\ x.at = IF conn[c].at = "waiting" THEN (IF conn[c].stopped THEN "over" ELSE "asking")
                ELSE conn[c].at
  BY <1>1, AtTop, AtStirred
<1> HIDE DEF x
<1>4. DOMAIN k = Fields /\ k.quiet = conn[c].paused /\ k.paused = conn[c].paused /\ k.at = x.at
  BY <1>3 DEF Fields
<1> HIDE DEF k
<1>5. conn'[c] = k /\ DOMAIN conn' = Conn /\ \A d \in Conn \ {c} : conn'[d] = conn[d]
  BY <1>1, <1>2
<1>6. calls' \in Seq(Command) /\ Waiting(calls', conn', sync)
  <2>1. CASE conn[c].at = "waiting"
    <3>1. \A i \in DOMAIN calls : Loop(calls[i]) => calls[i].of # c
      BY <1>1, <2>1, Free
    <3>2. calls' = calls \o Asks(conn[c], c)
      BY <1>2, <2>1 DEF Wakes
    <3> QED
      BY <1>1, <1>3, <1>4, <1>5, <2>1, <3>1, <3>2, Asked
  <2>2. CASE conn[c].at # "waiting"
    <3>1. calls' = calls
      BY <1>1, <1>2, <2>2, NoCall DEF Wakes
    <3>2. \A d \in Conn : conn'[d].at = conn[d].at
      BY <1>3, <1>4, <1>5, <2>2
    <3>3. \A i \in DOMAIN calls : Loop(calls[i]) => calls[i].of \in Conn
      <4>1. \A i \in DOMAIN calls : calls[i] \in Command
        BY <1>1
      <4> QED
        BY <4>1 DEF Command, Loop, LoopOps
    <3>4. Waiting(calls, conn', sync)
      BY <1>1, <3>2, <3>3, Elsewhere
    <3> QED
      BY <1>1, <3>1, <3>4
  <2> QED
    BY <2>1, <2>2
<1>7. sync # [at |-> "sent", of |-> c]
  <2>1. [at |-> "sent", of |-> c] # NoSync
    BY DEF NoSync
  <2> QED
    BY <1>1, <1>2, <2>1 DEF CycleInv
<1>8. QuietInv'
  BY <1>1, <1>2, <1>4, <1>5, <1>7 DEF QuietInv
<1>9. CycleInv'
  BY <1>1, <1>2, <1>3, <1>4, <1>5 DEF CycleInv
<1>10. ShapeInv'
  BY <1>1, <1>2, <1>4, <1>5, <1>6 DEF ShapeInv
<1> QED
  BY <1>2, <1>6, <1>8, <1>9, <1>10 DEF IInv

\* The flags of a connection change; its request, if one is out, is aborted.
LEMMA AbortsKeep ==
  ASSUME IInv, NEW c \in Conn, NEW k, DOMAIN k = Fields, k.quiet = conn[c].quiet,
         conn[c].paused => k.paused,
         k.at = conn[c].at \/ (conn[c].at = "waiting" /\ k.at = "over"),
         NEW op \in Others, calls' = calls \o Call(op, c), Aborts(c, k), listening' \in Conn \cup {0}
  PROVE  IInv'
<1> DEFINE l == [conn EXCEPT ![c] = k]
<1>1. /\ ShapeInv /\ CycleInv /\ QuietInv /\ calls \in Seq(Command) /\ Waiting(calls, conn, sync)
      /\ DOMAIN conn = Conn /\ \A d \in Conn : DOMAIN conn[d] = Fields
  BY DEF IInv, ShapeInv
<1>2. DOMAIN l = Conn /\ l[c] = k /\ \A d \in Conn \ {c} : l[d] = conn[d]
  BY <1>1
<1>a. Aborts(c, k)
  OBVIOUS
<1>3. IF sync = [at |-> "sent", of |-> c] THEN sync' = NoSync /\ conn' = Ended(l, "aborted")
      ELSE conn' = l /\ sync' = sync
  BY <1>a DEF Aborts
<1> HIDE DEF l
<1>4. \A i \in DOMAIN calls : Loop(calls[i]) => l[calls[i].of].at = conn[calls[i].of].at
  <2> SUFFICES ASSUME NEW i \in DOMAIN calls, Loop(calls[i])
               PROVE  l[calls[i].of].at = conn[calls[i].of].at
    OBVIOUS
  <2>1. calls[i] \in Command
    BY <1>1
  <2>2. calls[i].of \in Conn
    BY <2>1 DEF Command, Loop, LoopOps
  <2>3. calls[i].of = c => conn[c].at # "waiting"
    BY <1>1, Free
  <2> QED
    BY <1>2, <2>2, <2>3
<1>5. Waiting(calls, l, sync)
  BY <1>1, <1>4, Elsewhere
<1>6. calls' \in Seq(Command) /\ Waiting(calls', l, sync)
  BY <1>1, <1>5, Told
<1>7. \A d \in Conn : DOMAIN l[d] = Fields /\ (l[d].quiet => l[d].paused)
  BY <1>1, <1>2 DEF QuietInv
<1>8. CASE sync = [at |-> "sent", of |-> c]
  <2>1. \A i \in DOMAIN calls' : ~ Cyclic(calls'[i])
    BY <1>6, <1>8 DEF Waiting
  <2> QED
    BY <1>2, <1>3, <1>6, <1>7, <1>8, <2>1, EndKeeps
<1>9. CASE sync # [at |-> "sent", of |-> c]
  <2>1. conn' = l /\ sync' = sync
    BY <1>3, <1>9
  <2>2. QuietInv'
    BY <1>1, <1>2, <1>9, <2>1 DEF QuietInv
  <2>3. CycleInv'
    BY <1>1, <1>2, <2>1 DEF CycleInv
  <2>4. ShapeInv'
    BY <1>1, <1>2, <1>6, <1>7, <2>1 DEF ShapeInv
  <2> QED
    BY <1>6, <2>1, <2>2, <2>3, <2>4 DEF IInv
<1> QED
  BY <1>8, <1>9

\* The application pauses a connection.
LEMMA PauseKeeps == ASSUME IInv, NEW c \in Conn, pause(c) PROVE IInv'
<1> DEFINE k == [conn[c] EXCEPT !.paused = TRUE, !.aborted = TRUE, !.pausing = "asked"]
<1>1. DOMAIN conn[c] = Fields /\ listening \in Conn \cup {0}
  BY DEF IInv, ShapeInv
<1>2. Aborts(c, k) /\ calls' = calls \o Call("pause", c) /\ listening' = listening
  BY DEF pause, Controls
<1>3. DOMAIN k = Fields /\ k.quiet = conn[c].quiet /\ k.paused /\ k.at = conn[c].at
  BY <1>1 DEF Fields
<1>4. "pause" \in Others
  BY DEF Others
<1> HIDE DEF k
<1> QED
  BY <1>1, <1>2, <1>3, <1>4, AbortsKeep

\* The application closes one.
LEMMA CloseKeeps == ASSUME IInv, NEW c \in Conn, close(c) PROVE IInv'
<1> DEFINE x == [conn[c] EXCEPT !.stopped = TRUE, !.aborted = TRUE]
           k == Stirred(x)
<1>1. DOMAIN conn[c] = Fields
  BY DEF IInv, ShapeInv
<1>2. Aborts(c, k) /\ calls' = calls \o Call("stop", c) /\ listening' = 0
  BY DEF close
<1>3. /\ DOMAIN x = Fields /\ x.quiet = conn[c].quiet /\ x.paused = conn[c].paused
      /\ x.at = conn[c].at /\ x.stopped
  BY <1>1 DEF Fields
<1> HIDE DEF x
<1>4. /\ DOMAIN k = Fields /\ k.quiet = conn[c].quiet /\ k.paused = conn[c].paused
      /\ k.at = conn[c].at \/ (conn[c].at = "waiting" /\ k.at = "over")
  BY <1>3, AtTop, AtStirred
<1>5. "stop" \in Others
  BY DEF Others
<1> HIDE DEF k
<1> QED
  BY <1>2, <1>4, <1>5, AbortsKeep

\* An application resumes, or wakes its connection.
LEMMA ResumeKeeps == ASSUME IInv, NEW c \in Conn, resume(c) \/ wake(c) PROVE IInv'
<1>1. /\ ShapeInv /\ CycleInv /\ QuietInv /\ calls \in Seq(Command) /\ Waiting(calls, conn, sync)
      /\ DOMAIN conn = Conn /\ \A d \in Conn : DOMAIN conn[d] = Fields
      /\ sync' = sync /\ listening' = listening
  BY DEF IInv, ShapeInv, resume, wake
<1>2. "resume" \in Others /\ "wake" \in Others
  BY DEF Others
<1>3. calls' = calls \o Call("resume", c) \/ calls' = calls \o Call("wake", c)
  BY DEF resume, wake, Controls
<1>4. \/ conn' = conn
      \/ conn' = [conn EXCEPT ![c].paused = FALSE, ![c].quiet = FALSE]
  BY DEF resume, wake
<1>5. /\ DOMAIN conn' = Conn
      /\ \A d \in Conn : /\ DOMAIN conn'[d] = Fields /\ conn'[d].at = conn[d].at
                         /\ conn'[d] = conn[d] \/ ~ conn'[d].quiet
  BY <1>1, <1>4 DEF Fields
<1>6. \A i \in DOMAIN calls : Loop(calls[i]) => calls[i].of \in Conn
  <2>1. \A i \in DOMAIN calls : calls[i] \in Command
    BY <1>1
  <2> QED
    BY <2>1 DEF Command, Loop, LoopOps
<1>7. Waiting(calls, conn', sync)
  BY <1>1, <1>5, <1>6, Elsewhere
<1>8. calls' \in Seq(Command) /\ Waiting(calls', conn', sync')
  BY <1>1, <1>2, <1>3, <1>7, Told
<1>9. QuietInv'
  BY <1>1, <1>5 DEF QuietInv
<1>10. CycleInv'
  BY <1>1, <1>5 DEF CycleInv
<1>11. ShapeInv'
  BY <1>1, <1>5, <1>8 DEF ShapeInv
<1> QED
  BY <1>8, <1>9, <1>10, <1>11 DEF IInv

\* The application opens one.
LEMMA ConnectKeeps == ASSUME IInv, NEW c \in Conn, connect(c) PROVE IInv'
<1> DEFINE k == [conn[c] EXCEPT !.at = "starting"]
           e == [op |-> "start", of |-> c]
<1>1. /\ ShapeInv /\ calls \in Seq(Command) /\ Waiting(calls, conn, sync) /\ listening \in Conn \cup {0}
      /\ DOMAIN conn = Conn /\ \A d \in Conn : DOMAIN conn[d] = Fields
      /\ UNCHANGED <<sync, listening>> /\ conn[c].at = "unborn"
  BY DEF IInv, ShapeInv, connect, Unborn
<1>2. DOMAIN k = Fields /\ k.quiet = conn[c].quiet /\ k.paused = conn[c].paused /\ k.at = "starting"
  BY <1>1 DEF Fields
<1>3. conn' = [conn EXCEPT ![c] = k] /\ calls' = calls \o <<e>>
  BY DEF connect, Call
<1>4. e \in Command /\ Loop(e) /\ ~ Cyclic(e) /\ Place(e.op) = "starting" /\ e.of = c
  BY DEF Command, Loop, LoopOps, Cyclic, CycleOps, Place
<1> HIDE DEF k, e
<1>5. DOMAIN conn' = Conn /\ conn'[c] = k /\ \A d \in Conn \ {c} : conn'[d] = conn[d]
  BY <1>1, <1>3
<1>6. \A i \in DOMAIN calls : Loop(calls[i]) => calls[i].of \in Conn \ {c}
  <2>1. \A i \in DOMAIN calls : calls[i] \in Command
    BY <1>1
  <2>2. \A i \in DOMAIN calls : Loop(calls[i]) => calls[i].of # c
    BY <1>1, Free
  <2> QED
    BY <2>1, <2>2 DEF Command, Loop, LoopOps
<1>7. Waiting(calls, conn', sync)
  BY <1>1, <1>5, <1>6, Elsewhere
<1>8. calls' \in Seq(Command) /\ Waiting(calls', conn', sync)
  BY <1>1, <1>2, <1>3, <1>4, <1>5, <1>6, <1>7, Queued
<1>9. Steady(conn')
  BY <1>1, <1>2, <1>5 DEF Steady
<1> QED
  BY <1>1, <1>5, <1>8, <1>9, SteadyKeeps

\* The server answers.
LEMMA AnswerKeeps == ASSUME IInv, answer PROVE IInv'
<1> DEFINE e == [op |-> "complete", of |-> sync.of]
<1>1. /\ ShapeInv /\ CycleInv /\ QuietInv /\ calls \in Seq(Command) /\ Waiting(calls, conn, sync)
      /\ sync.at = "sent" /\ sync # NoSync /\ UNCHANGED <<conn, listening>>
  BY DEF IInv, ShapeInv, answer, NoSync
<1>2. sync.of \in Conn /\ conn[sync.of].at = "syncing"
  BY <1>1 DEF CycleInv
<1>3. sync' = [at |-> "completing", of |-> sync.of] /\ calls' = calls \o <<e>>
  BY <1>1 DEF answer, ShapeInv, Call
<1>4. e \in Command /\ ~ Loop(e) /\ Cyclic(e) /\ e.of = sync.of
  BY <1>2 DEF Command, Loop, LoopOps, Cyclic, CycleOps
<1> HIDE DEF e
<1>5. \A i \in DOMAIN calls : ~ Cyclic(calls[i])
  BY <1>1 DEF Waiting
<1>6. Waiting(calls, conn, sync')
  BY <1>1, <1>5, Elsewhere
<1>7. calls' \in Seq(Command) /\ Waiting(calls', conn', sync')
  BY <1>1, <1>3, <1>4, <1>5, <1>6, Queued
<1> QED
  BY <1>1, <1>2, <1>3, <1>7 DEF IInv, ShapeInv, CycleInv, QuietInv

\* The request is lost.
LEMMA LoseKeeps == ASSUME IInv, lose PROVE IInv'
<1>1. /\ calls \in Seq(Command) /\ Waiting(calls, conn, sync) /\ listening \in Conn \cup {0}
      /\ DOMAIN conn = Conn /\ \A d \in Conn : DOMAIN conn[d] = Fields /\ (conn[d].quiet => conn[d].paused)
      /\ sync.at = "sent" /\ UNCHANGED <<calls, listening>>
      /\ sync' = NoSync /\ conn' = Ended(conn, "failed")
  BY DEF IInv, ShapeInv, QuietInv, lose
<1>2. \A i \in DOMAIN calls : ~ Cyclic(calls[i])
  BY <1>1 DEF Waiting
<1> QED
  BY <1>1, <1>2, EndKeeps

\* The application mutates.
LEMMA MutateKeeps == ASSUME IInv, mutate PROVE IInv'
<1> DEFINE e == [op |-> "mutate", of |-> 0]
<1>1. /\ calls \in Seq(Command) /\ Waiting(calls, conn, sync)
      /\ UNCHANGED <<conn, sync, listening>> /\ calls' = calls \o <<e>>
  BY DEF IInv, ShapeInv, mutate, Call
<1>2. e \in Command /\ ~ Loop(e) /\ ~ Cyclic(e)
  BY DEF Command, Loop, LoopOps, Cyclic, CycleOps
<1> HIDE DEF e
<1>3. calls' \in Seq(Command) /\ Waiting(calls', conn, sync)
  BY <1>1, <1>2, Queued
<1> QED
  BY <1>1, <1>3 DEF IInv, ShapeInv, CycleInv, QuietInv

\* Every step keeps the invariant.
LEMMA NextKeeps == ASSUME IInv, [Next]_vars PROVE IInv'
<1>1. CASE due \/ UNCHANGED vars
  BY <1>1 DEF due, vars, IInv, ShapeInv, CycleInv, QuietInv
<1>2. ASSUME NEW c \in Conn, Host(c) PROVE IInv'
  BY <1>2, DecideKeeps, SettleKeeps, TimerKeeps, PausedKeeps DEF Host
<1> QED
  BY <1>1, <1>2, RunKeeps, AnswerKeeps, LoseKeeps, MutateKeeps, ConnectKeeps, PauseKeeps,
     ResumeKeeps, CloseKeeps DEF Next

---------------------------------------------------------------------------

\* A fresh lane satisfies it.
LEMMA InitIs == Init => IInv
<1> SUFFICES ASSUME Init PROVE IInv
  OBVIOUS
<1>1. DOMAIN Unborn = Fields /\ ~ Unborn.quiet
  BY DEF Unborn, Fields
<1>2. ShapeInv
  BY <1>1 DEF Init, ShapeInv, NoSync
<1>3. Waiting(calls, conn, sync)
  BY DEF Init, Waiting
<1>4. CycleInv
  BY DEF Init, CycleInv
<1>5. QuietInv
  BY <1>1 DEF Init, QuietInv
<1> QED
  BY <1>2, <1>3, <1>4, <1>5 DEF IInv

\* startPushLane, ConnectionDriver: each connection of the queue is where its
\* calls say, one cycle is in flight, and a paused connection is out of it.
THEOREM Inductive == Spec => []IInv
<1>1. Init => IInv
  BY InitIs
<1>2. IInv /\ [Next]_vars => IInv'
  BY NextKeeps
<1> QED
  BY <1>1, <1>2, PTL DEF Spec

\* pause: once it has returned, the connection has no request at the network,
\* and starts none before it is resumed, whatever was decided before.
THEOREM QuietWhenPaused == Spec => []PausedIsQuiet
<1>1. IInv => PausedIsQuiet
  BY DEF IInv, QuietInv, PausedIsQuiet
<1> QED
  BY <1>1, Inductive, PTL

===========================================================================
