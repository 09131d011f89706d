---------------------------- MODULE ServerLive ----------------------------
(***************************************************************************)
(* One live socket of the server: the state machine Subscriptions of       *)
(* crates/server/src/live.rs, driven by serveLive of packages/server/      *)
(* index.mts, woken by the commits of other requests through WakeHub.      *)
(*                                                                         *)
(* JavaScript runs one job at a time: wakes are microtasks and a finished  *)
(* pull is a promise continuation, so both wait in `jobs`.  A pull is one  *)
(* REPEATABLE READ transaction that spans many awaits: commits, and the    *)
(* wakes they cause, come between its snapshot and its page.  What it      *)
(* reads is the subject of module Distribution.                            *)
(***************************************************************************)
EXTENDS Integers, Sequences, FiniteSets, SequencesExt

CONSTANTS
  Channel,
  PullChanges,    \* limits::PULL_CHANGES
  MaxHead, MaxPositions   \* bounds: positions of a channel, and of all of them

ASSUME ServerLiveAssumption ==
  /\ MaxHead \in Nat /\ MaxPositions \in Nat /\ PullChanges \in Nat \ {0}
  /\ IsFiniteSet(Channel)

VARIABLES
  head,           \* the committed head of every channel
  unnotified,     \* commits whose request has not come to notify yet
  socket,         \* "open", "closing" (by the server) or "closed"
  phase,          \* of serveLive: "handshake", "negotiated", "open" or "released"
  heads,          \* the heads negotiated
  scopes,         \* Subscriptions::scopes, cursor and pending of each
  running,        \* Subscriptions::running, the cursors of the outstanding pull
  closed,         \* Subscriptions::closed
  pulls,          \* pulls the host runs: what each is asked, the heads in its snapshot
  jobs,           \* events of this socket waiting for the event loop
  told            \* where the frames sent take a client that can follow them

session == <<scopes, running, closed>>
vars == <<head, unnotified, socket, phase, heads, session, pulls, jobs, told>>

None == << >>

Committed(c) == [type |-> "committed", scope |-> c]
Pulled(page) == [type |-> "pulled", page |-> page]

\* A transaction the host has begun, that has read nothing yet.
Pull(asked) == [asked |-> asked, snapshot |-> None]

Cursors(s) == [c \in DOMAIN s |-> s[c].cursor]

---------------------------------------------------------------------------
(* Other requests *)

\* A transaction that publishes on C commits ...
commit(C) ==
  /\ \A c \in C : head[c] < MaxHead
  /\ FoldFunction(+, Cardinality(C), head) <= MaxPositions
  /\ head' = [c \in Channel |-> IF c \in C THEN head[c] + 1 ELSE head[c]]
  /\ unnotified' = unnotified \cup {[channels |-> C, at |-> head']}
  /\ UNCHANGED <<socket, phase, heads, session, pulls, jobs, told>>

\* ... and its continuation queues a microtask for every listener.
notify(n) ==
  /\ unnotified' = unnotified \ {n}
  /\ jobs' = jobs \o (IF phase = "open"
                      THEN LET C == SetToSeq(n.channels \cap DOMAIN scopes) IN
                           [i \in DOMAIN C |-> Committed(C[i])]
                      ELSE << >>)
  /\ UNCHANGED <<head, socket, phase, heads, session, pulls, told>>

---------------------------------------------------------------------------
(* The handshake *)

\* The first frame subscribes to C; the heads are read in one transaction.
negotiate(C) ==
  /\ phase = "handshake" /\ socket = "open"
  /\ phase' = "negotiated"
  /\ heads' = [c \in C |-> head[c]]
  /\ UNCHANGED <<head, unnotified, socket, session, pulls, jobs, told>>

\* The subscribe frame is malformed or refused.
refuse ==
  /\ phase = "handshake"
  /\ phase' = "released"
  /\ socket' = IF socket = "open" THEN "closing" ELSE socket
  /\ UNCHANGED <<head, unnotified, heads, session, pulls, jobs, told>>

\* Mutant: it starts from the heads at the opening, not from those acknowledged.
FirstPull_now == LET now == [c \in DOMAIN heads |-> head[c]] IN [running |-> now, pulls |-> <<Pull(now)>>]

\* Every scope is pulled once from its negotiated head.
FirstPull == [running |-> heads, pulls |-> <<Pull(heads)>>]

\* Listen to every scope, acknowledge, pull; a socket that is gone is released.
open ==
  /\ phase = "negotiated"
  /\ IF socket = "open"
     THEN /\ phase' = "open"
          /\ scopes' = [c \in DOMAIN heads |-> [cursor |-> heads[c], pending |-> FALSE]]
          /\ running' = FirstPull.running
          /\ pulls' = FirstPull.pulls
          /\ told' = heads
          /\ UNCHANGED closed
     ELSE /\ phase' = "released"
          /\ UNCHANGED <<session, pulls, told>>
  /\ UNCHANGED <<head, unnotified, socket, heads, jobs>>

---------------------------------------------------------------------------
(* Pulls *)

\* The first statement of the transaction fixes its snapshot.
begin(i) ==
  /\ pulls[i].snapshot = None
  /\ pulls' = [pulls EXCEPT ![i].snapshot = [c \in DOMAIN pulls[i].asked |-> head[c]]]
  /\ UNCHANGED <<head, unnotified, socket, phase, heads, session, jobs, told>>

\* A page goes to the head in the snapshot, or stops short of it when the
\* channel has at least PullChanges invalidations.
Ends(from, top) == {top} \cup {n \in from + PullChanges .. top : TRUE}

\* The transaction has ended and the page of its snapshot is on its way.
read(i) ==
  LET asked == pulls[i].asked
      snapshot == pulls[i].snapshot IN
  /\ snapshot # None
  /\ \E to \in [DOMAIN asked -> 0..MaxHead] :
       /\ \A c \in DOMAIN asked : to[c] \in Ends(asked[c], snapshot[c])
       /\ jobs' = Append(jobs, Pulled([c \in DOMAIN asked |->
                    [from |-> asked[c], to |-> to[c], head |-> snapshot[c]]]))
  /\ pulls' = RemoveAt(pulls, i)
  /\ UNCHANGED <<head, unnotified, socket, phase, heads, session, told>>

\* The transaction fails: the server closes the socket.
pull_failed(i) ==
  /\ pulls' = RemoveAt(pulls, i)
  /\ socket' = IF socket = "open" THEN "closing" ELSE socket
  /\ UNCHANGED <<head, unnotified, phase, heads, session, jobs, told>>

---------------------------------------------------------------------------
(* Events of the session *)

\* The pending flags of what a pull is asked for are cleared with the asking.
Cleared(s) == [c \in DOMAIN s |-> [s[c] EXCEPT !.pending = FALSE]]

\* One pull for all pending scopes, if there are any.
next_pull(s) ==
  LET P == {c \in DOMAIN s : s[c].pending}
      asked == [c \in P |-> s[c].cursor] IN
  IF P = {} THEN scopes' = s /\ running' = None /\ pulls' = pulls
  ELSE scopes' = Cleared(s) /\ running' = asked /\ pulls' = Append(pulls, Pull(asked))

\* Mutant: a commit on a channel that is being pulled is left to that pull.
Marked_covered(c) == [scopes EXCEPT ![c].pending = c \notin DOMAIN running]
Marked(c) == [scopes EXCEPT ![c].pending = TRUE]

\* Mutant: a session that is pulling pulls again.
Busy_closed == closed
Busy == closed \/ running # None

committed(c) ==
  /\ IF Busy
     THEN scopes' = Marked(c) /\ UNCHANGED <<running, pulls>>
     ELSE next_pull(Marked(c))
  /\ UNCHANGED <<socket, told>>

\* An event the session cannot accept is reported and closes the socket.
invalid ==
  /\ socket' = IF socket = "open" THEN "closing" ELSE socket
  /\ UNCHANGED <<scopes, pulls, told>>

\* A page that stops short of the head.
Continues(r) == r.to < r.head

Answers(page) ==
  /\ DOMAIN page = DOMAIN running
  /\ \A c \in DOMAIN page : page[c].from = running[c]

\* A client follows a page only from where it is, and is lost otherwise.
Follow(page) ==
  IF \A c \in DOMAIN page : c \in DOMAIN told /\ page[c].from = told[c]
  THEN [c \in DOMAIN told |-> IF c \in DOMAIN page THEN page[c].to ELSE told[c]]
  ELSE None

pulled(page) ==
  IF running = None \/ (~ closed /\ ~ Answers(page))
  THEN running' = None /\ invalid
  ELSE /\ IF closed
          THEN running' = None /\ UNCHANGED <<scopes, pulls, told>>
          ELSE /\ told' = IF socket = "open" /\ \E c \in DOMAIN page : page[c].to > page[c].from
                          THEN Follow(page) ELSE told
               /\ next_pull([c \in DOMAIN scopes |->
                    IF c \in DOMAIN page
                    THEN [cursor |-> page[c].to, pending |-> scopes[c].pending \/ Continues(page[c])]
                    ELSE scopes[c]])
       /\ UNCHANGED socket

\* One job of the event loop; after the release nothing is dispatched.
dispatch ==
  /\ jobs # << >>
  /\ jobs' = Tail(jobs)
  /\ IF phase = "released" THEN UNCHANGED <<socket, session, pulls, told>>
     ELSE LET event == Head(jobs) IN
          /\ \/ event.type = "committed" /\ committed(event.scope)
             \/ event.type = "pulled" /\ pulled(event.page)
          /\ UNCHANGED closed
  /\ UNCHANGED <<head, unnotified, phase, heads>>

---------------------------------------------------------------------------
(* The end of the socket *)

Silent(s) == [c \in DOMAIN s |-> [s[c] EXCEPT !.pending = FALSE]]

\* A second frame of the client is a protocol violation.
second_frame ==
  /\ phase # "handshake" /\ socket = "open"
  /\ socket' = "closing"
  /\ UNCHANGED <<head, unnotified, phase, heads, session, pulls, jobs, told>>

\* The socket ends: LiveEvent::Closed.
socket_closed ==
  /\ socket # "closed"
  /\ socket' = "closed"
  /\ closed' = (closed \/ phase = "open")
  /\ scopes' = Silent(scopes)
  /\ UNCHANGED <<head, unnotified, phase, heads, running, pulls, jobs, told>>

\* The finally of serveLive: listeners off, the handle closed.
release ==
  /\ phase = "open" /\ socket = "closed"
  /\ phase' = "released"
  /\ UNCHANGED <<head, unnotified, socket, heads, session, pulls, jobs, told>>

---------------------------------------------------------------------------
Init ==
  /\ head = [c \in Channel |-> 0]
  /\ unnotified = {}
  /\ socket = "open" /\ phase = "handshake"
  /\ heads = None /\ scopes = None /\ running = None /\ closed = FALSE
  /\ pulls = << >> /\ jobs = << >>
  /\ told = None

Next ==
  \/ \E C \in (SUBSET Channel) \ {{}} : commit(C) \/ negotiate(C)
  \/ \E n \in unnotified : notify(n)
  \/ refuse \/ open \/ dispatch \/ second_frame \/ socket_closed \/ release
  \/ \E i \in DOMAIN pulls : begin(i) \/ read(i) \/ pull_failed(i)

Spec == Init /\ [][Next]_vars

\* The event loop goes on: commits come to notify, a pull's transaction begins
\* and ends one way or the other, jobs run.
FairSpec ==
  /\ Spec
  /\ WF_vars(\E n \in unnotified : notify(n))
  /\ WF_vars(\E i \in DOMAIN pulls : begin(i) \/ read(i) \/ pull_failed(i))
  /\ WF_vars(dispatch)

---------------------------------------------------------------------------
(* Properties *)

\* Positions stay within the heads, and the host runs the one pull the session
\* takes to be outstanding.
TypeOK ==
  /\ head \in [Channel -> 0..MaxHead]
  /\ \A n \in unnotified : n.channels \subseteq Channel
  /\ socket \in {"open", "closing", "closed"}
  /\ phase \in {"handshake", "negotiated", "open", "released"}
  /\ \A c \in DOMAIN scopes : scopes[c].cursor \in 0..head[c] /\ scopes[c].pending \in BOOLEAN
  /\ closed \in BOOLEAN
  /\ \A i \in DOMAIN pulls : pulls[i].asked = running
  /\ Len(pulls) <= 1

\* No commit falls between two pulls: while the session is open, whatever a
\* channel holds beyond the session's cursor is going to be pulled - the
\* transaction outstanding has the head in its snapshot or has yet to take it,
\* or the channel is pending behind that pull, or a page about to arrive
\* reaches the head or says that it continues, or a wake is on its way.  A
\* commit after the snapshot is in none of the pages: its wake alone remains.
WakeComing(c) ==
  \/ \E n \in unnotified : c \in n.channels
  \/ Committed(c) \in ToSet(jobs)
PageComing(c) ==
  \E e \in ToSet(jobs) : /\ e.type = "pulled" /\ c \in DOMAIN e.page
                         /\ (e.page[c].to = head[c] \/ Continues(e.page[c]))
Reads(pull, c) ==
  c \in DOMAIN pull.asked /\ (pull.snapshot = None \/ pull.snapshot[c] = head[c])
NoLostWake ==
  phase = "open" /\ socket = "open" =>
    \A c \in DOMAIN scopes :
      \/ scopes[c].cursor = head[c]
      \/ running # None /\ (scopes[c].pending \/ \E i \in DOMAIN pulls : Reads(pulls[i], c))
      \/ PageComing(c)
      \/ WakeComing(c)

\* The socket is the stream its client relies on: an acknowledgement that no
\* commit can overtake, pages that follow on without a gap, and nothing after
\* the end.
Stream == INSTANCE LiveStream WITH
  stage <- IF socket # "open" \/ phase = "released" THEN "ended"
           ELSE IF phase = "open" THEN "open" ELSE "connecting"
Streams == Stream!Spec

\* Every commit on a subscribed channel is sent, or the socket ends.
FollowsHead == Stream!FollowsHead

===========================================================================
