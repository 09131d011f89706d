-------------------------- MODULE ClientLiveProofs --------------------------
(***************************************************************************)
(* A cursor covers only what was delivered (CursorCoversDelivered), and a  *)
(* session that waits for its next frame holds all it was told of          *)
(* (NothingPassedOver), for any channels, buffers and page sizes.  The     *)
(* second needs to know where everything the server has sent, and the      *)
(* session does not hold yet, still is: in the host's buffer, with a       *)
(* command that waits, in the session's queue, in an answer that has been  *)
(* read that far or is still to be read, or owed by another pull (Ahead);  *)
(* the buffer that overflowed counts until the session was told so.  The   *)
(* first frame's heads stand in for what was sent before the session was   *)
(* acknowledged (GreetInv).                                                *)
(*                                                                         *)
(* The proof follows the code: what each operator of ClientLive does to a  *)
(* lane is a lemma, a command (Commanded) is put together from them, and   *)
(* the steps from that.                                                    *)
(***************************************************************************)
EXTENDS ClientLive, SequenceTheorems, FiniteSetTheorems, WellFoundedInduction, TLAPS

---------------------------------------------------------------------------
(* What the fields hold, under heads h *)

Positions(h) == {p \in UNION {[D -> Nat] : D \in SUBSET Channel} : \A c \in DOMAIN p : p[c] <= h[c]}

Page(h) == {p \in UNION {[D -> [from : Nat, to : Nat]] : D \in SUBSET Channel} :
              \A c \in DOMAIN p : p[c].to <= h[c]}

Answer(h) == {p \in UNION {[D -> [from : Nat, to : Nat, head : Nat]] : D \in SUBSET Channel} :
                \A c \in DOMAIN p : p[c].to <= h[c]}

Frame(h) == [type : {"subscribed"}, heads : Positions(h)] \cup [type : {"page"}, page : Page(h)]

Event(h) ==
  [type : {"start", "wake", "pause", "resume", "next"}]
  \cup [type : {"channel"}, channel : Channel, subscribed : BOOLEAN]
  \cup [type : {"closed", "overflow"}, epoch : Nat]
  \cup [type : {"message"}, epoch : Nat, frame : Frame(h)]
  \cup [type : {"catchUp"}, epoch : Nat, page : Answer(h)]

Cursors(h) == {p \in [Channel -> Nat \cup {Unsubscribed}] : \A c \in Channel : p[c] <= h[c]}

Session(h) == [epoch : Nat, generation : Nat, channels : SUBSET Channel, acknowledged : BOOLEAN,
               active : Positions(h), again : BOOLEAN, queue : Seq(Page(h))]

Host == [epoch : Nat, channels : SUBSET Channel, ended : BOOLEAN]

Requests(h) == [cursors : Positions(h), heads : Positions(h)]

Asked == [cursors : UNION {[D -> Nat] : D \in SUBSET Channel},
            epochs : UNION {[D -> Nat] : D \in SUBSET Channel}]

Lane(h) ==
  [cursor : Cursors(h), epochs : [Channel -> Nat], generation : Nat, issued : Seq(Asked),
   paused : BOOLEAN, dirty : BOOLEAN, in_flight : BOOLEAN, backoff : BOOLEAN, epoch : Nat,
   session : {None} \cup Session(h), host : {None} \cup Host, timer : BOOLEAN,
   stage : {"connecting", "open", "ended"}, told : Positions(h), frames : Seq(Frame(h)),
   overflowed : BOOLEAN, draining : BOOLEAN, http : {None} \cup Requests(h), calls : Seq(Event(h)),
   applied : Seq(Page(h) \cup Answer(h)), dropped : BOOLEAN]

Heads == [Channel -> Nat]

ShapeInv == head \in Heads /\ lane \in Lane(head) /\ lane.applied = << >> /\ ~ lane.dropped
            /\ got \in [Channel -> SUBSET Int]

---------------------------------------------------------------------------
(* The invariant *)

\* Events of a session, and of the one the lane has: frames, answers.
OfSession(e) == e.type \in {"closed", "overflow", "message", "catchUp"}
Framed(l, e) == e.type \in {"message", "overflow"} /\ e.epoch = l.session.epoch
Answers(l, e) == e.type = "catchUp" /\ e.epoch = l.session.epoch

\* The engine's session and the host's: the host streams for the session the
\* engine holds, or has ended; a request is the one the session waits for.
LinkInv(l) ==
  /\ l.host # None => l.host.epoch <= l.epoch
  /\ l.session # None =>
       /\ l.in_flight /\ l.session.epoch = l.epoch /\ l.session.generation <= l.generation
       /\ ~ l.session.acknowledged => l.session.active = None /\ l.session.queue = << >>
       /\ Len(l.session.queue) <= QUEUED_FRAMES
  /\ Streaming(l) => /\ l.session # None /\ l.host.epoch = l.session.epoch
                     /\ l.host.channels = l.session.channels
                     /\ l.stage # "ended"
  /\ ~ Streaming(l) => l.http = None /\ l.stage = "ended" /\ l.frames = << >> /\ ~ l.overflowed
  /\ l.http # None =>
       /\ l.session.active = l.http.cursors /\ l.session.active # None
       /\ l.http.heads = None \/ DOMAIN l.http.heads = DOMAIN l.http.cursors
  /\ l.stage = "connecting" => l.frames = << >> /\ ~ l.overflowed /\ ~ l.draining /\ ~ l.session.acknowledged
  /\ l.stage = "open" => DOMAIN l.told = l.host.channels
  /\ Len(l.frames) <= BUFFERED_FRAMES

\* Commands that wait are of no later session; of the present one, one frame
\* at most and one answer, to what the session asked for.
CallsInv(l) ==
  /\ \A i \in DOMAIN l.calls : OfSession(l.calls[i]) => l.calls[i].epoch <= l.epoch
  /\ l.session # None =>
       /\ \A i, j \in DOMAIN l.calls : Framed(l, l.calls[i]) /\ Framed(l, l.calls[j]) => i = j
       /\ \A i, j \in DOMAIN l.calls : Answers(l, l.calls[i]) /\ Answers(l, l.calls[j]) => i = j
       /\ \A i \in DOMAIN l.calls : Answers(l, l.calls[i]) =>
            l.http = None /\ l.session.active # None /\ From(l.calls[i].page) = l.session.active

\* The session's subscription has not changed since.
Upheld(l) == l.session # None /\ l.session.generation = l.generation

\* A session whose subscription still holds asks for its cursors as they are,
\* and the ledger knows the request by its present epochs.
LedgerInv(l) ==
  Upheld(l) =>
    /\ l.session.channels = Subscribed(l) /\ Subscribed(l) # {}
    /\ l.session.active # None =>
         /\ l.session.active = [c \in Subscribed(l) |-> l.cursor[c]]
         /\ \E i \in DOMAIN l.issued : /\ l.issued[i].cursors = l.session.active
                                       /\ l.issued[i].epochs = Epochs(l, Subscribed(l))

\* A page, or one of the host's frames, that takes channel c to n.
Reaches(page, c, n) == c \in DOMAIN page /\ page[c].to >= n
InFrames(l, c, n) == \E i \in DOMAIN l.frames : l.frames[i].type = "page" /\ Reaches(l.frames[i].page, c, n)

\* The answer of a request under way is still to be read, or was read when the
\* server had told the session no more of channel c than the answer holds.
Unread(l) == l.http # None /\ l.http.heads = None
Coming(l, c) == Unread(l) \/ (l.http # None /\ l.http.heads # None /\ l.http.heads[c] >= l.told[c])

\* What the server told the session of channel c is still to come, with the
\* commands E that wait.
Ahead(l, E, c) ==
  \/ l.overflowed
  \/ Coming(l, c)
  \/ l.session.active # None /\ l.session.again
  \/ \E e \in E : e.type = "overflow" /\ e.epoch = l.session.epoch
  \/ \E e \in E : Answers(l, e) /\ e.page[c].head >= l.told[c]
  \/ \E e \in E : /\ e.type = "message" /\ e.epoch = l.session.epoch
                  /\ e.frame.type = "page" /\ Reaches(e.frame.page, c, l.told[c])
  \/ \E i \in DOMAIN l.session.queue : Reaches(l.session.queue[i], c, l.told[c])
  \/ InFrames(l, c, l.told[c])

Told(l) == Upheld(l) /\ l.stage = "open"

\* An acknowledged session holds what it was told, or it is still to come.
CoverInv(l, E) ==
  Told(l) /\ l.session.acknowledged =>
    \A c \in l.session.channels : l.cursor[c] >= l.told[c] \/ Ahead(l, E, c)

\* Before the acknowledgement is handled, its frame is the first, and says of
\* every channel all that no later frame holds.
GreetInv(l, E) ==
  Told(l) /\ ~ l.session.acknowledged =>
    /\ \A e \in E : e.type = "message" /\ e.epoch = l.session.epoch /\ e.frame.type = "subscribed" =>
         /\ DOMAIN e.frame.heads = l.session.channels
         /\ \A c \in l.session.channels :
              e.frame.heads[c] >= l.told[c] \/ l.overflowed \/ InFrames(l, c, l.told[c])
    /\ \A i \in DOMAIN l.frames : l.frames[i].type = "subscribed" =>
         /\ i = 1 /\ ~ l.overflowed
         /\ DOMAIN l.frames[i].heads = l.session.channels
         /\ \A c \in l.session.channels :
              l.frames[i].heads[c] >= l.told[c] \/ InFrames(l, c, l.told[c])

---------------------------------------------------------------------------
(* Induction.  The library's induction theorem takes a formula; a set of   *)
(* numbers and its least element serve as well.                            *)

\* A set of natural numbers that is not empty has a least element.
LEMMA Least ==
  ASSUME NEW T, T \subseteq Nat, T # {}
  PROVE  \E x \in T : \A y \in T : x <= y
<1> DEFINE R == OpToRel(<, Nat)
<1>1. IsWellFoundedOn(R, Nat)
  BY NatLessThanWellFounded
<1>2. \A x, y \in Nat : y < x => <<y, x>> \in R
  BY DEF OpToRel
<1> HIDE DEF R
<1>3. PICK x \in T : \A y \in T : ~ (<<y, x>> \in R)
  BY <1>1, WFMin
<1>4. \A y \in T : ~ (y < x)
  BY <1>2, <1>3
<1> QED
  BY <1>4, SMT

\* A set with zero, and with the successor of what is in it, has every number.
LEMMA Induct ==
  ASSUME NEW T, 0 \in T, \A n \in Nat : n \in T => n + 1 \in T
  PROVE  \A n \in Nat : n \in T
<1> SUFFICES ASSUME Nat \ T # {} PROVE FALSE
  OBVIOUS
<1>1. PICK x \in Nat \ T : \A y \in Nat \ T : x <= y
  BY Least
<1>2. x # 0 /\ x - 1 \in Nat /\ x - 1 \in T
  BY <1>1
<1> QED
  BY <1>1, <1>2

\* A sequence with one more element.
LEMMA AppendElements ==
  ASSUME NEW S, NEW s \in Seq(S), NEW e \in S
  PROVE  ToSet(Append(s, e)) = ToSet(s) \cup {e}
<1> DEFINE r == Append(s, e)
<1>1. /\ Len(s) \in Nat /\ DOMAIN s = 1..Len(s) /\ DOMAIN r = 1..(Len(s) + 1)
      /\ r[Len(s) + 1] = e /\ \A i \in 1..Len(s) : r[i] = s[i]
  OBVIOUS
<1> HIDE DEF r
<1>2. ToSet(r) = ToSet(s) \cup {e}
  BY <1>1 DEF ToSet
<1> QED
  BY <1>2 DEF r

---------------------------------------------------------------------------
(* Types *)

\* What receive_downlink is given.
Pages(h) == Page(h) \cup Answer(h)

\* The fields that receiving pages and asking for them leaves alone.
Outside(l, k) ==
  /\ k.epochs = l.epochs /\ k.generation = l.generation /\ k.paused = l.paused
  /\ k.dirty = l.dirty /\ k.in_flight = l.in_flight /\ k.backoff = l.backoff
  /\ k.epoch = l.epoch /\ k.host = l.host /\ k.timer = l.timer /\ k.stage = l.stage
  /\ k.told = l.told /\ k.frames = l.frames /\ k.overflowed = l.overflowed
  /\ k.draining = l.draining /\ k.calls = l.calls

\* The shape of a page and of an answer.
LEMMA PageShape ==
  ASSUME NEW h \in Heads, NEW p \in Pages(h)
  PROVE  /\ DOMAIN p \subseteq Channel
         /\ \A c \in DOMAIN p : p[c].from \in Nat /\ p[c].to \in Nat /\ p[c].to <= h[c]
         /\ From(p) = [c \in DOMAIN p |-> p[c].from]
         /\ From(p) \in UNION {[D -> Nat] : D \in SUBSET Channel}
         /\ p \in Answer(h) => \A c \in DOMAIN p : p[c].head \in Nat
BY DEF Pages, Page, Answer, From, Heads

\* What each field of a lane holds.
LEMMA LaneFields ==
  ASSUME NEW h, NEW l \in Lane(h)
  PROVE  /\ l.cursor \in Cursors(h) /\ l.epochs \in [Channel -> Nat] /\ l.generation \in Nat
         /\ l.issued \in Seq(Asked) /\ l.epoch \in Nat /\ l.session \in {None} \cup Session(h)
         /\ l.host \in {None} \cup Host /\ l.told \in Positions(h) /\ l.frames \in Seq(Frame(h))
         /\ l.http \in {None} \cup Requests(h) /\ l.calls \in Seq(Event(h))
         /\ l.applied \in Seq(Pages(h)) /\ l.dropped \in BOOLEAN
         /\ l.paused \in BOOLEAN /\ l.dirty \in BOOLEAN /\ l.in_flight \in BOOLEAN
         /\ l.backoff \in BOOLEAN /\ l.timer \in BOOLEAN /\ l.overflowed \in BOOLEAN
         /\ l.draining \in BOOLEAN
BY DEF Lane, Pages

\* The fields of a lane.
Fields ==
  {"cursor", "epochs", "generation", "issued", "paused", "dirty", "in_flight", "backoff", "epoch",
   "session", "host", "timer", "stage", "told", "frames", "overflowed", "draining", "http",
   "calls", "applied", "dropped"}

\* A lane has just those fields.
LEMMA LaneDomain ==
  ASSUME NEW h, NEW l \in Lane(h)
  PROVE  DOMAIN l = Fields
BY DEF Lane, Fields

\* Other values of its flags leave a lane one.
Flags ==
  {"paused", "dirty", "in_flight", "backoff", "timer", "overflowed", "draining", "dropped"}

LEMMA FlagsSet ==
  ASSUME NEW h, NEW l \in Lane(h), NEW k, k = [f \in Fields |-> k[f]],
         \A f \in Fields \ Flags : k[f] = l[f], \A f \in Flags : k[f] \in BOOLEAN
  PROVE  k \in Lane(h)
<1>1. /\ k.cursor = l.cursor /\ k.epochs = l.epochs /\ k.generation = l.generation
      /\ k.issued = l.issued /\ k.epoch = l.epoch /\ k.session = l.session /\ k.host = l.host
      /\ k.stage = l.stage /\ k.told = l.told /\ k.frames = l.frames /\ k.http = l.http
      /\ k.calls = l.calls /\ k.applied = l.applied
  BY DEF Fields, Flags
<1>2. /\ k.paused \in BOOLEAN /\ k.dirty \in BOOLEAN /\ k.in_flight \in BOOLEAN
      /\ k.backoff \in BOOLEAN /\ k.timer \in BOOLEAN /\ k.overflowed \in BOOLEAN
      /\ k.draining \in BOOLEAN /\ k.dropped \in BOOLEAN
  BY DEF Flags
<1>3. /\ k.cursor \in Cursors(h) /\ k.epochs \in [Channel -> Nat] /\ k.generation \in Nat
      /\ k.issued \in Seq(Asked) /\ k.epoch \in Nat /\ k.session \in {None} \cup Session(h)
      /\ k.host \in {None} \cup Host /\ k.stage \in {"connecting", "open", "ended"}
      /\ k.told \in Positions(h) /\ k.frames \in Seq(Frame(h)) /\ k.http \in {None} \cup Requests(h)
      /\ k.calls \in Seq(Event(h)) /\ k.applied \in Seq(Page(h) \cup Answer(h))
  BY <1>1 DEF Lane
<1> QED BY <1>2, <1>3 DEF Lane, Fields

\* What is left of a sequence has its elements.
LEMMA RemoveAtElements ==
  ASSUME NEW S, NEW s \in Seq(S), NEW i \in DOMAIN s
  PROVE  RemoveAt(s, i) \in Seq(S)
BY DEF RemoveAt

\* The ledger stays a ledger; a page that answers a current request is not stale.
LEMMA JudgementShape ==
  ASSUME NEW h \in Heads, NEW l \in Lane(h), NEW p \in Pages(h)
  PROVE  /\ Judgement(l, p).issued \in Seq(Asked)
         /\ Judgement(l, p).stale \in BOOLEAN
         /\ (\E i \in DOMAIN l.issued : /\ l.issued[i].cursors = From(p)
                                        /\ l.issued[i].epochs = Epochs(l, DOMAIN p))
              => ~ Judgement(l, p).stale
<1> DEFINE q == l.issued
           E == Epochs(l, DOMAIN p)
           alike == {i \in DOMAIN q : q[i].cursors = From(p)}
           current == {i \in alike : q[i].epochs = E}
           first(I) == CHOOSE i \in I : \A j \in I : i <= j
           renewed == [i \in DOMAIN q |-> IF i \in alike THEN [q[i] EXCEPT !.epochs = E] ELSE q[i]]
<1>1. q \in Seq(Asked) /\ E \in UNION {[D -> Nat] : D \in SUBSET Channel}
  BY LaneFields, PageShape DEF Epochs
<1>2. \A I \in SUBSET DOMAIN q : I # {} => first(I) \in DOMAIN q
  <2> SUFFICES ASSUME NEW I \in SUBSET DOMAIN q, I # {} PROVE first(I) \in DOMAIN q
    OBVIOUS
  <2>1. I \subseteq Nat
    BY <1>1
  <2>2. \E i \in I : \A j \in I : i <= j
    BY <2>1, Least
  <2> QED
    BY <2>2
<1>3. renewed \in Seq(Asked)
  <2>1. \A i \in DOMAIN q : q[i] \in Asked
    BY <1>1
  <2>2. \A i \in DOMAIN q : renewed[i] \in Asked
    BY <1>1, <2>1 DEF Asked
  <2>3. DOMAIN q = 1..Len(q) /\ Len(q) \in Nat
    BY <1>1
  <2>4. renewed \in [1..Len(q) -> Asked]
    BY <2>2, <2>3
  <2> HIDE DEF renewed
  <2> QED
    BY <2>3, <2>4
<1> HIDE DEF first, renewed
<1>4. Judgement(l, p) =
        IF current # {} THEN [stale |-> FALSE, issued |-> RemoveAt(renewed, first(current))]
        ELSE IF alike # {} THEN [stale |-> TRUE, issued |-> RemoveAt(q, first(alike))]
        ELSE [stale |-> FALSE, issued |-> q]
  BY DEF Judgement, first, renewed
<1>5. DOMAIN renewed = DOMAIN q
  BY DEF renewed
<1>6. current # {} => RemoveAt(renewed, first(current)) \in Seq(Asked)
  BY <1>2, <1>3, <1>5, RemoveAtElements
<1>7. alike # {} => RemoveAt(q, first(alike)) \in Seq(Asked)
  BY <1>1, <1>2, RemoveAtElements
<1> QED
  BY <1>1, <1>4, <1>6, <1>7

---------------------------------------------------------------------------
(* Receiving a page *)

\* What receiving page p does: positions of subscribed channels move up, to
\* the end of a page that was applied or covered; what moved was delivered.
Receives(h, l, k, d, p) ==
  /\ k \in Lane(h) /\ Outside(l, k)
  /\ k.session = l.session /\ k.http = l.http /\ k.dropped = l.dropped
  /\ d \in {"applied", "covered", "stale", "recover"}
  /\ \A c \in Channel : k.cursor[c] >= l.cursor[c]
  /\ Subscribed(k) = Subscribed(l)
  /\ d \in {"stale", "recover"} => k.cursor = l.cursor
  /\ d \in {"applied", "covered"} => \A c \in DOMAIN p \cap Subscribed(l) : k.cursor[c] >= p[c].to
  /\ \/ k.applied = l.applied /\ k.cursor = l.cursor
     \/ /\ k.applied = Append(l.applied, p)
        /\ \A c \in Channel :
             \/ k.cursor[c] = l.cursor[c]
             \/ c \in DOMAIN p /\ p[c].from <= l.cursor[c] /\ k.cursor[c] = p[c].to

\* receive_downlink does that.
LEMMA Received ==
  ASSUME NEW h \in Heads, NEW l \in Lane(h), NEW p \in Pages(h)
  PROVE  Receives(h, l, receive_downlink(l, p).lane, receive_downlink(l, p).disposition, p)
<1> DEFINE v == Judgement(l, p)
           m == [l EXCEPT !.issued = v.issued]
           to == [c \in Channel |-> IF c \in News(l, p) THEN p[c].to ELSE l.cursor[c]]
           k == [m EXCEPT !.cursor = to, !.applied = Append(@, p)]
<1>1. v.issued \in Seq(Asked) /\ v.stale \in BOOLEAN
  BY JudgementShape
<1> HIDE DEF v
<1>2. /\ m \in Lane(h) /\ Outside(l, m) /\ m.session = l.session /\ m.http = l.http
      /\ m.dropped = l.dropped /\ m.applied = l.applied /\ m.cursor = l.cursor
  BY <1>1 DEF Lane, Outside
<1>3. l.cursor \in Cursors(h) /\ l.applied \in Seq(Pages(h))
  BY LaneFields
<1>4. to \in Cursors(h)
  BY <1>3, PageShape DEF News, Cursors, Heads
<1>5. Append(l.applied, p) \in Seq(Pages(h))
  BY <1>3
<1>6. /\ k \in Lane(h) /\ Outside(m, k) /\ k.session = m.session /\ k.http = m.http
      /\ k.dropped = m.dropped /\ k.applied = Append(l.applied, p) /\ k.cursor = to
  <2> HIDE DEF to, m
  <2>1. k = [m EXCEPT !.cursor = to, !.applied = Append(l.applied, p)]
    BY <1>2
  <2> QED
    BY <1>2, <1>4, <1>5, <2>1 DEF Lane, Outside, Pages
<1> HIDE DEF m, k
<1>7. receive_downlink(l, p) =
        IF v.stale THEN [disposition |-> IF News(l, p) = {} THEN "covered" ELSE "stale", lane |-> m]
        ELSE IF gaps(l, p) # {} THEN [disposition |-> "recover", lane |-> m]
        ELSE IF News(l, p) = {} THEN [disposition |-> "covered", lane |-> m]
        ELSE [disposition |-> "applied", lane |-> k]
  BY DEF receive_downlink, v, m, k
<1>8. \A c \in (DOMAIN p \cap Subscribed(l)) \ News(l, p) : l.cursor[c] >= p[c].to
  BY <1>3, PageShape DEF News, Cursors, Subscribed, Heads
<1>9. \A c \in News(l, p) : /\ c \in DOMAIN p /\ c \in Subscribed(l)
                            /\ p[c].to > l.cursor[c] /\ p[c].from \in Nat /\ p[c].to \in Nat
  BY PageShape DEF News
<1>10. \A c \in Channel : l.cursor[c] \in Int
  BY <1>3 DEF Cursors, Unsubscribed
<1>11. CASE v.stale \/ gaps(l, p) # {} \/ News(l, p) = {}
  <2>1. Subscribed(m) = Subscribed(l)
    BY <1>2 DEF Subscribed
  <2> DEFINE r == receive_downlink(l, p)
  <2>2. /\ r.lane = m /\ r.disposition \in {"covered", "stale", "recover"}
        /\ r.disposition = "covered" => News(l, p) = {}
    <3>1. CASE v.stale
      BY <1>7, <3>1
    <3>2. CASE ~ v.stale /\ gaps(l, p) # {}
      BY <1>1, <1>7, <3>2
    <3>3. CASE ~ v.stale /\ gaps(l, p) = {}
      BY <1>1, <1>7, <1>11, <3>3
    <3> QED
      BY <3>1, <3>2, <3>3
  <2> HIDE DEF r
  <2>3. Receives(h, l, m, r.disposition, p)
    BY <1>2, <1>8, <1>10, <2>1, <2>2 DEF Receives
  <2> QED
    BY <2>2, <2>3 DEF r
<1>12. CASE ~ v.stale /\ gaps(l, p) = {} /\ News(l, p) # {}
  <2>1. \A c \in News(l, p) : p[c].from <= l.cursor[c]
    BY <1>9, <1>10, <1>12 DEF gaps, Subscribed
  <2>2. \A c \in Channel : to[c] = IF c \in News(l, p) THEN p[c].to ELSE l.cursor[c]
    OBVIOUS
  <2> HIDE DEF to
  <2>3. Subscribed(k) = Subscribed(l)
    BY <1>6, <1>9, <2>2 DEF Subscribed, Unsubscribed
  <2>4. Outside(l, k)
    BY <1>2, <1>6 DEF Outside
  <2>5. Receives(h, l, k, "applied", p)
    BY <1>2, <1>6, <1>8, <1>9, <1>10, <2>1, <2>2, <2>3, <2>4 DEF Receives, Subscribed
  <2> QED
    BY <1>7, <1>12, <2>5
<1> QED
  BY <1>1, <1>11, <1>12

---------------------------------------------------------------------------
(* Asking for pages *)

\* The invariants that hold between any two steps of a command.
Sound(h, l) == l \in Lane(h) /\ LinkInv(l) /\ CallsInv(l) /\ LedgerInv(l)

\* The session stays, with what it was opened for.
Stays(l, k) ==
  /\ k.session # None /\ k.session.epoch = l.session.epoch
  /\ k.session.generation = l.session.generation
  /\ k.session.channels = l.session.channels /\ k.session.acknowledged = l.session.acknowledged

\* A pull under way, or promised for when that one ends.
Pulling(l) == Unread(l) \/ (l.session.active # None /\ l.session.again)

\* No positions are positions.
LEMMA NoPositions ==
  ASSUME NEW h
  PROVE  None \in Positions(h)
<1>1. << >> \in [{} -> Nat] /\ {} \in SUBSET Channel /\ DOMAIN << >> = {}
  OBVIOUS
<1>2. << >> \in UNION {[D -> Nat] : D \in SUBSET Channel}
  BY <1>1
<1> QED
  BY <1>1, <1>2 DEF Positions, None

\* What the fields of a session hold.
LEMMA SessionFields ==
  ASSUME NEW h, NEW s \in Session(h)
  PROVE  /\ s # None /\ s.epoch \in Nat /\ s.generation \in Nat /\ s.channels \in SUBSET Channel
         /\ s.acknowledged \in BOOLEAN /\ s.active \in Positions(h) /\ s.again \in BOOLEAN
         /\ s.queue \in Seq(Page(h))
<1>1. DOMAIN s # {}
  BY DEF Session
<1>2. DOMAIN << >> = {}
  OBVIOUS
<1> QED
  BY <1>1, <1>2 DEF Session, None

\* What the fields of the host's session hold.
LEMMA HostFields ==
  ASSUME NEW s \in Host
  PROVE  s # None /\ s.epoch \in Nat /\ s.channels \in SUBSET Channel /\ s.ended \in BOOLEAN
<1>1. DOMAIN s # {}
  BY DEF Host
<1>2. DOMAIN << >> = {}
  OBVIOUS
<1> QED
  BY <1>1, <1>2 DEF Host, None

\* Only the session changes.
Aside(h, l, k) ==
  /\ k \in Lane(h) /\ Outside(l, k) /\ k.cursor = l.cursor /\ k.issued = l.issued
  /\ k.http = l.http /\ k.applied = l.applied /\ k.dropped = l.dropped

\* Replacing the session changes nothing else.
LEMMA SessionSet ==
  ASSUME NEW h, NEW l \in Lane(h), NEW s \in Session(h)
  PROVE  Aside(h, l, [l EXCEPT !.session = s]) /\ [l EXCEPT !.session = s].session = s
BY DEF Lane, Outside, Aside

\* One field of the session changes.
ActiveIs(h, l, k, x) ==
  /\ Aside(h, l, k) /\ Stays(l, k) /\ k.session.active = x
  /\ k.session.again = l.session.again /\ k.session.queue = l.session.queue

AgainIs(h, l, k, x) ==
  /\ Aside(h, l, k) /\ Stays(l, k) /\ k.session.again = x
  /\ k.session.active = l.session.active /\ k.session.queue = l.session.queue

QueueIs(h, l, k, x) ==
  /\ Aside(h, l, k) /\ Stays(l, k) /\ k.session.queue = x
  /\ k.session.active = l.session.active /\ k.session.again = l.session.again

\* Setting the pull in flight changes nothing else.
LEMMA ActiveSet ==
  ASSUME NEW h, NEW l \in Lane(h), l.session # None, NEW x \in Positions(h)
  PROVE  ActiveIs(h, l, [l EXCEPT !.session.active = x], x)
<1> DEFINE s == [l.session EXCEPT !.active = x]
           k == [l EXCEPT !.session.active = x]
<1>1. l.session \in Session(h)
  BY LaneFields
<1>2. /\ s \in Session(h) /\ s.epoch = l.session.epoch /\ s.generation = l.session.generation
      /\ s.channels = l.session.channels /\ s.acknowledged = l.session.acknowledged
      /\ s.active = x /\ s.again = l.session.again /\ s.queue = l.session.queue
  BY <1>1 DEF Session
<1>3. k = [l EXCEPT !.session = s]
  BY DEF Lane
<1>4. Aside(h, l, k) /\ k.session = s
  <2> HIDE DEF s, k
  <2> QED
    BY <1>2, <1>3, SessionSet
<1> HIDE DEF s, k
<1>5. ActiveIs(h, l, k, x)
  BY <1>2, <1>4, SessionFields DEF Stays, ActiveIs
<1> QED
  BY <1>5 DEF k

\* Noting that a pull is owed changes nothing else.
LEMMA AgainSet ==
  ASSUME NEW h, NEW l \in Lane(h), l.session # None, NEW x \in BOOLEAN
  PROVE  AgainIs(h, l, [l EXCEPT !.session.again = x], x)
<1> DEFINE s == [l.session EXCEPT !.again = x]
           k == [l EXCEPT !.session.again = x]
<1>1. l.session \in Session(h)
  BY LaneFields
<1>2. /\ s \in Session(h) /\ s.epoch = l.session.epoch /\ s.generation = l.session.generation
      /\ s.channels = l.session.channels /\ s.acknowledged = l.session.acknowledged
      /\ s.again = x /\ s.active = l.session.active /\ s.queue = l.session.queue
  BY <1>1 DEF Session
<1>3. k = [l EXCEPT !.session = s]
  BY DEF Lane
<1>4. Aside(h, l, k) /\ k.session = s
  <2> HIDE DEF s, k
  <2> QED
    BY <1>2, <1>3, SessionSet
<1> HIDE DEF s, k
<1>5. AgainIs(h, l, k, x)
  BY <1>2, <1>4, SessionFields DEF Stays, AgainIs
<1> QED
  BY <1>5 DEF k

\* Replacing the queue changes nothing else.
LEMMA QueueSet ==
  ASSUME NEW h, NEW l \in Lane(h), l.session # None, NEW x \in Seq(Page(h))
  PROVE  QueueIs(h, l, [l EXCEPT !.session.queue = x], x)
<1> DEFINE s == [l.session EXCEPT !.queue = x]
           k == [l EXCEPT !.session.queue = x]
<1>1. l.session \in Session(h)
  BY LaneFields
<1>2. /\ s \in Session(h) /\ s.epoch = l.session.epoch /\ s.generation = l.session.generation
      /\ s.channels = l.session.channels /\ s.acknowledged = l.session.acknowledged
      /\ s.queue = x /\ s.active = l.session.active /\ s.again = l.session.again
  BY <1>1 DEF Session
<1>3. k = [l EXCEPT !.session = s]
  BY DEF Lane
<1>4. Aside(h, l, k) /\ k.session = s
  <2> HIDE DEF s, k
  <2> QED
    BY <1>2, <1>3, SessionSet
<1> HIDE DEF s, k
<1>5. QueueIs(h, l, k, x)
  BY <1>2, <1>4, SessionFields DEF Stays, QueueIs
<1> QED
  BY <1>5 DEF k

\* What a pull does: one that waits is asked for, or to be asked for again.
Pulls(h, l, k) ==
  /\ k \in Lane(h) /\ Outside(l, k) /\ Stays(l, k)
  /\ k.cursor = l.cursor /\ k.applied = l.applied /\ k.dropped = l.dropped
  /\ k.session.queue = l.session.queue
  /\ \/ /\ l.session.active # None /\ k.session.active = l.session.active /\ k.session.again
        /\ k.issued = l.issued /\ k.http = l.http
     \/ /\ l.session.active = None /\ Subscribed(l) = {} /\ k = l
     \/ /\ l.session.active = None /\ Subscribed(l) # {} /\ k.session.again = l.session.again
        /\ k.session.active = [c \in Subscribed(l) |-> l.cursor[c]] /\ k.session.active # None
        /\ k.issued = Append(l.issued, [cursors |-> k.session.active,
                                        epochs |-> Epochs(l, Subscribed(l))])
        /\ k.http = IF Streaming(l) /\ l.host.epoch = l.session.epoch
                    THEN Sent(k.session.active) ELSE l.http

\* A request as it is sent.
LEMMA SentShape ==
  ASSUME NEW h, NEW p \in Positions(h)
  PROVE  /\ Sent(p) \in Requests(h) /\ Sent(p) # None
         /\ Sent(p).cursors = p /\ Sent(p).heads = None
<1>1. None \in Positions(h)
  <2>1. None \in [{} -> Nat] /\ DOMAIN None = {}
    BY DEF None
  <2> QED BY <2>1 DEF Positions
<1>2. DOMAIN Sent(p) # {} /\ DOMAIN None = {}
  BY DEF Sent, None
<1> QED BY <1>1, <1>2 DEF Sent, Requests

\* pull does that.
LEMMA Pull ==
  ASSUME NEW h \in Heads, NEW l \in Lane(h), l.session # None
  PROVE  Pulls(h, l, pull(l))
<1> DEFINE cursors == [c \in Subscribed(l) |-> l.cursor[c]]
           asked == [cursors |-> cursors, epochs |-> Epochs(l, Subscribed(l))]
           a == [l EXCEPT !.issued = Append(@, asked)]
           b == [a EXCEPT !.session.active = cursors]
           k == Request(b, cursors)
<1>1. CASE l.session.active # None
  <2>1. pull(l) = [l EXCEPT !.session.again = TRUE]
    BY <1>1 DEF pull, Again
  <2>2. TRUE \in BOOLEAN
    OBVIOUS
  <2>3. AgainIs(h, l, pull(l), TRUE)
    <3>1. AgainIs(h, l, [l EXCEPT !.session.again = TRUE], TRUE)
      BY <2>2, AgainSet
    <3> QED BY <2>1, <3>1
  <2> QED
    BY <1>1, <2>3 DEF Pulls, Aside, AgainIs
<1>2. CASE l.session.active = None /\ Subscribed(l) = {}
  <2>1. cursors = None
    BY <1>2 DEF None
  <2>2. pull(l) = l
    BY <1>2, <2>1 DEF pull
  <2> QED
    BY <1>2, <2>2 DEF Pulls, Outside, Stays
<1>3. CASE l.session.active = None /\ Subscribed(l) # {}
  <2>1. DOMAIN cursors # {} /\ DOMAIN << >> = {}
    BY <1>3
  <2>2. cursors # None
    BY <2>1 DEF None
  <2>3. /\ l.cursor \in Cursors(h) /\ l.epochs \in [Channel -> Nat] /\ l.issued \in Seq(Asked)
    BY LaneFields
  <2>4. cursors \in Positions(h) /\ asked \in Asked
    <3>1. Subscribed(l) \in SUBSET Channel /\ \A c \in Subscribed(l) : l.cursor[c] \in Nat /\ l.cursor[c] <= h[c]
      BY <2>3 DEF Cursors, Subscribed
    <3>2. cursors \in [Subscribed(l) -> Nat] /\ Epochs(l, Subscribed(l)) \in [Subscribed(l) -> Nat]
      BY <2>3, <3>1 DEF Epochs
    <3>3. \A c \in DOMAIN cursors : cursors[c] <= h[c]
      BY <3>1
    <3> HIDE DEF cursors
    <3> QED
      BY <3>1, <3>2, <3>3 DEF Positions, Asked
  <2>5. Append(l.issued, asked) \in Seq(Asked)
    BY <2>3, <2>4
  <2> HIDE DEF asked
  <2>6. /\ a \in Lane(h) /\ Outside(l, a) /\ a.session = l.session /\ a.cursor = l.cursor
        /\ a.http = l.http /\ a.applied = l.applied /\ a.dropped = l.dropped
        /\ a.issued = Append(l.issued, asked)
    BY <2>5 DEF Lane, Outside
  <2> HIDE DEF a, cursors
  <2>7. /\ Aside(h, a, b) /\ Stays(a, b) /\ b.session.active = cursors
        /\ b.session.again = a.session.again /\ b.session.queue = a.session.queue
    <3>1. ActiveIs(h, a, b, cursors)
      BY <2>4, <2>6, ActiveSet DEF b
    <3> QED BY <3>1 DEF ActiveIs
  <2>8. pull(l) = k
    BY <1>3, <2>2 DEF pull, issue, cursors, asked, a
  <2> HIDE DEF b
  <2>9. Streaming(b) <=> Streaming(l)
    BY <2>6, <2>7 DEF Streaming, Aside, Outside
  <2>10. /\ k \in Lane(h) /\ Outside(b, k) /\ k.session = b.session /\ k.cursor = b.cursor
         /\ k.issued = b.issued /\ k.applied = b.applied /\ k.dropped = b.dropped
         /\ k.http = IF Streaming(b) /\ b.host.epoch = b.session.epoch THEN Sent(cursors) ELSE b.http
    <3>1. b \in Lane(h)
      BY <2>7 DEF Aside
    <3>2. CASE Streaming(b) /\ b.host.epoch = b.session.epoch
      <4>1. k = [b EXCEPT !.http = Sent(cursors)] /\ Sent(cursors) \in Requests(h)
        BY <2>4, <3>2, SentShape DEF Request
      <4> HIDE DEF k
      <4> QED
        BY <2>4, <3>1, <3>2, <4>1 DEF Lane, Outside
    <3>3. CASE ~ (Streaming(b) /\ b.host.epoch = b.session.epoch)
      <4>1. k = b
        BY <3>3 DEF Request
      <4> HIDE DEF k
      <4> QED
        BY <3>1, <3>3, <4>1 DEF Outside
    <3> QED
      BY <3>2, <3>3
  <2> HIDE DEF k
  <2>11. b.host = l.host /\ b.session.epoch = l.session.epoch
    BY <2>6, <2>7 DEF Aside, Outside, Stays
  <2>12. Outside(l, k) /\ Stays(l, k)
    BY <2>6, <2>7, <2>10 DEF Aside, Outside, Stays
  <2>13. Pulls(h, l, k)
    BY <1>3, <2>2, <2>6, <2>7, <2>9, <2>10, <2>11, <2>12 DEF Pulls, Aside, cursors, asked
  <2> QED
    BY <2>8, <2>13
<1> QED
  BY <1>1, <1>2, <1>3

---------------------------------------------------------------------------
(* Invariants of the lane that receiving and asking preserve *)

\* k holds the calls, the host and the frames of l.
LEMMA Held ==
  ASSUME NEW h, NEW l, NEW k, Outside(l, k)
  PROVE  (Streaming(k) <=> Streaming(l))
BY DEF Outside, Streaming

\* Without a pull a lane stays sound while its session asks for what it asked
\* for, or for nothing and no answer is under way.
LEMMA SoundMoved ==
  ASSUME NEW h, NEW l, NEW k \in Lane(h), Sound(h, l), l.session # None,
         Outside(l, k), Stays(l, k), k.http = l.http,
         Len(k.session.queue) <= QUEUED_FRAMES,
         ~ l.session.acknowledged => k.session.queue = << >>,
         \/ k.session.active = l.session.active /\ k.cursor = l.cursor /\ k.issued = l.issued
         \/ k.session.active = None /\ l.http = None /\ \A i \in DOMAIN l.calls : ~ Answers(l, l.calls[i]),
         Subscribed(k) = Subscribed(l)
  PROVE  Sound(h, k)
<1>1. LinkInv(k)
  BY Held DEF Sound, LinkInv, Outside, Stays
<1>2. CallsInv(k)
  BY DEF Sound, CallsInv, Outside, Stays, Framed, Answers
<1>3. LedgerInv(k)
  <2>1. (Upheld(k) <=> Upheld(l)) /\ Epochs(k, Subscribed(k)) = Epochs(l, Subscribed(l))
    BY DEF Outside, Stays, Upheld, Epochs
  <2>2. k.cursor = l.cursor =>
          [c \in Subscribed(k) |-> k.cursor[c]] = [c \in Subscribed(l) |-> l.cursor[c]]
    OBVIOUS
  <2> QED
    BY <2>1, <2>2 DEF Sound, LedgerInv, Stays
<1> QED
  BY <1>1, <1>2, <1>3 DEF Sound

\* A session that asks for nothing is owed no answer.
LEMMA Unasked ==
  ASSUME NEW h, NEW l, Sound(h, l), l.session # None, l.session.active = None
  PROVE  l.http = None /\ \A i \in DOMAIN l.calls : ~ Answers(l, l.calls[i])
BY DEF Sound, LinkInv, CallsInv

\* A pull leaves the lane sound.
LEMMA SoundPulled ==
  ASSUME NEW h \in Heads, NEW l, NEW k, Sound(h, l), l.session # None, l.session.acknowledged,
         Pulls(h, l, k)
  PROVE  /\ Sound(h, k)
         /\ Upheld(l) /\ l.stage = "open" => Pulling(k)
<1>1. l \in Lane(h) /\ k \in Lane(h) /\ Outside(l, k) /\ Stays(l, k) /\ Subscribed(k) = Subscribed(l)
  BY DEF Sound, Pulls, Subscribed
<1>2. CASE l.session.active # None
  <2>1. Sound(h, k)
    <3>1. /\ Len(k.session.queue) <= QUEUED_FRAMES
          /\ ~ l.session.acknowledged => k.session.queue = << >>
      BY DEF Pulls, Sound, LinkInv
    <3> QED
      BY <1>1, <1>2, <3>1, SoundMoved DEF Pulls
  <2> QED
    BY <1>2, <2>1 DEF Pulls, Pulling
<1>3. CASE l.session.active = None /\ Subscribed(l) = {}
  BY <1>3 DEF Pulls, Sound, LedgerInv
<1>4. CASE l.session.active = None /\ Subscribed(l) # {}
  <2>1. Streaming(k) <=> Streaming(l)
    BY <1>1, Held
  <2>2. /\ l.http = None
        /\ \A i \in DOMAIN l.calls : ~ Answers(l, l.calls[i])
    BY <1>4 DEF Sound, LinkInv, CallsInv
  <2>3. /\ k.session.active # None
        /\ k.http = IF Streaming(l) /\ l.host.epoch = l.session.epoch THEN Sent(k.session.active) ELSE None
        /\ k.session.active = [c \in Subscribed(k) |-> k.cursor[c]]
        /\ k.session.queue = l.session.queue
    BY <1>1, <1>4, <2>2 DEF Pulls
  <2> DEFINE asks == Sent(k.session.active)
  <2>9. /\ k.session \in Session(h) /\ k.session.active \in Positions(h)
        /\ asks # None /\ asks.cursors = k.session.active /\ asks.heads = None
    <3>1. k.session \in Session(h)
      BY <1>1, LaneFields DEF Stays
    <3> QED BY <3>1, SentShape DEF Session
  <2> HIDE DEF asks
  <2>10. k.http = IF Streaming(l) /\ l.host.epoch = l.session.epoch THEN asks ELSE None
    BY <2>3 DEF asks
  <2>4. LinkInv(k)
    BY <1>1, <2>1, <2>3, <2>9, <2>10 DEF Sound, LinkInv, Outside, Stays
  <2>5. CallsInv(k)
    BY <1>1, <2>2 DEF Sound, CallsInv, Outside, Stays, Framed, Answers
  <2>6. LedgerInv(k)
    <3> DEFINE asked == [cursors |-> k.session.active, epochs |-> Epochs(l, Subscribed(l))]
    <3>1. k.issued = Append(l.issued, asked) /\ l.issued \in Seq(Asked)
      BY <1>1, <1>4, LaneFields DEF Pulls
    <3>2. asked.cursors = k.session.active /\ asked.epochs = Epochs(k, Subscribed(k))
      BY <1>1 DEF Epochs, Outside
    <3> HIDE DEF asked
    <3>3. Len(l.issued) + 1 \in DOMAIN k.issued /\ k.issued[Len(l.issued) + 1] = asked
      BY <3>1
    <3>4. Upheld(k) <=> Upheld(l)
      BY <1>1 DEF Upheld, Outside, Stays
    <3> QED
      BY <1>1, <2>3, <3>2, <3>3, <3>4 DEF Sound, LedgerInv, Stays
  <2>7. l.stage = "open" => Unread(k)
    BY <2>9, <2>10 DEF Sound, LinkInv, Unread
  <2>8. Sound(h, k)
    BY <1>1, <2>4, <2>5, <2>6 DEF Sound
  <2> QED
    BY <2>7, <2>8 DEF Pulling
<1> QED
  BY <1>2, <1>3, <1>4

---------------------------------------------------------------------------
(* The queue of the session *)

\* Cursors cover what base holds and what this command delivered.
Covers(base, l) == \A c \in Channel : 1..l.cursor[c] \subseteq base[c] \cup Delivered(l, c)

\* A received page moves a cursor only as far as it delivers.
LEMMA CoversReceived ==
  ASSUME NEW h \in Heads, NEW base, NEW l \in Lane(h), NEW k, NEW p \in Pages(h), NEW d,
         Receives(h, l, k, d, p), Covers(base, l)
  PROVE  Covers(base, k)
<1>1. CASE k.applied = l.applied /\ k.cursor = l.cursor
  BY <1>1 DEF Covers, Delivered
<1>2. CASE /\ k.applied = Append(l.applied, p)
           /\ \A c \in Channel :
                \/ k.cursor[c] = l.cursor[c]
                \/ c \in DOMAIN p /\ p[c].from <= l.cursor[c] /\ k.cursor[c] = p[c].to
  <2>1. ToSet(k.applied) = ToSet(l.applied) \cup {p}
    BY <1>2, LaneFields, AppendElements
  <2>2. \A c : Delivered(l, c) \subseteq Delivered(k, c)
    BY <2>1 DEF Delivered
  <2>3. \A c \in DOMAIN p : p[c].from + 1 .. p[c].to \subseteq Delivered(k, c)
    BY <2>1 DEF Delivered
  <2>4. SUFFICES ASSUME NEW c \in Channel, NEW n \in 1..k.cursor[c]
                 PROVE  n \in base[c] \cup Delivered(k, c)
    BY DEF Covers
  <2>5. l.cursor[c] \in Int /\ k.cursor[c] \in Int
    BY LaneFields DEF Receives, Cursors, Unsubscribed
  <2>6. CASE n <= l.cursor[c]
    BY <2>2, <2>5, <2>6 DEF Covers
  <2>7. CASE n > l.cursor[c]
    <3>1. c \in DOMAIN p /\ p[c].from <= l.cursor[c] /\ k.cursor[c] = p[c].to
      BY <1>2, <2>5, <2>7
    <3>2. n \in p[c].from + 1 .. p[c].to
      BY <2>5, <2>7, <3>1, PageShape
    <3> QED
      BY <2>3, <3>1, <3>2
  <2> QED
    BY <2>5, <2>6, <2>7
<1> QED
  BY <1>1, <1>2 DEF Receives

\* What a step of draining does.
Drains(h, l, k) ==
  /\ Sound(h, k) /\ Outside(l, k) /\ Stays(l, k)
  /\ \A base : Covers(base, l) => Covers(base, k)
  /\ \A E : (~ l.dropped => CoverInv(l, E)) => (~ k.dropped => CoverInv(k, E))

\* Only the cursors, the ledger and the front of the queue have changed.
LEMMA CoverMoved ==
  ASSUME NEW h \in Heads, NEW l, NEW k, NEW m \in Lane(h), NEW p \in Page(h), Sound(h, l), NEW d, NEW E,
         Receives(h, l, m, d, p), d # "stale", d # "recover", Outside(l, k), Stays(l, k),
         k.cursor = m.cursor, k.session.active = None, l.session.active = None,
         k.http = l.http, l.session.queue # << >>, p = Head(l.session.queue),
         k.session.queue = Tail(l.session.queue), l.session # None, CoverInv(l, E)
  PROVE  CoverInv(k, E)
<1>1. SUFFICES ASSUME Told(k), k.session.acknowledged, NEW c \in k.session.channels
               PROVE  k.cursor[c] >= k.told[c] \/ Ahead(k, E, c)
  BY DEF CoverInv
<1>2. /\ Told(l) /\ l.session.acknowledged /\ c \in l.session.channels /\ c \in Subscribed(l)
      /\ k.told = l.told /\ l.stage = "open" /\ k.session # None
  BY <1>1 DEF Told, Upheld, Outside, Stays, Sound, LedgerInv
<1>3. c \in DOMAIN l.told
  BY <1>2 DEF Sound, LinkInv, Streaming
<1>4. l.cursor \in Cursors(h) /\ m.cursor \in Cursors(h) /\ l.told \in Positions(h) /\ l.session \in Session(h)
  BY <1>2, LaneFields DEF Sound
<1>5. c \in Channel /\ l.cursor[c] \in Int /\ k.cursor[c] \in Int /\ l.told[c] \in Int /\ k.cursor[c] >= l.cursor[c]
  <2>1. l.told[c] \in Int
    BY <1>3, <1>4 DEF Positions
  <2>2. c \in Channel
    BY <1>2 DEF Subscribed
  <2> QED
    BY <1>4, <2>1, <2>2 DEF Cursors, Unsubscribed, Receives
<1>6. l.cursor[c] >= l.told[c] \/ Ahead(l, E, c)
  BY <1>2 DEF CoverInv
<1>7. CASE l.cursor[c] >= l.told[c]
  BY <1>2, <1>5, <1>7
<1>8. CASE \E i \in DOMAIN l.session.queue : Reaches(l.session.queue[i], c, l.told[c])
  <2> DEFINE q == l.session.queue
  <2>1. q \in Seq(Page(h)) /\ q # << >>
    BY <1>4, SessionFields
  <2>2. PICK i \in DOMAIN q : Reaches(q[i], c, l.told[c])
    BY <1>8
  <2>3. CASE i = 1
    <3>1. Reaches(p, c, l.told[c])
      BY <2>1, <2>2, <2>3
    <3>2. p[c].to \in Int /\ k.cursor[c] >= p[c].to
      BY <1>2, <3>1, PageShape DEF Receives, Reaches, Pages
    <3> QED
      BY <1>2, <1>5, <3>1, <3>2 DEF Reaches
  <2>4. CASE i # 1
    <3>1. i - 1 \in DOMAIN Tail(q) /\ Tail(q)[i - 1] = q[i]
      <4>1. /\ DOMAIN q = 1..Len(q) /\ Len(q) \in Nat /\ DOMAIN Tail(q) = 1 .. Len(q) - 1
            /\ \A j \in 1 .. Len(q) - 1 : Tail(q)[j] = q[j + 1]
        BY <2>1
      <4>2. i - 1 \in 1 .. Len(q) - 1 /\ i - 1 + 1 = i
        BY <2>4, <4>1
      <4> HIDE DEF q
      <4> QED
        BY <4>1, <4>2
    <3>2. Reaches(k.session.queue[i - 1], c, k.told[c])
      BY <1>2, <2>2, <3>1
    <3> QED
      BY <3>1, <3>2 DEF Ahead, Coming, Unread
  <2> QED
    BY <2>3, <2>4
<1>9. CASE /\ ~ \E i \in DOMAIN l.session.queue : Reaches(l.session.queue[i], c, l.told[c])
           /\ Ahead(l, E, c)
  BY <1>2, <1>9 DEF Ahead, Coming, Unread, Outside, Stays, InFrames, Answers
<1> QED
  BY <1>6, <1>7, <1>8, <1>9

\* A step of draining: the front leaves the queue, or a pull is under way.
LEMMA DrainedFront ==
  ASSUME NEW h \in Heads, NEW l, NEW p \in Page(h), Sound(h, l), l.session # None,
         l.session.acknowledged,
         l.session.active = None => l.session.queue # << >> /\ p = Head(l.session.queue)
  PROVE  LET k == drain_front(l, p) IN
           /\ Drains(h, l, k)
           /\ k.session.active = None => /\ l.session.active = None
                                        /\ k.session.queue = Tail(l.session.queue)
<1> DEFINE r == receive_downlink(l, p)
           m == r.lane
           d == r.disposition
           a == [m EXCEPT !.session.queue = Tail(l.session.queue)]
           k == drain_front(l, p)
<1> SUFFICES /\ Drains(h, l, k)
             /\ k.session.active = None => /\ l.session.active = None
                                          /\ k.session.queue = Tail(l.session.queue)
  OBVIOUS
<1> HIDE DEF k
<1>1. CASE l.session.active # None
  <2>1. k = l
    BY <1>1 DEF drain_front, k
  <2> QED
    BY <1>1, <2>1 DEF Drains, Outside, Stays
<1>2. CASE l.session.active = None
  <2>1. p \in Pages(h) /\ l \in Lane(h)
    BY DEF Pages, Sound
  <2>2. Receives(h, l, m, d, p)
    BY <2>1, Received
  <2>3. k = IF d = "recover" THEN pull(m)
            ELSE [m EXCEPT !.session.queue = Tail(@), !.dropped = @ \/ d = "stale"]
    BY <1>2 DEF drain_front, k
  <2> HIDE DEF m, d
  <2>4. m.session = l.session /\ m.session # None /\ Outside(l, m) /\ m \in Lane(h) /\ m.http = l.http
        /\ Subscribed(m) = Subscribed(l)
    BY <2>2 DEF Receives
  <2>5. Sound(h, m)
    <3>1. /\ Len(m.session.queue) <= QUEUED_FRAMES
          /\ ~ l.session.acknowledged => m.session.queue = << >>
      BY <2>4 DEF Sound, LinkInv
    <3> QED
      BY <1>2, <2>4, <3>1, SoundMoved, Unasked DEF Stays
  <2>6. \A base : Covers(base, l) => Covers(base, m)
    BY <2>1, <2>2, CoversReceived
  <2>7. CASE d = "recover"
    <3>1. Pulls(h, m, k)
      BY <2>3, <2>4, <2>7, Pull
    <3>2. Sound(h, k) /\ (Upheld(m) /\ m.stage = "open" => Pulling(k))
      BY <2>4, <2>5, <3>1, SoundPulled
    <3>3. k.cursor = m.cursor /\ k.applied = m.applied /\ Outside(m, k) /\ Stays(m, k)
      BY <3>1 DEF Pulls
    <3>4. \A base : Covers(base, l) => Covers(base, k)
      BY <2>6, <3>3 DEF Covers, Delivered
    <3>5. Outside(l, k) /\ Stays(l, k)
      BY <2>4, <3>3 DEF Outside, Stays
    <3>6. ASSUME NEW E PROVE CoverInv(k, E)
      BY <2>4, <3>2, <3>3 DEF CoverInv, Told, Upheld, Outside, Stays, Ahead, Coming, Unread, Pulling
    <3>7. k.session.active # None
      <4>1. News(l, p) # {}
        BY <2>7 DEF d, receive_downlink, gaps
      <4> QED
        BY <1>2, <2>4, <3>1, <4>1 DEF Pulls, News
    <3> QED
      BY <3>2, <3>4, <3>5, <3>6, <3>7 DEF Drains
  <2>8. CASE d # "recover"
    <3>1. l.session.queue \in Seq(Page(h)) /\ l.session.queue # << >>
      BY <1>2, <2>1, LaneFields, SessionFields
    <3>2. Tail(l.session.queue) \in Seq(Page(h)) /\ Len(Tail(l.session.queue)) <= Len(l.session.queue)
      BY <3>1
    <3>3. QueueIs(h, m, a, Tail(l.session.queue))
      BY <2>4, <3>2, QueueSet
    <3>4. k = [a EXCEPT !.dropped = @ \/ d = "stale"]
      BY <2>3, <2>4, <2>8 DEF Lane
    <3> HIDE DEF a
    <3>5. a \in Lane(h) /\ Outside(l, a) /\ Stays(l, a) /\ a.session.active = None
          /\ a.session.queue = Tail(l.session.queue) /\ a.cursor = m.cursor /\ a.http = l.http
          /\ a.applied = m.applied /\ a.dropped = l.dropped
      BY <1>2, <2>2, <2>4, <3>3 DEF QueueIs, Aside, Outside, Stays, Receives
    <3>6. k \in Lane(h) /\ Outside(a, k) /\ k.session = a.session /\ k.cursor = a.cursor /\ k.http = a.http
          /\ k.applied = a.applied /\ k.dropped = (a.dropped \/ d = "stale")
      <4> DEFINE b == a.dropped \/ d = "stale"
      <4>1. k = [a EXCEPT !.dropped = b] /\ b \in BOOLEAN
        BY <3>4
      <4> HIDE DEF b, k
      <4>2. a \in Lane(h) /\ DOMAIN a = Fields
        BY <3>5, LaneDomain
      <4>3. k \in Lane(h)
        BY <4>1, <4>2 DEF Lane
      <4>4. Outside(a, k) /\ k.session = a.session /\ k.cursor = a.cursor /\ k.http = a.http
            /\ k.applied = a.applied /\ k.dropped = b
        BY <4>1, <4>2 DEF Fields, Outside
      <4> QED BY <4>3, <4>4 DEF b
    <3>7. Outside(l, k) /\ Stays(l, k)
      <4>1. Outside(l, k)
        BY <3>5, <3>6 DEF Outside
      <4>2. Stays(l, k)
        BY <3>5, <3>6 DEF Stays
      <4> QED BY <4>1, <4>2
    <3>8. Subscribed(k) = Subscribed(l)
      BY <2>4, <3>5, <3>6 DEF Subscribed
    <3>9. Sound(h, k)
      <4>1. Len(l.session.queue) <= QUEUED_FRAMES /\ QUEUED_FRAMES \in Nat
        BY ClientLiveAssumption DEF Sound, LinkInv
      <4>2. Len(k.session.queue) <= QUEUED_FRAMES
        <5>1. Len(Tail(l.session.queue)) \in Nat /\ Len(l.session.queue) \in Nat
          BY <3>1, <3>2
        <5>2. k.session.queue = Tail(l.session.queue)
          BY <3>5, <3>6
        <5> QED
          BY <3>2, <4>1, <5>1, <5>2
      <4> QED
        BY <1>2, <3>5, <3>6, <3>7, <3>8, <4>2, SoundMoved, Unasked
    <3>10. \A base : Covers(base, l) => Covers(base, k)
      BY <2>6, <3>5, <3>6 DEF Covers, Delivered
    <3>11. ASSUME NEW E, ~ l.dropped => CoverInv(l, E), ~ k.dropped PROVE CoverInv(k, E)
      <4>1. d # "stale" /\ ~ l.dropped
        BY <3>5, <3>6, <3>11
      <4> QED
        BY <1>2, <2>2, <2>4, <2>8, <3>1, <3>5, <3>6, <3>7, <3>11, <4>1, CoverMoved
    <3> QED
      BY <1>2, <3>5, <3>6, <3>7, <3>9, <3>10, <3>11 DEF Drains
  <2> QED
    BY <2>7, <2>8
<1> QED
  BY <1>1, <1>2

\* Draining goes on from what was drained.
LEMMA DrainsOn ==
  ASSUME NEW h, NEW l, NEW k, NEW m, Drains(h, l, k), Drains(h, k, m)
  PROVE  Drains(h, l, m)
<1>1. Sound(h, m) /\ Outside(l, m) /\ Stays(l, m)
  BY DEF Drains, Outside, Stays
<1>2. \A base : Covers(base, l) => Covers(base, m)
  BY DEF Drains
<1>3. \A E : (~ l.dropped => CoverInv(l, E)) => (~ m.dropped => CoverInv(m, E))
  BY DEF Drains
<1> QED
  BY <1>1, <1>2, <1>3 DEF Drains

\* Draining is a sequence of such steps, one for every page of the queue.
LEMMA DrainSteps ==
  ASSUME NEW l, Len(l.session.queue) \in Nat
  PROVE  \E f :
           /\ f[0] = l
           /\ \A i \in 1..Len(l.session.queue) : f[i] = drain_front(f[i - 1], l.session.queue[i])
           /\ drain(l) = f[Len(l.session.queue)]
<1> DEFINE q == l.session.queue
           n == Len(q)
           F(g, i) == IF i = 0 THEN l ELSE drain_front(g[i - 1], q[i])
           Built(m) == \E g : g = [i \in 0..m |-> F(g, i)]
           T == {m \in Nat : Built(m)}
<1>1. 0 \in T
  <2> DEFINE g == [i \in 0..0 |-> l]
  <2>1. \A i \in 0..0 : F(g, i) = l
    OBVIOUS
  <2> HIDE DEF F
  <2>2. g = [i \in 0..0 |-> F(g, i)]
    BY <2>1
  <2> QED
    BY <2>2
<1>2. ASSUME NEW m \in Nat, m \in T PROVE m + 1 \in T
  <2>1. PICK g : g = [i \in 0..m |-> F(g, i)]
    BY <1>2
  <2> DEFINE last == drain_front(g[m], q[m + 1])
             k == [i \in 0..(m + 1) |-> IF i \in 0..m THEN g[i] ELSE last]
  <2>2. ASSUME NEW i \in 0..(m + 1) PROVE k[i] = F(k, i)
    <3>1. CASE i \in 0..m
      <4>1. g[i] = F(g, i) /\ k[i] = g[i]
        BY <2>1, <3>1
      <4>2. i # 0 => i - 1 \in 0..(m + 1) /\ i - 1 \in 0..m
        BY <3>1
      <4>3. i # 0 => k[i - 1] = g[i - 1]
        BY <4>2
      <4> QED
        BY <4>1, <4>3
    <3>2. CASE i = m + 1
      <4>1. k[i] = last /\ m \in 0..(m + 1) /\ m \in 0..m /\ i # 0 /\ i - 1 = m
        BY <3>2
      <4>2. k[m] = g[m]
        BY <4>1
      <4> HIDE DEF k
      <4> QED
        BY <3>2, <4>1, <4>2
    <3> QED
      BY <3>1, <3>2
  <2>3. DOMAIN k = 0..(m + 1) /\ k = [i \in 0..(m + 1) |-> k[i]]
    OBVIOUS
  <2> HIDE DEF k, F
  <2>4. k = [i \in 0..(m + 1) |-> F(k, i)]
    BY <2>2, <2>3
  <2> QED
    BY <2>4
<1>3. n \in T
  <2> HIDE DEF T
  <2> QED
    BY <1>1, <1>2, Induct
<1> DEFINE Rec(g) == g = [i \in 0..n |-> F(g, i)]
           f == CHOOSE g : Rec(g)
<1>4. Rec(f)
  <2>1. \E g : Rec(g)
    BY <1>3
  <2> QED
    BY <2>1
<1>5. drain(l) = f[n]
  BY DEF drain
<1> HIDE DEF f
<1>6. \A i \in 0..n : f[i] = F(f, i)
  BY <1>4
<1> HIDE DEF Rec
<1>7. f[0] = l
  BY <1>6
<1>8. \A i \in 1..n : f[i] = drain_front(f[i - 1], q[i])
  <2> SUFFICES ASSUME NEW i \in 1..n PROVE f[i] = drain_front(f[i - 1], q[i])
    OBVIOUS
  <2>1. i \in 0..n /\ i # 0
    OBVIOUS
  <2> QED
    BY <1>6, <2>1
<1> QED
  BY <1>5, <1>7, <1>8

\* drain keeps the lane sound and passes nothing over.
LEMMA Drained ==
  ASSUME NEW h \in Heads, NEW l, Sound(h, l), l.session # None, l.session.acknowledged
  PROVE  Drains(h, l, drain(l))
<1> DEFINE q == l.session.queue
           n == Len(q)
<1>1. q \in Seq(Page(h))
  BY LaneFields, SessionFields DEF Sound
<1>2. n \in Nat /\ DOMAIN q = 1..n
  BY <1>1
<1> DEFINE Steps(f) == /\ f[0] = l
                       /\ \A i \in 1..n : f[i] = drain_front(f[i - 1], q[i])
                       /\ drain(l) = f[n]
<1>0. \E f : Steps(f)
  BY <1>2, DrainSteps, Zenon
<1>3. PICK f : Steps(f)
  BY <1>0
<1> HIDE DEF q, n
<1> DEFINE Rest(r, i) == Len(r) = n - i /\ \A j \in 1..(n - i) : r[j] = q[i + j]
           P(i) == /\ Drains(h, l, f[i])
                   /\ f[i].session.active = None => Rest(f[i].session.queue, i)
           T == {i \in Nat : i <= n => P(i)}
<1>4. 0 \in T
  <2>1. Drains(h, l, l)
    BY DEF Drains, Outside, Stays
  <2>2. Rest(q, 0)
    BY <1>1, <1>2 DEF n
  <2> HIDE DEF Rest
  <2> QED
    BY <1>3, <2>1, <2>2 DEF q
<1>5. ASSUME NEW i \in Nat, i \in T PROVE i + 1 \in T
  <2> SUFFICES ASSUME i + 1 <= n PROVE P(i + 1)
    OBVIOUS
  <2> DEFINE m == f[i]
             k == f[i + 1]
             r == m.session.queue
  <2>1. P(i) /\ i + 1 \in 1..n /\ i + 1 - 1 = i
    BY <1>2, <1>5
  <2>2. k = drain_front(m, q[i + 1]) /\ q[i + 1] \in Page(h)
    BY <1>1, <1>2, <1>3, <2>1
  <2>3. Drains(h, l, m) /\ (m.session.active = None => Rest(r, i))
    BY <2>1
  <2>4. Sound(h, m) /\ m.session # None /\ m.session.acknowledged
    BY <2>3 DEF Drains, Stays
  <2>5. r \in Seq(Page(h))
    BY <2>4, LaneFields, SessionFields DEF Sound
  <2> HIDE DEF k, m, r
  <2>6. ASSUME m.session.active = None
        PROVE  r # << >> /\ q[i + 1] = Head(r) /\ Rest(Tail(r), i + 1)
    <3>1. Rest(r, i)
      BY <2>3, <2>6
    <3>2. Len(r) = n - i /\ n - i >= 1 /\ n - i \in Nat /\ \A j \in 1..(n - i) : r[j] = q[i + j]
      BY <1>2, <2>1, <3>1
    <3>3. r # << >> /\ Head(r) = r[1]
      BY <2>5, <3>2
    <3>4. Len(Tail(r)) = Len(r) - 1 /\ \A j \in 1..(Len(r) - 1) : Tail(r)[j] = r[j + 1]
      BY <2>5, <3>2
    <3>5. \A j \in 1..(n - (i + 1)) : j \in 1..(Len(r) - 1) /\ j + 1 \in 1..(n - i) /\ i + 1 + j = i + (j + 1)
      BY <1>2, <3>2
    <3>6. \A j \in 1..(n - (i + 1)) : Tail(r)[j] = q[i + 1 + j]
      BY <3>2, <3>4, <3>5
    <3>7. Len(Tail(r)) = n - (i + 1)
      BY <1>2, <3>2, <3>4
    <3>8. r[1] = q[i + 1]
      BY <3>2
    <3> QED
      BY <3>3, <3>6, <3>7, <3>8
  <2> HIDE DEF Rest
  <2>7. /\ Drains(h, m, k)
        /\ k.session.active = None => m.session.active = None /\ k.session.queue = Tail(r)
    BY <2>2, <2>4, <2>6, DrainedFront DEF r
  <2>8. Drains(h, l, k)
    BY <2>3, <2>7, DrainsOn
  <2>9. k.session.active = None => Rest(k.session.queue, i + 1)
    BY <2>6, <2>7
  <2> QED
    BY <2>8, <2>9 DEF k
<1>6. n \in T
  <2> HIDE DEF T
  <2> QED
    BY <1>2, <1>4, <1>5, Induct
<1> QED
  BY <1>2, <1>3, <1>6

---------------------------------------------------------------------------
(* The session ends, the driver decides, a session begins *)

\* The fields of everything but the driver.
Driven(l, k) ==
  /\ k.cursor = l.cursor /\ k.epochs = l.epochs /\ k.generation = l.generation
  /\ k.issued = l.issued /\ k.epoch = l.epoch /\ k.session = l.session /\ k.host = l.host
  /\ k.stage = l.stage /\ k.told = l.told /\ k.frames = l.frames
  /\ k.overflowed = l.overflowed /\ k.draining = l.draining /\ k.http = l.http
  /\ k.calls = l.calls /\ k.applied = l.applied /\ k.dropped = l.dropped

\* Nothing is passed over, unless this command dropped a frame.
Flow(l, E) == ~ l.dropped => CoverInv(l, E) /\ GreetInv(l, E)

\* The driver's own fields bear on no invariant.
LEMMA DrivenSound ==
  ASSUME NEW h, NEW l, Sound(h, l), NEW k \in Lane(h), Driven(l, k), k.session # None => k.in_flight
  PROVE  /\ Sound(h, k)
         /\ \A base : Covers(base, l) => Covers(base, k)
         /\ \A E : Flow(l, E) => Flow(k, E)
<1>1. Streaming(k) <=> Streaming(l)
  BY DEF Driven, Streaming
<1>2. LinkInv(k)
  BY <1>1 DEF Sound, LinkInv, Driven
<1>3. CallsInv(k)
  BY DEF Sound, CallsInv, Driven, Framed, Answers
<1>4. Subscribed(k) = Subscribed(l) /\ (Upheld(k) <=> Upheld(l))
      /\ Epochs(k, Subscribed(k)) = Epochs(l, Subscribed(l))
  BY DEF Driven, Subscribed, Upheld, Epochs
<1>5. LedgerInv(k)
  BY <1>4 DEF Sound, LedgerInv, Driven
<1>6. \A base : Covers(base, l) => Covers(base, k)
  BY DEF Covers, Delivered, Driven
<1>7. \A E : Flow(l, E) => Flow(k, E)
  <2> SUFFICES ASSUME NEW E, Flow(l, E) PROVE Flow(k, E)
    OBVIOUS
  <2>1. /\ Told(k) <=> Told(l)
        /\ \A c, n : InFrames(k, c, n) <=> InFrames(l, c, n)
        /\ \A e : Answers(k, e) <=> Answers(l, e)
    BY <1>4 DEF Told, Driven, InFrames, Answers
  <2>2. \A c : Ahead(l, E, c) => Ahead(k, E, c)
    BY <2>1 DEF Ahead, Coming, Unread, Driven
  <2>3. CoverInv(l, E) => CoverInv(k, E)
    BY <2>1, <2>2 DEF CoverInv, Driven
  <2>4. GreetInv(l, E) => GreetInv(k, E)
    BY <2>1 DEF GreetInv, Driven
  <2> QED
    BY <2>3, <2>4 DEF Flow, Driven
<1> QED
  BY <1>2, <1>3, <1>5, <1>6, <1>7 DEF Sound

\* Abandoned: the socket is gone, the session does not know.
LEMMA Abandoned ==
  ASSUME NEW h, NEW l, Sound(h, l)
  PROVE  LET k == abandon(l) IN
           /\ Sound(h, k) /\ ~ Streaming(k)
           /\ k.calls = l.calls /\ k.epochs = l.epochs /\ k.generation = l.generation
           /\ k.cursor = l.cursor /\ k.applied = l.applied /\ k.dropped = l.dropped
           /\ k.session = l.session /\ k.epoch = l.epoch /\ k.in_flight = l.in_flight
           /\ k.issued = l.issued
           /\ (k.host = None <=> l.host = None)
           /\ l.host # None => k.host.epoch = l.host.epoch
           /\ k.http = None /\ k.stage = "ended" /\ k.frames = << >> /\ ~ k.overflowed
<1> DEFINE k == abandon(l)
<1>1. CASE l.host = None
  BY <1>1 DEF abandon, Sound, LinkInv, Streaming
<1>2. CASE l.host # None
  <2> DEFINE s == [l.host EXCEPT !.ended = TRUE]
  <2>1. l.host \in Host /\ l \in Lane(h)
    BY <1>2, LaneFields DEF Sound
  <2>2. s \in Host /\ s.epoch = l.host.epoch /\ s.ended
    BY <2>1 DEF Host
  <2>3. None \in Positions(h) /\ << >> \in Seq(Frame(h))
    BY NoPositions
  <2>4. k = [l EXCEPT !.host = s, !.stage = "ended", !.told = None, !.http = None,
                      !.frames = << >>, !.overflowed = FALSE]
    BY <1>2, <2>1 DEF abandon, Lane
  <2> HIDE DEF s, k
  <2>5. /\ k \in Lane(h) /\ k.host = s /\ k.http = None /\ k.stage = "ended"
        /\ k.frames = << >> /\ ~ k.overflowed
        /\ k.calls = l.calls /\ k.epochs = l.epochs /\ k.generation = l.generation
        /\ k.cursor = l.cursor /\ k.applied = l.applied /\ k.dropped = l.dropped
        /\ k.session = l.session /\ k.epoch = l.epoch /\ k.in_flight = l.in_flight
        /\ k.issued = l.issued
    BY <2>1, <2>2, <2>3, <2>4 DEF Lane, None
  <2>6. s # None /\ ~ Streaming(k)
    BY <2>2, <2>5, HostFields DEF Streaming
  <2>7. BUFFERED_FRAMES \in Nat /\ Len(<< >>) = 0
    BY ClientLiveAssumption
  <2>8. LinkInv(k)
    BY <1>2, <2>2, <2>5, <2>6, <2>7 DEF Sound, LinkInv
  <2>9. CallsInv(k)
    BY <2>5 DEF Sound, CallsInv, Framed, Answers
  <2>10. LedgerInv(k)
    <3>1. Subscribed(k) = Subscribed(l) /\ (Upheld(k) <=> Upheld(l))
          /\ Epochs(k, Subscribed(k)) = Epochs(l, Subscribed(l))
      BY <2>5 DEF Subscribed, Upheld, Epochs
    <3> QED
      BY <2>5, <3>1 DEF Sound, LedgerInv
  <2>11. Sound(h, k)
    BY <2>5, <2>8, <2>9, <2>10 DEF Sound
  <2> QED
    BY <1>2, <2>2, <2>5, <2>6, <2>11 DEF k
<1> QED
  BY <1>1, <1>2

\* The lane rests: without a session, and otherwise what it was.
Rested(h, l, k) ==
  /\ Sound(h, k) /\ k.session = None
  /\ k.calls = l.calls /\ k.epochs = l.epochs /\ k.generation = l.generation
  /\ k.cursor = l.cursor /\ k.applied = l.applied /\ k.dropped = l.dropped /\ k.epoch = l.epoch

\* Rest follows rest.
LEMMA RestedOn ==
  ASSUME NEW h, NEW l, NEW k, NEW m, Rested(h, l, k), Rested(h, k, m)
  PROVE  Rested(h, l, m)
BY DEF Rested

\* end leaves the lane at rest.
LEMMA Ended ==
  ASSUME NEW h, NEW l, Sound(h, l)
  PROVE  Rested(h, l, end(l))
<1>1. CASE l.session = None
  BY <1>1 DEF end, Rested
<1>2. CASE l.session # None
  <2> DEFINE a == Close(l, l.session.epoch)
             k == [a EXCEPT !.session = None]
  <2>1. /\ Sound(h, a) /\ ~ Streaming(a)
        /\ a.calls = l.calls /\ a.epochs = l.epochs /\ a.generation = l.generation
        /\ a.cursor = l.cursor /\ a.applied = l.applied /\ a.dropped = l.dropped
        /\ a.epoch = l.epoch
    <3>1. CASE l.host # None /\ l.host.epoch = l.session.epoch
      <4> DEFINE b == abandon(l)
      <4>1. a = [b EXCEPT !.host = None]
        BY <3>1 DEF Close
      <4>2. /\ Sound(h, b) /\ ~ Streaming(b)
            /\ b.calls = l.calls /\ b.epochs = l.epochs /\ b.generation = l.generation
            /\ b.cursor = l.cursor /\ b.applied = l.applied /\ b.dropped = l.dropped
            /\ b.epoch = l.epoch
        BY Abandoned
      <4> HIDE DEF a, b
      <4>3. /\ a \in Lane(h) /\ a.host = None
            /\ a.calls = b.calls /\ a.epochs = b.epochs /\ a.generation = b.generation
            /\ a.cursor = b.cursor /\ a.applied = b.applied /\ a.dropped = b.dropped
            /\ a.epoch = b.epoch /\ a.session = b.session /\ a.in_flight = b.in_flight
            /\ a.issued = b.issued /\ a.http = b.http /\ a.stage = b.stage /\ a.frames = b.frames
            /\ a.overflowed = b.overflowed
        BY <4>1, <4>2 DEF Sound, Lane
      <4>4. LinkInv(a) /\ ~ Streaming(a)
        BY <4>2, <4>3 DEF Sound, LinkInv, Streaming
      <4>5. CallsInv(a)
        BY <4>2, <4>3 DEF Sound, CallsInv, Framed, Answers
      <4>6. Subscribed(a) = Subscribed(b) /\ (Upheld(a) <=> Upheld(b))
            /\ Epochs(a, Subscribed(a)) = Epochs(b, Subscribed(b))
        BY <4>3 DEF Subscribed, Upheld, Epochs
      <4>7. LedgerInv(a)
        BY <4>2, <4>3, <4>6 DEF Sound, LedgerInv
      <4> QED
        BY <4>2, <4>3, <4>4, <4>5, <4>7 DEF Sound
    <3>2. CASE ~ (l.host # None /\ l.host.epoch = l.session.epoch)
      <4>1. a = l
        BY <3>2 DEF Close
      <4>2. ~ Streaming(l)
        BY <3>2 DEF Sound, LinkInv, Streaming
      <4> HIDE DEF a
      <4> QED
        BY <4>1, <4>2
    <3> QED
      BY <3>1, <3>2
  <2> HIDE DEF a
  <2>2. /\ k \in Lane(h) /\ k.session = None
        /\ k.calls = a.calls /\ k.epochs = a.epochs /\ k.generation = a.generation
        /\ k.cursor = a.cursor /\ k.applied = a.applied /\ k.dropped = a.dropped
        /\ k.epoch = a.epoch /\ k.host = a.host /\ k.in_flight = a.in_flight
        /\ k.http = a.http /\ k.stage = a.stage /\ k.frames = a.frames
        /\ k.overflowed = a.overflowed
    BY <2>1 DEF Sound, Lane
  <2>3. end(l) = k
    BY <1>2 DEF end, a
  <2> HIDE DEF k
  <2>4. LinkInv(k)
    BY <2>1, <2>2 DEF Sound, LinkInv, Streaming
  <2>5. CallsInv(k)
    BY <2>1, <2>2 DEF Sound, CallsInv
  <2>6. LedgerInv(k)
    BY <2>2 DEF LedgerInv, Upheld
  <2>7. Rested(h, l, k)
    BY <2>1, <2>2, <2>4, <2>5, <2>6 DEF Sound, Rested
  <2> QED
    BY <2>3, <2>7
<1> QED
  BY <1>1, <1>2

\* With no session the driver may decide anything.
LEMMA DrivenRested ==
  ASSUME NEW h, NEW l, Sound(h, l), l.session = None, NEW k \in Lane(h), Driven(l, k)
  PROVE  Rested(h, l, k)
BY DrivenSound DEF Driven, Rested

\* complete leaves a lane at rest as it was.
LEMMA Completed ==
  ASSUME NEW h, NEW l, Sound(h, l), l.session = None, NEW success \in BOOLEAN
  PROVE  Rested(h, l, complete(l, success))
<1> DEFINE k == complete(l, success)
<1>1. CASE ~ l.in_flight
  BY <1>1 DEF complete, Rested
<1>2. CASE l.in_flight
  <2> DEFINE b == ~ success
             d == l.dirty \/ ~ success
  <2>0. l \in Lane(h)
    BY DEF Sound
  <2>1. k = [l EXCEPT !.in_flight = FALSE, !.backoff = b, !.dirty = d]
    BY <1>2, <2>0 DEF complete, Lane
  <2>2. l \in Lane(h) /\ b \in BOOLEAN /\ d \in BOOLEAN
    BY <2>0
  <2> HIDE DEF k, b, d
  <2>3. k \in Lane(h) /\ Driven(l, k)
    <3>2. DOMAIN l = Fields
      BY <2>2, LaneDomain
    <3>3. k = [f \in Fields |-> k[f]] /\ \A f \in Fields \ Flags : k[f] = l[f]
      BY <2>1, <3>2 DEF Flags
    <3>4. k.in_flight = FALSE /\ k.backoff = b /\ k.dirty = d
          /\ \A f \in Flags \ {"in_flight", "backoff", "dirty"} : k[f] = l[f]
      BY <2>1, <3>2 DEF Fields, Flags
    <3>5. \A f \in Flags : l[f] \in BOOLEAN
      BY <2>2, LaneFields DEF Flags
    <3>6. \A f \in Flags : k[f] \in BOOLEAN
      BY <2>2, <3>4, <3>5
    <3>1. k \in Lane(h)
      BY <2>2, <3>3, <3>6, FlagsSet
    <3> QED BY <2>1, <3>1, <3>2 DEF Fields, Driven
  <2> QED
    BY <2>3, DrivenRested DEF k
<1> QED
  BY <1>1, <1>2

\* fail leaves the lane at rest.
LEMMA Failed ==
  ASSUME NEW h, NEW l, Sound(h, l)
  PROVE  Rested(h, l, fail(l))
<1>1. Rested(h, l, end(l))
  BY Ended
<1>2. Rested(h, end(l), fail(l))
  BY <1>1, Completed DEF fail, Rested
<1> QED
  BY <1>1, <1>2, RestedOn

\* What the driver makes of a lane without a session: it stays without one, or
\* has a new one whose socket is connecting.
Begins(h, l, k) ==
  /\ Sound(h, k)
  /\ k.calls = l.calls /\ k.epochs = l.epochs /\ k.generation = l.generation
  /\ k.cursor = l.cursor /\ k.applied = l.applied /\ k.dropped = l.dropped
  /\ \/ k.session = None /\ k.epoch = l.epoch
     \/ /\ k.session # None /\ k.epoch = l.epoch + 1 /\ k.stage = "connecting"
        /\ k.host # None /\ k.host.epoch = k.epoch /\ ~ k.draining

\* begin opens a fresh session, or none when nothing is subscribed.
LEMMA Begun ==
  ASSUME NEW h, NEW l, Sound(h, l), l.session = None, l.in_flight
  PROVE  Begins(h, l, begin(l))
<1> DEFINE k == begin(l)
<1>1. CASE Subscribed(l) = {}
  <2>1. k = complete(l, TRUE) /\ TRUE \in BOOLEAN
    BY <1>1 DEF begin
  <2>2. Rested(h, l, k)
    BY <2>1, Completed
  <2> QED
    BY <2>2 DEF Begins, Rested
<1>2. CASE Subscribed(l) # {}
  <2> DEFINE n == l.epoch + 1
             m == [l EXCEPT !.epoch = n]
             s == [epoch |-> n, generation |-> l.generation, channels |-> Subscribed(l),
                   acknowledged |-> FALSE, active |-> None, again |-> FALSE, queue |-> << >>]
             host == [epoch |-> n, channels |-> Subscribed(l), ended |-> FALSE]
             a == [m EXCEPT !.session = s]
  <2>1. l \in Lane(h) /\ l.epoch \in Nat /\ l.generation \in Nat /\ Subscribed(l) \in SUBSET Channel
    BY LaneFields DEF Sound, Subscribed
  <2>2. s \in Session(h) /\ host \in Host /\ n \in Nat
    <3>1. << >> \in Seq(Page(h)) /\ None \in Positions(h)
      BY NoPositions
    <3> QED
      BY <2>1, <3>1 DEF Session, Host
  <2>3. m.epoch = n /\ m.generation = l.generation /\ Subscribed(m) = Subscribed(l)
    BY <2>1 DEF Lane, Subscribed
  <2>4. k = Open(a)
    BY <1>2, <2>3 DEF begin
  <2>5. s.epoch = n /\ s.generation = l.generation /\ s.channels = Subscribed(l)
        /\ ~ s.acknowledged /\ s.active = None /\ s.queue = << >>
        /\ host.epoch = n /\ host.channels = Subscribed(l) /\ ~ host.ended
        /\ s # None /\ host # None
    BY <2>2, SessionFields, HostFields
  <2>6. k = [a EXCEPT !.host = [epoch |-> a.epoch, channels |-> a.session.channels, ended |-> FALSE],
            !.stage = "connecting", !.told = None, !.frames = << >>,
            !.overflowed = FALSE, !.draining = FALSE, !.http = None]
    BY <2>4 DEF Open
  <2> HIDE DEF k, s
  <2>7. a \in Lane(h) /\ a.epoch = n /\ a.session = s /\ a.cursor = l.cursor /\ a.epochs = l.epochs
        /\ a.generation = l.generation /\ a.calls = l.calls /\ a.applied = l.applied
        /\ a.dropped = l.dropped /\ a.in_flight = l.in_flight /\ a.issued = l.issued
    <3>1. a = [l EXCEPT !.epoch = n, !.session = s]
      BY DEF a, m
    <3> HIDE DEF a, m, n, host
    <3>2. n \in Nat /\ s \in {None} \cup Session(h) /\ DOMAIN l = Fields
      BY <2>1, <2>2, LaneDomain
    <3>3. a \in Lane(h)
      BY <3>1, <3>2, <2>1 DEF Lane
    <3>4. /\ a.epoch = n /\ a.session = s /\ a.cursor = l.cursor /\ a.epochs = l.epochs
          /\ a.generation = l.generation /\ a.calls = l.calls /\ a.applied = l.applied
          /\ a.dropped = l.dropped /\ a.in_flight = l.in_flight /\ a.issued = l.issued
      BY <3>1, <3>2 DEF Fields
    <3> QED BY <3>3, <3>4
  <2> HIDE DEF a, m
  <2>8. k = [a EXCEPT !.host = host, !.stage = "connecting", !.told = None, !.frames = << >>,
                      !.overflowed = FALSE, !.draining = FALSE, !.http = None]
    BY <2>5, <2>6, <2>7
  <2> HIDE DEF host
  <2>9. << >> \in Seq(Frame(h)) /\ None \in Positions(h)
    BY NoPositions
  <2>17. DOMAIN a = Fields
    BY <2>7, LaneDomain
  <2>16. k \in Lane(h)
    <3>1. k = [f \in Fields |-> k[f]]
      BY <2>8, <2>17
    <3>2. /\ k.cursor = a.cursor /\ k.epochs = a.epochs /\ k.generation = a.generation
          /\ k.issued = a.issued /\ k.paused = a.paused /\ k.dirty = a.dirty
          /\ k.in_flight = a.in_flight /\ k.backoff = a.backoff /\ k.epoch = a.epoch
          /\ k.session = a.session /\ k.timer = a.timer /\ k.calls = a.calls
          /\ k.applied = a.applied /\ k.dropped = a.dropped
      BY <2>8, <2>17 DEF Fields
    <3>3. /\ k.host = host /\ k.stage = "connecting" /\ k.told = None /\ k.frames = << >>
          /\ k.overflowed = FALSE /\ k.draining = FALSE /\ k.http = None
      BY <2>8, <2>17 DEF Fields
    <3> HIDE DEF k
    <3>4. /\ k.host \in {None} \cup Host /\ k.stage \in {"connecting", "open", "ended"}
          /\ k.told \in Positions(h) /\ k.frames \in Seq(Frame(h)) /\ k.http = None
          /\ k.overflowed \in BOOLEAN /\ k.draining \in BOOLEAN
      BY <2>2, <2>9, <3>3
    <3>5. /\ k.cursor \in Cursors(h) /\ k.epochs \in [Channel -> Nat] /\ k.generation \in Nat
          /\ k.issued \in Seq(Asked) /\ k.paused \in BOOLEAN /\ k.dirty \in BOOLEAN
          /\ k.in_flight \in BOOLEAN /\ k.backoff \in BOOLEAN /\ k.epoch \in Nat
          /\ k.session \in {None} \cup Session(h) /\ k.timer \in BOOLEAN
          /\ k.calls \in Seq(Event(h)) /\ k.applied \in Seq(Page(h) \cup Answer(h))
          /\ k.dropped \in BOOLEAN
      BY <2>7, <3>2 DEF Lane
    <3> QED BY <3>1, <3>4, <3>5 DEF Lane, Fields
  <2>10. k \in Lane(h) /\ k.epoch = n /\ k.session = s /\ k.cursor = l.cursor /\ k.epochs = l.epochs
        /\ k.generation = l.generation /\ k.calls = l.calls /\ k.applied = l.applied
        /\ k.dropped = l.dropped /\ k.in_flight = l.in_flight /\ k.issued = l.issued
        /\ k.host = host /\ k.stage = "connecting" /\ k.frames = << >> /\ ~ k.overflowed
        /\ ~ k.draining /\ k.http = None
    BY <2>7, <2>8, <2>16, <2>17 DEF Fields
  <2>11. Len(<< >>) = 0 /\ BUFFERED_FRAMES \in Nat /\ QUEUED_FRAMES \in Nat
    BY ClientLiveAssumption
  <2>12. LinkInv(k)
    BY <2>1, <2>5, <2>10, <2>11 DEF LinkInv, Streaming
  <2>13. CallsInv(k)
    <3>1. \A i \in DOMAIN l.calls : OfSession(l.calls[i]) => l.calls[i].epoch \in Nat /\ l.calls[i].epoch <= l.epoch
      <4>1. \A i \in DOMAIN l.calls : l.calls[i] \in Event(h)
        BY <2>1, LaneFields
      <4>2. \A e \in Event(h) : OfSession(e) => e.epoch \in Nat
        BY DEF Event, OfSession
      <4> QED
        BY <4>1, <4>2 DEF Sound, CallsInv
    <3>2. \A i \in DOMAIN k.calls : ~ Framed(k, k.calls[i]) /\ ~ Answers(k, k.calls[i])
      BY <2>1, <2>5, <2>10, <3>1 DEF Framed, Answers, OfSession
    <3>3. \A i \in DOMAIN k.calls : OfSession(k.calls[i]) => k.calls[i].epoch <= k.epoch
      BY <2>1, <2>10, <3>1
    <3> QED
      BY <3>2, <3>3 DEF CallsInv
  <2>14. LedgerInv(k)
    BY <1>2, <2>5, <2>10 DEF LedgerInv, Subscribed
  <2>15. Begins(h, l, k)
    BY <2>5, <2>10, <2>12, <2>13, <2>14 DEF Begins, Sound
  <2> QED
    BY <2>15 DEF k
<1> QED
  BY <1>1, <1>2

\* next begins one or leaves the lane at rest.
LEMMA NextBegins ==
  ASSUME NEW h, NEW l, Sound(h, l), l.session = None
  PROVE  Begins(h, l, next(l))
<1>0. l \in Lane(h)
  BY DEF Sound
<1>1. CASE l.paused \/ l.in_flight \/ ~ l.dirty
  BY <1>1 DEF next, Begins
<1>2. CASE ~ (l.paused \/ l.in_flight \/ ~ l.dirty) /\ l.backoff
  <2> DEFINE k == [l EXCEPT !.timer = TRUE]
  <2>1. next(l) = k
    BY <1>2 DEF next
  <2>2. k \in Lane(h) /\ Driven(l, k)
    BY <1>0 DEF Lane, Driven
  <2> HIDE DEF k
  <2>3. Rested(h, l, k)
    BY <2>2, DrivenRested
  <2> QED
    BY <2>1, <2>3 DEF Rested, Begins
<1>3. CASE ~ (l.paused \/ l.in_flight \/ ~ l.dirty) /\ ~ l.backoff
  <2> DEFINE k == [l EXCEPT !.dirty = FALSE, !.in_flight = TRUE]
  <2>1. next(l) = begin(k)
    BY <1>3 DEF next
  <2>2. k \in Lane(h) /\ Driven(l, k) /\ k.in_flight
    BY <1>0 DEF Lane, Driven
  <2> HIDE DEF k
  <2>3. Rested(h, l, k)
    BY <2>2, DrivenRested
  <2>4. Begins(h, k, begin(k))
    BY <2>2, <2>3, Begun DEF Rested
  <2> QED
    BY <2>1, <2>3, <2>4 DEF Rested, Begins
<1> QED
  BY <1>1, <1>2, <1>3

---------------------------------------------------------------------------
(* The events of a session *)

\* Event e, taken from the queue, finds lane l.
Ready(h, l, e) ==
  /\ Sound(h, l) /\ e \in Event(h)
  /\ l.session # None =>
       /\ Framed(l, e) /\ Streaming(l) => l.draining
       /\ Answers(l, e) =>
            /\ l.http = None /\ l.session.active # None /\ From(e.page) = l.session.active
            /\ \A i \in DOMAIN l.calls : ~ Answers(l, l.calls[i])

\* What applying e does, whatever else waits in the queue.
Works(h, l, k, e) ==
  /\ Sound(h, k) /\ k.calls = l.calls /\ k.epochs = l.epochs /\ k.generation = l.generation
  /\ k.epoch = l.epoch
  /\ \A base : Covers(base, l) => Covers(base, k)
  /\ k.session = None \/ (l.session # None /\ k.host = l.host /\ k.draining = l.draining)
  /\ \A E : Flow(l, E \cup {e}) => Flow(k, E)

\* Without a session there is nothing to follow.
LEMMA NoFlow ==
  ASSUME NEW k, k.session = None
  PROVE  \A E : Flow(k, E)
BY DEF Flow, CoverInv, GreetInv, Told, Upheld

\* An event that is about no frame and no answer of the session owes it nothing.
LEMMA FlowDropped ==
  ASSUME NEW l, NEW e, NEW E, ~ Framed(l, e), ~ Answers(l, e)
  PROVE  Flow(l, E \cup {e}) <=> Flow(l, E)
<1>1. \A c : Ahead(l, E \cup {e}, c) <=> Ahead(l, E, c)
  BY DEF Ahead, Coming, Unread, Framed, Answers
<1>2. CoverInv(l, E \cup {e}) <=> CoverInv(l, E)
  BY <1>1 DEF CoverInv
<1>3. GreetInv(l, E \cup {e}) <=> GreetInv(l, E)
  BY DEF GreetInv, Framed
<1> QED
  BY <1>2, <1>3 DEF Flow

\* To rest is to work: nothing is owed without a session.
LEMMA WorksRested ==
  ASSUME NEW h, NEW l, NEW k, NEW e, Rested(h, l, k)
  PROVE  Works(h, l, k, e)
<1>1. \A base : Covers(base, l) => Covers(base, k)
  BY DEF Rested, Covers, Delivered
<1>2. \A E : Flow(k, E)
  BY NoFlow DEF Rested
<1> QED
  BY <1>1, <1>2 DEF Rested, Works

\* While a pull is under way everything is still to come.
LEMMA FlowPulling ==
  ASSUME NEW k, Told(k) => k.session.acknowledged /\ Pulling(k)
  PROVE  \A E : Flow(k, E)
<1>1. \A E : CoverInv(k, E)
  BY DEF CoverInv, Pulling, Ahead, Coming
<1>2. \A E : GreetInv(k, E)
  BY DEF GreetInv
<1> QED
  BY <1>1, <1>2 DEF Flow

\* To pull is to work: all the session was told of is asked for.
LEMMA WorksPulled ==
  ASSUME NEW h \in Heads, NEW l, NEW k, NEW m, NEW e, Sound(h, l), l.session # None,
         Sound(h, m), Outside(l, m), m.session # None, m.session.acknowledged,
         \A base : Covers(base, l) => Covers(base, m),
         Pulls(h, m, k)
  PROVE  Works(h, l, k, e)
<1>1. Sound(h, k) /\ (Upheld(m) /\ m.stage = "open" => Pulling(k))
  BY SoundPulled
<1>2. Outside(m, k) /\ Stays(m, k) /\ k.cursor = m.cursor /\ k.applied = m.applied
  BY DEF Pulls
<1>3. Told(k) => k.session.acknowledged /\ Pulling(k)
  BY <1>1, <1>2 DEF Told, Upheld, Outside, Stays
<1>4. \A E : Flow(k, E)
  BY <1>3, FlowPulling
<1>5. \A base : Covers(base, l) => Covers(base, k)
  BY <1>2 DEF Covers, Delivered
<1> QED
  BY <1>1, <1>2, <1>4, <1>5 DEF Works, Outside

\* The acknowledgement.
LEMMA AcknowledgedWorks ==
  ASSUME NEW h \in Heads, NEW l, NEW e, Ready(h, l, e), l.session # None, e.type = "message",
         e.epoch = l.session.epoch, e.frame.type = "subscribed"
  PROVE  Works(h, l, acknowledged(l, e.frame.heads), e)
<1> DEFINE s == [l.session EXCEPT !.acknowledged = TRUE]
           m == [l EXCEPT !.session = s]
           heads == e.frame.heads
           k == acknowledged(l, heads)
<1>1. l \in Lane(h) /\ l.session \in Session(h) /\ l.cursor \in Cursors(h) /\ l.told \in Positions(h)
  BY LaneFields DEF Ready, Sound
<1>2. heads \in Positions(h)
  BY DEF Ready, Event, Frame
<1>3. s \in Session(h) /\ s.epoch = l.session.epoch /\ s.generation = l.session.generation
      /\ s.channels = l.session.channels /\ s.acknowledged /\ s.active = l.session.active
      /\ s.again = l.session.again /\ s.queue = l.session.queue
  BY <1>1 DEF Session
<1>4. m = [l EXCEPT !.session.acknowledged = TRUE]
  BY <1>1 DEF Lane
<1> HIDE DEF heads, s
<1>6. Aside(h, l, m) /\ m.session = s
  BY <1>1, <1>3, SessionSet
<1> HIDE DEF m
<1>5. k = IF Behind(l, heads) THEN pull(m) ELSE m
  BY <1>4 DEF acknowledged
<1> HIDE DEF k
<1>7. m.session # None
  BY <1>3, <1>6, SessionFields
<1>8. Sound(h, m)
  <2>1. Streaming(m) <=> Streaming(l)
    BY <1>6 DEF Aside, Outside, Streaming
  <2>2. l.stage # "connecting"
    <3>1. Streaming(l) => l.draining
      BY DEF Ready, Framed
    <3> QED
      BY <3>1 DEF Ready, Sound, LinkInv
  <2>3. LinkInv(m)
    BY <1>3, <1>6, <1>7, <2>1, <2>2 DEF Ready, Sound, LinkInv, Aside, Outside
  <2>4. CallsInv(m)
    BY <1>3, <1>6 DEF Ready, Sound, CallsInv, Framed, Answers, Aside, Outside
  <2>5. Subscribed(m) = Subscribed(l) /\ (Upheld(m) <=> Upheld(l))
        /\ Epochs(m, Subscribed(m)) = Epochs(l, Subscribed(l))
    BY <1>3, <1>6, <1>7 DEF Subscribed, Upheld, Epochs, Aside, Outside
  <2>6. LedgerInv(m)
    BY <1>3, <1>6, <2>5 DEF Ready, Sound, LedgerInv, Aside
  <2> QED
    BY <1>6, <2>3, <2>4, <2>6 DEF Sound, Aside
<1>9. Outside(l, m) /\ \A base : Covers(base, l) => Covers(base, m)
  BY <1>6 DEF Aside, Covers, Delivered
<1>10. CASE Behind(l, heads)
  <2>1. Pulls(h, m, pull(m))
    BY <1>7, <1>8, Pull DEF Sound
  <2>2. Works(h, l, pull(m), e)
    BY <1>3, <1>6, <1>7, <1>8, <1>9, <2>1, WorksPulled DEF Ready
  <2> QED
    BY <1>5, <1>10, <2>2 DEF k, heads
<1>11. CASE ~ Behind(l, heads)
  <2>1. ASSUME NEW E, Flow(l, E \cup {e}) PROVE Flow(m, E)
    <3>1. SUFFICES ASSUME ~ m.dropped, Told(m), NEW c \in m.session.channels
                   PROVE  m.cursor[c] >= m.told[c] \/ Ahead(m, E, c)
      BY <1>3, <1>6 DEF Flow, CoverInv, GreetInv
    <3>2. /\ Told(l) /\ c \in l.session.channels /\ ~ l.dropped /\ m.told = l.told /\ m.cursor = l.cursor
          /\ m.frames = l.frames /\ m.overflowed = l.overflowed
      BY <1>3, <1>6, <3>1 DEF Told, Upheld, Aside, Outside
    <3>3. CASE l.session.acknowledged
      <4>1. l.cursor[c] >= l.told[c] \/ Ahead(l, E \cup {e}, c)
        BY <2>1, <3>2, <3>3 DEF Flow, CoverInv
      <4>2. Ahead(l, E \cup {e}, c) => Ahead(m, E, c)
        BY <1>3, <1>6 DEF Ahead, Coming, Unread, Aside, Outside, InFrames, Answers
      <4> QED
        BY <3>2, <4>1, <4>2
    <3>4. CASE ~ l.session.acknowledged
      <4>1. /\ DOMAIN heads = l.session.channels
            /\ heads[c] >= l.told[c] \/ l.overflowed \/ InFrames(l, c, l.told[c])
        BY <2>1, <3>2, <3>4 DEF Flow, GreetInv, heads
      <4>2. CASE l.overflowed \/ InFrames(l, c, l.told[c])
        BY <3>2, <4>2 DEF Ahead, Coming, Unread, InFrames
      <4>3. CASE heads[c] >= l.told[c]
        <5>1. ~ (heads[c] > l.cursor[c])
          BY <1>11, <3>2, <4>1 DEF Behind
        <5>2. c \in Channel /\ c \in DOMAIN l.told
          BY <1>1, <3>2, SessionFields DEF Ready, Sound, LinkInv, Streaming, Told, Upheld
        <5>3. l.told[c] \in Nat /\ heads[c] \in Nat /\ m.cursor[c] \in Int
          BY <1>1, <1>2, <3>2, <4>1, <5>2 DEF Positions, Cursors, Unsubscribed
        <5> QED
          BY <3>2, <4>3, <5>1, <5>3
      <4> QED
        BY <4>1, <4>2, <4>3
    <3> QED
      BY <3>3, <3>4
  <2>2. Works(h, l, m, e)
    BY <1>6, <1>7, <1>8, <1>9, <2>1 DEF Works, Outside
  <2> QED
    BY <1>5, <1>11, <2>2 DEF k, heads
<1> QED
  BY <1>10, <1>11

\* To drain is to work.
LEMMA WorksDrained ==
  ASSUME NEW h \in Heads, NEW l, NEW m, NEW e, l.session # None,
         Sound(h, m), Outside(l, m), m.session # None, m.session.acknowledged,
         \A base : Covers(base, l) => Covers(base, m),
         \A E : Flow(l, E \cup {e}) => (~ m.dropped => CoverInv(m, E))
  PROVE  Works(h, l, drain(m), e)
<1> DEFINE k == drain(m)
<1>1. Drains(h, m, k)
  BY Drained
<1> HIDE DEF k
<1>2. Sound(h, k) /\ Outside(m, k) /\ Stays(m, k)
  BY <1>1 DEF Drains
<1>3. \A base : Covers(base, l) => Covers(base, k)
  BY <1>1 DEF Drains
<1>4. \A E : Flow(l, E \cup {e}) => (~ k.dropped => CoverInv(k, E))
  BY <1>1 DEF Drains
<1>5. \A E : GreetInv(k, E)
  BY <1>2 DEF GreetInv, Stays
<1>6. \A E : Flow(l, E \cup {e}) => Flow(k, E)
  BY <1>4, <1>5 DEF Flow
<1>7. Works(h, l, k, e)
  BY <1>2, <1>3, <1>6 DEF Works, Outside
<1> QED
  BY <1>7 DEF k

\* The queue is cleared and everything asked for.
LEMMA OverflowWorks ==
  ASSUME NEW h \in Heads, NEW l, NEW e, Ready(h, l, e), l.session # None, l.session.acknowledged
  PROVE  Works(h, l, overflow(l), e)
<1> DEFINE m == [l EXCEPT !.session.queue = << >>]
<1>1. Sound(h, l) /\ l \in Lane(h) /\ << >> \in Seq(Page(h))
  BY DEF Ready, Sound
<1>2. QueueIs(h, l, m, << >>)
  BY <1>1, QueueSet
<1>3. overflow(l) = pull(m)
  BY DEF overflow
<1> HIDE DEF m
<1>4. /\ m \in Lane(h) /\ Outside(l, m) /\ Stays(l, m) /\ m.http = l.http
      /\ m.session.active = l.session.active /\ m.cursor = l.cursor /\ m.issued = l.issued
      /\ Subscribed(m) = Subscribed(l) /\ m.session.queue = << >>
      /\ m.session # None /\ m.session.acknowledged
  BY <1>2 DEF QueueIs, Aside, Stays, Subscribed
<1>5. Len(<< >>) <= QUEUED_FRAMES
  BY ClientLiveAssumption
<1>6. Sound(h, m)
  BY <1>1, <1>4, <1>5, SoundMoved
<1>7. \A base : Covers(base, l) => Covers(base, m)
  BY <1>2 DEF QueueIs, Aside, Covers, Delivered
<1>8. Pulls(h, m, pull(m))
  BY <1>4, Pull
<1> QED
  BY <1>1, <1>3, <1>4, <1>6, <1>7, <1>8, WorksPulled

\* A page.
LEMMA PageWorks ==
  ASSUME NEW h \in Heads, NEW l, NEW e, Ready(h, l, e), l.session # None, e.type = "message",
         e.epoch = l.session.epoch, e.frame.type = "page"
  PROVE  Works(h, l, page_arrived(l, e.frame.page), e)
<1> DEFINE p == e.frame.page
<1>1. Sound(h, l) /\ l \in Lane(h) /\ p \in Page(h)
  BY DEF Ready, Sound, Event, Frame
<1>2. CASE ~ l.session.acknowledged
  BY <1>1, <1>2, Failed, WorksRested DEF page_arrived
<1>3. CASE l.session.acknowledged /\ Len(l.session.queue) >= QUEUED_FRAMES
  BY <1>3, OverflowWorks DEF page_arrived
<1>4. CASE l.session.acknowledged /\ ~ (Len(l.session.queue) >= QUEUED_FRAMES)
  <2> DEFINE q == Append(l.session.queue, p)
             m == [l EXCEPT !.session.queue = q]
  <2>1. l.session.queue \in Seq(Page(h))
    BY <1>1, LaneFields, SessionFields
  <2>2. /\ q \in Seq(Page(h)) /\ Len(q) = Len(l.session.queue) + 1 /\ q[Len(q)] = p
        /\ Len(q) \in DOMAIN q /\ \A i \in DOMAIN l.session.queue : i \in DOMAIN q /\ q[i] = l.session.queue[i]
    BY <1>1, <2>1
  <2>3. QueueIs(h, l, m, q)
    BY <1>1, <2>2, QueueSet
  <2>4. page_arrived(l, p) = drain(m)
    <3>1. m = [l EXCEPT !.session.queue = Append(@, p)]
      BY <1>1 DEF Lane
    <3> HIDE DEF m
    <3> QED
      BY <1>4, <3>1 DEF page_arrived
  <2> HIDE DEF m, q
  <2>5. /\ m \in Lane(h) /\ Outside(l, m) /\ Stays(l, m) /\ m.http = l.http
        /\ m.session.active = l.session.active /\ m.cursor = l.cursor /\ m.issued = l.issued
        /\ Subscribed(m) = Subscribed(l) /\ m.session.queue = q /\ m.dropped = l.dropped
        /\ m.session # None /\ m.session.acknowledged /\ m.session.again = l.session.again
    BY <1>4, <2>3 DEF QueueIs, Aside, Stays, Subscribed
  <2>6. Len(q) <= QUEUED_FRAMES
    <3>1. Len(l.session.queue) \in Nat /\ QUEUED_FRAMES \in Nat
      BY <2>1, ClientLiveAssumption
    <3> QED
      BY <1>4, <2>2, <3>1
  <2>7. Sound(h, m)
    BY <1>1, <1>4, <2>5, <2>6, SoundMoved
  <2>8. \A base : Covers(base, l) => Covers(base, m)
    BY <2>3 DEF QueueIs, Aside, Covers, Delivered
  <2>9. ASSUME NEW E, Flow(l, E \cup {e}), ~ m.dropped PROVE CoverInv(m, E)
    <3>1. SUFFICES ASSUME Told(m), NEW c \in m.session.channels
                   PROVE  m.cursor[c] >= m.told[c] \/ Ahead(m, E, c)
      BY DEF CoverInv
    <3>2. Told(l) /\ c \in l.session.channels /\ m.told = l.told
      BY <2>5, <3>1 DEF Told, Upheld, Outside, Stays
    <3>3. l.cursor[c] >= l.told[c] \/ Ahead(l, E \cup {e}, c)
      BY <1>4, <2>5, <2>9, <3>2 DEF Flow, CoverInv
    <3>4. CASE Reaches(p, c, l.told[c])
      BY <2>2, <2>5, <3>2, <3>4 DEF Ahead, Coming, Unread
    <3>5. CASE \E i \in DOMAIN l.session.queue : Reaches(l.session.queue[i], c, l.told[c])
      BY <2>2, <2>5, <3>2, <3>5 DEF Ahead, Coming, Unread
    <3>6. CASE /\ ~ Reaches(p, c, l.told[c]) /\ Ahead(l, E \cup {e}, c)
               /\ ~ \E i \in DOMAIN l.session.queue : Reaches(l.session.queue[i], c, l.told[c])
      BY <2>5, <3>2, <3>6 DEF Ahead, Coming, Unread, Outside, Stays, InFrames, Answers
    <3> QED
      BY <2>5, <3>2, <3>3, <3>4, <3>5, <3>6
  <2> QED
    BY <2>4, <2>5, <2>7, <2>8, <2>9, WorksDrained
<1> QED
  BY <1>2, <1>3, <1>4

\* A page that answers the request in flight is applied or covered.
LEMMA AnswerReceived ==
  ASSUME NEW h \in Heads, NEW l \in Lane(h), NEW p \in Pages(h), Upheld(l), LedgerInv(l),
         l.session.active # None, From(p) = l.session.active,
         NEW a \in Lane(h), Outside(l, a), a.cursor = l.cursor, a.issued = l.issued
  PROVE  /\ DOMAIN p = Subscribed(l)
         /\ receive_downlink(a, p).disposition \in {"applied", "covered"}
<1>1. /\ l.session.active = [c \in Subscribed(l) |-> l.cursor[c]]
      /\ \E i \in DOMAIN l.issued : /\ l.issued[i].cursors = l.session.active
                                    /\ l.issued[i].epochs = Epochs(l, Subscribed(l))
  BY DEF LedgerInv
<1>2. From(p) = [c \in DOMAIN p |-> p[c].from]
  BY DEF From
<1>3. DOMAIN p = Subscribed(l) /\ \A c \in DOMAIN p : p[c].from = l.cursor[c]
  BY <1>1, <1>2
<1>4. Epochs(a, DOMAIN p) = Epochs(l, Subscribed(l))
  BY <1>3 DEF Epochs, Outside
<1>5. ~ Judgement(a, p).stale
  BY <1>1, <1>4, JudgementShape
<1>6. gaps(a, p) = {}
  <2>1. \A c \in Channel : l.cursor[c] \in Int
    BY LaneFields DEF Cursors, Unsubscribed
  <2> QED
    BY <1>3, <2>1 DEF gaps, News, Subscribed
<1> QED
  BY <1>3, <1>5, <1>6 DEF receive_downlink

\* The response to a pull.
LEMMA CatchUpWorks ==
  ASSUME NEW h \in Heads, NEW l, NEW e, Ready(h, l, e), Upheld(l), e.type = "catchUp",
         e.epoch = l.session.epoch
  PROVE  Works(h, l, catch_up(l, e.page), e)
<1> DEFINE p == e.page
           a == [l EXCEPT !.session.active = None]
           m == receive_downlink(a, p).lane
           d == receive_downlink(a, p).disposition
           b == [m EXCEPT !.session.again = FALSE]
           more == \E c \in DOMAIN p : p[c].to < p[c].head
<1>1. /\ Sound(h, l) /\ l \in Lane(h) /\ p \in Answer(h) /\ p \in Pages(h) /\ None \in Positions(h)
      /\ l.session # None
  BY NoPositions DEF Ready, Sound, Event, Pages, Upheld
<1>2. /\ l.http = None /\ l.session.active # None /\ From(p) = l.session.active
      /\ \A i \in DOMAIN l.calls : ~ Answers(l, l.calls[i])
  BY <1>1 DEF Ready, Answers
<1>3. l.session.acknowledged
  BY <1>1, <1>2 DEF Sound, LinkInv
<1>4. ActiveIs(h, l, a, None)
  BY <1>1, ActiveSet
<1>5. catch_up(l, p) = IF more THEN pull(m) ELSE IF m.session.again THEN pull(b) ELSE drain(m)
  BY DEF catch_up
<1> HIDE DEF a, p, more
<1>6. /\ a \in Lane(h) /\ Outside(l, a) /\ Stays(l, a) /\ a.http = l.http /\ a.session.active = None
      /\ a.cursor = l.cursor /\ a.issued = l.issued /\ Subscribed(a) = Subscribed(l)
      /\ a.session.queue = l.session.queue /\ a.session.again = l.session.again
      /\ a.applied = l.applied /\ a.dropped = l.dropped
  BY <1>4 DEF ActiveIs, Aside, Subscribed
<1>7. Receives(h, a, m, d, p)
  BY <1>1, <1>6, Received
<1>8. DOMAIN p = Subscribed(l) /\ d \in {"applied", "covered"}
  BY <1>1, <1>2, <1>6, AnswerReceived DEF Sound
<1> HIDE DEF m, d
<1>9. /\ m \in Lane(h) /\ Outside(l, m) /\ Stays(l, m) /\ m.http = l.http /\ m.session.active = None
      /\ Subscribed(m) = Subscribed(l) /\ m.session.queue = l.session.queue
      /\ m.session.again = l.session.again /\ m.dropped = l.dropped
      /\ m.session # None /\ m.session.acknowledged
  <2>1. /\ m \in Lane(h) /\ Outside(a, m) /\ m.session = a.session /\ m.http = a.http
        /\ Subscribed(m) = Subscribed(a) /\ m.dropped = a.dropped
    BY <1>7 DEF Receives
  <2>2. Outside(l, m)
    BY <1>6, <2>1 DEF Outside
  <2>3. Stays(l, m)
    BY <1>6, <2>1 DEF Stays
  <2> QED
    BY <1>3, <1>6, <2>1, <2>2, <2>3 DEF Stays
<1>10. Len(l.session.queue) <= QUEUED_FRAMES
  BY <1>1 DEF Sound, LinkInv
<1>11. Sound(h, m)
  BY <1>1, <1>2, <1>3, <1>9, <1>10, SoundMoved
<1>12. \A base : Covers(base, l) => Covers(base, m)
  <2>1. \A base : Covers(base, l) => Covers(base, a)
    BY <1>6 DEF Covers, Delivered
  <2> QED
    BY <1>1, <1>6, <1>7, <2>1, CoversReceived
<1>13. CASE more
  BY <1>1, <1>5, <1>9, <1>11, <1>12, <1>13, Pull, WorksPulled DEF p
<1>14. CASE ~ more /\ m.session.again
  <2>1. AgainIs(h, m, b, FALSE)
    BY <1>9, AgainSet
  <2> HIDE DEF b
  <2>2. /\ b \in Lane(h) /\ Outside(m, b) /\ Stays(m, b) /\ b.http = m.http /\ b.session.active = None
        /\ Subscribed(b) = Subscribed(m) /\ b.session.queue = m.session.queue
        /\ b.cursor = m.cursor /\ b.applied = m.applied
        /\ b.session # None /\ b.session.acknowledged
    BY <1>9, <2>1 DEF AgainIs, Aside, Subscribed, Stays
  <2>3. Sound(h, b)
    BY <1>2, <1>9, <1>10, <1>11, <2>2, SoundMoved, Unasked
  <2>4. Outside(l, b)
    BY <1>9, <2>2 DEF Outside
  <2>5. \A base : Covers(base, l) => Covers(base, b)
    BY <1>12, <2>2 DEF Covers, Delivered
  <2>6. Pulls(h, b, pull(b))
    BY <2>2, Pull
  <2> QED
    BY <1>1, <1>5, <1>14, <2>2, <2>3, <2>4, <2>5, <2>6, WorksPulled DEF p
<1>15. CASE ~ more /\ ~ m.session.again
  <2>1. ASSUME NEW E, Flow(l, E \cup {e}), ~ m.dropped PROVE CoverInv(m, E)
    <3>1. SUFFICES ASSUME Told(m), NEW c \in m.session.channels
                   PROVE  m.cursor[c] >= m.told[c] \/ Ahead(m, E, c)
      BY DEF CoverInv
    <3>2. Told(l) /\ c \in l.session.channels /\ m.told = l.told
      BY <1>1, <1>9, <3>1 DEF Told, Upheld, Outside, Stays
    <3>3. l.cursor[c] >= l.told[c] \/ Ahead(l, E \cup {e}, c)
      BY <1>3, <1>9, <2>1, <3>2 DEF Flow, CoverInv
    <3>4. c \in DOMAIN p /\ c \in Subscribed(l) /\ c \in Channel /\ c \in DOMAIN l.told
      BY <1>1, <1>8, <3>2 DEF Sound, LedgerInv, Told, Subscribed, LinkInv, Streaming
    <3>5. /\ l.cursor[c] \in Int /\ m.cursor[c] \in Int /\ l.told[c] \in Int
          /\ p[c].to \in Int /\ p[c].head \in Int
      <4>1. l.cursor \in Cursors(h) /\ m.cursor \in Cursors(h) /\ l.told \in Positions(h)
        BY <1>1, <1>9, LaneFields
      <4> QED
        BY <1>1, <3>4, <4>1, PageShape DEF Cursors, Positions, Unsubscribed
    <3>6. m.cursor[c] >= l.cursor[c] /\ m.cursor[c] >= p[c].to
      BY <1>6, <1>7, <1>8, <3>4 DEF Receives
    <3>7. p[c].to >= p[c].head
      BY <1>15, <3>4, <3>5 DEF more
    <3>8. CASE l.cursor[c] >= l.told[c]
      BY <3>2, <3>5, <3>6, <3>8
    <3>9. CASE p[c].head >= l.told[c]
      BY <3>2, <3>5, <3>6, <3>7, <3>9
    <3>10. CASE ~ (p[c].head >= l.told[c]) /\ Ahead(l, E \cup {e}, c)
      BY <1>2, <1>9, <1>15, <3>2, <3>10 DEF Ahead, Coming, Unread, Outside, Stays, InFrames, Answers, p
    <3> QED
      BY <3>3, <3>8, <3>9, <3>10
  <2> QED
    BY <1>1, <1>5, <1>9, <1>11, <1>12, <1>15, <2>1, WorksDrained DEF p
<1> QED
  BY <1>13, <1>14, <1>15

---------------------------------------------------------------------------
(* Any event *)

\* Nothing, or something of the driver, happens.
LEMMA WorksDriven ==
  ASSUME NEW h, NEW l, NEW k \in Lane(h), NEW e, Sound(h, l), Driven(l, k), k.session # None => k.in_flight,
         l.session # None => ~ Framed(l, e) /\ ~ Answers(l, e)
  PROVE  Works(h, l, k, e)
<1>1. /\ Sound(h, k)
      /\ \A base : Covers(base, l) => Covers(base, k)
      /\ \A E : Flow(l, E) => Flow(k, E)
  BY DrivenSound
<1>2. ASSUME NEW E, Flow(l, E \cup {e}) PROVE Flow(k, E)
  <2>1. CASE l.session = None
    BY <2>1, NoFlow DEF Driven
  <2>2. CASE l.session # None
    BY <1>1, <1>2, <2>2, FlowDropped
  <2> QED
    BY <2>1, <2>2
<1> QED
  BY <1>1, <1>2 DEF Works, Driven

\* Applied: every event works.
LEMMA AppliedWorks ==
  ASSUME NEW h \in Heads, NEW l, NEW e, Ready(h, l, e), l.session = None \/ Upheld(l)
  PROVE  Works(h, l, Applied(l, e), e)
<1>0. Sound(h, l) /\ l \in Lane(h) /\ e \in Event(h) /\ (l.session # None => l.in_flight)
  BY DEF Ready, Sound, LinkInv
<1>1. ASSUME l.session # None, Framed(l, e) \/ Answers(l, e)
      PROVE  Current(l, e) /\ e.type \in {"message", "overflow", "catchUp"}
  BY <1>1 DEF Framed, Answers, Current
<1>2. ASSUME e.type \in {"message", "overflow", "catchUp", "closed"}, ~ Current(l, e)
      PROVE  Works(h, l, l, e)
  <2>1. l.session # None => ~ Framed(l, e) /\ ~ Answers(l, e)
    BY <1>1, <1>2
  <2> QED
    BY <1>0, <2>1, WorksDriven DEF Driven
<1>3. CASE e.type = "message" /\ Current(l, e)
  <2>1. Applied(l, e) = message(l, e.frame) /\ l.session # None /\ e.epoch = l.session.epoch
    BY <1>3 DEF Applied, Current
  <2>2. e.frame.type \in {"subscribed", "page"}
    BY <1>0, <1>3 DEF Event, Frame
  <2> QED
    BY <1>3, <2>1, <2>2, AcknowledgedWorks, PageWorks DEF message
<1>4. CASE e.type = "overflow" /\ Current(l, e)
  <2>1. Applied(l, e) = overflow(l) /\ l.session # None
    BY <1>4 DEF Applied, Current
  <2>2. CASE l.session.acknowledged
    BY <2>1, <2>2, OverflowWorks
  <2>3. CASE ~ l.session.acknowledged
    <3>1. overflow(l) = l
      BY <2>3 DEF overflow
    <3>2. \A E : Flow(l, E \cup {e}) => Flow(l, E)
      <4>1. \A E : CoverInv(l, E)
        BY <2>3 DEF CoverInv
      <4>2. \A E : GreetInv(l, E \cup {e}) => GreetInv(l, E)
        BY DEF GreetInv
      <4> QED
        BY <4>1, <4>2 DEF Flow
    <3> QED
      BY <1>0, <2>1, <3>1, <3>2 DEF Works
  <2> QED
    BY <2>2, <2>3
<1>5. CASE e.type = "catchUp" /\ Current(l, e)
  <2>1. Applied(l, e) = catch_up(l, e.page) /\ Upheld(l) /\ e.epoch = l.session.epoch
    BY <1>5 DEF Applied, Current
  <2> QED
    BY <1>5, <2>1, CatchUpWorks
<1>6. CASE e.type = "closed" /\ Current(l, e)
  <2>1. Applied(l, e) = fail(l)
    BY <1>6 DEF Applied
  <2> QED
    BY <1>0, <2>1, Failed, WorksRested
<1>7. CASE e.type \in {"start", "wake"}
  <2> DEFINE k == [l EXCEPT !.dirty = TRUE]
  <2>1. k \in Lane(h) /\ Driven(l, k) /\ k.in_flight = l.in_flight
    BY <1>0 DEF Lane, Driven
  <2>2. Applied(l, e) = k
    BY <1>7 DEF Applied
  <2> HIDE DEF k
  <2>3. k.session # None => k.in_flight
    BY <1>0, <2>1 DEF Driven
  <2> QED
    BY <1>0, <1>7, <2>1, <2>2, <2>3, WorksDriven DEF Framed, Answers
<1>8. CASE e.type = "resume"
  <2> DEFINE k == [l EXCEPT !.paused = FALSE, !.dirty = TRUE, !.backoff = FALSE]
  <2>1. k \in Lane(h) /\ Driven(l, k) /\ k.in_flight = l.in_flight
    BY <1>0 DEF Lane, Driven
  <2>2. Applied(l, e) = k
    BY <1>8 DEF Applied
  <2> HIDE DEF k
  <2>3. k.session # None => k.in_flight
    BY <1>0, <2>1 DEF Driven
  <2> QED
    BY <1>0, <1>8, <2>1, <2>2, <2>3, WorksDriven DEF Framed, Answers
<1>9. CASE e.type = "pause"
  <2> DEFINE m == IF l.session # None THEN complete(end(l), TRUE) ELSE l
             k == [m EXCEPT !.paused = TRUE]
  <2>1. Rested(h, l, m)
    <3>1. CASE l.session # None
      <4>1. Rested(h, l, end(l)) /\ TRUE \in BOOLEAN
        BY <1>0, Ended
      <4>2. Rested(h, end(l), complete(end(l), TRUE))
        BY <4>1, Completed DEF Rested
      <4>3. Rested(h, l, complete(end(l), TRUE))
        BY <4>1, <4>2, RestedOn
      <4> QED
        BY <3>1, <4>3
    <3>2. CASE l.session = None
      BY <1>0, <3>2 DEF Rested
    <3> QED
      BY <3>1, <3>2
  <2>2. Applied(l, e) = k
    BY <1>9 DEF Applied
  <2> HIDE DEF m
  <2>3. k \in Lane(h) /\ Driven(m, k)
    BY <2>1 DEF Rested, Sound, Lane, Driven
  <2> HIDE DEF k
  <2>4. Rested(h, m, k)
    BY <2>1, <2>3, DrivenRested DEF Rested
  <2> QED
    BY <2>1, <2>2, <2>4, RestedOn, WorksRested
<1>10. CASE e.type \in {"next", "channel"}
  <2>1. Applied(l, e) = l
    BY <1>10 DEF Applied
  <2> QED
    BY <1>0, <1>10, <2>1, WorksDriven DEF Framed, Answers, Driven
<1>11. e.type \in {"start", "wake", "pause", "resume", "next", "channel", "closed", "overflow", "message", "catchUp"}
  BY <1>0 DEF Event
<1>12. CASE e.type \in {"message", "overflow", "catchUp", "closed"} /\ ~ Current(l, e)
  <2>1. Applied(l, e) = l
    BY <1>12 DEF Applied
  <2> QED
    BY <1>2, <1>12, <2>1
<1> QED
  BY <1>3, <1>4, <1>5, <1>6, <1>7, <1>8, <1>9, <1>10, <1>11, <1>12

\* What handling e does: the session goes on with its socket, or a new one is
\* connecting, or there is none.
Handles(h, l, k, e) ==
  /\ Sound(h, k) /\ k.calls = l.calls /\ k.epochs = l.epochs /\ k.generation = l.generation
  /\ \A base : Covers(base, l) => Covers(base, k)
  /\ \A E : Flow(l, E \cup {e}) => Flow(k, E)
  /\ \/ k.session = None /\ k.epoch = l.epoch
     \/ /\ l.session # None /\ k.session # None /\ k.epoch = l.epoch /\ k.host = l.host
        /\ k.draining = l.draining
     \/ /\ k.session # None /\ k.epoch = l.epoch + 1 /\ k.host # None /\ k.host.epoch = k.epoch
        /\ ~ k.draining /\ k.stage = "connecting"

\* Renewed ends the session of a changed subscription, and leaves any other.
LEMMA RenewedSession ==
  ASSUME NEW h, NEW l, Sound(h, l)
  PROVE  Rested(h, l, Renewed(l)) \/ (Renewed(l) = l /\ (l.session = None \/ Upheld(l)))
<1>1. CASE l.session # None /\ l.session.generation # l.generation
  <2> DEFINE m == complete(end(l), TRUE)
             k == [m EXCEPT !.dirty = TRUE]
  <2>1. Rested(h, l, end(l)) /\ TRUE \in BOOLEAN
    BY Ended
  <2>2. Rested(h, end(l), m)
    BY <2>1, Completed DEF Rested
  <2>3. Renewed(l) = k
    BY <1>1 DEF Renewed
  <2> HIDE DEF m
  <2>4. k \in Lane(h) /\ Driven(m, k)
    BY <2>2 DEF Rested, Sound, Lane, Driven
  <2> HIDE DEF k
  <2>5. Rested(h, m, k)
    BY <2>2, <2>4, DrivenRested DEF Rested
  <2> QED
    BY <2>1, <2>2, <2>3, <2>5, RestedOn
<1>2. CASE ~ (l.session # None /\ l.session.generation # l.generation)
  BY <1>2 DEF Renewed, Upheld
<1> QED
  BY <1>1, <1>2

\* handle does that.
LEMMA Handled ==
  ASSUME NEW h \in Heads, NEW l, NEW e, Ready(h, l, e)
  PROVE  Handles(h, l, handle(l, e), e)
<1> DEFINE r == Renewed(l)
           m == Applied(r, e)
           k == handle(l, e)
<1>0. k = IF m.session = None THEN next(m) ELSE m
  BY DEF handle
<1> HIDE DEF k
<1>1. /\ Ready(h, r, e) /\ (r.session = None \/ Upheld(r))
      /\ r.calls = l.calls /\ r.epochs = l.epochs /\ r.generation = l.generation /\ r.epoch = l.epoch
      /\ r.session # None => r = l
  <2>1. CASE Rested(h, l, r)
    BY <2>1 DEF Rested, Ready
  <2>2. CASE r = l /\ (l.session = None \/ Upheld(l))
    <3> HIDE DEF r
    <3> QED
      BY <2>2
  <2>3. Sound(h, l)
    BY DEF Ready
  <2> QED
    BY <2>1, <2>2, <2>3, RenewedSession
<1>2. \A base : Covers(base, l) => Covers(base, r)
  <2>1. CASE Rested(h, l, r)
    BY <2>1 DEF Rested, Covers, Delivered
  <2>2. CASE r = l
    <3> HIDE DEF r
    <3> QED
      BY <2>2
  <2>3. Sound(h, l)
    BY DEF Ready
  <2> QED
    BY <2>1, <2>2, <2>3, RenewedSession
<1> HIDE DEF r
<1>3. Works(h, r, m, e)
  BY <1>1, AppliedWorks
<1> HIDE DEF m
<1>4. \A base : Covers(base, l) => Covers(base, m)
  BY <1>2, <1>3 DEF Works
<1>5. CASE m.session # None
  <2>1. r = l /\ r.session # None
    BY <1>1, <1>3, <1>5 DEF Works
  <2>2. Works(h, l, m, e)
    BY <1>3, <2>1
  <2>3. k = m
    BY <1>0, <1>5
  <2>4. Handles(h, l, m, e)
    BY <1>5, <2>1, <2>2 DEF Works, Handles
  <2> QED
    BY <2>3, <2>4 DEF k
<1>6. CASE m.session = None
  <2>1. Begins(h, m, k)
    BY <1>0, <1>3, <1>6, NextBegins DEF Works
  <2>2. \A base : Covers(base, l) => Covers(base, k)
    BY <1>4, <2>1 DEF Begins, Covers, Delivered
  <2>3. \A E : Flow(k, E)
    BY <2>1, NoFlow DEF Begins, Flow, CoverInv, GreetInv, Told
  <2>4. /\ k.calls = l.calls /\ k.epochs = l.epochs /\ k.generation = l.generation /\ m.epoch = l.epoch
    BY <1>1, <1>3, <2>1 DEF Works, Begins
  <2>5. Handles(h, l, k, e)
    BY <2>1, <2>2, <2>3, <2>4 DEF Handles, Begins
  <2> QED
    BY <2>5 DEF k
<1> QED
  BY <1>5, <1>6

---------------------------------------------------------------------------
(* The queue of commands *)

\* Everything but the queue and the timer.
Alike(l, k) ==
  /\ k.cursor = l.cursor /\ k.epochs = l.epochs /\ k.generation = l.generation
  /\ k.issued = l.issued /\ k.epoch = l.epoch /\ k.session = l.session /\ k.host = l.host
  /\ k.stage = l.stage /\ k.told = l.told /\ k.frames = l.frames
  /\ k.overflowed = l.overflowed /\ k.draining = l.draining /\ k.http = l.http
  /\ k.applied = l.applied /\ k.dropped = l.dropped /\ k.in_flight = l.in_flight

\* What does not look at the queue or the timer holds of both.
LEMMA AlikeFlow ==
  ASSUME NEW l, NEW k, Alike(l, k)
  PROVE  /\ (Streaming(k) <=> Streaming(l)) /\ Subscribed(k) = Subscribed(l)
         /\ (Upheld(k) <=> Upheld(l)) /\ (Told(k) <=> Told(l))
         /\ Epochs(k, Subscribed(k)) = Epochs(l, Subscribed(l))
         /\ \A e : (Framed(k, e) <=> Framed(l, e)) /\ (Answers(k, e) <=> Answers(l, e))
         /\ \A E : Flow(k, E) <=> Flow(l, E)
         /\ \A base : Covers(base, l) <=> Covers(base, k)
<1>1. /\ (Streaming(k) <=> Streaming(l)) /\ Subscribed(k) = Subscribed(l)
      /\ (Upheld(k) <=> Upheld(l)) /\ (Told(k) <=> Told(l))
      /\ Epochs(k, Subscribed(k)) = Epochs(l, Subscribed(l))
      /\ \A e : (Framed(k, e) <=> Framed(l, e)) /\ (Answers(k, e) <=> Answers(l, e))
  BY DEF Alike, Streaming, Subscribed, Upheld, Told, Epochs, Framed, Answers
<1>2. \A E, c : Ahead(k, E, c) <=> Ahead(l, E, c)
  BY <1>1 DEF Ahead, Coming, Unread, Alike, InFrames
<1>3. \A E : CoverInv(k, E) <=> CoverInv(l, E)
  BY <1>1, <1>2 DEF CoverInv, Alike
<1>4. \A E : GreetInv(k, E) <=> GreetInv(l, E)
  BY <1>1 DEF GreetInv, Alike, InFrames
<1>5. \A E : Flow(k, E) <=> Flow(l, E)
  BY <1>3, <1>4 DEF Flow, Alike
<1>6. \A base : Covers(base, l) <=> Covers(base, k)
  BY DEF Covers, Delivered, Alike
<1> QED
  BY <1>1, <1>5, <1>6

\* An event may be queued: it is of no later session, and the only one of its
\* kind.
Fits(h, l, e) ==
  /\ e \in Event(h)
  /\ OfSession(e) => e.epoch <= l.epoch
  /\ l.session # None =>
       /\ Framed(l, e) => \A i \in DOMAIN l.calls : ~ Framed(l, l.calls[i])
       /\ Answers(l, e) =>
            /\ l.http = None /\ l.session.active # None /\ From(e.page) = l.session.active
            /\ \A i \in DOMAIN l.calls : ~ Answers(l, l.calls[i])

\* k is l with e queued.
Queues(l, k, e) == Alike(l, k) /\ k.calls = Append(l.calls, e)

\* An event that fits keeps the lane sound.
LEMMA Queued ==
  ASSUME NEW h, NEW l, NEW k \in Lane(h), NEW e, Sound(h, l), Fits(h, l, e), Queues(l, k, e)
  PROVE  /\ Sound(h, k)
         /\ ToSet(k.calls) = ToSet(l.calls) \cup {e}
<1> USE DEF Queues
<1> DEFINE q == l.calls
           r == k.calls
<1>1. q \in Seq(Event(h)) /\ e \in Event(h)
  BY LaneFields DEF Sound, Fits
<1>2. ToSet(k.calls) = ToSet(l.calls) \cup {e}
  BY <1>1, AppendElements
<1>3. /\ Len(q) \in Nat /\ DOMAIN q = 1..Len(q) /\ DOMAIN r = 1..(Len(q) + 1)
      /\ r[Len(q) + 1] = e /\ \A i \in 1..Len(q) : r[i] = q[i]
  BY <1>1
<1> HIDE DEF q, r
<1>4. \A i \in DOMAIN r : (i \in DOMAIN q /\ r[i] = q[i]) \/ (i = Len(q) + 1 /\ r[i] = e)
  BY <1>3
<1>5. \A f : (Framed(k, f) <=> Framed(l, f)) /\ (Answers(k, f) <=> Answers(l, f))
  BY AlikeFlow
<1>6. CallsInv(k)
  <2>1. \A i \in DOMAIN r : OfSession(r[i]) => r[i].epoch <= k.epoch
    BY <1>4 DEF Sound, CallsInv, Fits, Alike, q
  <2>2. ASSUME k.session # None, NEW i \in DOMAIN r, NEW j \in DOMAIN r, Framed(k, r[i]), Framed(k, r[j])
        PROVE  i = j
    BY <1>4, <1>5, <2>2 DEF Sound, CallsInv, Fits, Alike, q
  <2>3. ASSUME k.session # None, NEW i \in DOMAIN r, NEW j \in DOMAIN r, Answers(k, r[i]), Answers(k, r[j])
        PROVE  i = j
    BY <1>4, <1>5, <2>3 DEF Sound, CallsInv, Fits, Alike, q
  <2>4. ASSUME k.session # None, NEW i \in DOMAIN r, Answers(k, r[i])
        PROVE  k.http = None /\ k.session.active # None /\ From(r[i].page) = k.session.active
    BY <1>4, <1>5, <2>4 DEF Sound, CallsInv, Fits, Alike, q
  <2> QED
    BY <2>1, <2>2, <2>3, <2>4 DEF CallsInv, r
<1>7. LinkInv(k)
  BY AlikeFlow DEF Sound, LinkInv, Alike
<1>8. LedgerInv(k)
  BY AlikeFlow DEF Sound, LedgerInv, Alike
<1> QED
  BY <1>2, <1>6, <1>7, <1>8 DEF Sound

\* Dispatch queues an event that fits.
LEMMA Dispatched ==
  ASSUME NEW h, NEW l, NEW e, Sound(h, l), Fits(h, l, e)
  PROVE  /\ Sound(h, Dispatch(l, e)) /\ Alike(l, Dispatch(l, e))
         /\ ToSet(Dispatch(l, e).calls) = ToSet(l.calls) \cup {e}
<1> DEFINE q == Append(l.calls, e)
           k == [l EXCEPT !.timer = FALSE, !.calls = q]
<1>1. l \in Lane(h) /\ q \in Seq(Event(h))
  BY LaneFields DEF Sound, Fits
<1>2. Dispatch(l, e) = k
  BY <1>1 DEF Dispatch, Lane
<1> HIDE DEF q
<1>3. k \in Lane(h) /\ Alike(l, k) /\ k.calls = q
  BY <1>1 DEF Lane, Alike
<1> HIDE DEF k
<1>4. Queues(l, k, e)
  BY <1>3 DEF q, Queues
<1>5. Sound(h, k) /\ ToSet(k.calls) = ToSet(l.calls) \cup {e}
  BY <1>3, <1>4, Queued
<1> QED
  BY <1>2, <1>3, <1>5

---------------------------------------------------------------------------
(* A command *)

\* What the queue says of frames: one is with the session's queue of commands
\* whenever the host waits for one to be handled.
Draining(l, E) == Streaming(l) => (l.draining <=> \E e \in E : Framed(l, e))

\* What a command e leaves, of the commands E that waited behind it.
Commands(h, l, k, e) ==
  /\ Sound(h, k) /\ k.epochs \in [Channel -> Nat]
  /\ k.epochs = l.epochs \/ k.applied = l.applied
  /\ Draining(k, ToSet(k.calls))
  /\ \A base : Covers(base, l) =>
       Covers([c \in Channel |-> IF k.epochs[c] # l.epochs[c] THEN {} ELSE base[c]], k)
  /\ Flow(l, ToSet(l.calls) \cup {e}) => Flow(k, ToSet(k.calls))

\* A frame is handled with none behind it.
Single(l, e) ==
  l.session # None =>
    /\ Framed(l, e) => \A i \in DOMAIN l.calls : ~ Framed(l, l.calls[i])
    /\ Streaming(l) => (l.draining <=> Framed(l, e) \/ \E f \in ToSet(l.calls) : Framed(l, f))

\* The head of the queue is ready when the rest of it waits.
LEMMA Taken ==
  ASSUME NEW h, NEW l, Sound(h, l), Draining(l, ToSet(l.calls)), l.calls # << >>
  PROVE  LET k == [l EXCEPT !.calls = Tail(@)] IN
           /\ Ready(h, k, Head(l.calls)) /\ Single(k, Head(l.calls)) /\ Alike(l, k)
           /\ Sound(h, k)
           /\ ToSet(l.calls) = ToSet(k.calls) \cup {Head(l.calls)}
           /\ OfSession(Head(l.calls)) => Head(l.calls).epoch <= l.epoch
<1> DEFINE q == l.calls
           r == Tail(q)
           e == Head(q)
           k == [l EXCEPT !.calls = Tail(@)]
<1>1. q \in Seq(Event(h)) /\ l \in Lane(h)
  BY LaneFields DEF Sound
<1>2. /\ Len(q) \in Nat /\ Len(q) >= 1 /\ DOMAIN q = 1..Len(q) /\ r \in Seq(Event(h))
      /\ DOMAIN r = 1..(Len(q) - 1) /\ e = q[1] /\ \A i \in 1..(Len(q) - 1) : r[i] = q[i + 1]
  BY <1>1
<1>3. k = [l EXCEPT !.calls = r]
  BY <1>1 DEF Lane
<1> HIDE DEF r
<1>4. k \in Lane(h) /\ Alike(l, k) /\ k.calls = r
  BY <1>1, <1>2, <1>3 DEF Lane, Alike
<1> HIDE DEF q, e, k
<1>5. /\ 1 \in DOMAIN q /\ e = q[1] /\ e \in Event(h)
      /\ \A i \in DOMAIN r : i + 1 \in DOMAIN q /\ r[i] = q[i + 1] /\ i + 1 # 1
      /\ \A i, j \in DOMAIN r : i + 1 = j + 1 => i = j
      /\ \A i \in DOMAIN q : i # 1 => i - 1 \in DOMAIN r /\ r[i - 1] = q[i]
  BY <1>1, <1>2
<1>6. ToSet(q) = ToSet(r) \cup {e}
  <2>1. ToSet(r) \cup {e} \subseteq ToSet(q)
    BY <1>5 DEF ToSet
  <2>2. \A i \in DOMAIN q : q[i] \in ToSet(r) \cup {e}
    BY <1>5 DEF ToSet
  <2>3. ToSet(q) \subseteq ToSet(r) \cup {e}
    BY <2>2 DEF ToSet
  <2> QED
    BY <2>1, <2>3
<1>7. \A f : (Framed(k, f) <=> Framed(l, f)) /\ (Answers(k, f) <=> Answers(l, f))
  BY <1>4, AlikeFlow
<1>8. /\ \A i \in DOMAIN q : OfSession(q[i]) => q[i].epoch <= l.epoch
      /\ l.session # None =>
           /\ \A i, j \in DOMAIN q : Framed(l, q[i]) /\ Framed(l, q[j]) => i = j
           /\ \A i, j \in DOMAIN q : Answers(l, q[i]) /\ Answers(l, q[j]) => i = j
           /\ \A i \in DOMAIN q : Answers(l, q[i]) =>
                l.http = None /\ l.session.active # None /\ From(q[i].page) = l.session.active
  BY DEF Sound, CallsInv, q
<1>9. CallsInv(k)
  <2>1. \A i \in DOMAIN r : OfSession(r[i]) => r[i].epoch <= k.epoch
    BY <1>4, <1>5, <1>8 DEF Alike
  <2>2. ASSUME k.session # None, NEW i \in DOMAIN r, NEW j \in DOMAIN r, Framed(k, r[i]), Framed(k, r[j])
        PROVE  i = j
    BY <1>4, <1>5, <1>7, <1>8, <2>2 DEF Alike
  <2>3. ASSUME k.session # None, NEW i \in DOMAIN r, NEW j \in DOMAIN r, Answers(k, r[i]), Answers(k, r[j])
        PROVE  i = j
    BY <1>4, <1>5, <1>7, <1>8, <2>3 DEF Alike
  <2>4. ASSUME k.session # None, NEW i \in DOMAIN r, Answers(k, r[i])
        PROVE  k.http = None /\ k.session.active # None /\ From(r[i].page) = k.session.active
    BY <1>4, <1>5, <1>7, <1>8, <2>4 DEF Alike
  <2> QED
    BY <1>4, <2>1, <2>2, <2>3, <2>4 DEF CallsInv
<1>10. Sound(h, k)
  <2>1. LinkInv(k)
    BY <1>4, AlikeFlow DEF Sound, LinkInv, Alike
  <2>2. LedgerInv(k)
    BY <1>4, AlikeFlow DEF Sound, LedgerInv, Alike
  <2> QED
    BY <1>4, <1>9, <2>1, <2>2 DEF Sound
<1>11. ASSUME k.session # None, Framed(k, e) PROVE \A i \in DOMAIN r : ~ Framed(k, r[i])
  BY <1>4, <1>5, <1>7, <1>8, <1>11 DEF Alike
<1>12. Streaming(k) => (k.draining <=> Framed(k, e) \/ \E f \in ToSet(r) : Framed(k, f))
  BY <1>4, <1>6, <1>7, AlikeFlow DEF Draining, Alike, q
<1>13. ASSUME k.session # None, Answers(k, e)
       PROVE  /\ k.http = None /\ k.session.active # None /\ From(e.page) = k.session.active
              /\ \A i \in DOMAIN r : ~ Answers(k, r[i])
  BY <1>4, <1>5, <1>7, <1>8, <1>13 DEF Alike
<1>14. Ready(h, k, e)
  BY <1>4, <1>5, <1>10, <1>12, <1>13 DEF Ready
<1>15. Single(k, e)
  BY <1>4, <1>11, <1>12 DEF Single
<1>16. OfSession(e) => e.epoch <= l.epoch
  BY <1>5, <1>8
<1> QED
  BY <1>4, <1>6, <1>10, <1>14, <1>15, <1>16 DEF k, q, e

\* A command that is about no frame and no answer.
Plain(e) == e.type \notin {"message", "overflow", "catchUp"}

\* Queueing a plain command changes nothing of what waits.
LEMMA PlainQueued ==
  ASSUME NEW h, NEW l, NEW k \in Lane(h), NEW e \in Event(h), Sound(h, l), Plain(e),
         OfSession(e) => e.epoch <= l.epoch, Queues(l, k, e)
  PROVE  /\ Sound(h, k) /\ Alike(l, k)
         /\ Draining(l, ToSet(l.calls)) => Draining(k, ToSet(k.calls))
         /\ Flow(l, ToSet(l.calls)) => Flow(k, ToSet(k.calls))
<1>1. \A m : ~ Framed(m, e) /\ ~ Answers(m, e)
  BY DEF Plain, Framed, Answers
<1>2. Fits(h, l, e)
  BY <1>1 DEF Fits
<1>3. Sound(h, k) /\ ToSet(k.calls) = ToSet(l.calls) \cup {e} /\ Alike(l, k)
  <2>1. Alike(l, k)
    BY DEF Queues
  <2>2. Sound(h, k) /\ ToSet(k.calls) = ToSet(l.calls) \cup {e}
    BY <1>2, Queued
  <2> QED
    BY <2>1, <2>2
<1>4. Draining(l, ToSet(l.calls)) => Draining(k, ToSet(k.calls))
  <2>1. k.draining = l.draining
    BY <1>3 DEF Alike
  <2>2. (Streaming(k) <=> Streaming(l)) /\ \A f : Framed(k, f) <=> Framed(l, f)
    BY <1>3, AlikeFlow
  <2> QED
    BY <1>1, <1>3, <2>1, <2>2 DEF Draining
<1>5. Flow(l, ToSet(l.calls)) => Flow(k, ToSet(k.calls))
  BY <1>1, <1>3, AlikeFlow, FlowDropped
<1> QED
  BY <1>3, <1>4, <1>5

\* So does dispatching it.
LEMMA PlainDispatched ==
  ASSUME NEW h, NEW l, NEW e \in Event(h), Sound(h, l), Plain(e), OfSession(e) => e.epoch <= l.epoch
  PROVE  LET k == Dispatch(l, e) IN
           /\ Sound(h, k) /\ Alike(l, k) /\ Queues(l, k, e)
           /\ Draining(l, ToSet(l.calls)) => Draining(k, ToSet(k.calls))
           /\ Flow(l, ToSet(l.calls)) => Flow(k, ToSet(k.calls))
<1> DEFINE q == Append(l.calls, e)
           k == [l EXCEPT !.timer = FALSE, !.calls = q]
<1>1. l \in Lane(h) /\ q \in Seq(Event(h))
  BY LaneFields DEF Sound
<1>2. Dispatch(l, e) = k
  BY <1>1 DEF Dispatch, Lane
<1> HIDE DEF q
<1>3. k \in Lane(h) /\ Alike(l, k) /\ k.calls = q
  BY <1>1 DEF Lane, Alike
<1> HIDE DEF k
<1>4. Queues(l, k, e)
  BY <1>3 DEF q, Queues
<1>5. /\ Sound(h, k)
      /\ Draining(l, ToSet(l.calls)) => Draining(k, ToSet(k.calls))
      /\ Flow(l, ToSet(l.calls)) => Flow(k, ToSet(k.calls))
  BY <1>3, <1>4, PlainQueued
<1> QED
  BY <1>2, <1>3, <1>4, <1>5

\* set_channel's change.
Subscription(l, c, subscribed) ==
  [l EXCEPT !.cursor[c] = IF subscribed THEN 0 ELSE Unsubscribed,
            !.epochs[c] = @ + 1, !.generation = @ + 1]

\* A changed subscription puts the session of the old one aside.
LEMMA Changed ==
  ASSUME NEW h \in Heads, NEW l, NEW c \in Channel, NEW subscribed \in BOOLEAN, Sound(h, l)
  PROVE  LET k == Subscription(l, c, subscribed) IN
           /\ Sound(h, k) /\ ~ Upheld(k) /\ k.calls = l.calls /\ k.applied = l.applied
           /\ \A E : Draining(l, E) => Draining(k, E)
           /\ \A base : Covers(base, l) =>
                Covers([x \in Channel |-> IF k.epochs[x] # l.epochs[x] THEN {} ELSE base[x]], k)
<1> DEFINE to == [l.cursor EXCEPT ![c] = IF subscribed THEN 0 ELSE Unsubscribed]
           next_epochs == [l.epochs EXCEPT ![c] = @ + 1]
           k == [l EXCEPT !.cursor = to, !.epochs = next_epochs, !.generation = @ + 1]
<1>1. l \in Lane(h) /\ l.cursor \in Cursors(h) /\ l.epochs \in [Channel -> Nat] /\ l.generation \in Nat
  BY LaneFields DEF Sound
<1>2. k = Subscription(l, c, subscribed)
  BY <1>1 DEF Lane, Subscription
<1>3. to \in Cursors(h) /\ next_epochs \in [Channel -> Nat]
  BY <1>1 DEF Cursors, Heads, Unsubscribed
<1>4. /\ \A x \in Channel : x # c => to[x] = l.cursor[x]
      /\ to[c] \in {0, -1} /\ next_epochs[c] # l.epochs[c]
  BY <1>1 DEF Cursors, Unsubscribed
<1> HIDE DEF to, next_epochs
<1>5. /\ k \in Lane(h) /\ k.cursor = to /\ k.epochs = next_epochs /\ k.generation = l.generation + 1
      /\ k.session = l.session /\ k.host = l.host /\ k.epoch = l.epoch /\ k.in_flight = l.in_flight
      /\ k.stage = l.stage /\ k.told = l.told /\ k.frames = l.frames /\ k.overflowed = l.overflowed
      /\ k.draining = l.draining /\ k.http = l.http /\ k.calls = l.calls /\ k.applied = l.applied
  <2> DEFINE n == l.generation + 1
  <2>1. n \in Nat
    BY <1>1
  <2>2. k = [l EXCEPT !.cursor = to, !.epochs = next_epochs, !.generation = n]
    BY <1>1 DEF Lane
  <2> HIDE DEF k, n
  <2>3. /\ k \in Lane(h) /\ k.cursor = to /\ k.epochs = next_epochs /\ k.generation = n
        /\ k.session = l.session /\ k.host = l.host /\ k.epoch = l.epoch /\ k.in_flight = l.in_flight
        /\ k.stage = l.stage /\ k.told = l.told /\ k.frames = l.frames /\ k.overflowed = l.overflowed
        /\ k.draining = l.draining /\ k.http = l.http /\ k.calls = l.calls /\ k.applied = l.applied
    BY <1>1, <1>3, <2>1, <2>2 DEF Lane
  <2> QED
    BY <2>3 DEF n
<1> HIDE DEF k
<1>6. Streaming(k) <=> Streaming(l)
  BY <1>5 DEF Streaming
<1>7. ~ Upheld(k) /\ LinkInv(k)
  <2>1. l.session # None => l.session.generation <= l.generation /\ l.session.generation \in Nat
    BY <1>1, LaneFields, SessionFields DEF Sound, LinkInv
  <2>2. l.session # None => l.session.generation <= l.generation + 1 /\ l.session.generation # l.generation + 1
    BY <1>1, <2>1
  <2> QED
    BY <1>5, <1>6, <2>2 DEF Sound, LinkInv, Upheld
<1>8. CallsInv(k)
  BY <1>5 DEF Sound, CallsInv, Framed, Answers
<1>9. Sound(h, k)
  BY <1>5, <1>7, <1>8 DEF Sound, LedgerInv
<1>10. \A E : Draining(l, E) => Draining(k, E)
  BY <1>5, <1>6 DEF Draining, Framed
<1>11. ASSUME NEW base, Covers(base, l)
       PROVE  Covers([x \in Channel |-> IF k.epochs[x] # l.epochs[x] THEN {} ELSE base[x]], k)
  <2> DEFINE b == [x \in Channel |-> IF k.epochs[x] # l.epochs[x] THEN {} ELSE base[x]]
  <2>1. SUFFICES ASSUME NEW x \in Channel PROVE 1..k.cursor[x] \subseteq b[x] \cup Delivered(k, x)
    BY DEF Covers
  <2>2. CASE x = c
    <3>1. 1..0 = {} /\ 1..(-1) = {}
      OBVIOUS
    <3> QED
      BY <1>4, <1>5, <2>2, <3>1
  <2>3. CASE x # c
    <3>1. next_epochs[x] = l.epochs[x] /\ k.cursor[x] = l.cursor[x]
      BY <1>1, <1>4, <1>5, <2>3 DEF next_epochs
    <3>2. b[x] = base[x] /\ Delivered(k, x) = Delivered(l, x)
      BY <1>5, <3>1 DEF Delivered
    <3> QED
      BY <1>11, <3>1, <3>2 DEF Covers
  <2> QED
    BY <2>2, <2>3
<1> QED
  BY <1>2, <1>5, <1>7, <1>9, <1>10, <1>11

\* The host forgets a socket that has ended.
LEMMA Forgotten ==
  ASSUME NEW h, NEW l, Sound(h, l), ~ Streaming(l)
  PROVE  LET k == [l EXCEPT !.host = None] IN
           /\ Sound(h, k) /\ ~ Streaming(k) /\ k.host = None
           /\ k.calls = l.calls /\ k.epochs = l.epochs /\ k.epoch = l.epoch /\ k.session = l.session
           /\ k.generation = l.generation
           /\ \A base : Covers(base, l) => Covers(base, k)
           /\ \A E : Flow(k, E) /\ Draining(k, E)
<1> DEFINE k == [l EXCEPT !.host = None]
<1>1. l \in Lane(h)
  BY DEF Sound
<1>2. /\ k \in Lane(h) /\ k.host = None
      /\ k.cursor = l.cursor /\ k.epochs = l.epochs /\ k.generation = l.generation
      /\ k.issued = l.issued /\ k.epoch = l.epoch /\ k.session = l.session
      /\ k.stage = l.stage /\ k.told = l.told /\ k.frames = l.frames
      /\ k.overflowed = l.overflowed /\ k.draining = l.draining /\ k.http = l.http
      /\ k.calls = l.calls /\ k.applied = l.applied /\ k.in_flight = l.in_flight
  BY <1>1 DEF Lane
<1> HIDE DEF k
<1>3. ~ Streaming(k)
  BY <1>2 DEF Streaming
<1>4. LinkInv(k)
  BY <1>2, <1>3 DEF Sound, LinkInv
<1>5. CallsInv(k)
  BY <1>2 DEF Sound, CallsInv, Framed, Answers
<1>6. LedgerInv(k)
  <2>1. Subscribed(k) = Subscribed(l) /\ (Upheld(k) <=> Upheld(l))
        /\ Epochs(k, Subscribed(k)) = Epochs(l, Subscribed(l))
    BY <1>2 DEF Subscribed, Upheld, Epochs
  <2> QED
    BY <1>2, <2>1 DEF Sound, LedgerInv
<1>7. \A base : Covers(base, l) => Covers(base, k)
  BY <1>2 DEF Covers, Delivered
<1>8. k.stage = "ended"
  BY <1>2 DEF Sound, LinkInv
<1>9. \A E : Flow(k, E) /\ Draining(k, E)
  BY <1>3, <1>8 DEF Flow, CoverInv, GreetInv, Told, Draining
<1> QED
  BY <1>2, <1>3, <1>4, <1>5, <1>6, <1>7, <1>9 DEF Sound, k

\* The host takes frames again when the frame it waited for was handled, and
\* waits on when another one is with the engine.
LEMMA StillDraining ==
  ASSUME NEW h, NEW l, NEW m, NEW e, Ready(h, l, e), Single(l, e), Handles(h, l, m, e),
         OfSession(e) => e.epoch <= l.epoch
  PROVE  LET k == Resumed(m, e) IN
           /\ Sound(h, k) /\ k.calls = m.calls /\ k.epochs = m.epochs
           /\ Draining(k, ToSet(k.calls))
           /\ \A base : Covers(base, m) => Covers(base, k)
           /\ \A E : Flow(m, E) => Flow(k, E)
           /\ e.type = "wake" => k = m
<1> DEFINE k == Resumed(m, e)
           freed == e.type \in {"message", "overflow"} /\ m.host # None /\ m.host.epoch = e.epoch
<1>1. Sound(h, m) /\ m \in Lane(h) /\ Sound(h, l) /\ l \in Lane(h) /\ m.calls = l.calls
  BY DEF Handles, Ready, Sound
<1>2. /\ k \in Lane(h) /\ (k.draining <=> m.draining /\ ~ freed)
      /\ k.cursor = m.cursor /\ k.epochs = m.epochs /\ k.generation = m.generation
      /\ k.issued = m.issued /\ k.epoch = m.epoch /\ k.session = m.session /\ k.host = m.host
      /\ k.stage = m.stage /\ k.told = m.told /\ k.frames = m.frames
      /\ k.overflowed = m.overflowed /\ k.http = m.http /\ k.dropped = m.dropped
      /\ k.calls = m.calls /\ k.applied = m.applied /\ k.in_flight = m.in_flight
  <2>1. CASE freed
    <3>1. k = [m EXCEPT !.draining = FALSE]
      BY <2>1 DEF Resumed
    <3> HIDE DEF k
    <3> QED
      BY <1>1, <2>1, <3>1 DEF Lane
  <2>2. CASE ~ freed
    BY <1>1, <2>2 DEF Resumed
  <2> QED
    BY <2>1, <2>2
<1>3. e.type = "wake" => k = m
  BY DEF Resumed
<1> HIDE DEF k
<1>4. Streaming(k) <=> Streaming(m)
  BY <1>2 DEF Streaming
<1>5. LinkInv(k)
  BY <1>1, <1>2, <1>4 DEF Sound, LinkInv
<1>6. CallsInv(k)
  BY <1>1, <1>2 DEF Sound, CallsInv, Framed, Answers
<1>7. Subscribed(k) = Subscribed(m) /\ (Upheld(k) <=> Upheld(m)) /\ (Told(k) <=> Told(m))
      /\ Epochs(k, Subscribed(k)) = Epochs(m, Subscribed(m))
  BY <1>2 DEF Subscribed, Upheld, Told, Epochs
<1>8. LedgerInv(k)
  BY <1>1, <1>2, <1>7 DEF Sound, LedgerInv
<1>9. \A base : Covers(base, m) => Covers(base, k)
  BY <1>2 DEF Covers, Delivered
<1>10. ASSUME NEW E, Flow(m, E) PROVE Flow(k, E)
  <2>1. \A c : Ahead(m, E, c) => Ahead(k, E, c)
    BY <1>2 DEF Ahead, Coming, Unread, InFrames, Answers
  <2>2. CoverInv(m, E) => CoverInv(k, E)
    BY <1>2, <1>7, <2>1 DEF CoverInv
  <2>3. GreetInv(m, E) => GreetInv(k, E)
    BY <1>2, <1>7 DEF GreetInv, InFrames
  <2> QED
    BY <1>2, <1>10, <2>2, <2>3 DEF Flow
<1>11. ASSUME Streaming(m) PROVE k.draining <=> \E f \in ToSet(m.calls) : Framed(m, f)
  <2>1. /\ m.session # None /\ m.host # None /\ m.host.epoch = m.session.epoch
        /\ m.session.epoch = m.epoch /\ m.epoch \in Nat /\ l.epoch \in Nat
    BY <1>1, <1>11, LaneFields DEF Sound, LinkInv, Streaming
  <2>2. CASE l.session # None /\ m.epoch = l.epoch /\ m.host = l.host /\ m.draining = l.draining
    <3>1. Streaming(l) /\ l.session.epoch = l.epoch
      BY <1>1, <1>11, <2>2 DEF Streaming, Sound, LinkInv
    <3>2. \A f : Framed(m, f) <=> Framed(l, f)
      BY <2>1, <2>2, <3>1 DEF Framed
    <3>3. freed <=> Framed(l, e)
      BY <2>1, <2>2, <3>1 DEF Framed
    <3>4. Framed(l, e) => \A f \in ToSet(l.calls) : ~ Framed(l, f)
      BY <2>2 DEF Single, ToSet
    <3>5. l.draining <=> Framed(l, e) \/ \E f \in ToSet(l.calls) : Framed(l, f)
      BY <2>2, <3>1 DEF Single
    <3> HIDE DEF freed
    <3> QED
      BY <1>1, <1>2, <2>2, <3>2, <3>3, <3>4, <3>5
  <2>3. CASE m.epoch = l.epoch + 1 /\ ~ m.draining
    <3>1. \A i \in DOMAIN l.calls : ~ Framed(m, l.calls[i])
      <4>1. SUFFICES ASSUME NEW i \in DOMAIN l.calls, Framed(m, l.calls[i]) PROVE FALSE
        OBVIOUS
      <4>2. l.calls[i].epoch = l.epoch + 1 /\ OfSession(l.calls[i])
        BY <2>1, <2>3, <4>1 DEF Framed, OfSession
      <4>3. l.calls[i].epoch <= l.epoch
        BY <1>1, <4>2 DEF Sound, CallsInv
      <4> QED
        BY <2>1, <4>2, <4>3
    <3> QED
      BY <1>1, <1>2, <2>3, <3>1 DEF ToSet
  <2> QED
    BY <2>1, <2>2, <2>3 DEF Handles
<1>12. Draining(k, ToSet(k.calls))
  BY <1>2, <1>4, <1>11 DEF Draining, Framed
<1> QED
  BY <1>2, <1>3, <1>5, <1>6, <1>8, <1>9, <1>10, <1>12 DEF Sound, k

\* Every command leaves the lane sound, its frames waited for, its cursors
\* covered and nothing passed over.
LEMMA Commanded ==
  ASSUME NEW h \in Heads, NEW l, NEW e, Ready(h, l, e), Single(l, e), OfSession(e) => e.epoch <= l.epoch
  PROVE  Commands(h, l, command(l, e), e)
<1> DEFINE k == command(l, e)
<1>1. Sound(h, l) /\ l \in Lane(h) /\ e \in Event(h) /\ l.epochs \in [Channel -> Nat]
  BY LaneFields DEF Ready, Sound
<1>2. [type |-> "wake"] \in Event(h) /\ Plain([type |-> "wake"]) /\ ~ OfSession([type |-> "wake"])
  BY DEF Event, Plain, OfSession
<1>3. CASE e.type = "channel"
  <2> DEFINE c == e.channel
             changed == Subscription(l, c, e.subscribed)
             m == IF (c \in Subscribed(l)) = e.subscribed THEN l ELSE changed
  <2>1. c \in Channel /\ e.subscribed \in BOOLEAN
    BY <1>1, <1>3 DEF Event
  <2>2. k = Dispatch(m, [type |-> "wake"])
    BY <1>3 DEF command, set_channel, Subscription
  <2>3. ~ Framed(l, e) /\ ~ Answers(l, e)
    BY <1>3 DEF Framed, Answers
  <2>4. Draining(l, ToSet(l.calls))
    BY <1>1, <2>3 DEF Single, Draining, Sound, LinkInv
  <2>5. /\ Sound(h, m) /\ m.calls = l.calls /\ Draining(m, ToSet(m.calls)) /\ m.applied = l.applied
        /\ Flow(l, ToSet(l.calls) \cup {e}) => Flow(m, ToSet(m.calls))
        /\ \A base : Covers(base, l) =>
             Covers([x \in Channel |-> IF m.epochs[x] # l.epochs[x] THEN {} ELSE base[x]], m)
    <3>1. CASE (c \in Subscribed(l)) = e.subscribed
      <4>1. m = l
        BY <3>1
      <4>2. Flow(l, ToSet(l.calls) \cup {e}) => Flow(l, ToSet(l.calls))
        BY <2>3, FlowDropped
      <4>3. \A base : Covers(base, l) =>
              Covers([x \in Channel |-> IF l.epochs[x] # l.epochs[x] THEN {} ELSE base[x]], l)
        BY DEF Covers
      <4> HIDE DEF m
      <4> QED
        BY <1>1, <2>4, <4>1, <4>2, <4>3
    <3>2. CASE (c \in Subscribed(l)) # e.subscribed
      <4>1. m = changed
        BY <3>2
      <4>2. /\ Sound(h, changed) /\ ~ Upheld(changed) /\ changed.calls = l.calls
            /\ changed.applied = l.applied
            /\ \A E : Draining(l, E) => Draining(changed, E)
            /\ \A base : Covers(base, l) =>
                 Covers([x \in Channel |-> IF changed.epochs[x] # l.epochs[x] THEN {} ELSE base[x]], changed)
        BY <1>1, <2>1, Changed
      <4> HIDE DEF m, changed
      <4>3. \A E : Flow(changed, E)
        BY <4>2 DEF Flow, CoverInv, GreetInv, Told
      <4> QED
        BY <2>4, <4>1, <4>2, <4>3
    <3> QED
      BY <3>1, <3>2
  <2> HIDE DEF m, k
  <2>6. /\ Sound(h, k) /\ Alike(m, k) /\ Draining(k, ToSet(k.calls))
        /\ Flow(m, ToSet(m.calls)) => Flow(k, ToSet(k.calls))
    BY <1>2, <2>2, <2>5, PlainDispatched
  <2>7. k.epochs = m.epochs /\ k.epochs \in [Channel -> Nat] /\ k.applied = l.applied
    BY <2>5, <2>6, LaneFields DEF Alike, Sound
  <2>8. \A base : Covers(base, m) => Covers(base, k)
    BY <2>6, AlikeFlow
  <2>9. Commands(h, l, k, e)
    BY <2>5, <2>6, <2>7, <2>8 DEF Commands
  <2> QED
    BY <2>9 DEF k
<1>4. CASE e.type # "channel"
  <2> DEFINE m == handle(l, e)
             n == Resumed(m, e)
  <2>1. Handles(h, l, m, e)
    BY Handled
  <2> HIDE DEF m
  <2>2. /\ Sound(h, n) /\ n.calls = m.calls /\ n.epochs = m.epochs
        /\ Draining(n, ToSet(n.calls))
        /\ \A base : Covers(base, m) => Covers(base, n)
        /\ \A E : Flow(m, E) => Flow(n, E)
        /\ e.type = "wake" => n = m
    BY <2>1, StillDraining
  <2> HIDE DEF n
  <2>3. m.calls = l.calls /\ m.epochs = l.epochs
    BY <2>1 DEF Handles
  <2>4. /\ Flow(l, ToSet(l.calls) \cup {e}) => Flow(n, ToSet(n.calls))
        /\ \A base : Covers(base, l) => Covers(base, n)
    BY <2>1, <2>2, <2>3 DEF Handles
  <2>5. CASE e.type = "wake" /\ m.host # None /\ m.host.ended
    <3> DEFINE u == [m EXCEPT !.host = None]
               f == [type |-> "closed", epoch |-> m.host.epoch]
    <3>1. k = Dispatch(u, f)
      BY <2>5 DEF command, Reported, m
    <3>2. Sound(h, m) /\ ~ Streaming(m) /\ m \in Lane(h)
      BY <2>1, <2>5 DEF Handles, Streaming, Sound
    <3>3. /\ Sound(h, u) /\ u.calls = m.calls /\ u.epochs = m.epochs /\ u.epoch = m.epoch
          /\ \A base : Covers(base, m) => Covers(base, u)
          /\ \A E : Flow(u, E) /\ Draining(u, E)
      BY <3>2, Forgotten
    <3>4. m.host.epoch \in Nat /\ m.host.epoch <= m.epoch
      BY <2>5, <3>2, LaneFields, HostFields DEF Sound, LinkInv
    <3>5. f \in Event(h) /\ Plain(f) /\ f.epoch = m.host.epoch
      BY <3>4 DEF Event, Plain
    <3> HIDE DEF u, f, k
    <3>6. /\ Sound(h, k) /\ Alike(u, k) /\ Draining(k, ToSet(k.calls)) /\ Flow(k, ToSet(k.calls))
      BY <3>1, <3>3, <3>4, <3>5, PlainDispatched
    <3>7. k.epochs = l.epochs
      BY <2>3, <3>3, <3>6 DEF Alike
    <3>8. \A base : Covers(base, l) => Covers(base, k)
      BY <2>1, <3>3, <3>6, AlikeFlow DEF Handles
    <3>9. Commands(h, l, k, e)
      BY <1>1, <3>6, <3>7, <3>8 DEF Commands, Covers
    <3> QED
      BY <3>9 DEF k
  <2>6. CASE ~ (e.type = "wake" /\ m.host # None /\ m.host.ended)
    <3>1. k = n
      <4>1. CASE e.type = "wake"
        BY <1>4, <2>2, <2>6, <4>1 DEF command, Reported, m
      <4>2. CASE e.type # "wake"
        BY <1>4, <4>2 DEF command, m, n
      <4> QED
        BY <4>1, <4>2
    <3> HIDE DEF k
    <3>2. Commands(h, l, k, e)
      BY <1>1, <2>2, <2>3, <2>4, <3>1 DEF Commands, Covers
    <3> QED
      BY <3>2 DEF k
  <2> QED
    BY <2>5, <2>6
<1> QED
  BY <1>3, <1>4

---------------------------------------------------------------------------
(* The inductive invariant and the steps *)

\* The lane between two steps.
IInv ==
  /\ ShapeInv /\ LinkInv(lane) /\ CallsInv(lane) /\ LedgerInv(lane)
  /\ Draining(lane, ToSet(lane.calls))
  /\ Covers(got, lane)
  /\ ~ dropped => Flow(lane, ToSet(lane.calls))

\* After a command its deliveries are handed on.
LEMMA Settled ==
  ASSUME NEW h, NEW l, Sound(h, l), Draining(l, ToSet(l.calls))
  PROVE  LET k == [l EXCEPT !.applied = << >>, !.dropped = FALSE] IN
           /\ Sound(h, k) /\ k.applied = << >> /\ ~ k.dropped /\ k.cursor = l.cursor
           /\ Draining(k, ToSet(k.calls))
           /\ ~ l.dropped /\ Flow(l, ToSet(l.calls)) => Flow(k, ToSet(k.calls))
<1> DEFINE k == [l EXCEPT !.applied = << >>, !.dropped = FALSE]
<1>1. l \in Lane(h) /\ << >> \in Seq(Page(h) \cup Answer(h)) /\ FALSE \in BOOLEAN
  BY DEF Sound
<1>2. /\ k \in Lane(h) /\ k.applied = << >> /\ ~ k.dropped
      /\ k.cursor = l.cursor /\ k.epochs = l.epochs /\ k.generation = l.generation
      /\ k.issued = l.issued /\ k.epoch = l.epoch /\ k.session = l.session /\ k.host = l.host
      /\ k.stage = l.stage /\ k.told = l.told /\ k.frames = l.frames
      /\ k.overflowed = l.overflowed /\ k.draining = l.draining /\ k.http = l.http
      /\ k.calls = l.calls /\ k.in_flight = l.in_flight
  BY <1>1 DEF Lane
<1> HIDE DEF k
<1>3. Subscribed(k) = Subscribed(l) /\ (Upheld(k) <=> Upheld(l)) /\ (Told(k) <=> Told(l))
      /\ (Streaming(k) <=> Streaming(l))
      /\ Epochs(k, Subscribed(k)) = Epochs(l, Subscribed(l))
  BY <1>2 DEF Subscribed, Upheld, Told, Epochs, Streaming
<1>4. LinkInv(k)
  BY <1>2, <1>3 DEF Sound, LinkInv
<1>5. CallsInv(k)
  BY <1>2 DEF Sound, CallsInv, Framed, Answers
<1>6. LedgerInv(k)
  BY <1>2, <1>3 DEF Sound, LedgerInv
<1>7. Draining(k, ToSet(k.calls))
  BY <1>2, <1>3 DEF Draining, Framed
<1>8. ASSUME ~ l.dropped, Flow(l, ToSet(l.calls)) PROVE Flow(k, ToSet(k.calls))
  <2> DEFINE E == ToSet(l.calls)
  <2>1. \A c : Ahead(l, E, c) => Ahead(k, E, c)
    BY <1>2 DEF Ahead, Coming, Unread, InFrames, Answers
  <2>2. CoverInv(l, E) => CoverInv(k, E)
    BY <1>2, <1>3, <2>1 DEF CoverInv
  <2>3. GreetInv(l, E) => GreetInv(k, E)
    BY <1>2, <1>3 DEF GreetInv, InFrames
  <2> QED
    BY <1>2, <1>8, <2>2, <2>3 DEF Flow
<1> QED
  BY <1>2, <1>4, <1>5, <1>6, <1>7, <1>8 DEF Sound, k

\* Positions are delivered.
LEMMA DeliveredInts ==
  ASSUME NEW h \in Heads, NEW l \in Lane(h), NEW c
  PROVE  Delivered(l, c) \subseteq Int
<1>1. \A p \in ToSet(l.applied) : p \in Pages(h)
  BY LaneFields DEF ToSet
<1>2. \A p \in ToSet(l.applied) : c \in DOMAIN p => p[c].from + 1 .. p[c].to \subseteq Int
  BY <1>1, PageShape
<1> QED
  BY <1>2 DEF Delivered

\* run: the head of the queue is taken, handled and settled.
LEMMA RunStep ==
  ASSUME IInv, run
  PROVE  IInv'
<1> DEFINE e == Head(lane.calls)
           l == [lane EXCEPT !.calls = Tail(@)]
           k == command(l, e)
           m == [k EXCEPT !.applied = << >>, !.dropped = FALSE]
           to == [c \in Channel |->
                    IF k.epochs[c] # lane.epochs[c] THEN {} ELSE got[c] \cup Delivered(k, c)]
<1>1. /\ lane.calls # << >> /\ lane' = m /\ dropped' = (dropped \/ k.dropped) /\ got' = to
      /\ head' = head
  BY DEF run
<1>2. head \in Heads /\ Sound(head, lane) /\ got \in [Channel -> SUBSET Int]
      /\ lane.applied = << >> /\ ~ lane.dropped
  BY DEF IInv, ShapeInv, Sound
<1>3. /\ Ready(head, l, e) /\ Single(l, e) /\ Alike(lane, l)
      /\ ToSet(lane.calls) = ToSet(l.calls) \cup {e}
      /\ OfSession(e) => e.epoch <= lane.epoch
  BY <1>1, <1>2, Taken DEF IInv
<1> HIDE DEF l, e
<1>4. Commands(head, l, k, e)
  BY <1>2, <1>3, Commanded DEF Alike
<1> HIDE DEF k
<1>5. /\ Sound(head, m) /\ m.applied = << >> /\ ~ m.dropped /\ m.cursor = k.cursor
      /\ Draining(m, ToSet(m.calls))
      /\ ~ k.dropped /\ Flow(k, ToSet(k.calls)) => Flow(m, ToSet(m.calls))
  BY <1>4, Settled DEF Commands
<1> HIDE DEF m
<1>6. k \in Lane(head) /\ l.epochs = lane.epochs /\ l.applied = << >>
  BY <1>2, <1>3, <1>4 DEF Commands, Sound, Alike
<1>7. \A c \in Channel : Delivered(k, c) \subseteq Int
  BY <1>2, <1>6, DeliveredInts
<1>8. to \in [Channel -> SUBSET Int]
  BY <1>2, <1>7
<1>9. Covers(to, m)
  <2> DEFINE base == [c \in Channel |-> IF k.epochs[c] # l.epochs[c] THEN {} ELSE got[c]]
  <2>1. Covers(base, k)
    BY <1>3, <1>4, AlikeFlow DEF Commands, IInv
  <2>2. SUFFICES ASSUME NEW c \in Channel PROVE 1..m.cursor[c] \subseteq to[c] \cup Delivered(m, c)
    BY DEF Covers
  <2>3. 1..k.cursor[c] \subseteq base[c] \cup Delivered(k, c)
    BY <2>1 DEF Covers
  <2>4. CASE k.epochs[c] = lane.epochs[c]
    BY <1>5, <1>6, <2>3, <2>4
  <2>5. CASE k.epochs[c] # lane.epochs[c]
    <3>1. k.applied = << >>
      BY <1>4, <1>6, <2>5 DEF Commands
    <3>2. Delivered(k, c) = {}
      BY <3>1 DEF Delivered, ToSet
    <3> QED
      BY <1>5, <1>6, <2>3, <2>5, <3>2
  <2> QED
    BY <2>4, <2>5
<1>10. ~ dropped' => Flow(m, ToSet(m.calls))
  <2>1. SUFFICES ASSUME ~ dropped, ~ k.dropped PROVE Flow(m, ToSet(m.calls))
    BY <1>1
  <2>2. Flow(l, ToSet(l.calls) \cup {e})
    BY <1>3, <2>1, AlikeFlow DEF IInv
  <2> QED
    BY <1>4, <1>5, <2>1, <2>2 DEF Commands
<1> HIDE DEF to
<1> QED
  BY <1>1, <1>2, <1>5, <1>8, <1>9, <1>10 DEF IInv, ShapeInv, Sound

\* A step of the environment: nothing is received.
LEMMA EnvironmentStep ==
  ASSUME IInv, UNCHANGED <<head, got, dropped>>,
         Sound(head, lane'), Draining(lane', ToSet(lane'.calls)),
         lane'.applied = lane.applied, lane'.dropped = lane.dropped, lane'.cursor = lane.cursor,
         ~ dropped => (Flow(lane, ToSet(lane.calls)) => Flow(lane', ToSet(lane'.calls)))
  PROVE  IInv'
<1>1. ShapeInv' /\ LinkInv(lane') /\ CallsInv(lane') /\ LedgerInv(lane')
  BY DEF IInv, ShapeInv, Sound
<1>2. Covers(got', lane')
  BY DEF IInv, Covers, Delivered
<1>3. ~ dropped' => Flow(lane', ToSet(lane'.calls))
  BY DEF IInv
<1> QED
  BY <1>1, <1>2, <1>3 DEF IInv

\* The socket has ended: nothing is owed to the session.
LEMMA NothingOwed ==
  ASSUME NEW l, ~ Streaming(l), l.stage = "ended"
  PROVE  \A E : Flow(l, E) /\ Draining(l, E)
BY DEF Flow, CoverInv, GreetInv, Told, Draining

\* The commands of the application and of the host are plain.
LEMMA PlainEvents ==
  ASSUME NEW h
  PROVE  /\ \A t \in {"pause", "resume", "next"} :
              /\ [type |-> t] \in Event(h) /\ Plain([type |-> t]) /\ ~ OfSession([type |-> t])
         /\ \A n \in Nat :
              /\ [type |-> "closed", epoch |-> n] \in Event(h)
              /\ Plain([type |-> "closed", epoch |-> n])
         /\ \A c \in Channel, s \in BOOLEAN :
              /\ [type |-> "channel", channel |-> c, subscribed |-> s] \in Event(h)
              /\ Plain([type |-> "channel", channel |-> c, subscribed |-> s])
              /\ ~ OfSession([type |-> "channel", channel |-> c, subscribed |-> s])
BY DEF Event, Plain, OfSession

\* setChannel abandons the socket and queues the change.
LEMMA SetChannelStep ==
  ASSUME IInv, NEW c \in Channel, NEW subscribed \in BOOLEAN, setChannel(c, subscribed)
  PROVE  IInv'
<1> DEFINE e == [type |-> "channel", channel |-> c, subscribed |-> subscribed]
           l == abandon(lane)
           q == Append(l.calls, e)
           k == [l EXCEPT !.calls = q]
<1>1. lane' = [l EXCEPT !.calls = Append(@, e)] /\ UNCHANGED <<head, got, dropped>>
  BY DEF setChannel
<1>2. Sound(head, lane) /\ head \in Heads
  BY DEF IInv, ShapeInv, Sound
<1>3. e \in Event(head) /\ Plain(e) /\ ~ OfSession(e)
  BY PlainEvents
<1>4. /\ Sound(head, l) /\ ~ Streaming(l) /\ l.stage = "ended" /\ l.cursor = lane.cursor
      /\ l.applied = lane.applied /\ l.dropped = lane.dropped
  BY <1>2, Abandoned
<1> HIDE DEF l, e
<1>5. l \in Lane(head) /\ q \in Seq(Event(head))
  BY <1>3, <1>4, LaneFields DEF Sound
<1>6. lane' = k
  BY <1>1, <1>5 DEF Lane
<1> HIDE DEF q
<1>7. k \in Lane(head) /\ Alike(l, k) /\ k.calls = q
  BY <1>5 DEF Lane, Alike
<1> HIDE DEF k
<1>8. Queues(l, k, e)
  BY <1>7 DEF q, Queues
<1>9. \A E : Flow(l, E) /\ Draining(l, E)
  BY <1>4, NothingOwed
<1>10. Sound(head, k) /\ Draining(k, ToSet(k.calls)) /\ Flow(k, ToSet(k.calls))
  BY <1>3, <1>4, <1>7, <1>8, <1>9, PlainQueued
<1> QED
  BY <1>1, <1>4, <1>6, <1>7, <1>10, EnvironmentStep DEF Alike

\* pause abandons the socket and queues a command.
LEMMA PauseStep ==
  ASSUME IInv, pause
  PROVE  IInv'
<1> DEFINE e == [type |-> "pause"]
           l == abandon(lane)
           k == Dispatch(l, e)
<1>1. lane' = k /\ UNCHANGED <<head, got, dropped>>
  BY DEF pause
<1>2. Sound(head, lane)
  BY DEF IInv, ShapeInv, Sound
<1>3. e \in Event(head) /\ Plain(e) /\ ~ OfSession(e)
  BY PlainEvents
<1>4. /\ Sound(head, l) /\ ~ Streaming(l) /\ l.stage = "ended" /\ l.cursor = lane.cursor
      /\ l.applied = lane.applied /\ l.dropped = lane.dropped
  BY <1>2, Abandoned
<1> HIDE DEF l, e
<1>5. \A E : Flow(l, E) /\ Draining(l, E)
  BY <1>4, NothingOwed
<1>6. Sound(head, k) /\ Alike(l, k) /\ Draining(k, ToSet(k.calls)) /\ Flow(k, ToSet(k.calls))
  BY <1>3, <1>4, <1>5, PlainDispatched
<1> HIDE DEF k
<1> QED
  BY <1>1, <1>4, <1>6, EnvironmentStep DEF Alike

\* resume and timeout queue a command.
LEMMA CallStep ==
  ASSUME IInv, NEW t \in {"resume", "next"}, lane' = Dispatch(lane, [type |-> t]),
         UNCHANGED <<head, got, dropped>>
  PROVE  IInv'
<1> DEFINE e == [type |-> t]
<1>1. Sound(head, lane) /\ Draining(lane, ToSet(lane.calls))
  BY DEF IInv, ShapeInv, Sound
<1>2. e \in Event(head) /\ Plain(e) /\ ~ OfSession(e)
  BY PlainEvents
<1> HIDE DEF e
<1>3. /\ Sound(head, lane') /\ Alike(lane, lane') /\ Draining(lane', ToSet(lane'.calls))
      /\ Flow(lane, ToSet(lane.calls)) => Flow(lane', ToSet(lane'.calls))
  BY <1>1, <1>2, PlainDispatched DEF e
<1> QED
  BY <1>3, EnvironmentStep DEF Alike

\* The retry falls due.
LEMMA ElapseStep ==
  ASSUME IInv, elapse
  PROVE  IInv'
<1>1. lane' = [lane EXCEPT !.backoff = FALSE] /\ UNCHANGED <<head, got, dropped>>
  BY DEF elapse
<1>2. Sound(head, lane) /\ Draining(lane, ToSet(lane.calls)) /\ lane \in Lane(head)
  BY DEF IInv, ShapeInv, Sound
<1>3. lane' \in Lane(head) /\ Driven(lane, lane') /\ lane'.in_flight = lane.in_flight
  BY <1>1, <1>2 DEF Lane, Driven
<1>4. Sound(head, lane') /\ \A E : Flow(lane, E) => Flow(lane', E)
  <2>1. lane'.session # None => lane'.in_flight
    BY <1>2, <1>3 DEF Sound, LinkInv, Driven
  <2> QED
    BY <1>2, <1>3, <2>1, DrivenSound
<1>5. Draining(lane', ToSet(lane'.calls))
  BY <1>2, <1>3 DEF Draining, Driven, Framed, Streaming
<1> QED
  BY <1>1, <1>3, <1>4, <1>5, EnvironmentStep DEF Driven

\* The socket is lost: it is forgotten, and its end queued.
LEMMA LostStep ==
  ASSUME IInv, lost
  PROVE  IInv'
<1> DEFINE e == [type |-> "closed", epoch |-> lane.host.epoch]
           l == abandon(lane)
           m == [l EXCEPT !.host = None]
           k == Dispatch(m, e)
<1>1. lane' = k /\ UNCHANGED <<head, got, dropped>> /\ Streaming(lane)
  BY DEF lost
<1>2. Sound(head, lane) /\ lane \in Lane(head)
  BY DEF IInv, ShapeInv, Sound
<1>3. lane.host.epoch \in Nat /\ lane.host.epoch <= lane.epoch
  BY <1>1, <1>2, LaneFields, HostFields DEF Sound, LinkInv, Streaming
<1>4. e \in Event(head) /\ Plain(e) /\ e.epoch = lane.host.epoch
  BY <1>3, PlainEvents
<1>5. /\ Sound(head, l) /\ ~ Streaming(l) /\ l.cursor = lane.cursor /\ l.epoch = lane.epoch
      /\ l.applied = lane.applied /\ l.dropped = lane.dropped /\ l \in Lane(head)
  BY <1>2, Abandoned DEF Sound
<1> HIDE DEF l, e
<1>6. Sound(head, m) /\ m.epoch = l.epoch /\ \A E : Flow(m, E) /\ Draining(m, E)
  BY <1>5, Forgotten
<1>7. m.cursor = l.cursor /\ m.applied = l.applied /\ m.dropped = l.dropped
  BY <1>5 DEF Lane
<1> HIDE DEF m
<1>8. Sound(head, k) /\ Alike(m, k) /\ Draining(k, ToSet(k.calls)) /\ Flow(k, ToSet(k.calls))
  BY <1>3, <1>4, <1>5, <1>6, PlainDispatched
<1> HIDE DEF k
<1> QED
  BY <1>1, <1>5, <1>7, <1>8, EnvironmentStep DEF Alike

\* The server reads the answer: it holds all that the session was told so far.
LEMMA AnswerStep ==
  ASSUME IInv, answer
  PROVE  IInv'
<1> DEFINE top == [c \in DOMAIN lane.http.cursors |-> head[c]]
           k == [lane EXCEPT !.http.heads = top]
<1>1. lane' = k /\ lane.http # None /\ UNCHANGED <<head, got, dropped>>
  BY DEF answer
<1>2. /\ Sound(head, lane) /\ lane \in Lane(head) /\ head \in Heads
      /\ Draining(lane, ToSet(lane.calls))
  BY DEF IInv, ShapeInv, Sound
<1>3. /\ Streaming(lane) /\ lane.session # None /\ lane.session.active = lane.http.cursors
      /\ lane.session.active # None /\ lane.host.channels = lane.session.channels
  BY <1>1, <1>2 DEF Sound, LinkInv
<1>4. lane.http \in Requests(head) /\ lane.http.cursors \in Positions(head)
  BY <1>1, <1>2, LaneFields DEF Requests
<1>5. top \in Positions(head) /\ DOMAIN top = DOMAIN lane.http.cursors
      /\ \A c \in DOMAIN top : top[c] = head[c]
  <2>1. DOMAIN lane.http.cursors \in SUBSET Channel
    BY <1>4 DEF Positions
  <2>2. top \in [DOMAIN lane.http.cursors -> Nat] /\ \A c \in DOMAIN top : top[c] <= head[c]
    BY <1>2, <2>1 DEF Heads
  <2> HIDE DEF top
  <2>3. top \in Positions(head)
    BY <2>1, <2>2 DEF Positions
  <2> QED
    BY <2>3 DEF top
<1> HIDE DEF top
<1>6. /\ k \in Lane(head) /\ k.http # None /\ k.http.cursors = lane.http.cursors /\ k.http.heads = top
      /\ k.cursor = lane.cursor /\ k.epochs = lane.epochs /\ k.generation = lane.generation
      /\ k.issued = lane.issued /\ k.epoch = lane.epoch /\ k.session = lane.session
      /\ k.host = lane.host /\ k.stage = lane.stage /\ k.told = lane.told /\ k.frames = lane.frames
      /\ k.overflowed = lane.overflowed /\ k.draining = lane.draining /\ k.calls = lane.calls
      /\ k.applied = lane.applied /\ k.dropped = lane.dropped /\ k.in_flight = lane.in_flight
  <2> DEFINE r == [lane.http EXCEPT !.heads = top]
  <2>1. r \in Requests(head) /\ r.cursors = lane.http.cursors /\ r.heads = top
    BY <1>4, <1>5 DEF Requests
  <2>2. r # None
    <3>1. DOMAIN r = {"cursors", "heads"} /\ DOMAIN None = {}
      BY <1>4 DEF Requests, None
    <3> QED BY <3>1
  <2>3. k = [lane EXCEPT !.http = r]
    OBVIOUS
  <2> HIDE DEF r, k
  <2> QED
    BY <1>2, <2>1, <2>2, <2>3 DEF Lane
<1> HIDE DEF k
<1>7. Sound(head, k)
  <2>1. /\ Streaming(k) <=> Streaming(lane)
        /\ Subscribed(k) = Subscribed(lane) /\ (Upheld(k) <=> Upheld(lane))
        /\ Epochs(k, Subscribed(k)) = Epochs(lane, Subscribed(lane))
    BY <1>6 DEF Streaming, Subscribed, Upheld, Epochs
  <2>2. LinkInv(k)
    BY <1>2, <1>3, <1>5, <1>6, <2>1 DEF Sound, LinkInv
  <2>3. CallsInv(k)
    BY <1>1, <1>2, <1>3, <1>6 DEF Sound, CallsInv, Framed, Answers
  <2>4. LedgerInv(k)
    BY <1>2, <1>6, <2>1 DEF Sound, LedgerInv
  <2> QED
    BY <1>6, <2>2, <2>3, <2>4 DEF Sound
<1>8. Draining(k, ToSet(k.calls))
  BY <1>2, <1>6 DEF Draining, Streaming, Framed
<1>9. ASSUME Flow(lane, ToSet(lane.calls)) PROVE Flow(k, ToSet(k.calls))
  <2> DEFINE E == ToSet(lane.calls)
  <2>1. ASSUME Told(lane), NEW c \in lane.session.channels PROVE Coming(k, c)
    <3>1. lane.session.active = [x \in Subscribed(lane) |-> lane.cursor[x]]
          /\ lane.session.channels = Subscribed(lane)
      BY <1>2, <1>3, <2>1 DEF Sound, LedgerInv, Told
    <3>2. c \in DOMAIN top
      BY <1>3, <1>5, <3>1
    <3>3. c \in DOMAIN lane.told
      BY <1>2, <1>3, <2>1 DEF Sound, LinkInv, Told
    <3>4. lane.told \in Positions(head)
      BY <1>2, LaneFields
    <3>5. lane.told[c] <= head[c] /\ lane.told[c] \in Nat /\ head[c] \in Nat
      BY <1>2, <3>3, <3>4 DEF Positions, Heads
    <3>6. k.http.heads[c] >= k.told[c] /\ k.http.heads # None
      <4>1. DOMAIN None = {}
        BY DEF None
      <4> QED BY <1>5, <1>6, <3>2, <3>5, <4>1
    <3> QED
      BY <1>6, <3>6 DEF Coming
  <2>2. CoverInv(k, E)
    BY <1>6, <2>1 DEF CoverInv, Told, Upheld, Ahead
  <2>3. GreetInv(lane, E) => GreetInv(k, E)
    BY <1>6 DEF GreetInv, Told, Upheld, InFrames
  <2> QED
    BY <1>6, <1>9, <2>2, <2>3 DEF Flow
<1> QED
  BY <1>1, <1>6, <1>7, <1>8, <1>9, EnvironmentStep

\* The request's answer takes its place.
LEMMA RespondStep ==
  ASSUME IInv, respond
  PROVE  IInv'
<1> DEFINE cursors == lane.http.cursors
           top == lane.http.heads
<1>1. PICK to \in [DOMAIN cursors -> 0..MaxHead] :
        /\ \A c \in DOMAIN cursors : to[c] \in Ends(cursors[c], top[c])
        /\ lane' = Dispatch([lane EXCEPT !.http = None],
             [type |-> "catchUp", epoch |-> lane.host.epoch,
              page |-> [c \in DOMAIN cursors |->
                          [from |-> cursors[c], to |-> to[c], head |-> top[c]]]])
  BY DEF respond
<1> DEFINE page == [c \in DOMAIN cursors |-> [from |-> cursors[c], to |-> to[c], head |-> top[c]]]
           e == [type |-> "catchUp", epoch |-> lane.host.epoch, page |-> page]
           m == [lane EXCEPT !.http = None]
           k == Dispatch(m, e)
<1>2. lane' = k /\ lane.http # None /\ top # None /\ UNCHANGED <<head, got, dropped>>
  BY <1>1 DEF respond
<1>3. /\ Sound(head, lane) /\ lane \in Lane(head) /\ head \in Heads
      /\ Draining(lane, ToSet(lane.calls))
  BY DEF IInv, ShapeInv, Sound
<1>4. /\ Streaming(lane) /\ lane.session # None /\ lane.session.active = cursors
      /\ lane.session.active # None /\ DOMAIN top = DOMAIN cursors
      /\ lane.host.epoch = lane.session.epoch /\ lane.session.epoch = lane.epoch /\ lane.epoch \in Nat
      /\ lane.host.channels = lane.session.channels
  BY <1>2, <1>3, LaneFields DEF Sound, LinkInv
<1>5. lane.http \in Requests(head) /\ cursors \in Positions(head) /\ top \in Positions(head)
  BY <1>2, <1>3, LaneFields DEF Requests
<1>6. /\ DOMAIN cursors \subseteq Channel /\ \A c \in DOMAIN cursors : cursors[c] \in Nat
      /\ \A c \in DOMAIN cursors : top[c] \in Nat /\ top[c] <= head[c] /\ head[c] \in Nat
  BY <1>3, <1>4, <1>5 DEF Positions, Heads
<1>7. \A c \in DOMAIN cursors : to[c] \in Nat /\ to[c] <= top[c]
  BY <1>1, <1>6, ClientLiveAssumption DEF Ends
<1>8. page \in Answer(head) /\ From(page) = cursors
  <2>1. page \in [DOMAIN cursors -> [from : Nat, to : Nat, head : Nat]]
    BY <1>6, <1>7
  <2>2. From(page) = [c \in DOMAIN cursors |-> cursors[c]]
    BY DEF From
  <2>3. [c \in DOMAIN cursors |-> cursors[c]] = cursors
    BY <1>5 DEF Positions
  <2>4. \A c \in DOMAIN page : page[c].to <= head[c]
    BY <1>6, <1>7
  <2>5. DOMAIN cursors \in SUBSET Channel /\ DOMAIN page = DOMAIN cursors
    BY <1>6
  <2> HIDE DEF page, cursors
  <2> QED
    BY <2>1, <2>2, <2>3, <2>4, <2>5 DEF Answer
<1>9. DOMAIN page = DOMAIN cursors /\ \A c \in DOMAIN page : page[c].head = top[c]
  OBVIOUS
<1> HIDE DEF page
<1>10. e \in Event(head)
  BY <1>4, <1>8 DEF Event
<1>11. e.type = "catchUp" /\ e.epoch = lane.session.epoch /\ e.page = page
  BY <1>4
<1> HIDE DEF e, cursors, top
<1>12. /\ m \in Lane(head) /\ m.http = None
       /\ m.cursor = lane.cursor /\ m.epochs = lane.epochs /\ m.generation = lane.generation
       /\ m.issued = lane.issued /\ m.epoch = lane.epoch /\ m.session = lane.session
       /\ m.host = lane.host /\ m.stage = lane.stage /\ m.told = lane.told /\ m.frames = lane.frames
       /\ m.overflowed = lane.overflowed /\ m.draining = lane.draining /\ m.calls = lane.calls
       /\ m.applied = lane.applied /\ m.dropped = lane.dropped /\ m.in_flight = lane.in_flight
  BY <1>3, <1>5 DEF Lane
<1> HIDE DEF m
<1>13. Sound(head, m)
  <2>1. /\ Streaming(m) <=> Streaming(lane)
        /\ Subscribed(m) = Subscribed(lane) /\ (Upheld(m) <=> Upheld(lane))
        /\ Epochs(m, Subscribed(m)) = Epochs(lane, Subscribed(lane))
    BY <1>12 DEF Streaming, Subscribed, Upheld, Epochs
  <2>2. LinkInv(m)
    BY <1>3, <1>12, <2>1 DEF Sound, LinkInv
  <2>3. CallsInv(m)
    BY <1>3, <1>12 DEF Sound, CallsInv, Framed, Answers
  <2>4. LedgerInv(m)
    BY <1>3, <1>12, <2>1 DEF Sound, LedgerInv
  <2> QED
    BY <1>12, <2>2, <2>3, <2>4 DEF Sound
<1>14. Fits(head, m, e)
  <2>1. \A i \in DOMAIN m.calls : ~ Answers(m, m.calls[i])
    BY <1>2, <1>3, <1>4, <1>12 DEF Sound, CallsInv, Answers
  <2>2. ~ Framed(m, e)
    BY <1>11 DEF Framed
  <2> QED
    BY <1>2, <1>4, <1>8, <1>10, <1>11, <1>12, <2>1, <2>2 DEF Fits
<1>15. Sound(head, k) /\ Alike(m, k) /\ ToSet(k.calls) = ToSet(m.calls) \cup {e}
  BY <1>13, <1>14, Dispatched
<1> HIDE DEF k
<1>16. /\ k.session = lane.session /\ k.host = lane.host /\ k.stage = lane.stage /\ k.told = lane.told
       /\ k.frames = lane.frames /\ k.overflowed = lane.overflowed /\ k.draining = lane.draining
       /\ k.cursor = lane.cursor /\ k.generation = lane.generation
       /\ k.applied = lane.applied /\ k.dropped = lane.dropped
       /\ ToSet(k.calls) = ToSet(lane.calls) \cup {e}
  BY <1>12, <1>15 DEF Alike
<1>17. Draining(k, ToSet(k.calls))
  BY <1>3, <1>11, <1>16 DEF Draining, Streaming, Framed
<1>18. ASSUME Flow(lane, ToSet(lane.calls)) PROVE Flow(k, ToSet(k.calls))
  <2> DEFINE E == ToSet(lane.calls)
  <2>1. ASSUME Told(lane), NEW c \in lane.session.channels, Ahead(lane, E, c)
        PROVE  Ahead(k, E \cup {e}, c)
    <3>1. lane.session.active = [x \in Subscribed(lane) |-> lane.cursor[x]]
          /\ lane.session.channels = Subscribed(lane)
      BY <1>2, <1>3, <1>4, <2>1 DEF Sound, LedgerInv, Told
    <3>2. c \in DOMAIN page
      BY <1>4, <1>9, <3>1
    <3>3. lane.http.heads[c] >= lane.told[c] => Answers(k, e) /\ e.page[c].head >= k.told[c]
      BY <1>9, <1>11, <1>16, <3>2 DEF Answers, top
    <3>4. Coming(lane, c) => lane.http.heads[c] >= lane.told[c]
      BY <1>2 DEF Coming, Unread, top
    <3> QED
      BY <1>16, <2>1, <3>3, <3>4 DEF Ahead, Answers, InFrames
  <2>2. CoverInv(lane, E) => CoverInv(k, E \cup {e})
    <3>1. Told(k) <=> Told(lane)
      BY <1>16 DEF Told, Upheld
    <3> HIDE DEF E
    <3> QED
      BY <1>16, <2>1, <3>1 DEF CoverInv
  <2>3. GreetInv(lane, E) => GreetInv(k, E \cup {e})
    BY <1>11, <1>16 DEF GreetInv, Told, Upheld, InFrames
  <2> QED
    BY <1>16, <1>18, <2>2, <2>3 DEF Flow
<1> QED
  BY <1>2, <1>15, <1>16, <1>17, <1>18, EnvironmentStep

\* What a frame that arrives at the host's buffer leaves.
LEMMA BufferedShape ==
  ASSUME NEW h, NEW l \in Lane(h), NEW f \in Frame(h),
         Len(l.frames) <= BUFFERED_FRAMES
  PROVE  LET k == Buffered(l, f) IN
           /\ k \in Lane(h) /\ k.cursor = l.cursor /\ k.epochs = l.epochs /\ k.generation = l.generation
           /\ k.issued = l.issued /\ k.epoch = l.epoch /\ k.session = l.session
           /\ k.host = l.host /\ k.stage = l.stage /\ k.told = l.told
           /\ k.draining = l.draining /\ k.calls = l.calls /\ k.http = l.http
           /\ k.applied = l.applied /\ k.dropped = l.dropped /\ k.in_flight = l.in_flight
           /\ Len(k.frames) <= BUFFERED_FRAMES
           /\ \/ k.frames = <<f>> /\ k.overflowed /\ l.frames # << >>
              \/ k.frames = Append(l.frames, f) /\ k.overflowed = l.overflowed
<1> DEFINE k == Buffered(l, f)
<1>1. l.frames \in Seq(Frame(h)) /\ Len(l.frames) <= BUFFERED_FRAMES
  BY LaneFields
<1>2. BUFFERED_FRAMES \in Nat /\ BUFFERED_FRAMES # 0
  BY ClientLiveAssumption
<1>3. CASE Len(l.frames) = BUFFERED_FRAMES
  <2> DEFINE q == <<f>>
  <2>1. q \in Seq(Frame(h)) /\ Len(q) = 1 /\ l.frames # << >> /\ TRUE \in BOOLEAN
    BY <1>1, <1>2, <1>3
  <2>2. k = [l EXCEPT !.frames = q, !.overflowed = TRUE]
    BY <1>3 DEF Buffered
  <2> HIDE DEF k, q
  <2>3. /\ k \in Lane(h) /\ k.cursor = l.cursor /\ k.epochs = l.epochs /\ k.generation = l.generation
        /\ k.issued = l.issued /\ k.epoch = l.epoch /\ k.session = l.session
        /\ k.host = l.host /\ k.stage = l.stage /\ k.told = l.told
        /\ k.draining = l.draining /\ k.calls = l.calls /\ k.http = l.http
        /\ k.applied = l.applied /\ k.dropped = l.dropped /\ k.in_flight = l.in_flight
        /\ k.frames = q /\ k.overflowed
    BY <2>1, <2>2 DEF Lane
  <2>4. Len(k.frames) <= BUFFERED_FRAMES
    <3>1. 1 <= BUFFERED_FRAMES
      BY <1>2
    <3>2. Len(k.frames) = 1
      BY <2>1, <2>3
    <3> QED
      BY <3>1, <3>2
  <2> QED
    BY <2>1, <2>3, <2>4 DEF k, q
<1>4. CASE Len(l.frames) # BUFFERED_FRAMES
  <2> DEFINE q == Append(l.frames, f)
  <2>1. q \in Seq(Frame(h)) /\ Len(q) = Len(l.frames) + 1 /\ Len(q) <= BUFFERED_FRAMES
    BY <1>1, <1>2, <1>4
  <2>2. k = [l EXCEPT !.frames = q]
    BY <1>4 DEF Buffered, Lane
  <2> HIDE DEF k, q
  <2>3. /\ k \in Lane(h) /\ k.cursor = l.cursor /\ k.epochs = l.epochs /\ k.generation = l.generation
        /\ k.issued = l.issued /\ k.epoch = l.epoch /\ k.session = l.session
        /\ k.host = l.host /\ k.stage = l.stage /\ k.told = l.told
        /\ k.draining = l.draining /\ k.calls = l.calls /\ k.http = l.http
        /\ k.applied = l.applied /\ k.dropped = l.dropped /\ k.in_flight = l.in_flight
        /\ k.frames = q /\ k.overflowed = l.overflowed
    BY <2>1, <2>2 DEF Lane
  <2> QED
    BY <2>1, <2>3 DEF k, q
<1> QED
  BY <1>3, <1>4

\* The acknowledgement is the first frame of the socket.
LEMMA AcknowledgeStep ==
  ASSUME IInv, acknowledge
  PROVE  IInv'
<1> DEFINE heads == [c \in lane.host.channels |-> head[c]]
           f == [type |-> "subscribed", heads |-> heads]
           m == [lane EXCEPT !.stage = "open", !.told = heads]
           k == Buffered(m, f)
<1>1. /\ Streaming(lane) /\ lane' = k /\ lane.stage = "connecting" /\ UNCHANGED <<head, got, dropped>>
  BY DEF acknowledge, Stream!Acknowledge
<1>2. /\ Sound(head, lane) /\ lane \in Lane(head) /\ head \in Heads
      /\ Draining(lane, ToSet(lane.calls))
  BY DEF IInv, ShapeInv, Sound
<1>3. /\ lane.session # None /\ lane.host # None /\ lane.host.epoch = lane.session.epoch
      /\ lane.host.channels = lane.session.channels
      /\ lane.frames = << >> /\ ~ lane.overflowed /\ ~ lane.draining /\ ~ lane.session.acknowledged
  BY <1>1, <1>2 DEF Sound, LinkInv, Streaming
<1>4. lane.host.channels \in SUBSET Channel
  BY <1>2, <1>3, LaneFields, HostFields
<1>5. heads \in Positions(head) /\ DOMAIN heads = lane.host.channels
  <2>1. heads \in [lane.host.channels -> Nat] /\ \A c \in DOMAIN heads : heads[c] <= head[c]
    BY <1>2, <1>4 DEF Heads
  <2> HIDE DEF heads
  <2> QED
    BY <1>4, <2>1 DEF Positions
<1> HIDE DEF heads
<1>6. f \in Frame(head) /\ f.type = "subscribed" /\ f.heads = heads
  BY <1>5 DEF Frame
<1> HIDE DEF f
<1>7. /\ m \in Lane(head) /\ m.stage = "open" /\ m.told = heads /\ m.frames = << >> /\ ~ m.overflowed
      /\ m.cursor = lane.cursor /\ m.epochs = lane.epochs /\ m.generation = lane.generation
      /\ m.issued = lane.issued /\ m.epoch = lane.epoch /\ m.session = lane.session
      /\ m.host = lane.host /\ m.draining = lane.draining /\ m.calls = lane.calls
      /\ m.http = lane.http /\ m.applied = lane.applied /\ m.dropped = lane.dropped
      /\ m.in_flight = lane.in_flight
  BY <1>2, <1>3, <1>5 DEF Lane
<1> HIDE DEF m
<1>8. BUFFERED_FRAMES \in Nat /\ Len(m.frames) = 0
  BY <1>7, ClientLiveAssumption
<1>9. /\ k \in Lane(head) /\ k.stage = "open" /\ k.told = heads
      /\ k.frames = <<f>> /\ ~ k.overflowed
      /\ k.cursor = lane.cursor /\ k.epochs = lane.epochs /\ k.generation = lane.generation
      /\ k.issued = lane.issued /\ k.epoch = lane.epoch /\ k.session = lane.session
      /\ k.host = lane.host /\ k.draining = lane.draining /\ k.calls = lane.calls
      /\ k.http = lane.http /\ k.applied = lane.applied /\ k.dropped = lane.dropped
      /\ k.in_flight = lane.in_flight /\ Len(k.frames) <= BUFFERED_FRAMES
  <2>1. Append(<< >>, f) = <<f>>
    OBVIOUS
  <2>2. Len(m.frames) <= BUFFERED_FRAMES
    BY <1>8
  <2> QED
    BY <1>6, <1>7, <2>1, <2>2, BufferedShape
<1> HIDE DEF k
<1>10. /\ (Streaming(k) <=> Streaming(lane)) /\ Subscribed(k) = Subscribed(lane)
       /\ (Upheld(k) <=> Upheld(lane)) /\ Epochs(k, Subscribed(k)) = Epochs(lane, Subscribed(lane))
  BY <1>9 DEF Streaming, Subscribed, Upheld, Epochs
<1>11. LinkInv(k)
  BY <1>1, <1>2, <1>5, <1>9, <1>10 DEF Sound, LinkInv
<1>12. CallsInv(k)
  BY <1>2, <1>9 DEF Sound, CallsInv, Framed, Answers
<1>13. LedgerInv(k)
  BY <1>2, <1>9, <1>10 DEF Sound, LedgerInv
<1>14. Draining(k, ToSet(k.calls))
  BY <1>2, <1>9, <1>10 DEF Draining, Framed
<1>15. Flow(k, ToSet(k.calls))
  <2>1. CoverInv(k, ToSet(k.calls))
    BY <1>3, <1>9 DEF CoverInv
  <2>2. \A e \in ToSet(k.calls) : ~ (e.type = "message" /\ e.epoch = k.session.epoch)
    BY <1>1, <1>2, <1>3, <1>9 DEF Draining, Framed
  <2>3. \A i \in DOMAIN k.frames : i = 1 /\ k.frames[i] = f
    BY <1>9
  <2>4. \A c \in k.session.channels : heads[c] \in Nat
    BY <1>3, <1>5, <1>9 DEF Positions
  <2>5. \A c \in k.session.channels : heads[c] >= k.told[c]
    BY <1>3, <1>9, <2>4
  <2>6. GreetInv(k, ToSet(k.calls))
    BY <1>3, <1>5, <1>6, <1>9, <2>2, <2>3, <2>5 DEF GreetInv
  <2> QED
    BY <2>1, <2>6 DEF Flow
<1> QED
  BY <1>1, <1>9, <1>11, <1>12, <1>13, <1>14, <1>15, EnvironmentStep DEF Sound

\* A page follows on from where the socket was told to be.
LEMMA StreamStep ==
  ASSUME IInv, NEW to \in Stream!Positions, stream(to)
  PROVE  IInv'
<1> DEFINE told == [c \in DOMAIN lane.told |-> IF c \in DOMAIN to THEN to[c] ELSE lane.told[c]]
           page == [c \in DOMAIN to |-> [from |-> lane.told[c], to |-> to[c]]]
           f == [type |-> "page", page |-> page]
           m == [lane EXCEPT !.told = told]
           k == Buffered(m, f)
<1>1. /\ lane.stage = "open" /\ DOMAIN to \subseteq DOMAIN lane.told /\ UNCHANGED <<head, got, dropped>>
      /\ \A c \in DOMAIN to : to[c] <= head[c]
  BY DEF stream, Stream!Page
<1>2. /\ Sound(head, lane) /\ lane \in Lane(head) /\ head \in Heads
      /\ Draining(lane, ToSet(lane.calls))
  BY DEF IInv, ShapeInv, Sound
<1>3. lane' = k
  <2>1. m = [lane EXCEPT !.told = [c \in DOMAIN @ |-> IF c \in DOMAIN to THEN to[c] ELSE @[c]]]
    BY <1>2 DEF Lane
  <2> QED
    BY <2>1 DEF stream
<1>4. /\ Streaming(lane) /\ lane.session # None /\ lane.host # None
      /\ lane.host.epoch = lane.session.epoch /\ lane.host.channels = lane.session.channels
      /\ DOMAIN lane.told = lane.session.channels
  BY <1>1, <1>2 DEF Sound, LinkInv, Streaming
<1>5. lane.told \in Positions(head)
  BY <1>2, LaneFields
<1>6. /\ DOMAIN lane.told \subseteq Channel
      /\ \A c \in DOMAIN lane.told : lane.told[c] \in Nat /\ lane.told[c] <= head[c]
  BY <1>5 DEF Positions
<1>7. \A c \in DOMAIN to : to[c] \in Nat
  BY ClientLiveAssumption DEF Stream!Positions
<1>8. told \in Positions(head) /\ DOMAIN told = DOMAIN lane.told
  <2>1. told \in [DOMAIN lane.told -> Nat] /\ \A c \in DOMAIN told : told[c] <= head[c]
    BY <1>1, <1>6, <1>7
  <2> HIDE DEF told
  <2> QED
    BY <1>6, <2>1 DEF Positions
<1>9. \A c \in DOMAIN lane.told : told[c] = IF c \in DOMAIN to THEN to[c] ELSE lane.told[c]
  OBVIOUS
<1> HIDE DEF told
<1>10. page \in Page(head) /\ DOMAIN page = DOMAIN to /\ \A c \in DOMAIN to : page[c].to = to[c]
  <2>1. page \in [DOMAIN to -> [from : Nat, to : Nat]] /\ \A c \in DOMAIN page : page[c].to = to[c]
    BY <1>1, <1>6, <1>7
  <2>2. DOMAIN page = DOMAIN to /\ DOMAIN to \in SUBSET Channel
    BY <1>1, <1>6
  <2> HIDE DEF page
  <2> QED
    BY <1>1, <2>1, <2>2 DEF Page
<1> HIDE DEF page
<1>11. f \in Frame(head) /\ f.type = "page" /\ f.page = page
  BY <1>10 DEF Frame
<1> HIDE DEF f
<1>12. /\ m \in Lane(head) /\ m.stage = lane.stage /\ m.told = told /\ m.frames = lane.frames
       /\ m.overflowed = lane.overflowed
       /\ m.cursor = lane.cursor /\ m.epochs = lane.epochs /\ m.generation = lane.generation
       /\ m.issued = lane.issued /\ m.epoch = lane.epoch /\ m.session = lane.session
       /\ m.host = lane.host /\ m.draining = lane.draining /\ m.calls = lane.calls
       /\ m.http = lane.http /\ m.applied = lane.applied /\ m.dropped = lane.dropped
       /\ m.in_flight = lane.in_flight
  BY <1>2, <1>8 DEF Lane
<1> HIDE DEF m
<1>13. Len(m.frames) <= BUFFERED_FRAMES
  BY <1>2, <1>12 DEF Sound, LinkInv
<1>14. /\ k \in Lane(head) /\ k.stage = "open" /\ k.told = told
       /\ k.cursor = lane.cursor /\ k.epochs = lane.epochs /\ k.generation = lane.generation
       /\ k.issued = lane.issued /\ k.epoch = lane.epoch /\ k.session = lane.session
       /\ k.host = lane.host /\ k.draining = lane.draining /\ k.calls = lane.calls
       /\ k.http = lane.http /\ k.applied = lane.applied /\ k.dropped = lane.dropped
       /\ k.in_flight = lane.in_flight /\ Len(k.frames) <= BUFFERED_FRAMES
       /\ \/ k.frames = <<f>> /\ k.overflowed /\ lane.frames # << >>
          \/ k.frames = Append(lane.frames, f) /\ k.overflowed = lane.overflowed
  BY <1>1, <1>11, <1>12, <1>13, BufferedShape
<1> HIDE DEF k
<1>15. /\ (Streaming(k) <=> Streaming(lane)) /\ Subscribed(k) = Subscribed(lane)
       /\ (Upheld(k) <=> Upheld(lane)) /\ Epochs(k, Subscribed(k)) = Epochs(lane, Subscribed(lane))
  BY <1>14 DEF Streaming, Subscribed, Upheld, Epochs
<1>16. LinkInv(k)
  BY <1>2, <1>4, <1>8, <1>14, <1>15 DEF Sound, LinkInv
<1>17. CallsInv(k)
  BY <1>2, <1>14 DEF Sound, CallsInv, Framed, Answers
<1>18. LedgerInv(k)
  BY <1>2, <1>14, <1>15 DEF Sound, LedgerInv
<1>19. Draining(k, ToSet(k.calls))
  BY <1>2, <1>14, <1>15 DEF Draining, Framed
\* What the buffer holds then: the new page, and what it held unless it was full.
<1>20. /\ \A c \in DOMAIN to : InFrames(k, c, told[c])
       /\ \A c, n : InFrames(lane, c, n) => InFrames(k, c, n) \/ k.overflowed
       /\ lane.overflowed => k.overflowed
       /\ \A i \in DOMAIN k.frames : k.frames[i].type = "subscribed" =>
            /\ i \in DOMAIN lane.frames /\ k.frames[i] = lane.frames[i]
            /\ k.overflowed = lane.overflowed
            /\ \A c, n : InFrames(lane, c, n) => InFrames(k, c, n)
  <2>1. \A c \in DOMAIN to : Reaches(f.page, c, told[c])
    BY <1>1, <1>7, <1>9, <1>10, <1>11 DEF Reaches
  <2>2. lane.frames \in Seq(Frame(head))
    BY <1>2, LaneFields
  <2>3. CASE k.frames = <<f>> /\ k.overflowed
    <3>1. 1 \in DOMAIN k.frames /\ \A i \in DOMAIN k.frames : k.frames[i] = f
      BY <2>3
    <3> QED
      BY <1>11, <2>1, <2>3, <3>1 DEF InFrames
  <2>4. CASE k.frames = Append(lane.frames, f) /\ k.overflowed = lane.overflowed
    <3> DEFINE n == Len(lane.frames)
    <3>1. /\ n + 1 \in DOMAIN k.frames /\ k.frames[n + 1] = f
          /\ \A i \in DOMAIN k.frames : i = n + 1 \/ i \in DOMAIN lane.frames
          /\ \A i \in DOMAIN lane.frames : i \in DOMAIN k.frames /\ k.frames[i] = lane.frames[i]
      BY <2>2, <2>4
    <3> HIDE DEF n
    <3>2. \A c, x : InFrames(lane, c, x) => InFrames(k, c, x)
      BY <3>1 DEF InFrames
    <3>3. \A c \in DOMAIN to : InFrames(k, c, told[c])
      BY <1>11, <2>1, <3>1 DEF InFrames
    <3> QED
      BY <1>11, <2>4, <3>1, <3>2, <3>3
  <2> QED
    BY <1>14, <2>3, <2>4
<1>21. ASSUME Flow(lane, ToSet(lane.calls)), ~ lane.dropped PROVE Flow(k, ToSet(k.calls))
  <2> DEFINE E == ToSet(lane.calls)
  <2>1. Told(lane) <=> Told(k)
    BY <1>1, <1>14, <1>15 DEF Told
  <2>2. CoverInv(lane, E) /\ GreetInv(lane, E)
    BY <1>21 DEF Flow
  <2>3. \A c \in k.session.channels : c \in DOMAIN lane.told /\ (c \in DOMAIN to \/ k.told[c] = lane.told[c])
    BY <1>4, <1>9, <1>14
  <2>4. CoverInv(k, E)
    <3>1. SUFFICES ASSUME Told(k), k.session.acknowledged, NEW c \in k.session.channels
                   PROVE  k.cursor[c] >= k.told[c] \/ Ahead(k, E, c)
      BY DEF CoverInv
    <3>2. CASE c \in DOMAIN to
      BY <1>14, <1>20, <3>2 DEF Ahead, Coming, Unread
    <3>3. CASE c \notin DOMAIN to
      <4>1. k.told[c] = lane.told[c]
        BY <2>3, <3>3
      <4>2. lane.cursor[c] >= lane.told[c] \/ Ahead(lane, E, c)
        BY <1>14, <2>1, <2>2, <3>1 DEF CoverInv
      <4>3. Ahead(lane, E, c) => Ahead(k, E, c)
        BY <1>14, <1>20, <4>1 DEF Ahead, Coming, Unread, Answers
      <4> QED
        BY <1>14, <4>1, <4>2, <4>3
    <3> QED
      BY <3>2, <3>3
  <2>5. GreetInv(k, E)
    <3>1. SUFFICES ASSUME Told(k), ~ k.session.acknowledged PROVE GreetInv(k, E)
      BY DEF GreetInv
    <3>2. ASSUME NEW e \in E, e.type = "message", e.epoch = k.session.epoch, e.frame.type = "subscribed"
          PROVE  /\ DOMAIN e.frame.heads = k.session.channels
                 /\ \A c \in k.session.channels :
                      e.frame.heads[c] >= k.told[c] \/ k.overflowed \/ InFrames(k, c, k.told[c])
      BY <1>14, <1>20, <2>1, <2>2, <2>3, <3>1, <3>2 DEF GreetInv
    <3>3. ASSUME NEW i \in DOMAIN k.frames, k.frames[i].type = "subscribed"
          PROVE  /\ i = 1 /\ ~ k.overflowed
                 /\ DOMAIN k.frames[i].heads = k.session.channels
                 /\ \A c \in k.session.channels :
                      k.frames[i].heads[c] >= k.told[c] \/ InFrames(k, c, k.told[c])
      BY <1>14, <1>20, <2>1, <2>2, <2>3, <3>1, <3>3 DEF GreetInv
    <3> QED
      BY <3>2, <3>3 DEF GreetInv
  <2> QED
    BY <1>14, <2>4, <2>5 DEF Flow
<1>22. ~ lane.dropped
  BY DEF IInv, ShapeInv
<1> QED
  BY <1>1, <1>3, <1>14, <1>16, <1>17, <1>18, <1>19, <1>21, <1>22, EnvironmentStep DEF Sound

\* A full buffer was dropped: the session is told so.
LEMMA DeliverOverflow ==
  ASSUME IInv, deliver, lane.overflowed
  PROVE  IInv'
<1> DEFINE e == [type |-> "overflow", epoch |-> lane.host.epoch]
           m == [lane EXCEPT !.draining = TRUE, !.overflowed = FALSE]
           k == Dispatch(m, e)
<1>1. Streaming(lane) /\ ~ lane.draining /\ lane' = k /\ UNCHANGED <<head, got, dropped>>
  BY DEF deliver
<1>2. /\ Sound(head, lane) /\ lane \in Lane(head) /\ head \in Heads
      /\ Draining(lane, ToSet(lane.calls))
  BY DEF IInv, ShapeInv, Sound
<1>3. /\ lane.session # None /\ lane.host.epoch = lane.session.epoch /\ lane.session.epoch = lane.epoch
      /\ lane.epoch \in Nat /\ lane.stage = "open"
  BY <1>1, <1>2, LaneFields DEF Sound, LinkInv, Lane
<1>4. e \in Event(head) /\ Framed(lane, e) /\ e.type = "overflow" /\ e.epoch = lane.session.epoch
  BY <1>3 DEF Event, Framed
<1> HIDE DEF e
<1>5. /\ m \in Lane(head) /\ m.draining /\ ~ m.overflowed /\ m.http = lane.http
      /\ m.cursor = lane.cursor /\ m.epochs = lane.epochs /\ m.generation = lane.generation
      /\ m.issued = lane.issued /\ m.epoch = lane.epoch /\ m.session = lane.session
      /\ m.host = lane.host /\ m.stage = lane.stage /\ m.told = lane.told /\ m.frames = lane.frames
      /\ m.calls = lane.calls /\ m.applied = lane.applied /\ m.dropped = lane.dropped
      /\ m.in_flight = lane.in_flight
  BY <1>2 DEF Lane
<1> HIDE DEF m
<1>6. Sound(head, m)
  <2>1. /\ Streaming(m) <=> Streaming(lane)
        /\ Subscribed(m) = Subscribed(lane) /\ (Upheld(m) <=> Upheld(lane))
        /\ Epochs(m, Subscribed(m)) = Epochs(lane, Subscribed(lane))
    BY <1>5 DEF Streaming, Subscribed, Upheld, Epochs
  <2>2. LinkInv(m)
    BY <1>1, <1>2, <1>3, <1>5, <2>1 DEF Sound, LinkInv
  <2>3. CallsInv(m)
    BY <1>2, <1>5 DEF Sound, CallsInv, Framed, Answers
  <2>4. LedgerInv(m)
    BY <1>2, <1>5, <2>1 DEF Sound, LedgerInv
  <2> QED
    BY <1>5, <2>2, <2>3, <2>4 DEF Sound
<1>7. \A f \in ToSet(lane.calls) : ~ Framed(lane, f)
  BY <1>1, <1>2 DEF Draining
<1>8. Fits(head, m, e)
  <2>1. \A i \in DOMAIN m.calls : ~ Framed(m, m.calls[i])
    BY <1>5, <1>7 DEF ToSet, Framed
  <2>2. ~ Answers(m, e)
    BY <1>4 DEF Answers
  <2> QED
    BY <1>3, <1>4, <1>5, <2>1, <2>2 DEF Fits
<1>9. Sound(head, k) /\ Alike(m, k) /\ ToSet(k.calls) = ToSet(m.calls) \cup {e}
  BY <1>6, <1>8, Dispatched
<1> HIDE DEF k
<1>10. /\ k.session = lane.session /\ k.host = lane.host /\ k.stage = lane.stage /\ k.told = lane.told
       /\ k.frames = lane.frames /\ ~ k.overflowed /\ k.draining /\ k.http = lane.http
       /\ k.cursor = lane.cursor /\ k.generation = lane.generation
       /\ k.applied = lane.applied /\ k.dropped = lane.dropped
       /\ ToSet(k.calls) = ToSet(lane.calls) \cup {e}
  BY <1>5, <1>9 DEF Alike
<1>11. Draining(k, ToSet(k.calls))
  BY <1>4, <1>10 DEF Draining, Framed
<1>12. ASSUME Flow(lane, ToSet(lane.calls)), ~ lane.dropped PROVE Flow(k, ToSet(k.calls))
  <2>1. CoverInv(lane, ToSet(lane.calls)) /\ GreetInv(lane, ToSet(lane.calls))
    BY <1>12 DEF Flow
  <2>2. \A c : Ahead(k, ToSet(k.calls), c)
    BY <1>4, <1>10 DEF Ahead, Coming, Unread
  <2>3. CoverInv(k, ToSet(k.calls))
    BY <2>2 DEF CoverInv
  <2>4. \A f \in ToSet(k.calls) : ~ (f.type = "message" /\ f.epoch = k.session.epoch)
    BY <1>4, <1>7, <1>10 DEF Framed
  <2>5. Told(k) <=> Told(lane)
    BY <1>10 DEF Told, Upheld
  <2>6. GreetInv(k, ToSet(k.calls))
    BY <1>10, <2>1, <2>4, <2>5 DEF GreetInv
  <2> QED
    BY <2>3, <2>6 DEF Flow
<1>13. ~ lane.dropped
  BY DEF IInv, ShapeInv
<1> QED
  BY <1>1, <1>9, <1>10, <1>11, <1>12, <1>13, EnvironmentStep

\* The front of the buffer is handed to the session.
LEMMA DeliverFrame ==
  ASSUME IInv, deliver, ~ lane.overflowed
  PROVE  IInv'
<1> DEFINE g == Head(lane.frames)
           r == Tail(lane.frames)
           e == [type |-> "message", epoch |-> lane.host.epoch, frame |-> g]
           m == [lane EXCEPT !.draining = TRUE, !.frames = r]
           k == Dispatch(m, e)
<1>1. Streaming(lane) /\ ~ lane.draining /\ lane.frames # << >> /\ UNCHANGED <<head, got, dropped>>
  BY DEF deliver
<1>2. /\ Sound(head, lane) /\ lane \in Lane(head) /\ head \in Heads
      /\ Draining(lane, ToSet(lane.calls))
  BY DEF IInv, ShapeInv, Sound
<1>3. lane' = k
  <2>1. m = [lane EXCEPT !.draining = TRUE, !.frames = Tail(@)]
    BY <1>2 DEF Lane
  <2> QED
    BY <2>1 DEF deliver
<1>4. /\ lane.session # None /\ lane.host.epoch = lane.session.epoch /\ lane.session.epoch = lane.epoch
      /\ lane.epoch \in Nat /\ lane.stage = "open" /\ Len(lane.frames) <= BUFFERED_FRAMES
  BY <1>1, <1>2, LaneFields DEF Sound, LinkInv, Lane
<1>5. lane.frames \in Seq(Frame(head))
  BY <1>2, LaneFields
<1>6. /\ g \in Frame(head) /\ 1 \in DOMAIN lane.frames /\ lane.frames[1] = g /\ r \in Seq(Frame(head))
      /\ Len(r) <= BUFFERED_FRAMES
      /\ \A i \in DOMAIN r : i + 1 \in DOMAIN lane.frames /\ r[i] = lane.frames[i + 1] /\ i + 1 # 1
      /\ \A i \in DOMAIN lane.frames : i # 1 => i - 1 \in DOMAIN r /\ r[i - 1] = lane.frames[i]
  <2>1. Len(lane.frames) \in Nat /\ Len(lane.frames) >= 1 /\ Len(r) = Len(lane.frames) - 1
    BY <1>1, <1>5
  <2>2. Len(r) <= BUFFERED_FRAMES
    BY <1>4, <2>1, ClientLiveAssumption
  <2>3. DOMAIN lane.frames = 1..Len(lane.frames) /\ DOMAIN r = 1..(Len(lane.frames) - 1)
        /\ g = lane.frames[1] /\ g \in Frame(head) /\ r \in Seq(Frame(head))
        /\ \A i \in 1..(Len(lane.frames) - 1) : r[i] = lane.frames[i + 1]
    BY <1>1, <1>5
  <2> HIDE DEF r, g
  <2> QED
    BY <2>1, <2>2, <2>3
<1> HIDE DEF g, r
<1>7. /\ e \in Event(head) /\ Framed(lane, e) /\ e.type = "message" /\ e.epoch = lane.session.epoch
      /\ e.frame = g
  BY <1>4, <1>6 DEF Event, Framed
<1> HIDE DEF e
<1>8. /\ m \in Lane(head) /\ m.draining /\ m.overflowed = lane.overflowed /\ m.http = lane.http
      /\ m.cursor = lane.cursor /\ m.epochs = lane.epochs /\ m.generation = lane.generation
      /\ m.issued = lane.issued /\ m.epoch = lane.epoch /\ m.session = lane.session
      /\ m.host = lane.host /\ m.stage = lane.stage /\ m.told = lane.told /\ m.frames = r
      /\ m.calls = lane.calls /\ m.applied = lane.applied /\ m.dropped = lane.dropped
      /\ m.in_flight = lane.in_flight
  BY <1>2, <1>6 DEF Lane
<1> HIDE DEF m
<1>9. Sound(head, m)
  <2>1. /\ Streaming(m) <=> Streaming(lane)
        /\ Subscribed(m) = Subscribed(lane) /\ (Upheld(m) <=> Upheld(lane))
        /\ Epochs(m, Subscribed(m)) = Epochs(lane, Subscribed(lane))
    BY <1>8 DEF Streaming, Subscribed, Upheld, Epochs
  <2>2. LinkInv(m)
    BY <1>1, <1>2, <1>4, <1>6, <1>8, <2>1 DEF Sound, LinkInv
  <2>3. CallsInv(m)
    BY <1>2, <1>8 DEF Sound, CallsInv, Framed, Answers
  <2>4. LedgerInv(m)
    BY <1>2, <1>8, <2>1 DEF Sound, LedgerInv
  <2> QED
    BY <1>8, <2>2, <2>3, <2>4 DEF Sound
<1>10. \A f \in ToSet(lane.calls) : ~ Framed(lane, f)
  BY <1>1, <1>2 DEF Draining
<1>11. Fits(head, m, e)
  <2>1. \A i \in DOMAIN m.calls : ~ Framed(m, m.calls[i])
    BY <1>8, <1>10 DEF ToSet, Framed
  <2>2. ~ Answers(m, e)
    BY <1>7 DEF Answers
  <2> QED
    BY <1>4, <1>7, <1>8, <2>1, <2>2 DEF Fits
<1>12. Sound(head, k) /\ Alike(m, k) /\ ToSet(k.calls) = ToSet(m.calls) \cup {e}
  BY <1>9, <1>11, Dispatched
<1> HIDE DEF k
<1>13. /\ k.session = lane.session /\ k.host = lane.host /\ k.stage = lane.stage /\ k.told = lane.told
       /\ k.frames = r /\ k.overflowed = lane.overflowed /\ k.draining /\ k.http = lane.http
       /\ k.cursor = lane.cursor /\ k.generation = lane.generation
       /\ k.applied = lane.applied /\ k.dropped = lane.dropped
       /\ ToSet(k.calls) = ToSet(lane.calls) \cup {e}
  BY <1>8, <1>12 DEF Alike
<1>14. Draining(k, ToSet(k.calls))
  BY <1>7, <1>13 DEF Draining, Framed
<1>15. \A c, n : InFrames(lane, c, n) =>
         (g.type = "page" /\ Reaches(g.page, c, n)) \/ InFrames(k, c, n)
  <2>1. SUFFICES ASSUME NEW c, NEW n, NEW i \in DOMAIN lane.frames,
                        lane.frames[i].type = "page", Reaches(lane.frames[i].page, c, n)
                 PROVE  (g.type = "page" /\ Reaches(g.page, c, n)) \/ InFrames(k, c, n)
    BY DEF InFrames
  <2>2. CASE i = 1
    BY <1>6, <2>1, <2>2
  <2>3. CASE i # 1
    <3>1. i - 1 \in DOMAIN k.frames /\ k.frames[i - 1] = lane.frames[i]
      BY <1>6, <1>13, <2>3
    <3> QED
      BY <2>1, <3>1 DEF InFrames
  <2> QED
    BY <2>2, <2>3
<1>16. ASSUME Flow(lane, ToSet(lane.calls)), ~ lane.dropped PROVE Flow(k, ToSet(k.calls))
  <2> DEFINE E == ToSet(lane.calls)
  <2>1. CoverInv(lane, E) /\ GreetInv(lane, E)
    BY <1>16 DEF Flow
  <2>2. Told(k) <=> Told(lane)
    BY <1>13 DEF Told, Upheld
  <2>3. \A c : Ahead(lane, E, c) => Ahead(k, E \cup {e}, c)
    <3>1. SUFFICES ASSUME NEW c, Ahead(lane, E, c) PROVE Ahead(k, E \cup {e}, c)
      OBVIOUS
    <3>2. CASE InFrames(lane, c, lane.told[c])
      BY <1>7, <1>13, <1>15, <3>2 DEF Ahead, Coming, Unread
    <3>3. CASE ~ InFrames(lane, c, lane.told[c])
      BY <1>13, <3>1, <3>3 DEF Ahead, Coming, Unread, Answers
    <3> QED
      BY <3>2, <3>3
  <2>4. CoverInv(k, E \cup {e})
    BY <1>13, <2>1, <2>2, <2>3 DEF CoverInv
  <2>5. GreetInv(k, E \cup {e})
    <3>1. SUFFICES ASSUME Told(k), ~ k.session.acknowledged PROVE GreetInv(k, E \cup {e})
      BY DEF GreetInv
    <3>2. \A i \in DOMAIN r : r[i].type # "subscribed"
      BY <1>6, <1>13, <2>1, <2>2, <3>1 DEF GreetInv
    <3>3. \A f \in E : ~ (f.type = "message" /\ f.epoch = k.session.epoch)
      BY <1>10, <1>13 DEF Framed
    <3>4. ASSUME g.type = "subscribed"
          PROVE  /\ DOMAIN g.heads = k.session.channels
                 /\ \A c \in k.session.channels : g.heads[c] >= k.told[c] \/ InFrames(k, c, k.told[c])
      <4>1. /\ DOMAIN g.heads = lane.session.channels
            /\ \A c \in lane.session.channels :
                 g.heads[c] >= lane.told[c] \/ InFrames(lane, c, lane.told[c])
        BY <1>6, <1>13, <2>1, <2>2, <3>1, <3>4 DEF GreetInv
      <4> QED
        BY <1>13, <1>15, <3>4, <4>1
    <3> QED
      BY <1>7, <1>13, <3>2, <3>3, <3>4 DEF GreetInv
  <2> QED
    BY <1>13, <2>4, <2>5 DEF Flow
<1>17. ~ lane.dropped
  BY DEF IInv, ShapeInv
<1> QED
  BY <1>1, <1>3, <1>12, <1>13, <1>14, <1>16, <1>17, EnvironmentStep

\* The lane's fields hold under heads that have grown.
LEMMA LaneGrown ==
  ASSUME NEW h \in Heads, NEW i \in Heads, \A c \in Channel : h[c] <= i[c]
  PROVE  Lane(h) \subseteq Lane(i)
<1>1. Positions(h) \subseteq Positions(i)
  <2>1. SUFFICES ASSUME NEW p \in Positions(h) PROVE p \in Positions(i)
    OBVIOUS
  <2>2. \A c \in DOMAIN p : c \in Channel /\ p[c] \in Nat /\ p[c] <= h[c] /\ h[c] \in Nat /\ i[c] \in Nat
    BY <2>1 DEF Positions, Heads
  <2> QED
    BY <2>1, <2>2 DEF Positions
<1>2. Page(h) \subseteq Page(i)
  <2>1. SUFFICES ASSUME NEW p \in Page(h) PROVE p \in Page(i)
    OBVIOUS
  <2>2. \A c \in DOMAIN p : /\ c \in Channel /\ p[c].to \in Nat /\ p[c].to <= h[c]
                            /\ h[c] \in Nat /\ i[c] \in Nat /\ h[c] <= i[c]
    BY <2>1, PageShape DEF Pages, Heads
  <2>3. \A c \in DOMAIN p : p[c].to <= i[c]
    BY <2>2
  <2> QED
    BY <2>1, <2>3 DEF Page
<1>3. Answer(h) \subseteq Answer(i)
  <2>1. SUFFICES ASSUME NEW p \in Answer(h) PROVE p \in Answer(i)
    OBVIOUS
  <2>2. \A c \in DOMAIN p : /\ c \in Channel /\ p[c].to \in Nat /\ p[c].to <= h[c]
                            /\ h[c] \in Nat /\ i[c] \in Nat /\ h[c] <= i[c]
    BY <2>1, PageShape DEF Pages, Heads
  <2>3. \A c \in DOMAIN p : p[c].to <= i[c]
    BY <2>2
  <2> QED
    BY <2>1, <2>3 DEF Answer
<1>4. Cursors(h) \subseteq Cursors(i)
  <2>1. SUFFICES ASSUME NEW p \in Cursors(h) PROVE p \in Cursors(i)
    OBVIOUS
  <2>2. \A c \in Channel : p[c] \in Int /\ p[c] <= h[c] /\ h[c] \in Nat /\ i[c] \in Nat
    BY <2>1 DEF Cursors, Heads, Unsubscribed
  <2> QED
    BY <2>1, <2>2 DEF Cursors
<1>5. Frame(h) \subseteq Frame(i)
  BY <1>1, <1>2 DEF Frame
<1>6. Event(h) \subseteq Event(i)
  BY <1>3, <1>5 DEF Event
<1>7. Session(h) \subseteq Session(i)
  <2>1. Seq(Page(h)) \subseteq Seq(Page(i))
    BY <1>2
  <2> QED
    BY <1>1, <2>1 DEF Session
<1>9. Requests(h) \subseteq Requests(i)
  BY <1>1 DEF Requests
<1>8. Seq(Frame(h)) \subseteq Seq(Frame(i)) /\ Seq(Event(h)) \subseteq Seq(Event(i))
      /\ Seq(Page(h) \cup Answer(h)) \subseteq Seq(Page(i) \cup Answer(i))
  BY <1>2, <1>3, <1>5, <1>6
<1> QED
  BY <1>1, <1>4, <1>7, <1>8, <1>9 DEF Lane

\* A commit moves heads up.
LEMMA CommitStep ==
  ASSUME IInv, NEW C \in SUBSET Channel, commit(C)
  PROVE  IInv'
<1>1. /\ UNCHANGED <<lane, got, dropped>>
      /\ head' = [c \in Channel |-> IF c \in C THEN head[c] + 1 ELSE head[c]]
  BY DEF commit, Stream!Commit
<1>2. head \in Heads /\ lane \in Lane(head)
  BY DEF IInv, ShapeInv
<1>3. head' \in Heads /\ \A c \in Channel : head[c] <= head'[c]
  BY <1>1, <1>2 DEF Heads
<1>4. lane \in Lane(head')
  BY <1>2, <1>3, LaneGrown
<1>5. ShapeInv'
  BY <1>1, <1>3, <1>4 DEF IInv, ShapeInv
<1> QED
  BY <1>1, <1>5 DEF IInv

\* A fresh lane satisfies the invariant.
LEMMA Initial ==
  ASSUME Init
  PROVE  IInv
<1>1. PICK S \in SUBSET Channel :
        lane = [cursor |-> [c \in Channel |-> IF c \in S THEN 0 ELSE Unsubscribed],
                epochs |-> [c \in Channel |-> 0], generation |-> 0, issued |-> << >>,
                paused |-> FALSE, dirty |-> TRUE, in_flight |-> FALSE, backoff |-> FALSE,
                epoch |-> 0, session |-> None,
                host |-> None, timer |-> FALSE, stage |-> "ended", told |-> None,
                frames |-> << >>, overflowed |-> FALSE, draining |-> FALSE, http |-> None,
                calls |-> <<[type |-> "start"]>>, applied |-> << >>, dropped |-> FALSE]
  BY DEF Init
<1>2. head = [c \in Channel |-> 0] /\ got = [c \in Channel |-> {}] /\ ~ dropped
  BY DEF Init
<1> DEFINE cursor == [c \in Channel |-> IF c \in S THEN 0 ELSE Unsubscribed]
           epochs == [c \in Channel |-> 0]
           calls == <<[type |-> "start"]>>
<1>3. head \in Heads /\ got \in [Channel -> SUBSET Int] /\ epochs \in [Channel -> Nat]
  BY <1>2 DEF Heads
<1>4. cursor \in Cursors(head) /\ \A c \in Channel : cursor[c] \in {0, -1}
  BY <1>2 DEF Cursors, Unsubscribed
<1>5. None \in Positions(head)
  BY NoPositions
<1>6. calls \in Seq(Event(head)) /\ \A i \in DOMAIN calls : calls[i].type = "start"
  <2>1. [type |-> "start"] \in Event(head)
    BY DEF Event
  <2> QED
    BY <2>1
<1> HIDE DEF cursor, epochs, calls
<1>7. lane = [cursor |-> cursor, epochs |-> epochs, generation |-> 0, issued |-> << >>,
              paused |-> FALSE, dirty |-> TRUE, in_flight |-> FALSE, backoff |-> FALSE,
              epoch |-> 0, session |-> None,
              host |-> None, timer |-> FALSE, stage |-> "ended", told |-> None,
              frames |-> << >>, overflowed |-> FALSE, draining |-> FALSE, http |-> None,
              calls |-> calls, applied |-> << >>, dropped |-> FALSE]
  BY <1>1 DEF cursor, epochs, calls
<1>8. lane \in Lane(head) /\ lane.applied = << >> /\ ~ lane.dropped
  BY <1>3, <1>4, <1>5, <1>6, <1>7 DEF Lane
<1>9. /\ lane.host = None /\ lane.session = None /\ lane.http = None /\ lane.stage = "ended"
      /\ lane.frames = << >> /\ ~ lane.overflowed /\ lane.calls = calls /\ lane.cursor = cursor
  BY <1>7
<1>10. ShapeInv
  BY <1>3, <1>8 DEF ShapeInv
<1>11. ~ Streaming(lane)
  BY <1>9 DEF Streaming
<1>12. LinkInv(lane)
  BY <1>9, <1>11, ClientLiveAssumption DEF LinkInv
<1>13. CallsInv(lane) /\ LedgerInv(lane)
  BY <1>6, <1>9 DEF CallsInv, OfSession, LedgerInv, Upheld
<1>14. Covers(got, lane)
  <2>1. 1..0 = {} /\ 1..(-1) = {}
    OBVIOUS
  <2>2. \A c \in Channel : 1..lane.cursor[c] = {}
    BY <1>4, <1>9, <2>1
  <2> QED
    BY <2>2 DEF Covers
<1>15. \A E : Flow(lane, E) /\ Draining(lane, E)
  BY <1>9, <1>11, NothingOwed
<1> QED
  BY <1>10, <1>12, <1>13, <1>14, <1>15 DEF IInv

\* Every step keeps it.
LEMMA Kept ==
  ASSUME IInv, [Next]_vars
  PROVE  IInv'
<1>1. CASE run
  BY <1>1, RunStep
<1>2. CASE elapse
  BY <1>2, ElapseStep
<1>3. CASE timeout
  BY <1>3, CallStep DEF timeout
<1>4. CASE deliver
  BY <1>4, DeliverOverflow, DeliverFrame
<1>5. CASE respond
  BY <1>5, RespondStep
<1>6. CASE acknowledge
  BY <1>6, AcknowledgeStep
<1>7. CASE \E to \in Stream!Positions : stream(to)
  BY <1>7, StreamStep
<1>8. CASE lost
  BY <1>8, LostStep
<1>9. CASE \E c \in Channel, subscribed \in BOOLEAN : setChannel(c, subscribed)
  BY <1>9, SetChannelStep
<1>10. CASE pause
  BY <1>10, PauseStep
<1>11. CASE resume
  BY <1>11, CallStep DEF resume
<1>12. CASE \E C \in (SUBSET Channel) \ {{}} : commit(C)
  BY <1>12, CommitStep
<1>13. CASE UNCHANGED vars
  BY <1>13 DEF vars, IInv, ShapeInv
<1>14. CASE answer
  BY <1>14, AnswerStep
<1> QED
  BY <1>1, <1>2, <1>3, <1>4, <1>5, <1>6, <1>7, <1>8, <1>9, <1>10, <1>11, <1>12, <1>13, <1>14
     DEF Next, System, Serve

---------------------------------------------------------------------------
(* Theorems *)

\* Commands that ConnectionDriver, LiveSession and PullLedger handle, and what
\* the host, the network and the application do between them, keep the
\* invariant, for any channels, buffers, page sizes and disturbances.
THEOREM Inductive == Spec => []IInv
<1>1. Init => IInv
  BY Initial
<1>2. IInv /\ [Next]_vars => IInv'
  BY Kept
<1> QED
  BY <1>1, <1>2, PTL DEF Spec

\* A cursor stays within its head, the host streams for the engine's session
\* or has its end on the way, one request is in flight and one frame is being
\* handled, and the queues keep their bounds (startLiveLane, LiveSession).
THEOREM TypeCorrect == Spec => []TypeOK
<1>1. IInv => TypeOK
  <2> SUFFICES ASSUME IInv PROVE TypeOK
    OBVIOUS
  <2>1. lane \in Lane(head) /\ head \in Heads /\ LinkInv(lane) /\ CallsInv(lane)
        /\ Draining(lane, ToSet(lane.calls))
    BY DEF IInv, ShapeInv
  <2>2. \A c \in Channel : lane.cursor[c] \in -1..head[c]
    BY <2>1, LaneFields DEF Cursors, Heads, Unsubscribed
  <2>3. ASSUME lane.draining, Streaming(lane)
        PROVE  Cardinality({i \in DOMAIN lane.calls : /\ lane.calls[i].type \in {"message", "overflow"}
                                                      /\ lane.calls[i].epoch = lane.host.epoch}) = 1
    <3> DEFINE I == {i \in DOMAIN lane.calls : /\ lane.calls[i].type \in {"message", "overflow"}
                                               /\ lane.calls[i].epoch = lane.host.epoch}
    <3>1. lane.session # None /\ lane.host.epoch = lane.session.epoch
      BY <2>1, <2>3 DEF LinkInv
    <3>2. I = {i \in DOMAIN lane.calls : Framed(lane, lane.calls[i])}
      BY <3>1 DEF Framed
    <3>3. \E i \in DOMAIN lane.calls : Framed(lane, lane.calls[i])
      BY <2>1, <2>3 DEF Draining, ToSet
    <3>4. \A i, j \in DOMAIN lane.calls :
            Framed(lane, lane.calls[i]) /\ Framed(lane, lane.calls[j]) => i = j
      BY <2>1, <3>1 DEF CallsInv
    <3>5. \E i : I = {i}
      <4>1. PICK i \in DOMAIN lane.calls : Framed(lane, lane.calls[i])
        BY <3>3
      <4>2. I = {i}
        BY <3>2, <3>4, <4>1
      <4> QED BY <4>2
    <3> HIDE DEF I
    <3>6. Cardinality(I) = 1
      BY <3>5, FS_Singleton
    <3> QED
      BY <3>6 DEF I
  <2> QED
    BY <2>1, <2>2, <2>3 DEF TypeOK, LinkInv
<1> QED
  BY <1>1, Inductive, PTL

\* receive_downlink: a cursor covers only what was delivered, across pages
\* with gaps, covered and stale ones, overflows and changed subscriptions.
THEOREM CursorsCover == Spec => []CursorCoversDelivered
<1>1. IInv => CursorCoversDelivered
  BY DEF IInv, ShapeInv, Covers, CursorCoversDelivered, Delivered, ToSet
<1> QED
  BY <1>1, Inductive, PTL

\* LiveSession: a session that waits for its next frame holds everything the
\* server has sent it or told it of.
THEOREM NonePassedOver == Spec => []NothingPassedOver
<1>1. IInv => NothingPassedOver
  <2>1. SUFFICES ASSUME IInv, Waiting, ~ dropped, NEW c \in lane.session.channels
                 PROVE  lane.cursor[c] >= lane.told[c]
    BY DEF NothingPassedOver
  <2>2. Sound(head, lane) /\ Draining(lane, ToSet(lane.calls)) /\ ~ lane.dropped
        /\ Flow(lane, ToSet(lane.calls))
    BY <2>1 DEF IInv, ShapeInv, Sound
  <2>3. Told(lane) /\ lane.session.acknowledged
    BY <2>1, <2>2 DEF Waiting, Told, Upheld, Sound, LinkInv, Lane
  <2>4. lane.cursor[c] >= lane.told[c] \/ Ahead(lane, ToSet(lane.calls), c)
    BY <2>1, <2>2, <2>3 DEF Flow, CoverInv
  <2>5. lane.http = None /\ \A i \in DOMAIN lane.calls : ~ Answers(lane, lane.calls[i])
    BY <2>1, <2>2, Unasked DEF Waiting
  <2>6. \A e \in ToSet(lane.calls) : ~ Framed(lane, e) /\ ~ Answers(lane, e)
    BY <2>1, <2>2, <2>5 DEF Waiting, Draining, ToSet
  <2>7. ~ Ahead(lane, ToSet(lane.calls), c)
    BY <2>1, <2>5, <2>6 DEF Ahead, Coming, Unread, Waiting, InFrames, Framed
  <2> QED
    BY <2>4, <2>7
<1> QED
  BY <1>1, Inductive, PTL

===========================================================================
