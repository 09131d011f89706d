---------------------------- MODULE ClientLive ----------------------------
(***************************************************************************)
(* The live lane of one client: LiveSession, ConnectionDriver and          *)
(* PullLedger of crates/client/src, driven by startLiveLane                *)
(* (packages/client-js/connection.mts) over the sockets of live.mts.       *)
(*                                                                         *)
(* Every command waits its turn in `calls`: Client#exclusive runs one at a *)
(* time, first come first served.  Nothing else reads or writes the        *)
(* engine's state, so a command and the actions the host executes for it   *)
(* are one step; sockets, responses, the timer and the application act     *)
(* between the steps.  The server's end of the socket is a LiveStream.     *)
(***************************************************************************)
EXTENDS Integers, Sequences, FiniteSets, SequencesExt

CONSTANTS
  Channel,
  QUEUED_FRAMES,      \* pages the session holds
  BUFFERED_FRAMES,    \* frames the host holds
  PullChanges,        \* limits::PULL_CHANGES
  MaxHead, MaxEvents   \* bounds of the instance

ASSUME ClientLiveAssumption ==
  /\ {QUEUED_FRAMES, BUFFERED_FRAMES, PullChanges} \subseteq Nat \ {0}
  /\ {MaxHead, MaxEvents} \subseteq Nat

VARIABLES
  head,      \* the server's heads
  lane,      \* the client: engine, session, host loop, socket
  left,      \* disturbances the instance may still meet
  got,       \* positions delivered to the current subscription of a channel
  dropped    \* a frame with news was judged to answer an old request

vars == <<head, lane, left, got, dropped>>

None == << >>
Unsubscribed == -1

Subscribed(l) == {c \in Channel : l.cursor[c] # Unsubscribed}
Streaming(l) == l.host # None /\ ~ l.host.ended

Stream == INSTANCE LiveStream WITH stage <- lane.stage, told <- lane.told

---------------------------------------------------------------------------
(* The host loop: what it does at once *)

\* Queue a command; any command clears the timer.
Dispatch(l, event) == [l EXCEPT !.timer = FALSE, !.calls = Append(@, event)]

\* The socket is terminated and the request aborted.  (What it was told of is
\* forgotten: nobody looks at it again.)
abandon(l) ==
  IF l.host = None THEN l
  ELSE [l EXCEPT !.host.ended = TRUE, !.stage = "ended", !.told = None, !.http = None,
                 !.frames = << >>, !.overflowed = FALSE]

Open(l) ==
  [l EXCEPT !.host = [epoch |-> l.epoch, channels |-> l.session.channels, ended |-> FALSE],
            !.stage = "connecting", !.told = None, !.frames = << >>,
            !.overflowed = FALSE, !.draining = FALSE, !.http = None]

Close(l, epoch) ==
  IF l.host # None /\ l.host.epoch = epoch THEN [abandon(l) EXCEPT !.host = None] ELSE l

\* A request, and the heads its answer was read at once the server read it.
Sent(cursors) == [cursors |-> cursors, heads |-> None]

Request(l, cursors) ==
  IF Streaming(l) /\ l.host.epoch = l.session.epoch THEN [l EXCEPT !.http = Sent(cursors)] ELSE l

---------------------------------------------------------------------------
(* ConnectionDriver *)

complete(l, success) ==
  IF ~ l.in_flight THEN l
  ELSE [l EXCEPT !.in_flight = FALSE, !.backoff = ~ success, !.dirty = @ \/ ~ success]

---------------------------------------------------------------------------
(* PullLedger *)

Epochs(l, C) == [c \in C |-> l.epochs[c]]

\* A request is recorded with the cursors it names and the epochs they have.
issue(l, cursors) ==
  [l EXCEPT !.issued = Append(@, [cursors |-> cursors, epochs |-> Epochs(l, DOMAIN cursors)])]

From(page) == [c \in DOMAIN page |-> page[c].from]

\* Whether a page answers a request of an earlier subscription, and what is
\* left of the ledger: an answered request goes, requests that cannot be told
\* from a current one become current.
Judgement(l, page) ==
  LET alike == {i \in DOMAIN l.issued : l.issued[i].cursors = From(page)}
      current == {i \in alike : l.issued[i].epochs = Epochs(l, DOMAIN page)}
      first(I) == CHOOSE i \in I : \A j \in I : i <= j
      renewed == [i \in DOMAIN l.issued |->
                    IF i \in alike THEN [l.issued[i] EXCEPT !.epochs = Epochs(l, DOMAIN page)]
                    ELSE l.issued[i]] IN
  IF current # {} THEN [stale |-> FALSE, issued |-> RemoveAt(renewed, first(current))]
  ELSE IF alike # {} THEN [stale |-> TRUE, issued |-> RemoveAt(l.issued, first(alike))]
  ELSE [stale |-> FALSE, issued |-> l.issued]

---------------------------------------------------------------------------
(* Pages *)

News(l, page) == {c \in DOMAIN page \cap Subscribed(l) : page[c].to > l.cursor[c]}

\* Mutant: a page with a gap is applied.
gaps_none(l, page) == {}
gaps(l, page) == {c \in News(l, page) : page[c].from > l.cursor[c]}

\* Apply a page, leave it as covered, or ask to recover.
receive_downlink(l, page) ==
  LET verdict == Judgement(l, page)
      m == [l EXCEPT !.issued = verdict.issued]
      outcome(d, k) == [disposition |-> d, lane |-> k] IN
  IF verdict.stale
  THEN outcome(IF News(l, page) = {} THEN "covered" ELSE "stale", m)
  ELSE IF gaps(l, page) # {} THEN outcome("recover", m)
  ELSE IF News(l, page) = {} THEN outcome("covered", m)
  ELSE outcome("applied",
               [m EXCEPT !.cursor = [c \in Channel |-> IF c \in News(l, page) THEN page[c].to ELSE @[c]],
                         !.applied = Append(@, page)])

---------------------------------------------------------------------------
(* LiveSession *)

\* Mutant: the session ends and its socket stays open.
end_open(l) == [l EXCEPT !.session = None]

end(l) == IF l.session = None THEN l
          ELSE [Close(l, l.session.epoch) EXCEPT !.session = None]

fail(l) == complete(end(l), FALSE)

\* Mutant: a pull called for while one is in flight is left to that one.
Again_none(l) == l
Again(l) == [l EXCEPT !.session.again = TRUE]

\* One pull for every subscribed channel; one at a time.
pull(l) ==
  LET cursors == [c \in Subscribed(l) |-> l.cursor[c]] IN
  IF l.session.active # None THEN Again(l)
  ELSE IF cursors = None THEN l
  ELSE Request([issue(l, cursors) EXCEPT !.session.active = cursors], cursors)

\* Frames from the front while no pull is in flight; one with a gap stays.
drain_front(l, page) ==
  IF l.session.active # None THEN l
  ELSE LET progress == receive_downlink(l, page) IN
       IF progress.disposition = "recover" THEN pull(progress.lane)
       ELSE [progress.lane EXCEPT !.session.queue = Tail(@),
                                  !.dropped = @ \/ progress.disposition = "stale"]
drain(l) ==
  LET queue == l.session.queue
      drained[n \in 0..Len(queue)] ==
        IF n = 0 THEN l ELSE drain_front(drained[n - 1], queue[n]) IN
  drained[Len(queue)]

\* The queue is discarded and every channel recovers.
overflow(l) ==
  IF ~ l.session.acknowledged THEN l
  ELSE pull([l EXCEPT !.session.queue = << >>])

Behind(l, heads) == \E c \in DOMAIN heads : heads[c] > l.cursor[c]

acknowledged(l, heads) ==
  LET m == [l EXCEPT !.session.acknowledged = TRUE] IN
  IF Behind(l, heads) THEN pull(m) ELSE m

\* A page before the acknowledgement, which an overflow may have lost, ends
\* the session.
page_arrived(l, page) ==
  IF ~ l.session.acknowledged THEN fail(l)
  ELSE IF Len(l.session.queue) >= QUEUED_FRAMES THEN overflow(l)
  ELSE drain([l EXCEPT !.session.queue = Append(@, page)])

message(l, frame) ==
  IF frame.type = "subscribed" THEN acknowledged(l, frame.heads) ELSE page_arrived(l, frame.page)

\* The round goes on while a channel continues or frames were lost meanwhile.
catch_up(l, page) ==
  LET m == receive_downlink([l EXCEPT !.session.active = None], page).lane IN
  IF \E c \in DOMAIN page : page[c].to < page[c].head THEN pull(m)
  ELSE IF m.session.again THEN pull([m EXCEPT !.session.again = FALSE])
  ELSE drain(m)

begin(l) ==
  IF Subscribed(l) = {} THEN complete(l, TRUE)
  ELSE LET m == [l EXCEPT !.epoch = @ + 1] IN
       Open([m EXCEPT !.session = [epoch |-> m.epoch, generation |-> m.generation,
                                   channels |-> Subscribed(m), acknowledged |-> FALSE,
                                   active |-> None, again |-> FALSE, queue |-> << >>]])

\* ConnectionDriver::next.
next(l) ==
  IF l.paused \/ l.in_flight \/ ~ l.dirty THEN l
  ELSE IF l.backoff THEN [l EXCEPT !.timer = TRUE]
  ELSE begin([l EXCEPT !.dirty = FALSE, !.in_flight = TRUE])

\* A changed subscription ends the session before anything else.
Renewed(l) ==
  IF l.session # None /\ l.session.generation # l.generation
  THEN [complete(end(l), TRUE) EXCEPT !.dirty = TRUE] ELSE l

Current(l, event) == l.session # None /\ l.session.epoch = event.epoch

Applied(l, event) ==
  CASE event.type = "start" -> [l EXCEPT !.dirty = TRUE]
    [] event.type = "wake" -> [l EXCEPT !.dirty = TRUE]
    [] event.type = "pause" ->
         [(IF l.session # None THEN complete(end(l), TRUE) ELSE l) EXCEPT !.paused = TRUE]
    [] event.type = "resume" -> [l EXCEPT !.paused = FALSE, !.dirty = TRUE, !.backoff = FALSE]
    [] event.type = "message" -> IF Current(l, event) THEN message(l, event.frame) ELSE l
    [] event.type = "catchUp" -> IF Current(l, event) THEN catch_up(l, event.page) ELSE l
    [] event.type = "overflow" -> IF Current(l, event) THEN overflow(l) ELSE l
    [] event.type = "closed" -> IF Current(l, event) THEN fail(l) ELSE l
    [] OTHER -> l

handle(l, event) ==
  LET m == Applied(Renewed(l), event) IN IF m.session = None THEN next(m) ELSE m

---------------------------------------------------------------------------
(* Commands *)

\* A committed subscribe or unsubscribe; the lane is woken either way.
set_channel(l, c, subscribed) ==
  LET changed == (c \in Subscribed(l)) # subscribed IN
  Dispatch(IF ~ changed THEN l
           ELSE [l EXCEPT !.cursor[c] = IF subscribed THEN 0 ELSE Unsubscribed,
                          !.epochs[c] = @ + 1, !.generation = @ + 1],
           [type |-> "wake"])

\* After a wake: a session the host abandoned that the engine still holds is
\* reported closed.
Reported(l) ==
  IF l.host # None /\ l.host.ended
  THEN Dispatch([l EXCEPT !.host = None], [type |-> "closed", epoch |-> l.host.epoch]) ELSE l

\* The socket's buffer goes on once its frame was handled.
Resumed(l, event) ==
  IF event.type \in {"message", "overflow"} /\ l.host # None /\ l.host.epoch = event.epoch
  THEN [l EXCEPT !.draining = FALSE] ELSE l

command(l, event) ==
  CASE event.type = "channel" -> set_channel(l, event.channel, event.subscribed)
    [] event.type = "wake" -> Reported(handle(l, event))
    [] OTHER -> Resumed(handle(l, event), event)

\* What the pages applied by this command delivered to each channel.
Delivered(l, c) == UNION {page[c].from + 1 .. page[c].to : page \in {p \in ToSet(l.applied) : c \in DOMAIN p}}

run ==
  /\ lane.calls # << >>
  /\ LET l == command([lane EXCEPT !.calls = Tail(@)], Head(lane.calls)) IN
       /\ lane' = [l EXCEPT !.applied = << >>, !.dropped = FALSE]
       /\ dropped' = (dropped \/ l.dropped)
       /\ got' = [c \in Channel |->
                    IF l.epochs[c] # lane.epochs[c] THEN {} ELSE got[c] \cup Delivered(l, c)]
  /\ UNCHANGED <<head, left>>

---------------------------------------------------------------------------
(* The application *)

Spend == left > 0 /\ left' = left - 1

\* subscribe and unsubscribe abandon the session at once and queue the change.
setChannel(c, subscribed) ==
  /\ Spend
  /\ lane' = [abandon(lane) EXCEPT !.calls =
                Append(@, [type |-> "channel", channel |-> c, subscribed |-> subscribed])]
  /\ UNCHANGED <<head, got, dropped>>

pause ==
  /\ Spend
  /\ lane' = Dispatch(abandon(lane), [type |-> "pause"])
  /\ UNCHANGED <<head, got, dropped>>

resume ==
  /\ lane.paused
  /\ [type |-> "resume"] \notin ToSet(lane.calls)
  /\ lane' = Dispatch(lane, [type |-> "resume"])
  /\ UNCHANGED <<head, left, got, dropped>>

---------------------------------------------------------------------------
(* The clock, the network and the server *)

\* The retry is due.
elapse ==
  /\ lane.backoff
  /\ lane' = [lane EXCEPT !.backoff = FALSE]
  /\ UNCHANGED <<head, left, got, dropped>>

timeout ==
  /\ lane.timer /\ ~ lane.backoff
  /\ lane' = Dispatch(lane, [type |-> "next"])
  /\ UNCHANGED <<head, left, got, dropped>>

\* The socket closes or the request fails: the host ends the session.
lost ==
  /\ Streaming(lane) /\ Spend
  /\ lane' = Dispatch([abandon(lane) EXCEPT !.host = None],
                      [type |-> "closed", epoch |-> lane.host.epoch])
  /\ UNCHANGED <<head, got, dropped>>

\* The server reads the answer to the request in one snapshot.  What it commits
\* and streams from here on may reach the client, or be lost, before the answer.
answer ==
  /\ lane.http # None /\ lane.http.heads = None
  /\ lane' = [lane EXCEPT !.http.heads = [c \in DOMAIN lane.http.cursors |-> head[c]]]
  /\ UNCHANGED <<head, left, got, dropped>>

\* A page goes to the head in the snapshot, or stops short of it.
Ends(from, top) == {top} \cup {n \in from + PullChanges .. top : TRUE}

\* The response arrives.
respond ==
  LET cursors == lane.http.cursors
      heads == lane.http.heads IN
  /\ lane.http # None /\ heads # None
  /\ \E to \in [DOMAIN cursors -> 0..MaxHead] :
       /\ \A c \in DOMAIN cursors : to[c] \in Ends(cursors[c], heads[c])
       /\ lane' = Dispatch([lane EXCEPT !.http = None],
            [type |-> "catchUp", epoch |-> lane.host.epoch,
             page |-> [c \in DOMAIN cursors |->
                         [from |-> cursors[c], to |-> to[c], head |-> heads[c]]]])
  /\ UNCHANGED <<head, left, got, dropped>>

\* A frame enters the host's buffer; a full one is dropped first.
Buffered(l, frame) ==
  IF Len(l.frames) = BUFFERED_FRAMES
  THEN [l EXCEPT !.frames = <<frame>>, !.overflowed = TRUE]
  ELSE [l EXCEPT !.frames = Append(@, frame)]

\* The server acknowledges the subscription with its heads (as of the frame:
\* nothing is sent before it, so the time it takes is the buffer's) ...
acknowledge ==
  LET heads == [c \in lane.host.channels |-> head[c]] IN
  /\ Streaming(lane)
  /\ lane' = Buffered([lane EXCEPT !.stage = "open", !.told = heads],
                      [type |-> "subscribed", heads |-> heads])
  /\ Stream!Acknowledge(heads)
  /\ UNCHANGED <<left, got, dropped>>

\* ... and streams pages from there.
stream(to) ==
  /\ lane.stage = "open" /\ DOMAIN to \subseteq DOMAIN lane.told
  /\ lane' = Buffered([lane EXCEPT !.told = [c \in DOMAIN @ |-> IF c \in DOMAIN to THEN to[c] ELSE @[c]]],
                      [type |-> "page",
                       page |-> [c \in DOMAIN to |-> [from |-> lane.told[c], to |-> to[c]]]])
  /\ Stream!Page(to)
  /\ UNCHANGED <<left, got, dropped>>

\* The buffer hands over one frame at a time.
deliver ==
  /\ Streaming(lane) /\ ~ lane.draining
  /\ \/ /\ lane.overflowed
        /\ lane' = Dispatch([lane EXCEPT !.draining = TRUE, !.overflowed = FALSE],
                            [type |-> "overflow", epoch |-> lane.host.epoch])
     \/ /\ ~ lane.overflowed /\ lane.frames # << >>
        /\ lane' = Dispatch([lane EXCEPT !.draining = TRUE, !.frames = Tail(@)],
                            [type |-> "message", epoch |-> lane.host.epoch, frame |-> Head(lane.frames)])
  /\ UNCHANGED <<head, left, got, dropped>>

commit(C) == UNCHANGED <<lane, left, got, dropped>> /\ Stream!Commit(C)

---------------------------------------------------------------------------
\* A client opened with some subscriptions starts its lane.
Init ==
  /\ head = [c \in Channel |-> 0]
  /\ \E S \in SUBSET Channel :
       lane = [cursor |-> [c \in Channel |-> IF c \in S THEN 0 ELSE Unsubscribed],
               epochs |-> [c \in Channel |-> 0], generation |-> 0, issued |-> << >>,
               paused |-> FALSE, dirty |-> TRUE, in_flight |-> FALSE, backoff |-> FALSE,
               epoch |-> 0, session |-> None,
               host |-> None, timer |-> FALSE, stage |-> "ended", told |-> None,
               frames |-> << >>, overflowed |-> FALSE, draining |-> FALSE, http |-> None,
               calls |-> <<[type |-> "start"]>>, applied |-> << >>, dropped |-> FALSE]
  /\ left = MaxEvents
  /\ got = [c \in Channel |-> {}]
  /\ dropped = FALSE

Serve == acknowledge \/ \E to \in Stream!Positions : stream(to)

\* Commands and timers run, and the network and the server answer.
System == run \/ elapse \/ timeout \/ deliver \/ answer \/ respond \/ Serve

Next ==
  \/ System \/ lost
  \/ \E c \in Channel, subscribed \in BOOLEAN : setChannel(c, subscribed)
  \/ pause \/ resume
  \/ \E C \in (SUBSET Channel) \ {{}} : commit(C)

Spec == Init /\ [][Next]_vars

\* Nothing of the system is left to do: no step of System is enabled.
Quiet ==
  /\ lane.calls = << >> /\ ~ lane.backoff /\ ~ lane.timer /\ lane.http = None
  /\ Streaming(lane) =>
       /\ lane.stage = "open" /\ \A c \in DOMAIN lane.told : lane.told[c] = head[c]
       /\ lane.draining \/ (~ lane.overflowed /\ lane.frames = << >>)

\* Weak fairness of System, its enabledness spelled out: it does not stop while
\* something is left to do.  That is all the lane needs, since between two
\* steps of its environment it can only take finitely many.
FairSpec == Spec /\ ([]<>Quiet \/ []<><<System>>_vars)

---------------------------------------------------------------------------
(* Properties *)

\* Cursors stay within the heads; the host streams for the engine's session
\* unless a close is on its way; one request and one frame are in flight.
TypeOK ==
  /\ \A c \in Channel : lane.cursor[c] \in -1..head[c]
  /\ lane.session # None => lane.in_flight /\ lane.session.epoch = lane.epoch
  /\ Streaming(lane) => lane.session # None /\ lane.host.epoch = lane.session.epoch
  /\ lane.http # None => lane.session.active = lane.http.cursors
  /\ Len(lane.frames) <= BUFFERED_FRAMES
  /\ lane.session # None => Len(lane.session.queue) <= QUEUED_FRAMES
  /\ lane.draining /\ Streaming(lane) =>
       Cardinality({i \in DOMAIN lane.calls : /\ lane.calls[i].type \in {"message", "overflow"}
                                              /\ lane.calls[i].epoch = lane.host.epoch}) = 1

\* A cursor covers only what was delivered: every position up to it came in a
\* page that was applied since the channel was subscribed.
CursorCoversDelivered ==
  \A c \in Channel : 1..lane.cursor[c] \subseteq got[c]

\* Nothing is passed over: a session that waits for its next frame, with no
\* pull in flight and nothing buffered, holds everything the server has sent
\* it or told it of.  (Unless a frame was dropped as the answer to an old
\* request.)
Waiting ==
  /\ lane.session # None /\ lane.session.acknowledged /\ lane.session.generation = lane.generation
  /\ lane.session.active = None /\ lane.session.queue = << >>
  /\ Streaming(lane) /\ ~ lane.draining /\ ~ lane.overflowed /\ lane.frames = << >>
NothingPassedOver ==
  Waiting /\ ~ dropped => \A c \in lane.session.channels : lane.cursor[c] >= lane.told[c]

\* The client catches up: whatever was committed on a subscribed channel has
\* reached it again and again, through lost connections, changed subscriptions,
\* overflows and pauses, unless it stays paused.  (The instance's heads are
\* bounded, so the commits end and the client is level for good.)
CaughtUp ==
  \A c \in Channel :
    []<>(c \in Subscribed(lane) => lane.cursor[c] = head[c] \/ lane.paused \/ dropped)

\* "A page this client never requested is not judged here" (PullLedger::stale):
\* no streamed frame is taken for the answer to a request.
FramesNotJudged == ~ dropped

===========================================================================
