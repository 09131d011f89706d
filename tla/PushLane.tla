------------------------------ MODULE PushLane ------------------------------
(***************************************************************************)
(* The push lane of one client: ConnectionDriver and SyncCycle             *)
(* (crates/client/src), driven by startConnection of                       *)
(* packages/client-js/connection.mts and Client#runSync of runtime.mts.    *)
(* It provides what Push takes for granted: a mutation queued by the       *)
(* application is sent, and sent again until it is answered.               *)
(*                                                                         *)
(* Every command waits its turn in `calls`: Client#exclusive runs one at a *)
(* time, first come first served, and its caller goes on at once.  The     *)
(* answer to `next` alone may be used later, because startConnection takes *)
(* any `control`: "wake arriving during idle decision cannot be lost".     *)
(* An application may close its connection and open another.               *)
(***************************************************************************)
EXTENDS Integers, Sequences, FiniteSets

CONSTANTS MaxConnections, MaxMutations, MaxControls, MaxFaults   \* bounds of the instance

Parameters == {MaxConnections, MaxMutations, MaxControls, MaxFaults} \subseteq Nat

VARIABLES
  driver,      \* ConnectionDriver
  queue,       \* mutations in the batch in flight, and mutations not yet in one
  calls,       \* commands waiting for the client
  conn,        \* each connection ever opened: its host loop and its flags
  sync,        \* the cycle under way: Client##syncing
  listening,   \* the connection told of new work; 0 is none
  left         \* what the application and the network may still do

vars == <<driver, queue, calls, conn, sync, listening, left>>

Conn == 1..MaxConnections
NoSync == [at |-> "none", of |-> 0]
Unborn == [at |-> "unborn", stirred |-> FALSE, reply |-> "idle", outcome |-> "none",
           stopped |-> FALSE, paused |-> FALSE, aborted |-> FALSE, pausing |-> "no", quiet |-> FALSE,
           closed |-> FALSE]
Stopped == [running |-> FALSE, paused |-> FALSE, dirty |-> FALSE, in_flight |-> FALSE, late |-> FALSE]

Call(op, c) == <<[op |-> op, of |-> c]>>

---------------------------------------------------------------------------
(* ConnectionDriver.  `late` is a due time in the future.                   *)

complete(d, success) ==
  IF d.running /\ d.in_flight
    THEN [d EXCEPT !.in_flight = FALSE, !.late = ~ success, !.dirty = @ \/ ~ success] ELSE d

Eligible(d) == d.running /\ ~ d.paused /\ ~ d.in_flight /\ d.dirty
next(d) ==
  CASE ~ Eligible(d) -> "idle" [] Eligible(d) /\ d.late -> "wait" [] OTHER -> "sync"
Taken(d) == IF next(d) = "sync" THEN [d EXCEPT !.dirty = FALSE, !.in_flight = TRUE] ELSE d

---------------------------------------------------------------------------
(* The host loop.                                                           *)

\* The loop returns, and what it knew is of no use.
Over(k) == [k EXCEPT !.at = "over", !.stirred = FALSE, !.reply = "idle", !.outcome = "none"]

\* Where the loop goes at its top, from the flags k of its connection.
Top(k) == IF k.stopped THEN Over(k) ELSE [k EXCEPT !.at = "asking", !.stirred = FALSE]
Asks(k, c) == IF k.stopped THEN << >> ELSE Call("next", c)

\* The epoch is raised, and a loop that waits is awakened.
Stirred(k) == IF k.at = "waiting" THEN Top(k) ELSE [k EXCEPT !.stirred = TRUE]
Wakes(k, c) == IF k.at = "waiting" THEN Asks(k, c) ELSE << >>

\* The cycle under way ends, for every loop that awaits it.
Ended(all, outcome) ==
  [c \in Conn |-> IF all[c].at = "syncing" THEN [all[c] EXCEPT !.at = "synced", !.outcome = outcome]
                                           ELSE all[c]]

\* Mutant: the epoch is not looked at again before sleeping.
Sleeps_at_once(k) == TRUE
Sleeps(k) == ~ k.stirred

\* The loop acts on the answer to `next`; a cycle already under way is shared.
decide(c) ==
  LET k == conn[c] IN
    /\ k.at = "told"
    /\ \/ /\ k.stopped
          /\ conn' = [conn EXCEPT ![c] = Over(conn[c])] /\ UNCHANGED <<calls, sync>>
       \/ /\ ~ k.stopped /\ k.reply = "sync"
          /\ conn' = [conn EXCEPT ![c].at = "syncing", ![c].aborted = FALSE]
          /\ IF sync = NoSync
               THEN sync' = [at |-> "starting", of |-> c] /\ calls' = calls \o Call("startSync", c)
               ELSE UNCHANGED <<sync, calls>>
       \/ /\ ~ k.stopped /\ k.reply # "sync"
          /\ IF Sleeps(k)
               THEN conn' = [conn EXCEPT ![c].at = "waiting"] /\ UNCHANGED calls
               ELSE conn' = [conn EXCEPT ![c] = Top(k)] /\ calls' = calls \o Asks(k, c)
          /\ UNCHANGED sync
    /\ UNCHANGED <<driver, queue, listening, left>>

Report(c, success) ==
  /\ conn' = [conn EXCEPT ![c].at = "reporting", ![c].outcome = "none"]
  /\ calls' = calls \o Call(IF success THEN "success" ELSE "failure", c)

\* The loop reports how the cycle ended; an expired credential is refreshed
\* first, and a failure while paused is none.
settle(c) ==
  LET k == conn[c] IN
    /\ k.at = "synced"
    /\ \/ k.stopped /\ conn' = [conn EXCEPT ![c] = Over(conn[c])] /\ UNCHANGED calls
       \/ ~ k.stopped /\ (k.outcome = "done" \/ k.paused) /\ Report(c, TRUE)
       \/ ~ k.stopped /\ k.outcome # "done" /\ ~ k.paused /\ Report(c, FALSE)
       \/ /\ ~ k.stopped /\ k.outcome = "failed" /\ ~ k.paused
          /\ conn' = [conn EXCEPT ![c].at = "refreshing", ![c].outcome = "none"] /\ UNCHANGED calls
    /\ UNCHANGED <<driver, queue, sync, listening, left>>

refreshAuth(c) ==
  /\ conn[c].at = "refreshing"
  /\ IF conn[c].stopped
       THEN conn' = [conn EXCEPT ![c] = Over(conn[c])] /\ UNCHANGED calls ELSE Report(c, FALSE)
  /\ UNCHANGED <<driver, queue, sync, listening, left>>

\* The retry is due, and the timer set for it fires.
due ==
  /\ driver.late /\ driver' = [driver EXCEPT !.late = FALSE]
  /\ UNCHANGED <<queue, calls, conn, sync, listening, left>>
timer(c) ==
  /\ conn[c].at = "waiting" /\ conn[c].reply = "wait" /\ ~ driver.late
  /\ conn' = [conn EXCEPT ![c] = Top(conn[c])] /\ calls' = calls \o Asks(conn[c], c)
  /\ UNCHANGED <<driver, queue, sync, listening, left>>

---------------------------------------------------------------------------
(* Commands.                                                                *)

Unsent == queue.batch + queue.rest

\* A request is refused by a connection that is paused, closed or aborted.
\* Mutant: the abort alone stops a request.
Refuses_aborted(k) == k.aborted
Refuses(k) == k.stopped \/ k.paused \/ k.aborted

\* SyncCycle::next: the batch in flight again, or a new one.
Request(c) ==
  \/ /\ Unsent = 0
     /\ sync' = NoSync /\ conn' = Ended(conn, "done") /\ UNCHANGED queue
  \/ /\ Unsent > 0
     /\ queue' = IF queue.batch > 0 THEN queue ELSE [batch |-> queue.rest, rest |-> 0]
     /\ IF Refuses(conn[c])
          THEN sync' = NoSync /\ conn' = Ended(conn, "aborted")
          ELSE sync' = [sync EXCEPT !.at = "sent"] /\ UNCHANGED conn

\* What the driver makes of a control, and the caller of its return.
Control(op, c) ==
  LET k == conn[c] IN
    CASE op = "start" ->
           /\ driver' = [Stopped EXCEPT !.running = TRUE, !.dirty = TRUE]
           /\ conn' = [conn EXCEPT ![c] = Top(k)]
           /\ calls' = Tail(calls) \o Asks(k, c) \o Call("live", c)
           /\ UNCHANGED listening
      [] op = "next" ->
           /\ driver' = Taken(driver)
           /\ conn' = [conn EXCEPT ![c].at = "told", ![c].reply = next(driver)]
           /\ calls' = Tail(calls) /\ UNCHANGED listening
      [] op \in {"success", "failure"} ->
           /\ driver' = complete(driver, op = "success")
           /\ conn' = [conn EXCEPT ![c] = Top(k)]
           /\ calls' = Tail(calls) \o Asks(k, c) /\ UNCHANGED listening
      [] op = "pause" ->
           /\ driver' = [driver EXCEPT !.paused = TRUE]
           /\ conn' = [conn EXCEPT ![c].pausing = "settling"]
           /\ calls' = Tail(calls) /\ UNCHANGED listening
      [] op \in {"wake", "resume"} ->
           /\ driver' = IF op = "wake" THEN [driver EXCEPT !.dirty = TRUE]
                        ELSE [driver EXCEPT !.paused = FALSE, !.dirty = TRUE, !.late = FALSE]
           /\ conn' = [conn EXCEPT ![c] = Stirred(k)]
           /\ calls' = Tail(calls) \o Wakes(k, c) /\ UNCHANGED listening
      [] op = "stop" ->
           /\ driver' = Stopped /\ conn' = [conn EXCEPT ![c].closed = TRUE]
           /\ calls' = Tail(calls) /\ UNCHANGED listening
      [] op = "live" ->      \* the other lane has started: connect returns
           /\ listening' = c /\ calls' = Tail(calls) /\ UNCHANGED <<driver, conn>>

Cycle(op, c) ==
  CASE op = "startSync" -> /\ calls' = Tail(calls) \o Call("request", c)
                           /\ UNCHANGED <<queue, conn, sync>>
    [] op = "request" -> Request(c) /\ calls' = Tail(calls)
    [] op = "complete" -> /\ queue' = [queue EXCEPT !.batch = 0]
                          /\ sync' = [sync EXCEPT !.at = "starting"]
                          /\ calls' = Tail(calls) \o Call("request", c)
                          /\ UNCHANGED conn

run ==
  /\ calls # << >>
  /\ LET op == Head(calls).op
         c == Head(calls).of
     IN \/ /\ op \in {"start", "next", "success", "failure", "pause", "wake", "resume", "stop", "live"}
           /\ Control(op, c) /\ UNCHANGED <<queue, sync>>
        \/ /\ op \in {"startSync", "request", "complete"}
           /\ Cycle(op, c) /\ UNCHANGED <<driver, listening>>
        \/ \* a transaction commits a mutation, and says so
           /\ op = "mutate"
           /\ queue' = [queue EXCEPT !.rest = @ + 1]
           /\ calls' = Tail(calls) \o (IF listening = 0 THEN << >> ELSE Call("wake", listening))
           /\ UNCHANGED <<driver, conn, sync, listening>>
  /\ UNCHANGED left

---------------------------------------------------------------------------
(* The network and the application.                                         *)

answer ==
  /\ sync.at = "sent"
  /\ sync' = [sync EXCEPT !.at = "completing"] /\ calls' = calls \o Call("complete", sync.of)
  /\ UNCHANGED <<driver, queue, conn, listening, left>>

lose ==
  /\ sync.at = "sent" /\ left.faults > 0
  /\ left' = [left EXCEPT !.faults = @ - 1]
  /\ sync' = NoSync /\ conn' = Ended(conn, "failed")
  /\ UNCHANGED <<driver, queue, calls, listening>>

connect(c) ==
  /\ conn[c] = Unborn /\ \A b \in 1..(c - 1) : conn[b].closed
  /\ conn' = [conn EXCEPT ![c].at = "starting"] /\ calls' = calls \o Call("start", c)
  /\ UNCHANGED <<driver, queue, sync, listening, left>>

mutate ==
  /\ left.mutations > 0 /\ left' = [left EXCEPT !.mutations = @ - 1]
  /\ calls' = calls \o Call("mutate", 0)
  /\ UNCHANGED <<driver, queue, conn, sync, listening>>

\* The flags k of a connection, with its request aborted.
Aborts(c, k) ==
  IF sync = [at |-> "sent", of |-> c]
    THEN sync' = NoSync /\ conn' = Ended([conn EXCEPT ![c] = k], "aborted")
    ELSE conn' = [conn EXCEPT ![c] = k] /\ UNCHANGED sync

Controls(c, op) ==
  /\ listening = c /\ left.controls > 0 /\ left' = [left EXCEPT !.controls = @ - 1]
  /\ calls' = calls \o Call(op, c)

\* pause() returns once the cycle it aborted has ended and been reported.
pause(c) ==
  /\ Controls(c, "pause") /\ conn[c].pausing = "no"
  /\ Aborts(c, [conn[c] EXCEPT !.paused = TRUE, !.aborted = TRUE, !.pausing = "asked"])
  /\ UNCHANGED <<driver, queue, listening>>
paused(c) ==
  LET k == conn[c] IN
    /\ k.pausing = "settling" /\ k.at \notin {"syncing", "synced"}
    /\ conn' = [conn EXCEPT ![c] = [Stirred(k) EXCEPT !.pausing = "no", !.quiet = k.paused]]
    /\ calls' = calls \o Wakes(k, c)
    /\ UNCHANGED <<driver, queue, sync, listening, left>>

resume(c) ==
  /\ Controls(c, "resume")
  /\ conn' = [conn EXCEPT ![c].paused = FALSE, ![c].quiet = FALSE]
  /\ UNCHANGED <<driver, queue, sync, listening>>

wake(c) ==
  /\ Controls(c, "wake") /\ UNCHANGED <<driver, queue, conn, sync, listening>>

\* The connection no longer hears of work; its loop is awakened to end.  The
\* last connection of the instance stays open.
close(c) ==
  /\ listening = c /\ ~ conn[c].stopped /\ c < MaxConnections
  /\ listening' = 0 /\ calls' = calls \o Call("stop", c)
  /\ Aborts(c, Stirred([conn[c] EXCEPT !.stopped = TRUE, !.aborted = TRUE]))
  /\ UNCHANGED <<driver, queue, left>>

---------------------------------------------------------------------------

Init ==
  /\ driver = Stopped /\ calls = << >> /\ sync = NoSync /\ listening = 0
  /\ queue = [batch |-> 0, rest |-> 0]
  /\ conn = [c \in Conn |-> Unborn]
  /\ left = [mutations |-> MaxMutations, controls |-> MaxControls, faults |-> MaxFaults]

Host(c) == decide(c) \/ settle(c) \/ refreshAuth(c) \/ timer(c) \/ paused(c)
Next ==
  \/ run \/ due \/ answer \/ lose \/ mutate
  \/ \E c \in Conn : Host(c) \/ connect(c) \/ pause(c) \/ resume(c) \/ wake(c) \/ close(c)

Spec == Init /\ [][Next]_vars

\* Commands run, callbacks are called, time passes, and a request that is not
\* lost is answered.
Fairness ==
  WF_vars(run) /\ WF_vars(due) /\ WF_vars(answer) /\ \A c \in Conn : WF_vars(Host(c))
FairSpec == Spec /\ Fairness

---------------------------------------------------------------------------
(* Properties.                                                              *)

\* pause: when it has returned, the connection has no request at the network,
\* and starts none before it is resumed, whatever was decided before.
PausedIsQuiet == \A c \in Conn : conn[c].quiet => sync # [at |-> "sent", of |-> c]

\* startConnection, ConnectionDriver: as long as a connection is open and not
\* paused, every mutation is sent and answered, in whatever order wakes, pauses,
\* failures and retries meet, and one committed while connecting, which nobody is
\* told of, included.
InUse(c) == listening = c /\ ~ conn[c].stopped /\ ~ conn[c].paused
Pushed == []<>(Unsent = 0 \/ ~ \E c \in Conn : InUse(c))
===========================================================================
