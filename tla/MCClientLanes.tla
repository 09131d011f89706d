--------------------------- MODULE MCClientLanes ---------------------------
(* The two lanes of a client's host in one run: an application that only   *)
(* reads, and one that only writes.  The lanes have nothing in common but  *)
(* the queue of commands, which serves the calls of each in their order.   *)
EXTENDS ClientLive

CONSTANTS MaxConnections, MaxMutations, MaxControls, MaxFaults

VARIABLES reads, driver, queue, calls, conn, sync, listening, uses

Push == INSTANCE PushLane WITH left <- uses

ASSUME PushAssumption == Push!Parameters

pushVars == <<driver, queue, calls, conn, sync, listening, uses>>
all == <<vars, reads, pushVars>>

\* Whoever only writes subscribes to nothing.
MCInit ==
  /\ reads \in BOOLEAN
  /\ Init /\ (~ reads => Subscribed(lane) = {})
  /\ Push!Init

MCNext ==
  /\ UNCHANGED reads
  /\ \/ reads /\ Next /\ UNCHANGED pushVars
     \/ ~ reads /\ Push!Next /\ UNCHANGED vars

MCFairSpec ==
  /\ MCInit /\ [][MCNext]_all
  /\ []<>(reads => Quiet) \/ []<><<System>>_vars
  /\ Push!Fairness

---------------------------------------------------------------------------
(* The properties of PushLane.                                              *)

\* pause: once it has returned, the connection has no request at the network, and
\* starts none before it is resumed.
PausedIsQuiet == Push!PausedIsQuiet

\* startConnection, ConnectionDriver: every mutation is sent and answered while a
\* connection is open and not paused.
Pushed == Push!Pushed
===========================================================================
