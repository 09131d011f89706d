---------------------------- MODULE LiveStream ----------------------------
(***************************************************************************)
(* What a live socket promises its client, without wakes, pulls or event   *)
(* queues: one acknowledgement with a head of every channel, then pages    *)
(* that follow on from it without a gap, until the socket ends             *)
(* (docs/engineering/architecture/server/connection/controller.md).        *)
(***************************************************************************)
EXTENDS Naturals

CONSTANTS Channel, MaxHead

VARIABLES
  head,      \* the head of every channel, moved by commits
  stage,     \* the socket: "connecting", "open" or "ended"
  told       \* per subscribed channel, where the frames sent have taken the client

vars == <<head, stage, told>>

Nowhere == << >>

Init ==
  /\ head = [c \in Channel |-> 0]
  /\ stage = "connecting"
  /\ told = Nowhere

Commit(C) ==
  /\ \A c \in C : head[c] < MaxHead
  /\ head' = [c \in Channel |-> IF c \in C THEN head[c] + 1 ELSE head[c]]
  /\ UNCHANGED <<stage, told>>

\* The heads of the subscribed channels in some snapshot.
Acknowledge(heads) ==
  /\ stage = "connecting"
  /\ stage' = "open"
  /\ \A c \in DOMAIN heads : heads[c] <= head[c]
  /\ told' = heads
  /\ UNCHANGED head

\* A page of some channels moves at least one of them, and none beyond its head.
Page(to) ==
  /\ stage = "open"
  /\ DOMAIN to \subseteq DOMAIN told
  /\ \A c \in DOMAIN to : told[c] <= to[c] /\ to[c] <= head[c]
  /\ \E c \in DOMAIN to : told[c] < to[c]
  /\ told' = [c \in DOMAIN told |-> IF c \in DOMAIN to THEN to[c] ELSE told[c]]
  /\ UNCHANGED <<head, stage>>

End ==
  /\ stage # "ended"
  /\ stage' = "ended"
  /\ UNCHANGED <<head, told>>

\* Positions of some channels.
Positions == UNION {[C -> 0..MaxHead] : C \in (SUBSET Channel) \ {{}}}

Next ==
  \/ \E C \in (SUBSET Channel) \ {{}} : Commit(C)
  \/ \E p \in Positions : Acknowledge(p) \/ Page(p)
  \/ End

Spec == Init /\ [][Next]_vars

\* Every position a commit reaches is sent, or the socket ends.
FollowsHead ==
  \A c \in Channel, n \in 1..MaxHead :
    (stage = "open" /\ c \in DOMAIN told /\ head[c] >= n)
      ~> (stage = "ended" \/ (c \in DOMAIN told /\ told[c] >= n))

===========================================================================
