---------------------------- MODULE Settlement ----------------------------
(***************************************************************************)
(* What the uplink promises, without batches, numbers, messages or         *)
(* transactions.  The host submits mutations, each resting on earlier ones *)
(* that must be accepted first; the server decides a mutation at most      *)
(* once; the client gives up only what is undecided and learns of every    *)
(* other mutation exactly what was decided                                 *)
(* (docs/engineering/architecture/client/engine/settlement.md, push.md).   *)
(***************************************************************************)
CONSTANT Mutation

VARIABLES
  status,    \* the client's view of each mutation
  needs,     \* the mutations each one rests on
  verdict    \* the server's decision, "none" while there is none

vars == <<status, needs, verdict>>

Init ==
  /\ status = [o \in Mutation |-> "none"]
  /\ needs = [o \in Mutation |-> {}]
  /\ verdict = [o \in Mutation |-> "none"]

Submit ==
  \E o \in Mutation :
    /\ status[o] = "none"
    /\ status' = [status EXCEPT ![o] = "queued"]
    /\ \E N \in SUBSET {p \in Mutation : status[p] = "queued"} : needs' = [needs EXCEPT ![o] = N]
    /\ UNCHANGED verdict

\* One or several mutations get their verdict: each queued and undecided, and
\* everything it rests on accepted before.
Decide ==
  /\ verdict' \in [Mutation -> {"none", "accepted", "rejected"}]
  /\ \A o \in Mutation : verdict'[o] # verdict[o] =>
        /\ verdict[o] = "none" /\ status[o] = "queued"
        /\ \A d \in needs[o] : verdict[d] = "accepted"
  /\ UNCHANGED <<status, needs>>

\* Mutations leave the queue: a decided one with its verdict, an undecided one
\* given up for good.  What rests on something given up or rejected goes with it.
Leave ==
  /\ \A o \in Mutation : status'[o] # status[o] =>
        /\ status[o] = "queued"
        /\ \/ status'[o] = verdict[o]
           \/ verdict[o] = "none" /\ status'[o] \in {"dropped", "orphaned"}
  /\ \A o \in Mutation : status'[o] = "queued" =>
        \A d \in needs[o] : status'[d] \in {"queued", "accepted"}
  /\ status' \in [Mutation -> {"none", "queued", "accepted", "rejected", "dropped", "orphaned"}]
  /\ UNCHANGED <<needs, verdict>>

Next == Submit \/ Decide \/ Leave

Spec == Init /\ [][Next]_vars

===========================================================================
