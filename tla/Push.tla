------------------------------- MODULE Push -------------------------------
(***************************************************************************)
(* The uplink: one client's durable queue of named mutations, the batches  *)
(* it freezes and numbers, the network that carries requests and receipts, *)
(* and the server that claims the client's row, runs each mutation and     *)
(* stores the receipt in the same transaction.                             *)
(*                                                                         *)
(* Client side: crates/client/src/{push,queue}.rs and the entry points of  *)
(* lib.rs.  Server side: process_push of crates/server/src/lib.rs over the *)
(* `claim` and `saveReceipt` statements of packages/postgres.              *)
(*                                                                         *)
(* What a mutation does to records is not modelled here (module Records    *)
(* does that): a mutation is its ordinal, its dependencies, its            *)
(* prerequisites and the verdict of its handler.  Every client write is    *)
(* one SQLite transaction, so each client operation is one step; a client  *)
(* crash loses only what was in transit, which LoseRequest and LoseReceipt *)
(* cover.  Server transactions interleave step by step.                    *)
(***************************************************************************)
EXTENDS Integers, Sequences, FiniteSets

CONSTANTS
  MaxMutations,   \* bound: how many mutations are ever enqueued
  PushMutations,  \* limits::PUSH_MUTATIONS, the most mutations in one batch
  Key,            \* prerequisite keys
  Tx,             \* server transactions that may be open at the same time
  Lossy           \* bound: whether messages vanish.  One that is never taken is
                  \* as good as lost, so this matters to progress only.

ASSUME PushAssumption ==
  /\ MaxMutations \in Nat
  /\ PushMutations \in Nat \ {0}
  /\ Lossy \in BOOLEAN

VARIABLES
  status,         \* per mutation: "queued" = a row of ahead_mutation, or how it left
  push,           \* column ahead_mutation.push, 0 for NULL
  lifecycle,      \* rows of ahead_mutation_dependency of kind lifecycle
  sequence,       \* rows of ahead_mutation_dependency of kind sequence
  prerequisite,   \* rows of ahead_mutation_prerequisite
  failed,         \* those of them whose error column is set
  nextOrdinal, nextPush, lastCompleted,   \* columns of ahead_client
  requests,       \* push requests in transit
  receipts,       \* receipts in transit
  claim,          \* the server's row for this client: sequence and receipt
  tx,             \* open server transactions: request, snapshot, handler runs
  log             \* committed handler runs, in commit order

clientVars == <<status, push, lifecycle, sequence, prerequisite, failed,
                nextOrdinal, nextPush, lastCompleted>>
depVars == <<lifecycle, sequence>>
serverVars == <<claim, tx, log>>
vars == <<clientVars, requests, receipts, serverVars>>

Mutation == 1..MaxMutations
Status == {"none", "queued", "accepted", "rejected", "dropped", "orphaned"}
Request == [sequence : Nat, mutations : SUBSET Mutation]
Receipt == [sequence : Nat, rejected : SUBSET Mutation]
Run == [ordinal : Mutation, verdict : {"accepted", "rejected"}]

---------------------------------------------------------------------------
(* The client's queue *)

queued == {o \in Mutation : status[o] = "queued"}
Unsent == {o \in queued : push[o] = 0}
in_flight == {o \in queued : push[o] # 0}

\* Mutant of Doomed: dependents of a rejected mutation stay queued.
Doomed_shallow(R) == R

\* The rejected mutations and everything queued whose lifecycle depends on
\* them: the least superset of R closed under queued dependents.
Doomed(R) ==
  {o \in queued :
     \A D \in SUBSET queued :
        (/\ R \subseteq D
         /\ \A q \in queued : lifecycle[q] \cap D # {} => q \in D) => o \in D}

\* Remove mutations; the foreign keys of the dependency and prerequisite
\* tables cascade.  Dependency rows are kept here as history: freeze and
\* mark_rejected only look at the ones that name a queued mutation.
delete_mutations(gone) ==
  /\ prerequisite' = [o \in Mutation |-> IF o \in gone THEN {} ELSE prerequisite[o]]
  /\ failed' = [o \in Mutation |-> IF o \in gone THEN {} ELSE failed[o]]
  /\ push' = [o \in Mutation |-> IF o \in gone THEN 0 ELSE push[o]]

\* A new mutation: explicit dependencies must still be queued, derived ones
\* are taken from the queue.
enqueue ==
  /\ nextOrdinal <= MaxMutations
  /\ nextOrdinal' = nextOrdinal + 1
  /\ status' = [status EXCEPT ![nextOrdinal] = "queued"]
  /\ \E L \in SUBSET queued, S \in SUBSET queued :
        /\ lifecycle' = [lifecycle EXCEPT ![nextOrdinal] = L]
        /\ sequence' = [sequence EXCEPT ![nextOrdinal] = S]
  /\ \E K \in SUBSET Key :
        prerequisite' = [prerequisite EXCEPT ![nextOrdinal] = K]
  /\ UNCHANGED <<push, failed, nextPush, lastCompleted, requests, receipts, serverVars>>

\* The host's `drop`: only a mutation that was never sent, with its dependents.
\* Mutant: the guard against dropping a sent mutation is gone.
Droppable_sent(o) == o \in queued
Droppable(o) == o \in Unsent

drop_mutation(o) ==
  /\ Droppable(o)
  /\ LET gone == Doomed({o}) IN
       /\ status' = [p \in Mutation |-> IF p = o THEN "dropped"
                                        ELSE IF p \in gone THEN "orphaned" ELSE status[p]]
       /\ delete_mutations(gone)
  /\ UNCHANGED <<depVars, nextOrdinal, nextPush, lastCompleted, requests, receipts, serverVars>>

\* Running a prerequisite task resolves or fails every row of its key; the
\* host may put a failed key back to pending.
resolve_prerequisite(k) ==
  /\ \E o \in Mutation : k \in prerequisite[o]
  /\ prerequisite' = [o \in Mutation |-> prerequisite[o] \ {k}]
  /\ failed' = [o \in Mutation |-> failed[o] \ {k}]
  /\ UNCHANGED <<status, push, depVars, nextOrdinal, nextPush, lastCompleted, requests, receipts, serverVars>>

fail_prerequisite(k) ==
  /\ \E o \in Mutation : k \in prerequisite[o]
  /\ failed' = [o \in Mutation |-> failed[o] \cup (prerequisite[o] \cap {k})]
  /\ UNCHANGED <<status, push, depVars, prerequisite, nextOrdinal, nextPush, lastCompleted, requests, receipts, serverVars>>

reset_prerequisite(k) ==
  /\ \E o \in Mutation : k \in failed[o]
  /\ failed' = [o \in Mutation |-> failed[o] \ {k}]
  /\ UNCHANGED <<status, push, depVars, prerequisite, nextOrdinal, nextPush, lastCompleted, requests, receipts, serverVars>>

---------------------------------------------------------------------------
(* Freezing a batch and retrying it *)

\* Mutants: a condition is forgotten, or the walk stops at the first blocked row.
Sendable_any_order(o) == prerequisite[o] = {}
Sendable_in_line(o) ==
  /\ \A p \in Unsent : p <= o => prerequisite[p] = {}
  /\ lifecycle[o] \cap Unsent = {}

\* Neither waiting for a prerequisite nor for the answer to a mutation whose
\* record its own lifecycle rests on.
Sendable(o) ==
  /\ prerequisite[o] = {}
  /\ lifecycle[o] \cap Unsent = {}

\* Mutant: sequence dependencies are not looked at.
Preceded_unordered(o, C) == TRUE

\* What must run before o has been sent before, or is chosen with it.
Preceded(o, C) == sequence[o] \cap Unsent \subseteq C

\* freeze walks the unsent rows in ordinal order.  It takes the first one it
\* may send whatever its size, may pass over later ones that would make the
\* request too large, never takes one before its sequence dependencies, and
\* stops at PushMutations.
Batch ==
  {C \in SUBSET Unsent :
     /\ C # {} /\ Cardinality(C) <= PushMutations
     /\ \A o \in C : Sendable(o) /\ Preceded(o, C)
     /\ \E first \in C : \A o \in Unsent :
           Sendable(o) /\ Preceded(o, {}) => first <= o}

\* No push is in flight: number a new batch and send it.
freeze ==
  /\ in_flight = {}
  /\ \E C \in Batch :
        /\ push' = [o \in Mutation |-> IF o \in C THEN nextPush ELSE push[o]]
        /\ requests' = requests \cup {[sequence |-> nextPush, mutations |-> C]}
  /\ nextPush' = nextPush + 1
  /\ UNCHANGED <<status, depVars, prerequisite, failed, nextOrdinal, lastCompleted, receipts, serverVars>>

\* A push is in flight: encode its rows again and send the same request.
\* Mutant: the retry also picks up rows enqueued since.
Rows_and_new(p) == {q \in queued : push[q] \in {0, p}}

Rows(p) == {q \in queued : push[q] = p}

encode_push ==
  /\ in_flight # {}
  /\ \E o \in in_flight :
        requests' = requests \cup {[sequence |-> push[o], mutations |-> Rows(push[o])]}
  /\ UNCHANGED <<clientVars, receipts, serverVars>>

\* Mutant: the receipt's number is not compared.
Useless_unnumbered(r) == ~ (r.rejected \subseteq in_flight)

\* A receipt that completes nothing: it answers a batch already completed
\* (stale) or is refused because it does not answer the push in flight.
Useless(r) ==
  \/ r.sequence <= lastCompleted
  \/ \A o \in in_flight : push[o] # r.sequence
  \/ ~ (r.rejected \subseteq in_flight)

\* Complete the push in flight from its receipt, in one transaction.
acknowledge(r) ==
  /\ ~ Useless(r)
  /\ LET gone == Doomed(r.rejected)
         accepted == in_flight \ r.rejected IN
       /\ status' = [o \in Mutation |-> IF o \in r.rejected THEN "rejected"
                                        ELSE IF o \in gone THEN "orphaned"
                                        ELSE IF o \in accepted THEN "accepted" ELSE status[o]]
       /\ delete_mutations(gone \cup accepted)
  /\ lastCompleted' = r.sequence
  /\ UNCHANGED <<depVars, nextOrdinal, nextPush, requests, receipts, serverVars>>

ignore_receipt(r) ==
  /\ Useless(r)
  /\ receipts' = receipts \ {r}
  /\ UNCHANGED <<clientVars, requests, serverVars>>

---------------------------------------------------------------------------
(* The network: a message stays deliverable, again and again, until lost *)

LoseRequest(r) ==
  /\ Lossy
  /\ requests' = requests \ {r}
  /\ UNCHANGED <<clientVars, receipts, serverVars>>

LoseReceipt(r) ==
  /\ Lossy
  /\ receipts' = receipts \ {r}
  /\ UNCHANGED <<clientVars, requests, serverVars>>

---------------------------------------------------------------------------
(* The server: process_push in one REPEATABLE READ transaction *)

NoTx == [phase |-> "idle", request |-> [sequence |-> 0, mutations |-> {}],
         snapshot |-> 0, work |-> <<>>]

\* The transaction's snapshot is taken by its first statement.
begin(t, r) ==
  /\ tx[t].phase = "idle"
  /\ tx' = [tx EXCEPT ![t] = [phase |-> "begun", request |-> r,
                             snapshot |-> claim.sequence, work |-> <<>>]]
  /\ UNCHANGED <<clientVars, requests, receipts, claim, log>>

\* Mutant: the row is read without locking it.
RowFree_unlocked == TRUE

\* SELECT ... FOR UPDATE waits for the transaction that holds the row, and
\* fails with 40001 when the row changed after the snapshot.
RowFree == \A t \in Tx : tx[t].phase # "running"
Current(t) == tx[t].snapshot = claim.sequence
Claims(t) == tx[t].phase = "begun" /\ RowFree /\ Current(t)

\* The driver runs the whole body again on a new snapshot.
retry(t) ==
  /\ tx[t].phase = "begun" /\ RowFree /\ ~ Current(t)
  /\ tx' = [tx EXCEPT ![t].snapshot = claim.sequence]
  /\ UNCHANGED <<clientVars, requests, receipts, claim, log>>

\* Mutant: a batch already run is refused like any other old one.
Answered_never(t) == FALSE

\* The batch the row already carries: answer from storage, run nothing.
Answered(t) == tx[t].request.sequence = claim.sequence

answer_stored(t) ==
  /\ Claims(t) /\ Answered(t)
  /\ receipts' = receipts \cup {claim.receipt}
  /\ tx' = [tx EXCEPT ![t] = NoTx]
  /\ UNCHANGED <<clientVars, requests, claim, log>>

\* Any sequence but the next one is refused: OVERLAP below, GAP above.
IsNext(t) == tx[t].request.sequence = claim.sequence + 1

refuse(t) ==
  /\ Claims(t) /\ ~ Answered(t) /\ ~ IsNext(t)
  /\ tx' = [tx EXCEPT ![t] = NoTx]
  /\ UNCHANGED <<clientVars, requests, receipts, claim, log>>

\* The next batch: hold the row and run its mutations.
take(t) ==
  /\ Claims(t) /\ ~ Answered(t) /\ IsNext(t)
  /\ tx' = [tx EXCEPT ![t].phase = "running"]
  /\ UNCHANGED <<clientVars, requests, receipts, claim, log>>

Ordinals(runs) == {runs[i].ordinal : i \in 1..Len(runs)}
Left(t) == tx[t].request.mutations \ Ordinals(tx[t].work)

\* One mutation in its own savepoint, in the order of the request.  A refusal
\* of any kind (unsupported version, bad arguments, handler, loader) rolls the
\* savepoint back and becomes a rejection of this mutation alone.
handle(t) ==
  /\ tx[t].phase = "running"
  /\ \E o \in Left(t), v \in {"accepted", "rejected"} :
        /\ \A p \in Left(t) : o <= p
        /\ tx' = [tx EXCEPT ![t].work = Append(@, [ordinal |-> o, verdict |-> v])]
  /\ UNCHANGED <<clientVars, requests, receipts, claim, log>>

Rejections(runs) == {runs[i].ordinal : i \in {j \in 1..Len(runs) : runs[j].verdict = "rejected"}}

\* Store the receipt, commit, answer.
save_receipt(t) ==
  /\ tx[t].phase = "running" /\ Left(t) = {}
  /\ LET seq == tx[t].request.sequence
         receipt == [sequence |-> seq, rejected |-> Rejections(tx[t].work)] IN
       /\ claim' = [sequence |-> seq, receipt |-> receipt]
       /\ receipts' = receipts \cup {receipt}
  /\ log' = log \o tx[t].work
  /\ tx' = [tx EXCEPT ![t] = NoTx]
  /\ UNCHANGED <<clientVars, requests>>

\* A thrown error, a storage failure or a crash: the transaction rolls back
\* and the caller gets no receipt.
abort(t) ==
  /\ tx[t].phase # "idle"
  /\ tx' = [tx EXCEPT ![t] = NoTx]
  /\ UNCHANGED <<clientVars, requests, receipts, claim, log>>

---------------------------------------------------------------------------
NoReceipt == [sequence |-> 0, rejected |-> {}]

Init ==
  /\ status = [o \in Mutation |-> "none"]
  /\ push = [o \in Mutation |-> 0]
  /\ lifecycle = [o \in Mutation |-> {}]
  /\ sequence = [o \in Mutation |-> {}]
  /\ prerequisite = [o \in Mutation |-> {}]
  /\ failed = [o \in Mutation |-> {}]
  /\ nextOrdinal = 1 /\ nextPush = 1 /\ lastCompleted = 0
  /\ requests = {} /\ receipts = {}
  /\ claim = [sequence |-> 0, receipt |-> NoReceipt]
  /\ tx = [t \in Tx |-> NoTx]
  /\ log = <<>>

ClientNext ==
  \/ enqueue \/ freeze \/ encode_push
  \/ \E o \in Mutation : drop_mutation(o)
  \/ \E k \in Key : resolve_prerequisite(k) \/ fail_prerequisite(k) \/ reset_prerequisite(k)
  \/ \E r \in receipts : acknowledge(r) \/ ignore_receipt(r)

NetworkNext ==
  \/ \E r \in requests : LoseRequest(r)
  \/ \E r \in receipts : LoseReceipt(r)

ServerNext ==
  \E t \in Tx :
    \/ \E r \in requests : begin(t, r)
    \/ retry(t) \/ answer_stored(t) \/ refuse(t) \/ take(t)
    \/ handle(t) \/ save_receipt(t) \/ abort(t)

Next == ClientNext \/ NetworkNext \/ ServerNext

Spec == Init /\ [][Next]_vars

\* What the server does on its own with a transaction it has begun.
Process(t) == retry(t) \/ answer_stored(t) \/ refuse(t) \/ take(t) \/ handle(t) \/ save_receipt(t)

\* What keeps the batch in flight from completing: its request or its receipt
\* is lost, or the transaction that runs it rolls back (a refused request ends
\* its transaction the same way and is no disturbance).
Disturbs ==
  \/ \E r \in requests : r.sequence = lastCompleted + 1 /\ LoseRequest(r)
  \/ \E r \in receipts : ~ Useless(r) /\ LoseReceipt(r)
  \/ \E t \in Tx : /\ tx[t].request.sequence = lastCompleted + 1
                   /\ abort(t) /\ ~ Process(t)

Deliver == \E t \in Tx : \E r \in requests : r.sequence = lastCompleted + 1 /\ begin(t, r)

\* The connection loop retries for ever with bounded backoff, so the client
\* keeps freezing, re-sending and acknowledging; the server finishes what it
\* began; and from some time on nothing disturbs a batch in flight.  Nothing
\* is assumed of the host: it need not enqueue, drop or run prerequisites.
FairSpec ==
  /\ Spec
  /\ WF_vars(freeze) /\ WF_vars(encode_push)
  /\ WF_vars(\E r \in receipts : acknowledge(r))
  /\ SF_vars(Deliver)
  /\ \A t \in Tx : WF_vars(Process(t))
  /\ <>[][~ Disturbs]_vars

---------------------------------------------------------------------------
(* Properties *)

TxState == [phase : {"idle", "begun", "running"}, request : Request,
            snapshot : Nat, work : Seq(Run)]

\* Every variable has its type: the columns of the client's tables, the
\* messages, and the server's row, transactions and history.
TypeOK ==
  /\ status \in [Mutation -> Status]
  /\ push \in [Mutation -> Nat]
  /\ lifecycle \in [Mutation -> SUBSET Mutation]
  /\ sequence \in [Mutation -> SUBSET Mutation]
  /\ prerequisite \in [Mutation -> SUBSET Key]
  /\ failed \in [Mutation -> SUBSET Key]
  /\ nextOrdinal \in Nat \ {0} /\ nextPush \in Nat \ {0} /\ lastCompleted \in Nat
  /\ requests \subseteq Request
  /\ receipts \subseteq Receipt
  /\ claim \in [sequence : Nat, receipt : Receipt]
  /\ tx \in [Tx -> TxState]
  /\ log \in Seq(Run)

\* A request is delivered any number of times, late and to several
\* transactions at once, and a batch is retried after every failure; still no
\* mutation's handler run is ever committed twice.
ExactlyOnce ==
  \A i, j \in 1..Len(log) : log[i].ordinal = log[j].ordinal => i = j

Ran(o, v) == \E i \in 1..Len(log) : log[i] = [ordinal |-> o, verdict |-> v]

\* How a mutation left the client's queue is what the server did with it:
\* completed as accepted only if its run committed, reported as rejected only
\* if the server rejected it, and dropped (by the host, or with a rejected
\* mutation it depended on) only if the server never runs it at all.
OutcomeAgreement ==
  \A o \in Mutation :
    /\ status[o] = "accepted" => Ran(o, "accepted")
    /\ status[o] = "rejected" => Ran(o, "rejected")
    /\ status[o] \in {"none", "dropped", "orphaned"} => o \notin Ordinals(log)

\* The client can always be served: the push in flight is the batch the
\* server has just run or the next one it will run, so a retry is never
\* refused, and only a late copy of a completed batch can overlap.
NeverWedged ==
  /\ claim.sequence \in {lastCompleted, lastCompleted + 1}
  /\ in_flight = {} => claim.sequence = lastCompleted
  /\ \A o \in in_flight : push[o] = lastCompleted + 1

\* A retry sends what the original request sent, across restarts, drops and
\* whatever else was enqueued meanwhile.
Sent == requests \cup {tx[t].request : t \in {u \in Tx : tx[u].phase # "idle"}}
FrozenBatch ==
  \A r \in Sent :
    /\ \A q \in Sent : q.sequence = r.sequence => q = r
    /\ r.sequence = lastCompleted + 1 => r.mutations = in_flight

\* A mutation runs only after every mutation its record's existence rests on
\* was accepted; the client never lets one travel with, or ahead of, its cause.
LifecycleOrder ==
  \A o \in Ordinals(log) : \A d \in lifecycle[o] : Ran(d, "accepted")

\* A mutation declared to come after another runs after it: the other one ran
\* earlier, or will never run.
SequenceOrder ==
  \A i \in 1..Len(log) : \A d \in sequence[log[i].ordinal] :
    \/ \E j \in 1..(i - 1) : log[j].ordinal = d
    \/ status[d] \in {"dropped", "orphaned"}

\* A batch is answered with the same receipt every time, so it does not
\* matter which of its answers the client gets.
StableReceipt ==
  \A r, q \in receipts \cup {claim.receipt} : r.sequence = q.sequence => r = q

\* Numbering, freezing, retrying and storing receipts implement the promise of
\* module Settlement: each mutation is decided at most once, after everything
\* it rests on was accepted, and the client learns just that decision.
Verdict(o) == IF Ran(o, "accepted") THEN "accepted"
              ELSE IF Ran(o, "rejected") THEN "rejected" ELSE "none"

Promise == INSTANCE Settlement WITH needs <- lifecycle,
                                    verdict <- [o \in Mutation |-> Verdict(o)]
Settles == Promise!Spec

\* Lost messages, retries and refused copies never leave a batch in flight for
\* good: a mutation that no prerequisite holds back, itself or through the
\* mutations before it, leaves the queue.
EventuallySettled ==
  \A o \in Mutation :
    (o \in queued /\ \A p \in 1..o : prerequisite[p] = {}) ~> o \notin queued

\* A prerequisite that never resolves holds back its own mutation and those
\* that depend on it, never an independent one queued behind it.
NoHeadOfLineBlocking ==
  \A o \in Mutation :
    (o \in queued /\ prerequisite[o] = {} /\ lifecycle[o] = {} /\ sequence[o] = {})
       ~> o \notin queued

===========================================================================
