---------------------------- MODULE PushProofs ----------------------------
(***************************************************************************)
(* Proofs about the uplink for any number of mutations, any batch size,    *)
(* any prerequisite keys and any number of concurrent server transactions. *)
(***************************************************************************)
EXTENDS Push, SequenceTheorems, TLAPS

\* Every operation of the client, the network and the server keeps the
\* columns, messages and transactions in their types.
THEOREM TypeCorrect == Spec => []TypeOK
<1>1. Init => TypeOK
  BY PushAssumption DEF Init, TypeOK, Mutation, Status, Request, Receipt, TxState, NoTx, NoReceipt, Run
<1>2. TypeOK /\ [Next]_vars => TypeOK'
  <2> SUFFICES ASSUME TypeOK, [Next]_vars PROVE TypeOK'
    OBVIOUS
  <2> USE PushAssumption DEF TypeOK, Status, Request, Receipt, serverVars, depVars, clientVars
  <2>1. CASE enqueue
    <3> DEFINE n == nextOrdinal
    <3>1. PICK L \in SUBSET queued, S \in SUBSET queued, K \in SUBSET Key :
            /\ lifecycle' = [lifecycle EXCEPT ![n] = L]
            /\ sequence' = [sequence EXCEPT ![n] = S]
            /\ prerequisite' = [prerequisite EXCEPT ![n] = K]
      BY <2>1 DEF enqueue
    <3>2. L \subseteq Mutation /\ S \subseteq Mutation
      BY DEF queued
    <3>3. lifecycle' \in [Mutation -> SUBSET Mutation]
      BY <3>1, <3>2
    <3>4. sequence' \in [Mutation -> SUBSET Mutation]
      BY <3>1, <3>2
    <3>5. prerequisite' \in [Mutation -> SUBSET Key]
      BY <3>1
    <3>6. status' \in [Mutation -> Status]
      BY <2>1 DEF enqueue
    <3>7. nextOrdinal' \in Nat \ {0}
      BY <2>1 DEF enqueue
    <3> QED BY <2>1, <3>3, <3>4, <3>5, <3>6, <3>7 DEF enqueue
  <2>2. CASE freeze
    <3>1. PICK C \in Batch : 
            /\ push' = [o \in Mutation |-> IF o \in C THEN nextPush ELSE push[o]]
            /\ requests' = requests \cup {[sequence |-> nextPush, mutations |-> C]}
      BY <2>2 DEF freeze
    <3>2. C \subseteq Mutation
      BY <3>1 DEF Batch, Unsent, queued
    <3> QED BY <2>2, <3>1, <3>2 DEF freeze
  <2>3. CASE encode_push
    <3>1. PICK o \in in_flight : requests' = requests \cup {[sequence |-> push[o], mutations |-> Rows(push[o])]}
      BY <2>3 DEF encode_push
    <3>2. Rows(push[o]) \subseteq Mutation /\ push[o] \in Nat
      BY DEF Rows, queued, in_flight
    <3> QED BY <2>3, <3>1, <3>2 DEF encode_push
  <2>4. ASSUME NEW o \in Mutation, drop_mutation(o) PROVE TypeOK'
    BY <2>4 DEF drop_mutation, delete_mutations
  <2>5. ASSUME NEW k \in Key, resolve_prerequisite(k) PROVE TypeOK'
    BY <2>5 DEF resolve_prerequisite
  <2>6. ASSUME NEW k \in Key, fail_prerequisite(k) PROVE TypeOK'
    BY <2>6 DEF fail_prerequisite
  <2>7. ASSUME NEW k \in Key, reset_prerequisite(k) PROVE TypeOK'
    BY <2>7 DEF reset_prerequisite
  <2>8. ASSUME NEW r \in receipts, acknowledge(r) PROVE TypeOK'
    BY <2>8 DEF acknowledge, delete_mutations
  <2>9. ASSUME NEW r \in receipts, ignore_receipt(r) \/ LoseReceipt(r) PROVE TypeOK'
    BY <2>9 DEF ignore_receipt, LoseReceipt
  <2>10. ASSUME NEW r \in requests, LoseRequest(r) PROVE TypeOK'
    BY <2>10 DEF LoseRequest
  <2>11. ASSUME NEW t \in Tx, NEW r \in requests, begin(t, r) PROVE TypeOK'
    <3>1. <<>> \in Seq(Run)
      OBVIOUS
    <3>2. [phase |-> "begun", request |-> r, snapshot |-> claim.sequence, work |-> <<>>] \in TxState
      BY <3>1 DEF TxState
    <3>3. tx' \in [Tx -> TxState]
      BY <2>11, <3>2 DEF begin
    <3> QED BY <2>11, <3>3 DEF begin
  <2>12. ASSUME NEW t \in Tx, retry(t) \/ take(t) PROVE TypeOK'
    <3>1. /\ [tx[t] EXCEPT !.snapshot = claim.sequence] \in TxState
          /\ [tx[t] EXCEPT !.phase = "running"] \in TxState
      <4>1. tx[t] \in TxState /\ claim.sequence \in Nat
        OBVIOUS
      <4>2. [tx[t] EXCEPT !.snapshot = claim.sequence] \in TxState
        BY <4>1 DEF TxState
      <4>3. [tx[t] EXCEPT !.phase = "running"] \in TxState
        BY <4>1 DEF TxState
      <4> QED BY <4>2, <4>3
    <3>2. tx' \in [Tx -> TxState]
      BY <2>12, <3>1 DEF retry, take
    <3> QED BY <2>12, <3>2 DEF retry, take
  <2>13. ASSUME NEW t \in Tx, answer_stored(t) \/ refuse(t) \/ abort(t) PROVE TypeOK'
    <3>1. NoTx \in TxState
      BY DEF NoTx, TxState
    <3>2. tx' \in [Tx -> TxState]
      BY <2>13, <3>1 DEF answer_stored, refuse, abort
    <3>3. receipts' \subseteq Receipt
      BY <2>13 DEF answer_stored, refuse, abort
    <3> QED BY <2>13, <3>2, <3>3 DEF answer_stored, refuse, abort
  <2>14. ASSUME NEW t \in Tx, handle(t) PROVE TypeOK'
    <3>1. PICK o \in Left(t), v \in {"accepted", "rejected"} :
             tx' = [tx EXCEPT ![t].work = Append(@, [ordinal |-> o, verdict |-> v])]
      BY <2>14 DEF handle
    <3>2. [ordinal |-> o, verdict |-> v] \in Run /\ tx[t].work \in Seq(Run)
      BY DEF Run, Left, TxState
    <3>3. Append(tx[t].work, [ordinal |-> o, verdict |-> v]) \in Seq(Run)
      BY <3>2
    <3>4. [tx[t] EXCEPT !.work = Append(@, [ordinal |-> o, verdict |-> v])] \in TxState
      <4> DEFINE w == Append(tx[t].work, [ordinal |-> o, verdict |-> v])
      <4>1. tx[t] \in TxState /\ w \in Seq(Run)
        BY <3>3
      <4> HIDE DEF w
      <4>2. [tx[t] EXCEPT !.work = w] \in TxState
        BY <4>1 DEF TxState
      <4> QED BY <4>2 DEF w
    <3>5. tx' \in [Tx -> TxState]
      BY <3>1, <3>4
    <3> QED BY <2>14, <3>5 DEF handle
  <2>15. ASSUME NEW t \in Tx, save_receipt(t) PROVE TypeOK'
    <3>1. NoTx \in TxState
      BY DEF NoTx, TxState
    <3>2. tx[t].work \in Seq(Run) /\ tx[t].request.sequence \in Nat
      BY DEF TxState
    <3>3. Rejections(tx[t].work) \subseteq Mutation
      <4>1. \A i \in 1..Len(tx[t].work) : tx[t].work[i] \in Run
        BY <3>2
      <4> QED BY <4>1 DEF Rejections, Run
    <3>4. log \o tx[t].work \in Seq(Run)
      BY <3>2
    <3> QED BY <2>15, <3>1, <3>2, <3>3, <3>4 DEF save_receipt
  <2>16. CASE UNCHANGED vars
    BY <2>16 DEF vars
  <2> QED
    BY <2>1, <2>2, <2>3, <2>4, <2>5, <2>6, <2>7, <2>8, <2>9, <2>10, <2>11, <2>12, <2>13,
       <2>14, <2>15, <2>16 DEF Next, ClientNext, NetworkNext, ServerNext
<1> QED
  BY <1>1, <1>2, PTL DEF Spec

---------------------------------------------------------------------------
(* The inductive invariant *)

\* The queue is numbered upwards and only queued rows carry a push number; a
\* queued mutation rests on queued or accepted ones only (mark_rejected takes
\* the others' dependents along).
QueueInv ==
  /\ \A o \in Mutation : o >= nextOrdinal => status[o] = "none"
  /\ \A o \in Mutation : status[o] # "queued" => push[o] = 0
  /\ \A o \in queued : \A d \in lifecycle[o] : status[d] \in {"queued", "accepted"}

\* At most one push is in flight, it is the last one numbered, and nothing in
\* it rests on a mutation still queued.
FlightInv ==
  /\ \A o \in in_flight : push[o] = nextPush - 1 /\ lifecycle[o] \cap queued = {}
  /\ in_flight = {} => lastCompleted = nextPush - 1
  /\ in_flight # {} => lastCompleted = nextPush - 2

\* The server's row is at the last completed push or one ahead, and then
\* its receipt says what was committed for the mutations in flight.
ClaimInv ==
  /\ claim.sequence \in {lastCompleted, lastCompleted + 1}
  /\ in_flight = {} => claim.sequence = lastCompleted
  /\ claim.receipt.sequence = claim.sequence
  /\ claim.sequence = lastCompleted + 1 =>
        /\ claim.receipt.rejected \subseteq in_flight
        /\ \A o \in in_flight :
             Ran(o, IF o \in claim.receipt.rejected THEN "rejected" ELSE "accepted")

\* What has run is settled at the client or in flight with its answer stored.
LogInv ==
  /\ \A o \in Ordinals(log) :
        \/ status[o] \in {"accepted", "rejected"}
        \/ o \in in_flight /\ claim.sequence = lastCompleted + 1
  /\ \A o \in Mutation : status[o] \in {"accepted", "rejected"} => Ran(o, status[o])
  /\ LifecycleOrder

\* Requests are numbered by freeze and equal for equal numbers; receipts are
\* numbered by the claim and equal for equal numbers.
MessageInv ==
  /\ \A r \in Sent : r.sequence < nextPush
  /\ FrozenBatch
  /\ \A r \in receipts : r.sequence <= claim.sequence
  /\ StableReceipt

\* One transaction holds the row; it runs the batch after the claim and has
\* run each mutation of its request at most once.
TxInv ==
  /\ \A t, u \in Tx : tx[t].phase = "running" /\ tx[u].phase = "running" => t = u
  /\ \A t \in Tx : tx[t].phase # "running" => tx[t].work = <<>>
  /\ \A t \in Tx : tx[t].phase = "running" =>
       /\ tx[t].request.sequence = claim.sequence + 1
       /\ Ordinals(tx[t].work) \subseteq tx[t].request.mutations
       /\ \A i, j \in 1..Len(tx[t].work) :
             tx[t].work[i].ordinal = tx[t].work[j].ordinal => i = j

IInv == QueueInv /\ FlightInv /\ ClaimInv /\ LogInv /\ ExactlyOnce /\ MessageInv /\ TxInv

---------------------------------------------------------------------------
(* Lemmas about the operators *)

\* mark_rejected's closure: it contains what was rejected, is closed under
\* queued dependents, and never reaches a mutation in flight that was not
\* itself rejected.
LEMMA DoomedClosure ==
  ASSUME TypeOK, NEW R \in SUBSET queued
  PROVE  /\ R \subseteq Doomed(R)
         /\ Doomed(R) \subseteq queued
         /\ \A q \in queued : lifecycle[q] \cap Doomed(R) # {} => q \in Doomed(R)
         /\ FlightInv => Doomed(R) \cap in_flight \subseteq R
<1>1. R \subseteq Doomed(R) /\ Doomed(R) \subseteq queued
  BY DEF Doomed
<1>2. ASSUME NEW q \in queued, lifecycle[q] \cap Doomed(R) # {}
      PROVE  q \in Doomed(R)
  <2>1. PICK d \in Doomed(R) : d \in lifecycle[q]
    BY <1>2
  <2>2. ASSUME NEW D \in SUBSET queued, R \subseteq D,
               \A p \in queued : lifecycle[p] \cap D # {} => p \in D
        PROVE  q \in D
    <3>1. d \in D
      BY <2>1, <2>2 DEF Doomed
    <3> QED BY <2>1, <2>2, <3>1
  <2> QED BY <2>2 DEF Doomed
<1>3. ASSUME FlightInv, NEW o \in Doomed(R), o \in in_flight PROVE o \in R
  <2> DEFINE D == (queued \ in_flight) \cup R
  <2>1. D \in SUBSET queued /\ R \subseteq D
    OBVIOUS
  <2>2. \A p \in queued : lifecycle[p] \cap D # {} => p \in D
    BY <1>3 DEF FlightInv, in_flight
  <2>3. o \in D
    BY <2>1, <2>2, <1>3 DEF Doomed
  <2> QED BY <2>3, <1>3
<1> QED BY <1>1, <1>2, <1>3

\* Committing a transaction's runs appends exactly them to the history.
LEMMA AppendRuns ==
  ASSUME NEW s \in Seq(Run), NEW u \in Seq(Run)
  PROVE  /\ s \o u \in Seq(Run)
         /\ Len(s \o u) = Len(s) + Len(u)
         /\ \A i \in 1..Len(s) : (s \o u)[i] = s[i]
         /\ \A i \in 1..Len(u) : (s \o u)[Len(s) + i] = u[i]
         /\ \A i \in 1..(Len(s) + Len(u)) :
              \/ i \in 1..Len(s) /\ (s \o u)[i] = s[i]
              \/ i - Len(s) \in 1..Len(u) /\ (s \o u)[i] = u[i - Len(s)]
  OBVIOUS

\* Running one more mutation adds its ordinal.
LEMMA AppendRun ==
  ASSUME NEW s \in Seq(Run), NEW x \in Run
  PROVE  /\ Append(s, x) \in Seq(Run)
         /\ Len(Append(s, x)) = Len(s) + 1
         /\ \A i \in 1..Len(s) : Append(s, x)[i] = s[i]
         /\ Append(s, x)[Len(s) + 1] = x
         /\ Ordinals(Append(s, x)) = Ordinals(s) \cup {x.ordinal}
<1>1. /\ Append(s, x) \in Seq(Run)
      /\ Len(Append(s, x)) = Len(s) + 1
      /\ \A i \in 1..Len(s) : Append(s, x)[i] = s[i]
      /\ Append(s, x)[Len(s) + 1] = x
      /\ Len(s) \in Nat
  OBVIOUS
<1>2. \A i \in 1..(Len(s) + 1) : i \in 1..Len(s) \/ i = Len(s) + 1
  BY <1>1
<1>3. 1..Len(s) \subseteq 1..(Len(s) + 1) /\ Len(s) + 1 \in 1..(Len(s) + 1)
  BY <1>1
<1> QED BY <1>1, <1>2, <1>3 DEF Ordinals

---------------------------------------------------------------------------
(* The steps of the client *)

\* A new mutation rests on queued ones and disturbs nothing already sent.
LEMMA EnqueueStep == TypeOK /\ IInv /\ enqueue => IInv'
<1> SUFFICES ASSUME TypeOK, IInv, enqueue PROVE IInv'
  OBVIOUS
<1> DEFINE n == nextOrdinal
<1>1. n \in Mutation /\ status[n] = "none" /\ push[n] = 0
  BY PushAssumption DEF enqueue, TypeOK, IInv, QueueInv, Mutation
<1>2. PICK L \in SUBSET queued : lifecycle' = [lifecycle EXCEPT ![n] = L]
  BY DEF enqueue
<1>3. /\ status' = [status EXCEPT ![n] = "queued"]
      /\ nextOrdinal' = n + 1
      /\ UNCHANGED <<push, nextPush, lastCompleted, requests, receipts, claim, tx, log>>
  BY DEF enqueue, serverVars
<1>4. queued' = queued \cup {n} /\ n \notin queued
  BY <1>1, <1>3 DEF queued, TypeOK
<1>5. in_flight' = in_flight
  BY <1>1, <1>3, <1>4 DEF in_flight
<1>6. n \notin Ordinals(log) /\ n \notin in_flight
  BY <1>1 DEF IInv, LogInv, in_flight, queued
<1>7. \A o \in Mutation \ {n} : status'[o] = status[o] /\ lifecycle'[o] = lifecycle[o]
  BY <1>2, <1>3 DEF TypeOK
<1>8. status'[n] = "queued" /\ lifecycle'[n] = L
  BY <1>1, <1>2, <1>3 DEF TypeOK
<1>9. \A o \in queued : n \notin lifecycle[o]
  BY <1>1 DEF IInv, QueueInv
<1>10. QueueInv'
  <2>1. \A o \in Mutation : o >= n + 1 => status'[o] = "none"
    BY <1>7 DEF IInv, QueueInv, Mutation, TypeOK
  <2>2. \A o \in Mutation : status'[o] # "queued" => push'[o] = 0
    BY <1>1, <1>3, <1>7, <1>8 DEF IInv, QueueInv
  <2>3. ASSUME NEW o \in queued', NEW d \in lifecycle'[o]
        PROVE  status'[d] \in {"queued", "accepted"}
    <3>1. CASE o = n
      <4>1. d \in queued
        BY <3>1, <1>8, <2>3
      <4> QED BY <4>1, <1>4, <1>7 DEF queued
    <3>2. CASE o # n
      <4>1. o \in queued /\ d \in lifecycle[o]
        BY <3>2, <1>4, <1>7, <2>3 DEF queued
      <4>2. d \in Mutation /\ d # n
        BY <4>1, <1>9 DEF TypeOK, queued
      <4> QED BY <4>1, <4>2, <1>7 DEF IInv, QueueInv
    <3> QED BY <3>1, <3>2
  <2> QED BY <1>3, <2>1, <2>2, <2>3 DEF QueueInv
<1>11. FlightInv'
  <2>1. \A o \in in_flight : lifecycle'[o] \cap queued' = {}
    BY <1>4, <1>6, <1>7, <1>9 DEF IInv, FlightInv, in_flight, queued
  <2> QED BY <1>3, <1>5, <2>1 DEF IInv, FlightInv
<1>12. ClaimInv'
  BY <1>3, <1>5 DEF IInv, ClaimInv, Ran
<1>13. LogInv'
  <2>1. \A o \in Ordinals(log) : o \in Mutation
    <3>1. \A i \in 1..Len(log) : log[i] \in Run
      BY DEF TypeOK
    <3> QED BY <3>1 DEF Ordinals, Run
  <2>2. \A o \in Ordinals(log) : status'[o] = status[o] /\ lifecycle'[o] = lifecycle[o]
    BY <1>6, <1>7, <2>1
  <2>3. LifecycleOrder'
    BY <1>3, <2>2 DEF IInv, LogInv, LifecycleOrder, Ordinals, Ran
  <2>4. \A o \in Mutation : status'[o] \in {"accepted", "rejected"} => Ran(o, status[o]) /\ status'[o] = status[o]
    BY <1>7, <1>8 DEF IInv, LogInv
  <2> QED BY <1>3, <1>5, <2>2, <2>3, <2>4 DEF IInv, LogInv, Ordinals, Ran
<1>14. MessageInv'
  BY <1>3, <1>5 DEF IInv, MessageInv, Sent, FrozenBatch, StableReceipt
<1>15. TxInv' /\ ExactlyOnce'
  BY <1>3 DEF IInv, TxInv, ExactlyOnce, Ordinals
<1> QED BY <1>10, <1>11, <1>12, <1>13, <1>14, <1>15 DEF IInv

\* Dropping an unsent mutation, with its dependents, leaves the push in flight
\* alone: nothing sent rests on anything queued.
LEMMA DropStep == TypeOK /\ IInv /\ (\E o \in Mutation : drop_mutation(o)) => IInv'
<1> SUFFICES ASSUME TypeOK, IInv, NEW o \in Mutation, drop_mutation(o) PROVE IInv'
  OBVIOUS
<1> DEFINE gone == Doomed({o})
<1>1. o \in Unsent /\ {o} \in SUBSET queued
  BY DEF drop_mutation, Droppable, Unsent
<1>2. /\ o \in gone /\ gone \subseteq queued
      /\ \A q \in queued : lifecycle[q] \cap gone # {} => q \in gone
      /\ gone \cap in_flight = {}
  BY <1>1, DoomedClosure DEF IInv, Unsent, in_flight
<1>3. /\ status' = [p \in Mutation |-> IF p = o THEN "dropped"
                                       ELSE IF p \in gone THEN "orphaned" ELSE status[p]]
      /\ push' = [p \in Mutation |-> IF p \in gone THEN 0 ELSE push[p]]
      /\ UNCHANGED <<lifecycle, sequence, nextOrdinal, nextPush, lastCompleted, requests, receipts, claim, tx, log>>
  BY DEF drop_mutation, delete_mutations, depVars, serverVars
<1>4. queued' = queued \ gone
  BY <1>2, <1>3 DEF queued, TypeOK
<1>5. in_flight' = in_flight
  BY <1>2, <1>3, <1>4 DEF in_flight, queued
<1>6. \A p \in Mutation : p \notin gone => status'[p] = status[p] /\ push'[p] = push[p]
  BY <1>2, <1>3
<1>7. QueueInv'
  <2>1. \A p \in Mutation : p >= nextOrdinal => status'[p] = "none"
    BY <1>2, <1>6 DEF IInv, QueueInv, queued
  <2>2. \A p \in Mutation : status'[p] # "queued" => push'[p] = 0
    BY <1>3, <1>6 DEF IInv, QueueInv
  <2>3. ASSUME NEW p \in queued', NEW d \in lifecycle[p]
        PROVE  status'[d] \in {"queued", "accepted"}
    <3>1. p \in queued /\ d \notin gone /\ d \in Mutation
      BY <1>2, <1>4, <2>3 DEF queued, TypeOK
    <3> QED BY <3>1, <1>6 DEF IInv, QueueInv
  <2> QED BY <1>3, <2>1, <2>2, <2>3 DEF QueueInv
<1>8. FlightInv'
  BY <1>2, <1>3, <1>4, <1>5, <1>6 DEF IInv, FlightInv, in_flight, queued
<1>9. ClaimInv'
  BY <1>3, <1>5 DEF IInv, ClaimInv, Ran
<1>10. LogInv'
  <2>1. \A p \in gone : status[p] = "queued" /\ p \notin in_flight
    BY <1>2 DEF queued
  <2>2. \A p \in Ordinals(log) : p \in Mutation
    <3>1. \A i \in 1..Len(log) : log[i] \in Run
      BY DEF TypeOK
    <3> QED BY <3>1 DEF Ordinals, Run
  <2>3. \A p \in Ordinals(log) : p \notin gone
    BY <2>1 DEF IInv, LogInv
  <2>4. \A p \in Mutation : status'[p] \in {"accepted", "rejected"} => status'[p] = status[p]
    BY <1>3, <1>6
  <2>5. LifecycleOrder'
    BY <1>3 DEF IInv, LogInv, LifecycleOrder, Ordinals, Ran
  <2>6. ASSUME NEW p \in Ordinals(log')
        PROVE  \/ status'[p] \in {"accepted", "rejected"}
               \/ p \in in_flight' /\ claim'.sequence = lastCompleted' + 1
    <3>1. p \in Ordinals(log) /\ p \in Mutation /\ status'[p] = status[p]
      BY <1>3, <1>6, <2>2, <2>3, <2>6
    <3> QED BY <1>3, <1>5, <3>1 DEF IInv, LogInv
  <2>7. ASSUME NEW p \in Mutation, status'[p] \in {"accepted", "rejected"}
        PROVE  Ran(p, status[p])'
    <3>1. Ran(p, status[p]) /\ status'[p] = status[p]
      BY <2>4, <2>7 DEF IInv, LogInv
    <3> QED BY <1>3, <3>1 DEF Ran
  <2> QED BY <2>5, <2>6, <2>7 DEF LogInv
<1>11. MessageInv'
  BY <1>3, <1>5 DEF IInv, MessageInv, Sent, FrozenBatch, StableReceipt
<1>12. TxInv' /\ ExactlyOnce'
  BY <1>3 DEF IInv, TxInv, ExactlyOnce, Ordinals
<1> QED BY <1>7, <1>8, <1>9, <1>10, <1>11, <1>12 DEF IInv

\* Running prerequisites touches no row the invariant speaks of.
LEMMA PrerequisiteStep ==
  ASSUME IInv,
         UNCHANGED <<status, push, lifecycle, nextOrdinal, nextPush, lastCompleted,
                     requests, receipts, claim, tx, log>>
  PROVE  IInv'
<1>1. queued' = queued /\ in_flight' = in_flight
  BY DEF queued, in_flight
<1>2. QueueInv' /\ FlightInv' /\ ClaimInv'
  BY <1>1 DEF IInv, QueueInv, FlightInv, ClaimInv, Ran
<1>3. LogInv' /\ ExactlyOnce'
  BY <1>1 DEF IInv, LogInv, ExactlyOnce, LifecycleOrder, Ordinals, Ran
<1>4. MessageInv' /\ TxInv'
  BY <1>1 DEF IInv, MessageInv, Sent, FrozenBatch, StableReceipt, TxInv, Ordinals
<1> QED BY <1>2, <1>3, <1>4 DEF IInv

\* freeze numbers a batch when none is in flight: its members rest on nothing
\* queued, and no earlier request carries its number.
LEMMA FreezeStep == TypeOK /\ IInv /\ freeze => IInv'
<1> SUFFICES ASSUME TypeOK, IInv, freeze PROVE IInv'
  OBVIOUS
<1>1. PICK C \in Batch :
        /\ push' = [o \in Mutation |-> IF o \in C THEN nextPush ELSE push[o]]
        /\ requests' = requests \cup {[sequence |-> nextPush, mutations |-> C]}
  BY DEF freeze
<1>2. C \subseteq Unsent /\ C # {} /\ \A o \in C : lifecycle[o] \cap Unsent = {}
  BY <1>1 DEF Batch, Sendable
<1>3. /\ in_flight = {} /\ nextPush' = nextPush + 1
      /\ UNCHANGED <<status, lifecycle, nextOrdinal, lastCompleted, receipts, claim, tx, log>>
  BY DEF freeze, depVars, serverVars
<1>4. nextPush \in Nat \ {0} /\ lastCompleted \in Nat /\ claim.sequence \in Nat
  BY DEF TypeOK
<1>5. lastCompleted = nextPush - 1 /\ claim.sequence = lastCompleted
  BY <1>3 DEF IInv, FlightInv, ClaimInv
<1>6. Unsent = queued /\ queued' = queued
  BY <1>3 DEF Unsent, in_flight, queued
<1>7. in_flight' = C
  BY <1>1, <1>2, <1>3, <1>4, <1>6 DEF in_flight, queued
<1>8. QueueInv'
  BY <1>1, <1>2, <1>3, <1>6 DEF IInv, QueueInv, queued
<1>9. FlightInv'
  BY <1>1, <1>2, <1>3, <1>4, <1>5, <1>6, <1>7 DEF FlightInv, queued
<1>10. ClaimInv'
  BY <1>2, <1>3, <1>4, <1>5, <1>7 DEF IInv, ClaimInv
<1>11. LogInv'
  <2>1. \A o \in Ordinals(log) : status[o] \in {"accepted", "rejected"}
    BY <1>3 DEF IInv, LogInv
  <2> QED BY <1>3, <2>1 DEF IInv, LogInv, LifecycleOrder, Ordinals, Ran
<1>12. MessageInv'
  <2> DEFINE new == [sequence |-> nextPush, mutations |-> C]
  <2>1. Sent' = Sent \cup {new}
    BY <1>1, <1>3 DEF Sent
  <2>2. \A r \in Sent : r.sequence < nextPush /\ r.sequence \in Nat
    <3>1. \A t \in Tx : tx[t].request \in Request
      BY DEF TypeOK, TxState
    <3> QED BY <3>1 DEF IInv, MessageInv, Sent, TypeOK, Request
  <2>3. \A r \in Sent' : r.sequence < nextPush'
    BY <1>3, <1>4, <2>1, <2>2
  <2>4. FrozenBatch'
    BY <1>3, <1>4, <1>5, <1>7, <2>1, <2>2 DEF IInv, MessageInv, FrozenBatch
  <2> QED BY <1>3, <2>3, <2>4 DEF IInv, MessageInv, StableReceipt
<1>13. TxInv' /\ ExactlyOnce'
  BY <1>3 DEF IInv, TxInv, ExactlyOnce, Ordinals
<1> QED BY <1>8, <1>9, <1>10, <1>11, <1>12, <1>13 DEF IInv

\* Encoding the push in flight again yields the request already sent.
LEMMA EncodeStep == TypeOK /\ IInv /\ encode_push => IInv'
<1> SUFFICES ASSUME TypeOK, IInv, encode_push PROVE IInv'
  OBVIOUS
<1>1. PICK o \in in_flight : requests' = requests \cup {[sequence |-> push[o], mutations |-> Rows(push[o])]}
  BY DEF encode_push
<1>2. UNCHANGED <<status, push, lifecycle, nextOrdinal, nextPush, lastCompleted, receipts, claim, tx, log>>
  BY DEF encode_push, clientVars, serverVars
<1>3. nextPush \in Nat \ {0} /\ lastCompleted \in Nat /\ push[o] \in Nat \ {0}
  BY DEF TypeOK, in_flight, queued
<1>4. push[o] = nextPush - 1 /\ push[o] = lastCompleted + 1
  BY <1>1, <1>3 DEF IInv, FlightInv
<1>5. Rows(push[o]) = in_flight
  BY <1>3, <1>4 DEF Rows, in_flight, IInv, FlightInv
<1>6. queued' = queued /\ in_flight' = in_flight
  BY <1>2 DEF queued, in_flight
<1>7. QueueInv' /\ FlightInv' /\ ClaimInv'
  BY <1>2, <1>6 DEF IInv, QueueInv, FlightInv, ClaimInv, Ran
<1>8. LogInv' /\ ExactlyOnce' /\ TxInv'
  BY <1>2, <1>6 DEF IInv, LogInv, ExactlyOnce, LifecycleOrder, TxInv, Ordinals, Ran
<1>9. MessageInv'
  <2> DEFINE new == [sequence |-> push[o], mutations |-> in_flight]
  <2>1. Sent' = Sent \cup {new}
    BY <1>1, <1>2, <1>5 DEF Sent
  <2>2. new.sequence < nextPush
    BY <1>3, <1>4
  <2>3. \A r \in Sent : r \in Request
    <3>1. \A t \in Tx : tx[t].request \in Request
      BY DEF TypeOK, TxState
    <3> QED BY <3>1 DEF Sent, TypeOK
  <2>4. \A r \in Sent : r.sequence = new.sequence => r = new
    BY <1>4, <2>3 DEF IInv, MessageInv, FrozenBatch, Request
  <2>5. FrozenBatch'
    BY <1>2, <1>4, <1>6, <2>1, <2>4 DEF IInv, MessageInv, FrozenBatch
  <2> QED BY <1>2, <2>1, <2>2, <2>5 DEF IInv, MessageInv, StableReceipt
<1> QED BY <1>7, <1>8, <1>9 DEF IInv

\* The receipt that completes the push in flight is the one the server stored
\* for it, so what the client concludes is what was committed.
LEMMA AcknowledgeStep ==
  ASSUME TypeOK, IInv, NEW r \in receipts, acknowledge(r)
  PROVE  IInv'
<1> DEFINE gone == Doomed(r.rejected)
           accepted == in_flight \ r.rejected
<1>1. /\ r.sequence > lastCompleted
      /\ r.rejected \subseteq in_flight
      /\ \E o \in in_flight : push[o] = r.sequence
      /\ r.sequence \in Nat /\ lastCompleted \in Nat /\ nextPush \in Nat /\ claim.sequence \in Nat
  <2>1. r.sequence \in Nat /\ lastCompleted \in Nat /\ nextPush \in Nat /\ claim.sequence \in Nat
    BY DEF TypeOK, Receipt
  <2> QED BY <2>1 DEF acknowledge, Useless
<1>2. /\ r.sequence = lastCompleted + 1 /\ r.sequence = nextPush - 1
      /\ claim.sequence = r.sequence
  BY <1>1 DEF IInv, FlightInv, ClaimInv, MessageInv
<1>3. r = claim.receipt
  BY <1>2 DEF IInv, ClaimInv, MessageInv, StableReceipt
<1>4. \A o \in in_flight : Ran(o, IF o \in r.rejected THEN "rejected" ELSE "accepted")
  BY <1>2, <1>3 DEF IInv, ClaimInv
<1>5. in_flight \subseteq queued /\ r.rejected \in SUBSET queued /\ queued \subseteq Mutation
  BY <1>1 DEF in_flight, queued
<1>6. /\ r.rejected \subseteq gone /\ gone \subseteq queued
      /\ \A q \in queued : lifecycle[q] \cap gone # {} => q \in gone
      /\ gone \cap in_flight \subseteq r.rejected
  BY <1>5, DoomedClosure DEF IInv
<1>7. /\ status' = [o \in Mutation |-> IF o \in r.rejected THEN "rejected"
                                       ELSE IF o \in gone THEN "orphaned"
                                       ELSE IF o \in accepted THEN "accepted" ELSE status[o]]
      /\ push' = [o \in Mutation |-> IF o \in gone \cup accepted THEN 0 ELSE push[o]]
      /\ lastCompleted' = r.sequence
      /\ UNCHANGED <<lifecycle, nextOrdinal, nextPush, requests, receipts, claim, tx, log>>
  BY DEF acknowledge, delete_mutations, depVars, serverVars
<1>8. \A o \in Mutation : o \notin gone \cup in_flight => status'[o] = status[o] /\ push'[o] = push[o]
  BY <1>5, <1>6, <1>7
<1>9. \A o \in in_flight : status'[o] = IF o \in r.rejected THEN "rejected" ELSE "accepted"
  BY <1>5, <1>6, <1>7
<1>10. queued' = queued \ (gone \cup in_flight)
  BY <1>5, <1>6, <1>7, <1>8, <1>9 DEF queued
<1>11. in_flight' = {}
  BY <1>8, <1>10 DEF in_flight, queued
<1>12. QueueInv'
  <2>1. \A o \in Mutation : o >= nextOrdinal => status'[o] = "none"
    BY <1>5, <1>6, <1>8 DEF IInv, QueueInv, queued
  <2>2. \A o \in Mutation : status'[o] # "queued" => push'[o] = 0
    <3> SUFFICES ASSUME NEW o \in Mutation, status'[o] # "queued" PROVE push'[o] = 0
      OBVIOUS
    <3>1. CASE o \in gone \cup in_flight
      BY <3>1, <1>6, <1>7
    <3>2. CASE o \notin gone \cup in_flight
      BY <3>2, <1>8 DEF IInv, QueueInv
    <3> QED BY <3>1, <3>2
  <2>3. ASSUME NEW p \in queued', NEW d \in lifecycle[p]
        PROVE  status'[d] \in {"queued", "accepted"}
    <3>1. p \in queued /\ d \notin gone /\ d \in Mutation
      BY <1>5, <1>6, <1>10, <2>3 DEF TypeOK
    <3>2. CASE d \in in_flight
      BY <3>1, <3>2, <1>6, <1>9
    <3>3. CASE d \notin in_flight
      BY <3>1, <3>3, <1>8 DEF IInv, QueueInv
    <3> QED BY <3>2, <3>3
  <2> QED BY <1>7, <2>1, <2>2, <2>3 DEF QueueInv
<1>13. FlightInv' /\ ClaimInv'
  BY <1>1, <1>2, <1>3, <1>7, <1>11 DEF IInv, FlightInv, ClaimInv
<1>14. LogInv'
  <2>1. \A o \in Ordinals(log) : o \in Mutation
    <3>1. \A i \in 1..Len(log) : log[i] \in Run
      BY DEF TypeOK
    <3> QED BY <3>1 DEF Ordinals, Run
  <2>2. \A o \in Ordinals(log) : status'[o] \in {"accepted", "rejected"}
    <3> SUFFICES ASSUME NEW o \in Ordinals(log) PROVE status'[o] \in {"accepted", "rejected"}
      OBVIOUS
    <3>1. CASE o \in in_flight
      BY <3>1, <1>9
    <3>2. CASE o \notin in_flight
      <4>1. status[o] \in {"accepted", "rejected"}
        BY <3>2 DEF IInv, LogInv
      <4>2. o \notin gone
        BY <4>1, <1>6 DEF queued
      <4> QED BY <3>2, <4>1, <4>2, <2>1, <1>8
    <3> QED BY <3>1, <3>2
  <2>3. \A o \in Mutation : status'[o] \in {"accepted", "rejected"} => Ran(o, status'[o])
    <3> SUFFICES ASSUME NEW o \in Mutation, status'[o] \in {"accepted", "rejected"}
                 PROVE  Ran(o, status'[o])
      OBVIOUS
    <3>1. CASE o \in in_flight
      BY <3>1, <1>4, <1>9
    <3>2. CASE o \notin in_flight
      <4>1. o \notin gone
        BY <3>2, <1>1, <1>7
      <4> QED BY <3>2, <4>1, <1>8 DEF IInv, LogInv
    <3> QED BY <3>1, <3>2
  <2>4. LifecycleOrder'
    BY <1>7 DEF IInv, LogInv, LifecycleOrder, Ordinals, Ran
  <2>5. log' = log
    BY <1>7
  <2>6. \A o \in Mutation : status'[o] \in {"accepted", "rejected"} => Ran(o, status[o])'
    BY <2>3, <2>5 DEF Ran
  <2> QED BY <2>2, <2>4, <2>5, <2>6 DEF LogInv
<1>15. MessageInv'
  <2>1. \A q \in Sent : q.sequence < nextPush /\ q.sequence \in Nat
    <3>1. \A t \in Tx : tx[t].request \in Request
      BY DEF TypeOK, TxState
    <3> QED BY <3>1 DEF IInv, MessageInv, Sent, TypeOK, Request
  <2>2. FrozenBatch'
    BY <1>1, <1>2, <1>7, <2>1 DEF IInv, MessageInv, FrozenBatch, Sent
  <2> QED BY <1>7, <2>2 DEF IInv, MessageInv, Sent, StableReceipt
<1>16. TxInv' /\ ExactlyOnce'
  BY <1>7 DEF IInv, TxInv, ExactlyOnce, Ordinals
<1> QED BY <1>12, <1>13, <1>14, <1>15, <1>16 DEF IInv

\* Losing messages, or throwing away a useless receipt, only shrinks what is
\* in transit.
LEMMA LossStep ==
  ASSUME IInv, requests' \subseteq requests, receipts' \subseteq receipts,
         UNCHANGED <<clientVars, serverVars>>
  PROVE  IInv'
<1> USE DEF clientVars, serverVars
<1>1. queued' = queued /\ in_flight' = in_flight
  BY DEF queued, in_flight
<1>2. QueueInv' /\ FlightInv' /\ ClaimInv'
  BY <1>1 DEF IInv, QueueInv, FlightInv, ClaimInv, Ran
<1>3. LogInv' /\ ExactlyOnce' /\ TxInv'
  BY <1>1 DEF IInv, LogInv, ExactlyOnce, LifecycleOrder, TxInv, Ordinals, Ran
<1>4. Sent' \subseteq Sent
  BY DEF Sent
<1>5. MessageInv'
  BY <1>1, <1>4 DEF IInv, MessageInv, FrozenBatch, StableReceipt
<1> QED BY <1>2, <1>3, <1>5 DEF IInv

---------------------------------------------------------------------------
(* The steps of the server *)

\* A step of a transaction that commits nothing can disturb only TxInv; all it
\* may send is the stored receipt.
LEMMA TxFrame ==
  ASSUME TypeOK, IInv, TxInv', Sent' \subseteq Sent,
         receipts' \subseteq receipts \cup {claim.receipt},
         UNCHANGED <<clientVars, requests, claim, log>>
  PROVE  IInv'
<1> USE DEF clientVars
<1>1. queued' = queued /\ in_flight' = in_flight
  BY DEF queued, in_flight
<1>2. QueueInv' /\ FlightInv' /\ ClaimInv'
  BY <1>1 DEF IInv, QueueInv, FlightInv, ClaimInv, Ran
<1>3. LogInv' /\ ExactlyOnce'
  BY <1>1 DEF IInv, LogInv, ExactlyOnce, LifecycleOrder, Ordinals, Ran
<1>4. claim.receipt.sequence <= claim.sequence
  BY DEF IInv, ClaimInv, TypeOK
<1>5. MessageInv'
  BY <1>1, <1>4 DEF IInv, MessageInv, FrozenBatch, StableReceipt
<1> QED BY <1>2, <1>3, <1>5 DEF IInv

\* Opening, retrying, refusing, answering from storage and rolling back.
LEMMA IdleTxStep ==
  ASSUME TypeOK, IInv, NEW t \in Tx,
         (\E r \in requests : begin(t, r)) \/ retry(t) \/ answer_stored(t) \/ refuse(t) \/ abort(t)
  PROVE  IInv'
<1>1. CASE \E r \in requests : begin(t, r)
  <2>1. PICK r \in requests : begin(t, r)
    BY <1>1
  <2>2. tx' = [tx EXCEPT ![t] = [phase |-> "begun", request |-> r,
                                 snapshot |-> claim.sequence, work |-> <<>>]]
    BY <2>1 DEF begin
  <2>3. \A u \in Tx \ {t} : tx'[u] = tx[u]
    BY <2>2 DEF TypeOK
  <2>4. tx'[t].phase = "begun" /\ tx'[t].request = r /\ tx'[t].work = <<>>
    BY <2>2 DEF TypeOK
  <2>5. Sent' \subseteq Sent
    BY <2>1, <2>3, <2>4 DEF Sent, begin
  <2>6. TxInv'
    BY <2>1, <2>3, <2>4 DEF IInv, TxInv, begin, Ordinals
  <2> QED BY <2>1, <2>5, <2>6, TxFrame DEF begin
<1>2. CASE retry(t)
  <2>1. tx' = [tx EXCEPT ![t].snapshot = claim.sequence] /\ tx[t].phase = "begun"
    BY <1>2 DEF retry
  <2>2. \A u \in Tx : /\ tx'[u].phase = tx[u].phase /\ tx'[u].request = tx[u].request
                      /\ tx'[u].work = tx[u].work
    BY <2>1 DEF TypeOK, TxState
  <2>3. Sent' \subseteq Sent
    BY <1>2, <2>2 DEF Sent, retry
  <2>4. TxInv'
    BY <1>2, <2>2 DEF IInv, TxInv, retry, Ordinals
  <2> QED BY <1>2, <2>3, <2>4, TxFrame DEF retry
<1>3. CASE answer_stored(t) \/ refuse(t) \/ abort(t)
  <2>1. /\ tx' = [tx EXCEPT ![t] = NoTx]
        /\ UNCHANGED <<clientVars, requests, claim, log>>
        /\ receipts' \subseteq receipts \cup {claim.receipt}
    BY <1>3 DEF answer_stored, refuse, abort
  <2>2. \A u \in Tx \ {t} : tx'[u] = tx[u]
    BY <2>1 DEF TypeOK
  <2>3. tx'[t].phase = "idle" /\ tx'[t].work = <<>>
    BY <2>1 DEF TypeOK, NoTx
  <2>4. Sent' \subseteq Sent
    BY <2>1, <2>2, <2>3 DEF Sent
  <2>5. TxInv'
    BY <2>1, <2>2, <2>3 DEF IInv, TxInv, Ordinals
  <2> QED BY <2>1, <2>4, <2>5, TxFrame
<1> QED BY <1>1, <1>2, <1>3

\* Taking the row: no other transaction runs.
LEMMA TakeStep ==
  ASSUME TypeOK, IInv, NEW t \in Tx, take(t)
  PROVE  IInv'
<1>1. tx' = [tx EXCEPT ![t].phase = "running"] /\ tx[t].phase = "begun"
  BY DEF take, Claims
<1>2. \A u \in Tx \ {t} : tx'[u] = tx[u] /\ tx[u].phase # "running"
  BY <1>1 DEF TypeOK, take, Claims, RowFree
<1>3. tx'[t].phase = "running" /\ tx'[t].request = tx[t].request /\ tx'[t].work = <<>>
  BY <1>1 DEF TypeOK, TxState, IInv, TxInv
<1>4. Sent' \subseteq Sent
  BY <1>1, <1>2, <1>3 DEF Sent, take
<1>5. Ordinals(tx'[t].work) = {} /\ 1..Len(tx'[t].work) = {}
  BY <1>3 DEF Ordinals
<1>6. UNCHANGED <<clientVars, requests, receipts, claim, log>>
  BY DEF take
<1>7. TxInv'
  <2>1. \A u, v \in Tx : tx'[u].phase = "running" /\ tx'[v].phase = "running" => u = v
    BY <1>2
  <2>2. \A u \in Tx : tx'[u].phase # "running" => tx'[u].work = <<>>
    BY <1>2, <1>3 DEF IInv, TxInv
  <2>3. tx'[t].request.sequence = claim'.sequence + 1
    BY <1>3, <1>6 DEF take, IsNext
  <2>4. \A u \in Tx : tx'[u].phase = "running" => u = t
    BY <1>2
  <2> QED BY <1>5, <2>1, <2>2, <2>3, <2>4 DEF TxInv, Ordinals
<1> QED BY <1>4, <1>6, <1>7, TxFrame

\* Running one more mutation of the request, not run before.
LEMMA HandleStep ==
  ASSUME TypeOK, IInv, NEW t \in Tx, handle(t)
  PROVE  IInv'
<1> DEFINE w == tx[t].work
<1>1. PICK o \in Left(t), v \in {"accepted", "rejected"} :
        tx' = [tx EXCEPT ![t].work = Append(@, [ordinal |-> o, verdict |-> v])]
  BY DEF handle
<1> DEFINE x == [ordinal |-> o, verdict |-> v]
<1>2. tx[t].phase = "running" /\ UNCHANGED <<clientVars, requests, receipts, claim, log>>
  BY DEF handle
<1>3. w \in Seq(Run) /\ x \in Run /\ x.ordinal = o
  BY DEF TypeOK, TxState, Request, Left, Run
<1>4. o \in tx[t].request.mutations /\ o \notin Ordinals(w)
  BY DEF Left
<1>5. \A u \in Tx \ {t} : tx'[u] = tx[u]
  BY <1>1 DEF TypeOK
<1>6. tx'[t].phase = "running" /\ tx'[t].request = tx[t].request /\ tx'[t].work = Append(w, x)
  BY <1>1, <1>2 DEF TypeOK, TxState
<1>7. Sent' \subseteq Sent
  BY <1>2, <1>5, <1>6 DEF Sent
<1>8. Ordinals(tx'[t].work) = Ordinals(w) \cup {o}
  BY <1>3, <1>6, AppendRun
<1>9. \A i, j \in 1..Len(tx'[t].work) :
        tx'[t].work[i].ordinal = tx'[t].work[j].ordinal => i = j
  <2> DEFINE w2 == Append(w, x)
  <2>1. /\ Len(w2) = Len(w) + 1 /\ w2[Len(w) + 1] = x /\ Len(w) \in Nat
        /\ \A i \in 1..Len(w) : w2[i] = w[i]
    BY <1>3, AppendRun
  <2>2. \A i \in 1..Len(w) : w2[i].ordinal # o /\ w2[i].ordinal = w[i].ordinal
    BY <1>4, <2>1 DEF Ordinals
  <2>3. \A i, j \in 1..Len(w) : w[i].ordinal = w[j].ordinal => i = j
    BY <1>2 DEF IInv, TxInv
  <2>4. \A i \in 1..Len(w2) : i \in 1..Len(w) \/ i = Len(w) + 1
    BY <2>1
  <2>5. w2[Len(w) + 1].ordinal = o
    BY <1>3, <2>1
  <2> HIDE DEF w2
  <2>6. \A i, j \in 1..Len(w2) : w2[i].ordinal = w2[j].ordinal => i = j
    BY <2>2, <2>3, <2>4, <2>5
  <2> QED BY <1>6, <2>6 DEF w2
<1>10. TxInv'
  <2>1. \A u \in Tx : u # t => tx'[u].phase # "running"
    BY <1>2, <1>5 DEF IInv, TxInv
  <2>2. \A u \in Tx : tx'[u].phase # "running" => tx'[u].work = <<>>
    BY <1>5, <1>6 DEF IInv, TxInv
  <2>3. /\ tx'[t].request.sequence = claim'.sequence + 1
        /\ Ordinals(tx'[t].work) \subseteq tx'[t].request.mutations
    BY <1>2, <1>4, <1>6, <1>8 DEF IInv, TxInv
  <2> QED BY <1>9, <2>1, <2>2, <2>3 DEF TxInv
<1> QED BY <1>2, <1>7, <1>10, TxFrame

\* Storing the receipt and committing: the request is the push in flight, it
\* has not run before, and its runs join the history with their receipt.
LEMMA SaveReceiptStep ==
  ASSUME TypeOK, IInv, NEW t \in Tx, save_receipt(t)
  PROVE  IInv'
<1> DEFINE w == tx[t].work
           seq == tx[t].request.sequence
           receipt == [sequence |-> seq, rejected |-> Rejections(w)]
<1>1. /\ tx[t].phase = "running" /\ Left(t) = {}
      /\ claim' = [sequence |-> seq, receipt |-> receipt]
      /\ receipts' = receipts \cup {receipt}
      /\ log' = log \o w
      /\ tx' = [tx EXCEPT ![t] = NoTx]
      /\ UNCHANGED <<clientVars, requests>>
  BY DEF save_receipt
<1>2. /\ w \in Seq(Run) /\ log \in Seq(Run) /\ seq \in Nat /\ claim.sequence \in Nat
      /\ nextPush \in Nat /\ lastCompleted \in Nat
  BY DEF TypeOK, TxState, Request
<1>3. /\ seq = claim.sequence + 1 /\ Ordinals(w) = tx[t].request.mutations
      /\ \A i, j \in 1..Len(w) : w[i].ordinal = w[j].ordinal => i = j
  BY <1>1 DEF IInv, TxInv, Left
<1>4. tx[t].request \in Sent
  BY <1>1 DEF Sent
<1>5. /\ in_flight # {} /\ claim.sequence = lastCompleted
      /\ lastCompleted = nextPush - 2 /\ seq = lastCompleted + 1
  BY <1>2, <1>3, <1>4 DEF IInv, MessageInv, FlightInv, ClaimInv
<1>6. tx[t].request.mutations = in_flight
  BY <1>4, <1>5 DEF IInv, MessageInv, FrozenBatch
<1>7. /\ queued' = queued /\ in_flight' = in_flight
      /\ UNCHANGED <<status, push, lifecycle, nextOrdinal, nextPush, lastCompleted>>
  BY <1>1 DEF queued, in_flight, clientVars
<1>8. /\ \A i \in 1..Len(log) : log'[i] = log[i] /\ i \in 1..Len(log')
      /\ \A i \in 1..Len(w) : log'[Len(log) + i] = w[i] /\ Len(log) + i \in 1..Len(log')
      /\ \A i \in 1..Len(log') :
           \/ i \in 1..Len(log) /\ log'[i] = log[i]
           \/ i - Len(log) \in 1..Len(w) /\ log'[i] = w[i - Len(log)]
      /\ Len(log) \in Nat /\ Len(w) \in Nat /\ Len(log') \in Nat
  BY <1>1, <1>2, AppendRuns
<1>9. \A o \in Ordinals(log) : o \notin in_flight
  <2>1. claim.sequence # lastCompleted + 1
    BY <1>2, <1>5
  <2> QED BY <2>1 DEF IInv, LogInv, in_flight, queued
<1>10. Ordinals(log') = Ordinals(log) \cup in_flight
  <2>1. Ordinals(log') \subseteq Ordinals(log) \cup Ordinals(w)
    <3> SUFFICES ASSUME NEW i \in 1..Len(log')
                 PROVE  log'[i].ordinal \in Ordinals(log) \cup Ordinals(w)
      BY DEF Ordinals
    <3>1. CASE i \in 1..Len(log) /\ log'[i] = log[i]
      BY <3>1 DEF Ordinals
    <3>2. CASE i - Len(log) \in 1..Len(w) /\ log'[i] = w[i - Len(log)]
      BY <3>2 DEF Ordinals
    <3> QED BY <1>8, <3>1, <3>2
  <2>2. Ordinals(log) \subseteq Ordinals(log')
    BY <1>8 DEF Ordinals
  <2>3. ASSUME NEW o \in Ordinals(w) PROVE o \in Ordinals(log')
    <3>1. PICK i \in 1..Len(w) : w[i].ordinal = o
      BY <2>3 DEF Ordinals
    <3>2. Len(log) + i \in 1..Len(log') /\ log'[Len(log) + i].ordinal = o
      BY <1>8, <3>1
    <3> QED BY <3>2 DEF Ordinals
  <2> QED BY <2>1, <2>2, <2>3, <1>3, <1>6
<1>11. \A o, v : Ran(o, v) => Ran(o, v)'
  BY <1>8 DEF Ran
<1>0. PICK R : R = Rejections(w)
  OBVIOUS
<1>12. ASSUME NEW o \in in_flight
       PROVE  Ran(o, IF o \in R THEN "rejected" ELSE "accepted")'
  <2>1. PICK i \in 1..Len(w) : w[i].ordinal = o
    BY <1>3, <1>6 DEF Ordinals
  <2>2. w[i] \in Run
    BY <1>2
  <2>3. o \in R <=> w[i].verdict = "rejected"
    BY <1>0, <1>3, <2>1 DEF Rejections
  <2>4. w[i] = [ordinal |-> o, verdict |-> IF o \in R THEN "rejected" ELSE "accepted"]
    BY <2>1, <2>2, <2>3 DEF Run
  <2>5. log'[Len(log) + i] = w[i] /\ Len(log) + i \in 1..Len(log')
    BY <1>8
  <2> QED BY <2>4, <2>5 DEF Ran
<1>13. R \subseteq in_flight /\ claim'.receipt.rejected = R /\ claim'.receipt.sequence = seq
  BY <1>0, <1>1, <1>3, <1>6 DEF Rejections, Ordinals
<1>14. QueueInv' /\ FlightInv'
  BY <1>7 DEF IInv, QueueInv, FlightInv
<1>15. ClaimInv'
  <2>1. claim'.sequence = seq /\ claim'.receipt.sequence = claim'.sequence
    BY <1>1, <1>13
  <2>2. claim'.sequence = lastCompleted' + 1 /\ in_flight' # {}
    BY <1>5, <1>7, <2>1
  <2>3. \A o \in in_flight' :
          Ran(o, IF o \in claim.receipt.rejected THEN "rejected" ELSE "accepted")'
    BY <1>7, <1>12, <1>13
  <2> QED BY <1>7, <1>13, <2>1, <2>2, <2>3 DEF ClaimInv
<1>16. LogInv'
  <2>1. \A o \in Ordinals(log') : status[o] \in {"accepted", "rejected"} \/ o \in in_flight
    BY <1>10 DEF IInv, LogInv
  <2>2. claim'.sequence = lastCompleted + 1
    BY <1>1, <1>5
  <2>3. \A o \in Mutation : status[o] \in {"accepted", "rejected"} => Ran(o, status[o])'
    BY <1>7, <1>11 DEF IInv, LogInv
  <2>4. ASSUME NEW o \in Ordinals(log'), NEW d \in lifecycle[o] PROVE Ran(d, "accepted")'
    <3>1. CASE o \in Ordinals(log)
      BY <3>1, <2>4, <1>11 DEF IInv, LogInv, LifecycleOrder
    <3>2. CASE o \in in_flight
      <4>1. o \in queued /\ d \notin queued /\ d \in Mutation
        BY <3>2, <2>4 DEF IInv, FlightInv, in_flight, queued, TypeOK
      <4>2. status[d] = "accepted"
        BY <4>1, <2>4 DEF IInv, QueueInv, queued
      <4> QED BY <4>1, <4>2, <1>11 DEF IInv, LogInv
    <3> QED BY <3>1, <3>2, <1>10
  <2>5. LifecycleOrder'
    BY <1>7, <2>4 DEF LifecycleOrder
  <2> QED BY <1>7, <2>1, <2>2, <2>3, <2>5 DEF LogInv
<1>17. ExactlyOnce'
  <2> SUFFICES ASSUME NEW i \in 1..Len(log'), NEW j \in 1..Len(log'),
                      log'[i].ordinal = log'[j].ordinal
               PROVE  i = j
    BY DEF ExactlyOnce
  <2>1. \A k \in 1..Len(w) : w[k].ordinal \in in_flight
    BY <1>3, <1>6 DEF Ordinals
  <2>2. \A k \in 1..Len(log) : log[k].ordinal \notin in_flight
    BY <1>9 DEF Ordinals
  <2>3. CASE i \in 1..Len(log) /\ log'[i] = log[i]
    <3>1. CASE j \in 1..Len(log) /\ log'[j] = log[j]
      BY <2>3, <3>1 DEF IInv, ExactlyOnce
    <3>2. CASE j - Len(log) \in 1..Len(w) /\ log'[j] = w[j - Len(log)]
      <4>1. log'[j].ordinal \in in_flight /\ log'[i].ordinal \notin in_flight
        BY <2>1, <2>2, <2>3, <3>2
      <4> QED BY <4>1
    <3> QED BY <1>8, <3>1, <3>2
  <2>4. CASE i - Len(log) \in 1..Len(w) /\ log'[i] = w[i - Len(log)]
    <3>3. log'[i].ordinal \in in_flight
      BY <2>1, <2>4
    <3>4. ~ (j \in 1..Len(log) /\ log'[j] = log[j])
      BY <2>2, <3>3
    <3>1. j - Len(log) \in 1..Len(w) /\ log'[j] = w[j - Len(log)]
      BY <1>8, <3>4
    <3>2. i - Len(log) = j - Len(log)
      BY <1>3, <2>4, <3>1
    <3> QED BY <1>8, <3>2
  <2> QED BY <1>8, <2>3, <2>4
<1>18. MessageInv'
  <2>1. \A u \in Tx \ {t} : tx'[u] = tx[u]
    BY <1>1 DEF TypeOK
  <2>2. tx'[t].phase = "idle"
    BY <1>1 DEF TypeOK, NoTx
  <2>3. Sent' \subseteq Sent
    BY <1>1, <2>1, <2>2 DEF Sent
  <2>4. FrozenBatch'
    BY <1>7, <2>3 DEF IInv, MessageInv, FrozenBatch
  <2>5. \A r \in receipts \cup {claim.receipt} : r.sequence <= claim.sequence
    BY <1>2 DEF IInv, MessageInv, ClaimInv
  <2>6. \A r \in receipts : r.sequence \in Nat
    BY DEF TypeOK, Receipt
  <2>7. \A r \in receipts : r.sequence < receipt.sequence
    BY <1>2, <1>3, <2>5, <2>6
  <2>8. StableReceipt'
    <3>1. receipts' \cup {claim'.receipt} = receipts \cup {receipt}
      BY <1>1
    <3>2. \A r \in receipts : r.sequence # receipt.sequence
      BY <2>6, <2>7, <1>2
    <3>3. \A r, q \in receipts : r.sequence = q.sequence => r = q
      BY DEF IInv, MessageInv, StableReceipt
    <3>4. \A r, q \in receipts \cup {receipt} : r.sequence = q.sequence => r = q
      BY <3>2, <3>3
    <3> QED BY <3>1, <3>4 DEF StableReceipt
  <2>9. \A r \in receipts' : r.sequence <= claim'.sequence
    BY <1>1, <1>2, <2>6, <2>7
  <2> QED BY <1>7, <2>3, <2>4, <2>8, <2>9 DEF IInv, MessageInv
<1>19. TxInv'
  <2>1. \A u \in Tx \ {t} : tx'[u] = tx[u] /\ tx[u].phase # "running"
    BY <1>1 DEF TypeOK, IInv, TxInv
  <2>2. tx'[t].phase = "idle" /\ tx'[t].work = <<>>
    BY <1>1 DEF TypeOK, NoTx
  <2> QED BY <2>1, <2>2 DEF IInv, TxInv
<1> QED BY <1>14, <1>15, <1>16, <1>17, <1>18, <1>19 DEF IInv

---------------------------------------------------------------------------
(* The theorems *)

\* The invariant holds in every reachable state.
THEOREM Inductive == Spec => []IInv
<1>1. Init => IInv
  <2> SUFFICES ASSUME Init PROVE IInv
    OBVIOUS
  <2> USE DEF Init
  <2>1. queued = {} /\ in_flight = {}
    BY DEF queued, in_flight
  <2>2. Sent = {}
    BY DEF Sent, NoTx
  <2>3. Ordinals(log) = {} /\ 1..Len(log) = {}
    BY DEF Ordinals
  <2>4. QueueInv /\ FlightInv /\ ClaimInv
    BY <2>1 DEF QueueInv, FlightInv, ClaimInv, NoReceipt
  <2>5. LogInv /\ ExactlyOnce
    BY <2>3 DEF LogInv, LifecycleOrder, ExactlyOnce
  <2>6. MessageInv /\ TxInv
    BY <2>2 DEF MessageInv, FrozenBatch, StableReceipt, TxInv, NoTx
  <2> QED BY <2>4, <2>5, <2>6 DEF IInv
<1>2. TypeOK /\ IInv /\ [Next]_vars => IInv'
  <2> SUFFICES ASSUME TypeOK, IInv, [Next]_vars PROVE IInv'
    OBVIOUS
  <2>1. CASE ClientNext
    <3>1. ASSUME NEW k \in Key, resolve_prerequisite(k) \/ fail_prerequisite(k) \/ reset_prerequisite(k)
          PROVE  IInv'
      BY <3>1, PrerequisiteStep
         DEF resolve_prerequisite, fail_prerequisite, reset_prerequisite, depVars, serverVars
    <3>2. ASSUME NEW r \in receipts, ignore_receipt(r) PROVE IInv'
      BY <3>2, LossStep DEF ignore_receipt
    <3> QED BY <2>1, <3>1, <3>2, EnqueueStep, FreezeStep, EncodeStep, DropStep, AcknowledgeStep
               DEF ClientNext
  <2>2. CASE NetworkNext
    BY <2>2, LossStep DEF NetworkNext, LoseRequest, LoseReceipt
  <2>3. CASE ServerNext
    BY <2>3, IdleTxStep, TakeStep, HandleStep, SaveReceiptStep DEF ServerNext
  <2>4. CASE UNCHANGED vars
    BY <2>4, LossStep DEF vars
  <2> QED BY <2>1, <2>2, <2>3, <2>4 DEF Next
<1> QED
  BY <1>1, <1>2, TypeCorrect, PTL DEF Spec

\* No mutation's handler is committed twice, however often its batch is
\* delivered, to however many transactions at once.
THEOREM RunsAtMostOnce == Spec => []ExactlyOnce
<1>1. IInv => ExactlyOnce
  BY DEF IInv
<1> QED BY <1>1, Inductive, PTL

\* What the client concludes about a mutation is what the server did with it.
THEOREM OutcomesAgree == Spec => []OutcomeAgreement
<1>1. TypeOK /\ IInv => OutcomeAgreement
  <2> SUFFICES ASSUME TypeOK, IInv, NEW o \in Mutation
               PROVE  /\ status[o] \in {"accepted", "rejected"} => Ran(o, status[o])
                      /\ status[o] \in {"none", "dropped", "orphaned"} => o \notin Ordinals(log)
    BY DEF OutcomeAgreement
  <2> QED BY DEF IInv, LogInv, in_flight, queued
<1> QED BY <1>1, Inductive, TypeCorrect, PTL

\* A retry is never refused, and a push number is never reused.
THEOREM AlwaysServed == Spec => []NeverWedged
<1>1. TypeOK /\ IInv => NeverWedged
  <2> SUFFICES ASSUME TypeOK, IInv PROVE NeverWedged
    OBVIOUS
  <2>1. nextPush \in Nat /\ lastCompleted \in Nat
    BY DEF TypeOK
  <2>2. \A o \in in_flight : push[o] = lastCompleted + 1
    BY <2>1 DEF IInv, FlightInv
  <2> QED BY <2>2 DEF NeverWedged, IInv, ClaimInv
<1> QED BY <1>1, Inductive, TypeCorrect, PTL

\* Requests with equal numbers are equal, and the one that carries the number
\* of the push in flight carries exactly the push in flight.
THEOREM RetriesRepeat == Spec => []FrozenBatch
<1>1. IInv => FrozenBatch
  BY DEF IInv, MessageInv
<1> QED BY <1>1, Inductive, PTL

\* A push number is answered with one receipt, whichever copy of the request
\* is answered and whether it was run or answered from storage.
THEOREM ReceiptsRepeat == Spec => []StableReceipt
<1>1. IInv => StableReceipt
  BY DEF IInv, MessageInv
<1> QED BY <1>1, Inductive, PTL

\* Nothing the server ran rested, by its lifecycle dependencies, on a mutation
\* that was not accepted: freeze keeps it back, and a rejection removes it.
THEOREM CausesAccepted == Spec => []LifecycleOrder
<1>1. IInv => LifecycleOrder
  BY DEF IInv, LogInv
<1> QED BY <1>1, Inductive, PTL

---------------------------------------------------------------------------
(* Declared order *)

\* What keeps the declared order: enqueue takes sequence dependencies from
\* earlier mutations, freeze sends none ahead of them, and the transaction that
\* runs a batch does so in ordinal order.
OrderInv ==
  /\ \A o \in Mutation : \A d \in sequence[o] : d < o /\ status[d] # "none"
  /\ \A o \in in_flight : sequence[o] \cap Unsent = {}
  /\ \A t \in Tx : tx[t].phase = "running" =>
       /\ \A i, j \in 1..Len(tx[t].work) :
            i < j => tx[t].work[i].ordinal < tx[t].work[j].ordinal
       /\ \A o \in Left(t) : \A p \in Ordinals(tx[t].work) : p < o
  /\ SequenceOrder

\* A client step that leaves the sequence table, the transactions and the
\* history alone keeps the order if it brings no mutation back into the queue
\* and sends nothing ahead of its sequence dependencies.
LEMMA OrderFrame ==
  ASSUME TypeOK, OrderInv, UNCHANGED <<sequence, tx, log>>,
         \A o \in Mutation : status[o] # "none" => status'[o] # "none",
         \A o \in Mutation : status[o] \in {"dropped", "orphaned"} => status'[o] = status[o],
         \A o \in in_flight' : sequence[o] \cap Unsent' = {}
  PROVE  OrderInv'
<1>1. \A o \in Mutation : \A d \in sequence[o] : d \in Mutation
  BY DEF TypeOK
<1>2. \A i \in 1..Len(log) : log[i].ordinal \in Mutation
  <2>1. \A i \in 1..Len(log) : log[i] \in Run
    BY DEF TypeOK
  <2> QED BY <2>1 DEF Run
<1>3. SequenceOrder'
  BY <1>1, <1>2 DEF OrderInv, SequenceOrder
<1> QED BY <1>1, <1>3 DEF OrderInv, Left, Ordinals

\* A step of one transaction that commits nothing keeps the order if that
\* transaction's work stays in order.
LEMMA OrderTxFrame ==
  ASSUME TypeOK, OrderInv, NEW t \in Tx,
         UNCHANGED <<clientVars, log>>,
         \A u \in Tx \ {t} : tx'[u] = tx[u],
         tx'[t].phase = "running" =>
           /\ \A i, j \in 1..Len(tx'[t].work) :
                i < j => tx'[t].work[i].ordinal < tx'[t].work[j].ordinal
           /\ \A o \in Left(t)' : \A p \in Ordinals(tx'[t].work) : p < o
  PROVE  OrderInv'
<1> USE DEF clientVars, depVars
<1>1. in_flight' = in_flight /\ Unsent' = Unsent
  BY DEF in_flight, Unsent, queued
<1>2. SequenceOrder'
  BY DEF OrderInv, SequenceOrder
<1>3. \A u \in Tx \ {t} : Left(u)' = Left(u)
  BY DEF Left
<1>4. \A u \in Tx : tx'[u].phase = "running" =>
        /\ \A i, j \in 1..Len(tx'[u].work) :
             i < j => tx'[u].work[i].ordinal < tx'[u].work[j].ordinal
        /\ \A o \in Left(u)' : \A p \in Ordinals(tx'[u].work) : p < o
  BY <1>3 DEF OrderInv
<1> QED BY <1>1, <1>2, <1>4 DEF OrderInv, Ordinals

\* enqueue appends the highest sequence of its client.
LEMMA EnqueueOrder == TypeOK /\ IInv /\ OrderInv /\ enqueue => OrderInv'
<1> SUFFICES ASSUME TypeOK, IInv, OrderInv, enqueue PROVE OrderInv'
  OBVIOUS
<1> DEFINE n == nextOrdinal
<1>1. n \in Mutation /\ n \in Nat /\ status[n] = "none" /\ push[n] = 0
  BY PushAssumption DEF enqueue, TypeOK, IInv, QueueInv, Mutation
<1>2. PICK S \in SUBSET queued : sequence' = [sequence EXCEPT ![n] = S]
  BY DEF enqueue
<1>3. status' = [status EXCEPT ![n] = "queued"] /\ UNCHANGED <<push, tx, log>>
  BY DEF enqueue, serverVars
<1>4. \A o \in Mutation \ {n} : status'[o] = status[o] /\ sequence'[o] = sequence[o]
  BY <1>2, <1>3 DEF TypeOK
<1>5. status'[n] = "queued" /\ sequence'[n] = S
  BY <1>1, <1>2, <1>3 DEF TypeOK
<1>6. \A d \in queued : d < n /\ d \in Mutation /\ d # n
  BY <1>1 DEF IInv, QueueInv, queued, Mutation
<1>7. \A o \in Mutation : \A d \in sequence[o] : d \in Mutation /\ d # n
  BY <1>1 DEF TypeOK, OrderInv
<1>8. ASSUME NEW o \in Mutation, NEW d \in sequence'[o]
      PROVE  d < o /\ status'[d] # "none"
  <2>1. CASE o = n
    BY <2>1, <1>5, <1>6, <1>4, <1>8 DEF queued
  <2>2. CASE o # n
    BY <2>2, <1>4, <1>7, <1>8 DEF OrderInv
  <2> QED BY <2>1, <2>2
<1>9. queued' = queued \cup {n} /\ n \notin queued
  BY <1>1, <1>4, <1>5 DEF queued
<1>10. in_flight' = in_flight /\ Unsent' = Unsent \cup {n}
  BY <1>1, <1>3, <1>9 DEF in_flight, Unsent
<1>11. \A o \in in_flight' : sequence'[o] \cap Unsent' = {}
  <2>1. \A o \in in_flight : o \in Mutation \ {n}
    BY <1>9 DEF in_flight, queued
  <2> QED BY <2>1, <1>4, <1>7, <1>10 DEF OrderInv
<1>12. SequenceOrder'
  <2>1. n \notin Ordinals(log)
    BY <1>1 DEF IInv, LogInv, in_flight, queued
  <2>2. \A i \in 1..Len(log) : log[i].ordinal \in Mutation \ {n}
    <3>1. \A i \in 1..Len(log) : log[i] \in Run
      BY DEF TypeOK
    <3> QED BY <2>1, <3>1 DEF Run, Ordinals
  <2>3. \A i \in 1..Len(log) : sequence'[log[i].ordinal] = sequence[log[i].ordinal]
    BY <2>2, <1>4
  <2>4. \A i \in 1..Len(log) : \A d \in sequence[log[i].ordinal] : status'[d] = status[d]
    BY <2>2, <1>4, <1>7
  <2> QED BY <1>3, <2>3, <2>4 DEF OrderInv, SequenceOrder
<1> QED BY <1>3, <1>8, <1>11, <1>12 DEF OrderInv, Left, Ordinals

\* Leaving the queue, by a drop or a receipt, sends nothing.
LEMMA LeaveOrder ==
  ASSUME TypeOK, IInv, OrderInv,
         (\E o \in Mutation : drop_mutation(o)) \/ (\E r \in receipts : acknowledge(r))
  PROVE  OrderInv'
<1>1. ASSUME NEW o \in Mutation, drop_mutation(o) PROVE OrderInv'
  <2>1. o \in Unsent /\ {o} \in SUBSET queued
    BY <1>1 DEF drop_mutation, Droppable, Unsent
  <2>2. o \in Doomed({o}) /\ Doomed({o}) \subseteq queued
    BY <2>1, DoomedClosure
  <2>3. /\ status' = [p \in Mutation |-> IF p = o THEN "dropped"
                         ELSE IF p \in Doomed({o}) THEN "orphaned" ELSE status[p]]
        /\ push' = [p \in Mutation |-> IF p \in Doomed({o}) THEN 0 ELSE push[p]]
        /\ UNCHANGED <<sequence, tx, log>>
    BY <1>1 DEF drop_mutation, delete_mutations, depVars, serverVars
  <2>4. /\ \A p \in Mutation : status[p] # "none" => status'[p] # "none"
        /\ \A p \in Mutation : status[p] \in {"dropped", "orphaned"} => status'[p] = status[p]
    BY <2>2, <2>3 DEF queued
  <2>5. queued' = queued \ Doomed({o})
    BY <2>2, <2>3 DEF queued, TypeOK
  <2>6. in_flight' \subseteq in_flight /\ Unsent' \subseteq Unsent
    BY <2>3, <2>5 DEF in_flight, Unsent, queued
  <2> QED BY <2>3, <2>4, <2>6, OrderFrame DEF OrderInv
<1>2. ASSUME NEW r \in receipts, acknowledge(r) PROVE OrderInv'
  <2> DEFINE gone == Doomed(r.rejected)
  <2>1. /\ r.rejected \subseteq in_flight /\ in_flight \subseteq queued
        /\ UNCHANGED <<sequence, tx, log>>
        /\ status' = [o \in Mutation |-> IF o \in r.rejected THEN "rejected"
                           ELSE IF o \in gone THEN "orphaned"
                           ELSE IF o \in in_flight \ r.rejected THEN "accepted" ELSE status[o]]
        /\ push' = [o \in Mutation |-> IF o \in gone \cup (in_flight \ r.rejected) THEN 0 ELSE push[o]]
    BY <1>2 DEF acknowledge, Useless, delete_mutations, depVars, serverVars, in_flight
  <2>2. r.rejected \subseteq gone /\ gone \subseteq queued
    BY <2>1, DoomedClosure
  <2>3. /\ \A p \in Mutation : status[p] # "none" => status'[p] # "none"
        /\ \A p \in Mutation : status[p] \in {"dropped", "orphaned"} => status'[p] = status[p]
    BY <2>1, <2>2 DEF queued
  <2>4. \A p \in Mutation : push'[p] \in {0, push[p]} /\ (p \in in_flight => push'[p] = 0)
    BY <2>1, <2>2
  <2>5. \A p \in Mutation : status'[p] = "queued" => status[p] = "queued"
    BY <2>1
  <2>6. in_flight' = {}
    BY <2>4, <2>5 DEF in_flight, queued, TypeOK
  <2> QED BY <2>1, <2>3, <2>6, OrderFrame
<1> QED BY <1>1, <1>2

\* freeze chooses no mutation ahead of an unsent one it must follow.
LEMMA FreezeOrder == TypeOK /\ IInv /\ OrderInv /\ freeze => OrderInv'
<1> SUFFICES ASSUME TypeOK, IInv, OrderInv, freeze PROVE OrderInv'
  OBVIOUS
<1>1. PICK C \in Batch : push' = [o \in Mutation |-> IF o \in C THEN nextPush ELSE push[o]]
  BY DEF freeze
<1>2. C \subseteq Unsent /\ \A o \in C : sequence[o] \cap Unsent \subseteq C
  BY <1>1 DEF Batch, Preceded
<1>3. in_flight = {} /\ UNCHANGED <<status, sequence, tx, log>>
  BY DEF freeze, depVars, serverVars
<1>4. nextPush # 0 /\ queued' = queued
  BY <1>3 DEF TypeOK, queued
<1>5. in_flight' = C /\ Unsent' = Unsent \ C
  BY <1>1, <1>2, <1>3, <1>4 DEF in_flight, Unsent, queued
<1> QED BY <1>2, <1>3, <1>5, OrderFrame

\* The transaction that runs a batch takes the least ordinal left each time.
LEMMA HandleOrder ==
  ASSUME TypeOK, IInv, OrderInv, NEW t \in Tx, handle(t)
  PROVE  OrderInv'
<1> DEFINE w == tx[t].work
<1>1. PICK o \in Left(t), v \in {"accepted", "rejected"} :
        /\ \A p \in Left(t) : o <= p
        /\ tx' = [tx EXCEPT ![t].work = Append(@, [ordinal |-> o, verdict |-> v])]
  BY DEF handle
<1> DEFINE x == [ordinal |-> o, verdict |-> v]
<1>2. tx[t].phase = "running" /\ UNCHANGED <<clientVars, log>>
  BY DEF handle
<1>3. w \in Seq(Run) /\ x \in Run /\ x.ordinal = o /\ Left(t) \subseteq Mutation
  BY DEF TypeOK, TxState, Request, Left, Run
<1>4. \A u \in Tx \ {t} : tx'[u] = tx[u]
  BY <1>1 DEF TypeOK
<1>5. tx'[t].request = tx[t].request /\ tx'[t].work = Append(w, x)
  BY <1>1 DEF TypeOK, TxState
<1>6. Ordinals(tx'[t].work) = Ordinals(w) \cup {o}
  BY <1>3, <1>5, AppendRun
<1>7. Left(t)' = Left(t) \ {o}
  BY <1>5, <1>6 DEF Left
<1>8. \A p \in Ordinals(w) : p < o
  BY <1>2 DEF OrderInv
<1>9. \A q \in Left(t)' : \A p \in Ordinals(tx'[t].work) : p < q
  <2>1. \A q \in Left(t) \ {o} : o < q
    BY <1>1, <1>3 DEF Mutation
  <2> QED BY <2>1, <1>2, <1>6, <1>7 DEF OrderInv
<1>10. \A i, j \in 1..Len(tx'[t].work) :
         i < j => tx'[t].work[i].ordinal < tx'[t].work[j].ordinal
  <2> DEFINE w2 == Append(w, x)
  <2>1. /\ Len(w2) = Len(w) + 1 /\ w2[Len(w) + 1] = x /\ Len(w) \in Nat
        /\ \A i \in 1..Len(w) : w2[i] = w[i]
    BY <1>3, AppendRun
  <2>2. \A i \in 1..Len(w) : w2[i].ordinal < o
    BY <1>8, <2>1 DEF Ordinals
  <2>3. \A i, j \in 1..Len(w) : i < j => w2[i].ordinal < w2[j].ordinal
    BY <1>2, <2>1 DEF OrderInv
  <2>4. w2[Len(w) + 1].ordinal = o
    BY <1>3, <2>1
  <2>5. \A i, j \in 1..Len(w2) : i < j => i \in 1..Len(w) /\ (j \in 1..Len(w) \/ j = Len(w) + 1)
    BY <2>1
  <2> HIDE DEF w2
  <2>6. \A i, j \in 1..Len(w2) : i < j => w2[i].ordinal < w2[j].ordinal
    BY <2>2, <2>3, <2>4, <2>5
  <2> QED BY <1>5, <2>6 DEF w2
<1> QED BY <1>2, <1>4, <1>9, <1>10, OrderTxFrame

\* Committing the batch in flight: what a mutation must follow ran in an
\* earlier batch, earlier in this one, or left the queue without running.
LEMMA SaveReceiptOrder ==
  ASSUME TypeOK, IInv, OrderInv, NEW t \in Tx, save_receipt(t)
  PROVE  OrderInv'
<1> DEFINE w == tx[t].work
<1>1. /\ tx[t].phase = "running" /\ Left(t) = {}
      /\ log' = log \o w
      /\ tx' = [tx EXCEPT ![t] = NoTx]
      /\ UNCHANGED clientVars
  BY DEF save_receipt
<1>2. /\ w \in Seq(Run) /\ log \in Seq(Run)
      /\ nextPush \in Nat /\ lastCompleted \in Nat /\ claim.sequence \in Nat
  BY DEF TypeOK, TxState
<1>3. Ordinals(w) = in_flight
  <2>1. /\ tx[t].request.sequence = claim.sequence + 1
        /\ Ordinals(w) = tx[t].request.mutations /\ tx[t].request \in Sent
    BY <1>1 DEF IInv, TxInv, Left, Sent
  <2>2. tx[t].request.sequence = lastCompleted + 1
    BY <1>2, <2>1 DEF IInv, MessageInv, FlightInv, ClaimInv
  <2> QED BY <2>1, <2>2 DEF IInv, MessageInv, FrozenBatch
<1>4. /\ \A i \in 1..Len(log) : log'[i] = log[i]
      /\ \A i \in 1..Len(w) : log'[Len(log) + i] = w[i]
      /\ \A i \in 1..Len(log') :
           \/ i \in 1..Len(log) /\ log'[i] = log[i]
           \/ i - Len(log) \in 1..Len(w) /\ log'[i] = w[i - Len(log)]
      /\ Len(log) \in Nat /\ Len(w) \in Nat /\ Len(log') \in Nat
  BY <1>1, <1>2, AppendRuns
<1>5. \A u \in Tx \ {t} : tx'[u] = tx[u]
  BY <1>1 DEF TypeOK
<1>6. tx'[t].phase = "idle"
  BY <1>1 DEF TypeOK, NoTx
<1>7. UNCHANGED <<status, sequence, push>>
  BY <1>1 DEF clientVars, depVars
<1>8. ASSUME NEW i \in 1..Len(log'), NEW d \in sequence[log'[i].ordinal]
      PROVE  \/ \E j \in 1..(i - 1) : log'[j].ordinal = d
             \/ status[d] \in {"dropped", "orphaned"}
  <2>1. CASE i \in 1..Len(log) /\ log'[i] = log[i]
    <3>1. \A j \in 1..(i - 1) : j \in 1..Len(log)
      BY <2>1, <1>4
    <3>2. d \in sequence[log[i].ordinal]
      BY <1>8, <2>1
    <3>3. \/ \E j \in 1..(i - 1) : log[j].ordinal = d
          \/ status[d] \in {"dropped", "orphaned"}
      BY <2>1, <3>2 DEF OrderInv, SequenceOrder
    <3> QED BY <1>4, <3>1, <3>3
  <2>2. CASE i - Len(log) \in 1..Len(w) /\ log'[i] = w[i - Len(log)]
    <3> DEFINE k == i - Len(log)
               o == w[k].ordinal
    <3>1. o \in in_flight /\ d \in sequence[o] /\ k \in 1..Len(w)
      BY <2>2, <1>3, <1>8 DEF Ordinals
    <3>2. o \in Mutation /\ d \in Mutation
      BY <3>1 DEF in_flight, queued, TypeOK
    <3>3. d < o /\ status[d] # "none" /\ d \notin Unsent
      BY <3>1, <3>2 DEF OrderInv
    <3>4. CASE d \in in_flight
      <4>1. PICK j \in 1..Len(w) : w[j].ordinal = d
        BY <3>4, <1>3 DEF Ordinals
      <4>2. j < k
        <5>1. ~ (k < j)
          <6>1. k < j => o < d
            BY <1>1, <3>1, <4>1 DEF OrderInv
          <6> QED BY <6>1, <3>2, <3>3 DEF Mutation
        <5>2. k # j
          BY <4>1, <3>2, <3>3 DEF Mutation
        <5>3. j \in Int /\ k \in Int
          BY <1>4, <3>1, <4>1
        <5> HIDE DEF k, o
        <5> QED BY <5>1, <5>2, <5>3
      <4>3. Len(log) + j \in 1..(i - 1)
        BY <4>2, <1>4
      <4> QED BY <4>1, <4>3, <1>4
    <3>5. CASE status[d] \in {"accepted", "rejected"}
      <4>0. Ran(d, status[d])
        BY <3>2, <3>5 DEF IInv, LogInv
      <4>1. PICK j \in 1..Len(log) : log[j].ordinal = d
        BY <4>0 DEF Ran
      <4>2. j \in 1..(i - 1) /\ log'[j].ordinal = d
        BY <4>1, <2>2, <1>4
      <4> QED BY <4>2
    <3>6. d \in in_flight \/ status[d] \in {"accepted", "rejected", "dropped", "orphaned"}
      BY <3>2, <3>3 DEF TypeOK, Status, in_flight, Unsent, queued
    <3> QED BY <3>4, <3>5, <3>6
  <2> QED BY <1>4, <2>1, <2>2
<1>9. SequenceOrder'
  BY <1>7, <1>8 DEF SequenceOrder
<1>10. in_flight' = in_flight /\ Unsent' = Unsent
  BY <1>7 DEF in_flight, Unsent, queued
<1>11. \A u \in Tx \ {t} : Left(u)' = Left(u)
  BY <1>5 DEF Left
<1>12. \A u \in Tx : tx'[u].phase = "running" =>
        /\ \A i, j \in 1..Len(tx'[u].work) :
             i < j => tx'[u].work[i].ordinal < tx'[u].work[j].ordinal
        /\ \A o \in Left(u)' : \A p \in Ordinals(tx'[u].work) : p < o
  BY <1>5, <1>6, <1>11 DEF OrderInv
<1> QED BY <1>7, <1>9, <1>10, <1>12 DEF OrderInv, Ordinals

\* A mutation declared to come after another never runs before it: the other
\* ran earlier, or left the queue without ever running.
THEOREM DeclaredOrder == Spec => []SequenceOrder
<1>1. Init => OrderInv
  <2> SUFFICES ASSUME Init PROVE OrderInv
    OBVIOUS
  <2>1. in_flight = {} /\ 1..Len(log) = {}
    BY DEF Init, in_flight, queued
  <2> QED BY <2>1 DEF Init, OrderInv, SequenceOrder, NoTx
<1>2. TypeOK /\ IInv /\ OrderInv /\ [Next]_vars => OrderInv'
  <2> SUFFICES ASSUME TypeOK, IInv, OrderInv, [Next]_vars PROVE OrderInv'
    OBVIOUS
  <2>1. ASSUME UNCHANGED <<status, push, sequence, tx, log>> PROVE OrderInv'
    <3>1. in_flight' = in_flight /\ Unsent' = Unsent
      BY <2>1 DEF in_flight, Unsent, queued
    <3> QED BY <2>1, <3>1, OrderFrame DEF OrderInv
  <2>2. CASE ClientNext
    <3>1. ASSUME NEW k \in Key, resolve_prerequisite(k) \/ fail_prerequisite(k) \/ reset_prerequisite(k)
          PROVE  UNCHANGED <<status, push, sequence, tx, log>>
      BY <3>1 DEF resolve_prerequisite, fail_prerequisite, reset_prerequisite, depVars, serverVars
    <3>2. ASSUME encode_push \/ \E r \in receipts : ignore_receipt(r)
          PROVE  UNCHANGED <<status, push, sequence, tx, log>>
      BY <3>2 DEF encode_push, ignore_receipt, clientVars, depVars, serverVars
    <3> QED BY <2>1, <2>2, <3>1, <3>2, EnqueueOrder, FreezeOrder, LeaveOrder DEF ClientNext
  <2>3. CASE NetworkNext \/ UNCHANGED vars
    BY <2>3, <2>1 DEF NetworkNext, LoseRequest, LoseReceipt, vars, clientVars, depVars, serverVars
  <2>4. ASSUME NEW t \in Tx,
               \/ \E r \in requests : begin(t, r)
               \/ retry(t) \/ answer_stored(t) \/ refuse(t) \/ take(t) \/ abort(t)
        PROVE  OrderInv'
    <3>1. UNCHANGED <<clientVars, log>> /\ \A u \in Tx \ {t} : tx'[u] = tx[u]
      BY <2>4 DEF begin, retry, answer_stored, refuse, take, abort, TypeOK
    <3>2. tx'[t].phase = "running" => tx'[t].work = <<>> \/ tx'[t] = tx[t]
      <4>1. CASE \E r \in requests : begin(t, r)
        BY <4>1 DEF begin, TypeOK
      <4>2. CASE answer_stored(t) \/ refuse(t) \/ abort(t)
        BY <4>2 DEF answer_stored, refuse, abort, TypeOK, NoTx
      <4>3. CASE retry(t)
        <5>1. tx' = [tx EXCEPT ![t].snapshot = claim.sequence] /\ tx[t].phase = "begun"
          BY <4>3 DEF retry
        <5>2. tx'[t].phase = "begun"
          BY <5>1 DEF TypeOK, TxState
        <5> QED BY <5>2
      <4>4. CASE take(t)
        <5>1. tx' = [tx EXCEPT ![t].phase = "running"] /\ tx[t].phase = "begun"
          BY <4>4 DEF take, Claims
        <5>2. tx'[t].work = tx[t].work
          BY <5>1 DEF TypeOK, TxState
        <5> QED BY <5>1, <5>2 DEF IInv, TxInv
      <4> QED BY <2>4, <4>1, <4>2, <4>3, <4>4
    <3>3. tx'[t].work = <<>> => 1..Len(tx'[t].work) = {} /\ Ordinals(tx'[t].work) = {}
      BY DEF Ordinals
    <3>4. tx'[t] = tx[t] => Left(t)' = Left(t)
      BY DEF Left
    <3> QED BY <3>1, <3>2, <3>3, <3>4, OrderTxFrame DEF OrderInv
  <2> QED BY <2>2, <2>3, <2>4, HandleOrder, SaveReceiptOrder DEF Next, ServerNext
<1>3. OrderInv => SequenceOrder
  BY DEF OrderInv
<1> QED BY <1>1, <1>2, <1>3, TypeCorrect, Inductive, PTL DEF Spec

---------------------------------------------------------------------------
(* The uplink implements Settlement *)

\* Ran and Verdict for any history, so that a step can compare two of them.
RanIn(h, o, v) == \E i \in 1..Len(h) : h[i] = [ordinal |-> o, verdict |-> v]
VerdictIn(h, o) == IF RanIn(h, o, "accepted") THEN "accepted"
                   ELSE IF RanIn(h, o, "rejected") THEN "rejected" ELSE "none"

\* In a history without repetition, the run of a mutation is its verdict.
LEMMA VerdictIsRun ==
  ASSUME NEW h \in Seq(Run), NEW o,
         \A i, j \in 1..Len(h) : h[i].ordinal = h[j].ordinal => i = j
  PROVE  /\ RanIn(h, o, "accepted") => VerdictIn(h, o) = "accepted"
         /\ RanIn(h, o, "rejected") => VerdictIn(h, o) = "rejected"
         /\ o \notin Ordinals(h) <=> VerdictIn(h, o) = "none"
         /\ VerdictIn(h, o) \in {"none", "accepted", "rejected"}
<1>1. ~ (RanIn(h, o, "accepted") /\ RanIn(h, o, "rejected"))
  <2> SUFFICES ASSUME NEW i \in 1..Len(h), NEW j \in 1..Len(h),
                      h[i] = [ordinal |-> o, verdict |-> "accepted"],
                      h[j] = [ordinal |-> o, verdict |-> "rejected"]
               PROVE  FALSE
    BY DEF RanIn
  <2>1. i = j
    OBVIOUS
  <2>2. h[i].verdict = "accepted" /\ h[j].verdict = "rejected"
    OBVIOUS
  <2> QED BY <2>1, <2>2
<1>2. o \in Ordinals(h) <=> RanIn(h, o, "accepted") \/ RanIn(h, o, "rejected")
  <2>1. \A i \in 1..Len(h) : h[i] \in Run
    OBVIOUS
  <2>2. \A i \in 1..Len(h) :
          h[i].ordinal = o <=> \/ h[i] = [ordinal |-> o, verdict |-> "accepted"]
                               \/ h[i] = [ordinal |-> o, verdict |-> "rejected"]
    BY <2>1 DEF Run
  <2> QED BY <2>2 DEF Ordinals, RanIn
<1> QED BY <1>1, <1>2 DEF VerdictIn

\* A step of the uplink submits, decides, leaves, or changes nothing that
\* Settlement sees.
LEMMA StepRefines ==
  ASSUME TypeOK, IInv, TypeOK', IInv', [Next]_vars
  PROVE  [Promise!Next]_(Promise!vars)
<1> DEFINE V == [o \in Mutation |-> Verdict(o)]
<1>0. /\ V = [o \in Mutation |-> VerdictIn(log, o)]
      /\ V' = [o \in Mutation |-> VerdictIn(log', o)]
      /\ \A o : Verdict(o) = VerdictIn(log, o)
      /\ \A o, v : Ran(o, v) <=> RanIn(log, o, v)
  BY DEF Verdict, Ran, VerdictIn, RanIn
<1>10. \A o : /\ Ran(o, "accepted") => Verdict(o) = "accepted"
              /\ Ran(o, "rejected") => Verdict(o) = "rejected"
              /\ o \notin Ordinals(log) <=> Verdict(o) = "none"
              /\ Verdict(o) \in {"none", "accepted", "rejected"}
  BY <1>0, VerdictIsRun DEF IInv, ExactlyOnce, TypeOK
<1>1. ASSUME UNCHANGED <<status, lifecycle, log>>
      PROVE  [Promise!Next]_(Promise!vars)
  <2>1. V' = V
    BY <1>1 DEF Verdict, Ran
  <2> QED BY <1>1, <2>1 DEF Promise!vars
<1>2. CASE enqueue
  <2> DEFINE n == nextOrdinal
  <2>1. n \in Mutation /\ status[n] = "none"
    BY <1>2, PushAssumption DEF enqueue, TypeOK, IInv, QueueInv, Mutation
  <2>2. PICK L \in SUBSET queued : lifecycle' = [lifecycle EXCEPT ![n] = L]
    BY <1>2 DEF enqueue
  <2>3. status' = [status EXCEPT ![n] = "queued"] /\ log' = log
    BY <1>2 DEF enqueue, serverVars
  <2>4. V' = V
    BY <2>3 DEF Verdict, Ran
  <2>5. L \in SUBSET {p \in Mutation : status[p] = "queued"}
    BY <2>2 DEF queued
  <2>6. Promise!Submit
    BY <2>1, <2>2, <2>3, <2>4, <2>5 DEF Promise!Submit
  <2> QED BY <2>6 DEF Promise!Next
<1>3. ASSUME UNCHANGED <<lifecycle, log>>,
             \A o \in Mutation : status'[o] # status[o] =>
               /\ status[o] = "queued"
               /\ \/ status'[o] = Verdict(o)
                  \/ Verdict(o) = "none" /\ status'[o] \in {"dropped", "orphaned"}
      PROVE  Promise!Leave
  <2>1. V' = V
    BY <1>3 DEF Verdict, Ran
  <2>2. \A o \in Mutation : status'[o] = "queued" =>
          \A d \in lifecycle[o] : status'[d] \in {"queued", "accepted"}
    BY <1>3 DEF IInv, QueueInv, queued
  <2>3. status' \in [Mutation -> {"none", "queued", "accepted", "rejected", "dropped", "orphaned"}]
    BY DEF TypeOK, Status
  <2> QED BY <1>3, <2>1, <2>2, <2>3 DEF Promise!Leave
<1>4. ASSUME NEW o \in Mutation, drop_mutation(o) PROVE Promise!Leave
  <2>1. o \in Unsent /\ {o} \in SUBSET queued
    BY <1>4 DEF drop_mutation, Droppable, Unsent
  <2>2. /\ Doomed({o}) \subseteq queued /\ Doomed({o}) \cap in_flight = {}
        /\ o \in Doomed({o})
    BY <2>1, DoomedClosure DEF IInv, Unsent, in_flight
  <2>3. \A p \in Doomed({o}) : p \in Mutation /\ status[p] = "queued" /\ p \notin Ordinals(log)
    BY <2>2 DEF IInv, LogInv, queued
  <2>4. \A p \in Doomed({o}) : Verdict(p) = "none"
    BY <2>3, <1>10
  <2>5. /\ status' = [p \in Mutation |-> IF p = o THEN "dropped"
                                ELSE IF p \in Doomed({o}) THEN "orphaned" ELSE status[p]]
        /\ UNCHANGED <<lifecycle, log>>
    BY <1>4 DEF drop_mutation, depVars, serverVars
  <2> QED BY <1>3, <2>2, <2>3, <2>4, <2>5
<1>5. ASSUME NEW r \in receipts, acknowledge(r) PROVE Promise!Leave
  <2> DEFINE gone == Doomed(r.rejected)
  <2>1. /\ status' = [o \in Mutation |-> IF o \in r.rejected THEN "rejected"
                             ELSE IF o \in gone THEN "orphaned"
                             ELSE IF o \in in_flight \ r.rejected THEN "accepted" ELSE status[o]]
        /\ r.rejected \subseteq in_flight
        /\ UNCHANGED <<lifecycle, log>>
    BY <1>5 DEF acknowledge, Useless, depVars, serverVars
  <2>2. in_flight \subseteq queued /\ r.rejected \in SUBSET queued
    BY <2>1 DEF in_flight
  <2>3. gone \subseteq queued /\ gone \cap in_flight \subseteq r.rejected
    BY <2>2, DoomedClosure DEF IInv
  <2>4. \A o \in Mutation : status'[o] \in {"accepted", "rejected"} => status'[o] = Verdict(o)
    <3>1. \A o \in Mutation : status'[o] \in {"accepted", "rejected"} => Ran(o, status'[o])
      BY <2>1 DEF IInv, LogInv, Ran
    <3> QED BY <3>1, <1>10
  <2>5. \A o \in gone \ r.rejected : Verdict(o) = "none" /\ status'[o] = "orphaned"
    <3>1. \A o \in gone \ r.rejected : o \in Mutation /\ o \notin Ordinals(log)
      BY <2>3 DEF IInv, LogInv, queued
    <3> QED BY <3>1, <2>1, <1>10
  <2>6. \A o \in Mutation : status'[o] # status[o] => o \in gone \cup in_flight
    BY <2>1
  <2>7. \A o \in gone \cup in_flight : status[o] = "queued"
    BY <2>2, <2>3 DEF queued
  <2>8. \A o \in in_flight : status'[o] \in {"accepted", "rejected"}
    BY <2>1, <2>2, <2>3 DEF queued
  <2>9. \A o \in gone \cup in_flight : o \in in_flight \/ o \in gone \ r.rejected
    BY <2>1
  <2> QED BY <1>3, <2>1, <2>4, <2>5, <2>6, <2>7, <2>8, <2>9
<1>6. ASSUME NEW t \in Tx, save_receipt(t) PROVE Promise!Decide
  <2>1. UNCHANGED <<status, lifecycle, push>> /\ log' = log \o tx[t].work
    BY <1>6 DEF save_receipt, clientVars
  <2>2. in_flight' = in_flight /\ queued' = queued
    BY <2>1 DEF in_flight, queued
  <2>3. log \in Seq(Run) /\ tx[t].work \in Seq(Run)
    BY DEF TypeOK, TxState
  <2>4. \A i \in 1..Len(log) : i \in 1..Len(log') /\ log'[i] = log[i]
    BY <2>1, <2>3, AppendRuns
  <2>5. \A o, v : RanIn(log, o, v) => RanIn(log', o, v)
    BY <2>4 DEF RanIn
  <2>6. \A o : /\ RanIn(log', o, "accepted") => VerdictIn(log', o) = "accepted"
               /\ RanIn(log', o, "rejected") => VerdictIn(log', o) = "rejected"
               /\ o \notin Ordinals(log') <=> VerdictIn(log', o) = "none"
               /\ VerdictIn(log', o) \in {"none", "accepted", "rejected"}
    BY VerdictIsRun DEF IInv, ExactlyOnce, TypeOK
  <2>7. \A o : VerdictIn(log, o) # "none" => VerdictIn(log', o) = VerdictIn(log, o)
    BY <2>5, <2>6 DEF VerdictIn
  <2>8. ASSUME NEW o \in Mutation, VerdictIn(log', o) # VerdictIn(log, o)
        PROVE  /\ Verdict(o) = "none" /\ status[o] = "queued"
               /\ \A d \in lifecycle[o] : Verdict(d) = "accepted"
    <3>1. Verdict(o) = "none" /\ o \in Ordinals(log')
      BY <1>0, <2>6, <2>7, <2>8
    <3>2. ~ Ran(o, "accepted") /\ ~ Ran(o, "rejected")
      BY <3>1, <1>10
    <3>3. o \in in_flight
      <4>1. status[o] \in {"accepted", "rejected"} => Ran(o, status[o])
        BY DEF IInv, LogInv
      <4>2. \/ status'[o] \in {"accepted", "rejected"}
            \/ o \in in_flight'
        BY <3>1 DEF IInv, LogInv
      <4> QED BY <4>1, <4>2, <3>2, <2>1, <2>2
    <3>4. ASSUME NEW d \in lifecycle[o] PROVE Verdict(d) = "accepted"
      <4>1. o \in queued /\ d \notin queued /\ d \in Mutation
        BY <3>3 DEF IInv, FlightInv, in_flight, queued, TypeOK
      <4>2. status[d] = "accepted"
        BY <4>1 DEF IInv, QueueInv, queued
      <4>3. Ran(d, "accepted")
        BY <4>1, <4>2 DEF IInv, LogInv
      <4> QED BY <4>3, <1>10
    <3> QED BY <3>1, <3>3, <3>4 DEF in_flight, queued
  <2>9. V' \in [Mutation -> {"none", "accepted", "rejected"}]
    BY <1>0, <2>6
  <2>10. \A o \in Mutation : V[o] = Verdict(o) /\ V[o] = VerdictIn(log, o) /\ V'[o] = VerdictIn(log', o)
    BY <1>0
  <2>11. \A o \in Mutation : \A d \in lifecycle[o] : d \in Mutation
    BY DEF TypeOK
  <2> HIDE DEF V
  <2>12. \A o \in Mutation : V'[o] # V[o] =>
           /\ V[o] = "none" /\ status[o] = "queued"
           /\ \A d \in lifecycle[o] : V[d] = "accepted"
    BY <2>8, <2>10, <2>11
  <2> QED BY <2>1, <2>9, <2>12 DEF Promise!Decide, V
<1>7. CASE ClientNext
  <2>1. ASSUME NEW k \in Key, resolve_prerequisite(k) \/ fail_prerequisite(k) \/ reset_prerequisite(k)
        PROVE  UNCHANGED <<status, lifecycle, log>>
    BY <2>1 DEF resolve_prerequisite, fail_prerequisite, reset_prerequisite, depVars, serverVars
  <2>2. ASSUME freeze \/ encode_push \/ \E r \in receipts : ignore_receipt(r)
        PROVE  UNCHANGED <<status, lifecycle, log>>
    BY <2>2 DEF freeze, encode_push, ignore_receipt, clientVars, depVars, serverVars
  <2> QED BY <1>7, <1>1, <1>2, <1>4, <1>5, <2>1, <2>2 DEF ClientNext, Promise!Next
<1>8. CASE NetworkNext \/ UNCHANGED vars
  BY <1>8, <1>1 DEF NetworkNext, LoseRequest, LoseReceipt, vars, clientVars, serverVars
<1>9. CASE ServerNext
  <2>1. ASSUME NEW t \in Tx,
               \/ \E r \in requests : begin(t, r)
               \/ retry(t) \/ answer_stored(t) \/ refuse(t) \/ take(t) \/ handle(t) \/ abort(t)
        PROVE  UNCHANGED <<status, lifecycle, log>>
    BY <2>1 DEF begin, retry, answer_stored, refuse, take, handle, abort, clientVars
  <2> QED BY <1>9, <1>1, <1>6, <2>1 DEF ServerNext, Promise!Next
<1> QED BY <1>7, <1>8, <1>9 DEF Next

\* Batches, numbers, retries and stored receipts implement the promise: each
\* mutation is decided at most once and the client learns just that decision.
THEOREM Refinement == Spec => Settles
<1>1. Init => Promise!Init
  <2> SUFFICES ASSUME Init PROVE Promise!Init
    OBVIOUS
  <2>1. \A o, v : ~ Ran(o, v)
    BY DEF Init, Ran
  <2>2. \A o : Verdict(o) = "none"
    BY <2>1 DEF Verdict
  <2> QED BY <2>2 DEF Init, Promise!Init
<1> QED
  BY <1>1, StepRefines, TypeCorrect, Inductive, PTL DEF Spec, Settles, Promise!Spec

===========================================================================
