---------------------------- MODULE Distribution ----------------------------
(***************************************************************************)
(* How the server versions and publishes changes: concurrent transactions  *)
(* at REPEATABLE READ, each running the statements of a push or of an      *)
(* external settlement (crates/server/src/{lib,readback}.rs) against       *)
(* PostgreSQL (packages/postgres), and a subscriber that pulls pages from  *)
(* its cursors.                                                            *)
(*                                                                         *)
(* Business data is a set of source rows; the loader of a record reads the *)
(* sources the record derives from.  What a row contains is abstracted to  *)
(* the change that wrote it last.  PostgreSQL is external: a statement     *)
(* waits for a row another transaction has written, fails when the row was *)
(* changed after the snapshot, and one transaction of a wait cycle fails.  *)
(***************************************************************************)
EXTENDS Integers, Sequences, FiniteSets, SequencesExt

CONSTANTS
  Keys,           \* how many records there are; 1..Keys in canonical order
  Channel,
  Source,         \* rows of the application's own tables
  derives,        \* the sources a loader reads for a record
  Work,           \* what transactions are run for, each committed at most once
  PullChanges,    \* limits::PULL_CHANGES
  Tx              \* transactions open at the same time

Key == 1..Keys
Row == Source \cup Key \cup Channel

\* A unit is a mutation, or the body of an external transaction: what its
\* handler writes and the records it declares changed, in its order, and its
\* publications.  A handler declares every record it changes.
Unit == [writes : Seq(Source), changes : Seq(Key),
         publications : Seq([channel : Channel, records : SUBSET Key])]
Works == [push : BOOLEAN, units : Seq(Unit)]

ASSUME DistributionAssumption ==
  /\ Keys \in Nat /\ PullChanges \in Nat \ {0}
  /\ Source \cap (Key \cup Channel) = {} /\ Key \cap Channel = {}   \* rows of different tables
  /\ derives \in [Key -> SUBSET Source]
  /\ Work \subseteq Works
  /\ \A w \in Work : \A i \in DOMAIN w.units : \A k \in Key :
        derives[k] \cap ToSet(w.units[i].writes) # {} => k \in ToSet(w.units[i].changes)

VARIABLES
  store,          \* the committed database
  tx,             \* the open transactions
  done,           \* the work that is committed
  accepted,       \* the units of it that were not rejected, in commit order
  rejected,       \* those that were, and whether by choice or by a conflict
  delivered,      \* every authority sent in a receipt or a page
  reader,         \* a subscriber of every channel: cursors and known stamps
  woken           \* per channel, its head when its listeners were last woken

vars == <<store, tx, done, accepted, rejected, delivered, reader, woken>>

Initially == <<>>        \* stands for the change that wrote an untouched row
Change(w, i) == <<w, i>>

---------------------------------------------------------------------------
(* Statements *)

Statement(op, row, key) == [op |-> op, row |-> row, key |-> key]

Changed(u) == ToSet(u.changes)
Canonical(K) ==
  CHOOSE s \in [1..Cardinality(K) -> K] : \A i, j \in DOMAIN s : i < j => s[i] < s[j]

\* Mutant: stamps are taken in the order the handler declares its changes.
allocate_stamps_declared(u) ==
  [i \in DOMAIN u.changes |-> Statement("advance", u.changes[i], u.changes[i])]

\* One stamp per changed record, in canonical key order.
allocate_stamps(u) ==
  LET keys == Canonical(Changed(u)) IN
  [i \in DOMAIN keys |-> Statement("advance", keys[i], keys[i])]

\* A published record outside the change set keeps its stamp.
publish_one(u, c, k) ==
  (IF k \in Changed(u) THEN <<>> ELSE <<Statement("ensure", k, k)>>)
  \o <<Statement("publish", c, k)>>

publish_intents(u) ==
  FlattenSeq([i \in DOMAIN u.publications |->
    LET p == u.publications[i]
        members == Canonical(p.records) IN
    FlattenSeq([j \in DOMAIN members |-> publish_one(u, p.channel, members[j])])])

\* Mutant: the records are read back before their stamps are allocated.
Script_early_load(w, i) ==
  LET u == w.units[i] IN
  [j \in DOMAIN u.writes |-> Statement("write", u.writes[j], 0)]
  \o (IF w.push THEN <<Statement("load", 0, 0)>> ELSE <<>>)
  \o allocate_stamps(u)
  \o publish_intents(u)

\* The statements of a unit after its savepoint: the handler's writes, the
\* stamps, the readback if a client waits for a receipt, the publications.
Script(w, i) ==
  LET u == w.units[i] IN
  [j \in DOMAIN u.writes |-> Statement("write", u.writes[j], 0)]
  \o allocate_stamps(u)
  \o (IF w.push THEN <<Statement("load", 0, 0)>> ELSE <<>>)
  \o publish_intents(u)

Todo(w, i) == IF i \in DOMAIN w.units THEN Script(w, i) ELSE <<>>

Content(s, k) == [r \in derives[k] |-> s.writer[r]]
Authority(s, K) == {[key |-> k, stamp |-> s.stamp[k], content |-> Content(s, k)] : k \in K}

\* A new position of the channel; the record keeps only its latest one.
Publish(s, c, k) ==
  [s EXCEPT !.head[c] = @ + 1,
            !.at[c][k] = [cursor |-> s.head[c] + 1, stamp |-> s.stamp[k]]]

Effect(s, st, change) ==
  LET t == CASE st.op = "advance" -> [s EXCEPT !.stamp[st.key] = @ + 1]
             [] st.op = "ensure" -> [s EXCEPT !.stamp[st.key] = IF @ = 0 THEN 1 ELSE @]
             [] st.op = "publish" -> Publish(s, st.row, st.key)
             [] OTHER -> s IN
  [t EXCEPT !.writer[st.row] = change]

---------------------------------------------------------------------------
(* Transactions *)

NoTx == [phase |-> "idle"]
Active == {t \in Tx : tx[t].phase = "running"}

\* BEGIN; the snapshot is the committed database.
Begun(w) ==
  [phase |-> "running", work |-> w, unit |-> 1, todo |-> Todo(w, 1),
   view |-> store, own |-> {}, touched |-> {}, loaded |-> {}, results |-> {}, kept |-> <<>>, refused |-> {},
   savepoint |-> [view |-> store, own |-> {}, touched |-> {}]]

begin(t, w) ==
  /\ tx[t].phase = "idle" /\ w \notin done
  /\ \A u \in Tx : tx[u].phase # "idle" => tx[u].work # w
  /\ tx' = [tx EXCEPT ![t] = Begun(w)]
  /\ UNCHANGED <<store, done, accepted, rejected, delivered, reader, woken>>

NextStatement(t) == Head(tx[t].todo)
At(t, ops) == t \in Active /\ tx[t].todo # <<>> /\ NextStatement(t).op \in ops
Writes == {"write", "advance", "ensure", "publish"}

\* t's next statement waits for a row u has written.
Waits(t, u) == t # u /\ u \in Active /\ At(t, Writes) /\ NextStatement(t).row \in tx[u].own

\* The row was changed by a transaction that committed after t's snapshot.
Outdated(t) ==
  LET r == NextStatement(t).row IN
  r \notin tx[t].own /\ store.writer[r] # tx[t].view.writer[r]

\* Mutant: only the channel published to last is remembered.
Touched_last(x, st) == IF st.op = "publish" THEN {st.row} ELSE x.touched

\* The channels to wake after the commit.
Touched(x, st) == IF st.op = "publish" THEN x.touched \cup {st.row} ELSE x.touched

Executed(x) ==
  LET st == Head(x.todo) IN
  [x EXCEPT !.view = Effect(@, st, Change(x.work, x.unit)),
            !.own = @ \cup {st.row},
            !.touched = Touched(x, st),
            !.todo = Tail(@)]

execute(t) ==
  /\ At(t, Writes)
  /\ \A u \in Tx : ~ Waits(t, u)
  /\ ~ Outdated(t)
  /\ tx' = [tx EXCEPT ![t] = Executed(@)]
  /\ UNCHANGED <<store, done, accepted, rejected, delivered, reader, woken>>

\* PostgreSQL fails the statement: the row moved on, or t is in a wait cycle.
InCycle(t) ==
  \E C \in SUBSET Tx :
    t \in C /\ \A u \in C : (\E v \in C : Waits(u, v)) /\ (\E v \in C : Waits(v, u))
Conflict(t) ==
  /\ At(t, Writes)
  /\ \/ (\A u \in Tx : ~ Waits(t, u)) /\ Outdated(t)
     \/ InCycle(t)

\* What a handler throws is its mutation's refusal, a conflict in one of its own
\* statements too.
InHandler(t) == tx[t].work.push /\ At(t, {"write"})

\* A serialization failure or a deadlock anywhere else: the driver rolls back
\* and runs the whole body again on a new snapshot.
retry(t) ==
  /\ Conflict(t) /\ ~ InHandler(t)
  /\ tx' = [tx EXCEPT ![t] = Begun(tx[t].work)]
  /\ UNCHANGED <<store, done, accepted, rejected, delivered, reader, woken>>

\* A persistence fault, or no retries are left.
abort(t) ==
  /\ t \in Active
  /\ tx' = [tx EXCEPT ![t] = NoTx]
  /\ UNCHANGED <<store, done, accepted, rejected, delivered, reader, woken>>

\* The loaders read the changed records in the transaction.
Loaded(x) ==
  [x EXCEPT !.loaded = Authority(x.view, Changed(x.work.units[x.unit])), !.todo = Tail(@)]

load(t) ==
  /\ At(t, {"load"})
  /\ tx' = [tx EXCEPT ![t] = Loaded(@)]
  /\ UNCHANGED <<store, done, accepted, rejected, delivered, reader, woken>>

\* Release the savepoint and set the next one.
NextUnit(x) ==
  [x EXCEPT !.unit = @ + 1,
            !.todo = Todo(x.work, x.unit + 1),
            !.loaded = {},
            !.savepoint = [view |-> x.view, own |-> x.own, touched |-> x.touched]]

\* A unit is through; the last authority of a record is the one kept.
Released(x) ==
  NextUnit([x EXCEPT !.results = x.loaded \cup {a \in @ : \A b \in x.loaded : a.key # b.key},
                     !.kept = Append(@, Change(x.work, x.unit))])

release(t) ==
  /\ t \in Active /\ tx[t].todo = <<>> /\ tx[t].unit <= Len(tx[t].work.units)
  /\ tx' = [tx EXCEPT ![t] = Released(@)]
  /\ UNCHANGED <<store, done, accepted, rejected, delivered, reader, woken>>

\* Mutant: a refused mutation keeps the stamps it allocated.
Restored_stamps(x) ==
  [x EXCEPT !.view = [x.savepoint.view EXCEPT !.stamp = x.view.stamp]]

\* ROLLBACK TO SAVEPOINT; the locks taken since are released with it.
Restored(x) ==
  [x EXCEPT !.view = x.savepoint.view, !.own = x.savepoint.own,
            !.touched = x.savepoint.touched]

\* The mutation alone is rolled back and rejected.
Refused(x, cause) ==
  NextUnit([Restored(x) EXCEPT !.refused = @ \cup {[unit |-> x.unit, cause |-> cause]}])

\* The handler refuses while it writes, or a loader does.
refuse(t) ==
  /\ At(t, {"write", "load"}) /\ tx[t].work.push
  /\ tx' = [tx EXCEPT ![t] = Refused(tx[t], "refusal")]
  /\ UNCHANGED <<store, done, accepted, rejected, delivered, reader, woken>>

\* The handler's statement fails: handler.failed.
handler_failed(t) ==
  /\ Conflict(t) /\ InHandler(t)
  /\ tx' = [tx EXCEPT ![t] = Refused(tx[t], "conflict")]
  /\ UNCHANGED <<store, done, accepted, rejected, delivered, reader, woken>>

\* COMMIT publishes the rows the transaction wrote; the receipt goes out.
Merged(x) ==
  [writer |-> [r \in Row |-> IF r \in x.own THEN x.view.writer[r] ELSE store.writer[r]],
   stamp |-> [k \in Key |-> IF k \in x.own THEN x.view.stamp[k] ELSE store.stamp[k]],
   head |-> [c \in Channel |-> IF c \in x.own THEN x.view.head[c] ELSE store.head[c]],
   at |-> [c \in Channel |-> IF c \in x.own THEN x.view.at[c] ELSE store.at[c]]]

commit(t) ==
  /\ t \in Active /\ tx[t].unit > Len(tx[t].work.units)
  /\ store' = Merged(tx[t])
  /\ done' = done \cup {tx[t].work}
  /\ accepted' = accepted \o tx[t].kept
  /\ rejected' = rejected \cup {[change |-> Change(tx[t].work, r.unit), cause |-> r.cause] :
                                 r \in tx[t].refused}
  /\ delivered' = delivered \cup tx[t].results
  /\ tx' = [tx EXCEPT ![t] = [phase |-> "committed", work |-> tx[t].work, touched |-> tx[t].touched]]
  /\ UNCHANGED <<reader, woken>>

\* The continuation of the committed transaction wakes the listeners of every
\* channel it published to.
notify(t) ==
  /\ tx[t].phase = "committed"
  /\ woken' = [c \in Channel |-> IF c \in tx[t].touched THEN store.head[c] ELSE woken[c]]
  /\ tx' = [tx EXCEPT ![t] = NoTx]
  /\ UNCHANGED <<store, done, accepted, rejected, delivered, reader>>

---------------------------------------------------------------------------
(* A subscriber *)

\* The first PullChanges invalidations of a channel after its cursor.
Scan(c) ==
  {k \in Key : store.at[c][k].cursor > reader.cursor[c] /\
     Cardinality({j \in Key : /\ reader.cursor[c] < store.at[c][j].cursor
                              /\ store.at[c][j].cursor <= store.at[c][k].cursor}) <= PullChanges}

\* Mutant: a full page is taken for the whole channel.
PageEnd_head(c) == store.head[c]

\* A full page ends at its last invalidation, any other one at the head.
PageEnd(c) ==
  IF Cardinality(Scan(c)) < PullChanges THEN store.head[c]
  ELSE CHOOSE n \in {store.at[c][k].cursor : k \in Scan(c)} :
         \A k \in Scan(c) : store.at[c][k].cursor <= n

\* One pull of some channels in one snapshot, answered and applied: a record
\* is sent once, at its current stamp.
process_pull(C) ==
  /\ \E c \in C : reader.cursor[c] < store.head[c]
  /\ LET K == UNION {Scan(c) : c \in C} IN
       /\ delivered' = delivered \cup Authority(store, K)
       /\ reader' = [cursor |-> [c \in Channel |-> IF c \in C THEN PageEnd(c) ELSE reader.cursor[c]],
                     known |-> [k \in Key |-> IF k \in K THEN store.stamp[k] ELSE reader.known[k]]]
  /\ UNCHANGED <<store, tx, done, accepted, rejected, woken>>

---------------------------------------------------------------------------
Init ==
  /\ store = [writer |-> [r \in Row |-> Initially], stamp |-> [k \in Key |-> 0],
              head |-> [c \in Channel |-> 0],
              at |-> [c \in Channel |-> [k \in Key |-> [cursor |-> 0, stamp |-> 0]]]]
  /\ tx = [t \in Tx |-> NoTx]
  /\ done = {} /\ accepted = <<>> /\ rejected = {} /\ delivered = {}
  /\ reader = [cursor |-> [c \in Channel |-> 0], known |-> [k \in Key |-> 0]]
  /\ woken = [c \in Channel |-> 0]

Transaction(t) ==
  \/ \E w \in Work : begin(t, w)
  \/ execute(t) \/ retry(t) \/ abort(t) \/ load(t) \/ release(t) \/ refuse(t)
  \/ handler_failed(t) \/ commit(t) \/ notify(t)

Next == (\E C \in SUBSET Channel : process_pull(C)) \/ \E t \in Tx : Transaction(t)
Spec == Init /\ [][Next]_vars

---------------------------------------------------------------------------
(* Properties *)

\* The committed database is well formed, and every unit accepted or rejected
\* belongs to committed work.
TypeOK ==
  /\ store.stamp \in [Key -> Nat] /\ store.head \in [Channel -> Nat]
  /\ \A c \in Channel, k \in Key : store.at[c][k].cursor <= store.head[c]
  /\ done \subseteq Work
  /\ \A a \in ToSet(accepted) \cup {r.change : r \in rejected} : a[1] \in done /\ a[2] \in DOMAIN a[1].units
  /\ \A d \in delivered : d.key \in Key /\ d.stamp \in Nat
  /\ reader.cursor \in [Channel -> Nat] /\ reader.known \in [Key -> Nat]

\* A stamp names one content (D4): whatever two deliveries carry a record at
\* the same stamp, receipts of concurrent pushes and pages alike, they carry
\* the same content, and it is what the database holds while that is still the
\* record's stamp.
StampNamesContent ==
  /\ \A d, e \in delivered : d.key = e.key /\ d.stamp = e.stamp => d.content = e.content
  /\ \A d \in delivered : d.stamp = store.stamp[d.key] => d.content = Content(store, d.key)

\* A stamp counts the successful changes of a record (D3): rejected mutations,
\* retried transactions and publications leave it alone, but for the first
\* publication of a record that has none.
UnitOf(a) == a[1].units[a[2]]
Names(u, k) == k \in Changed(u) \/ \E p \in ToSet(u.publications) : k \in p.records
ChangesOf(k) == {i \in DOMAIN accepted : k \in Changed(UnitOf(accepted[i]))}
Naming(k) == {i \in DOMAIN accepted : Names(UnitOf(accepted[i]), k)}
PublishedFirst(k) == \E i \in Naming(k) \ ChangesOf(k) : \A j \in Naming(k) : i <= j
StampCountsChanges ==
  \A k \in Key :
    store.stamp[k] = Cardinality(ChangesOf(k)) + IF PublishedFirst(k) THEN 1 ELSE 0

\* A position a subscriber has passed was delivered: a transaction that commits
\* late never publishes at a position below one that was already read.
NothingMissed ==
  \A c \in Channel, k \in Key :
    LET i == store.at[c][k] IN
    i.cursor \in 1..reader.cursor[c] => reader.known[k] >= i.stamp

\* Every committed publication is followed by a wake: between the commit and
\* the wake of a channel, a transaction is about to notify it.
CommitWakes ==
  \A c \in Channel :
    woken[c] < store.head[c] => \E t \in Tx : tx[t].phase = "committed" /\ c \in tx[t].touched

\* A conflict between transactions is never the reason a mutation is rejected:
\* the transaction runs again.
ConflictsRetried == \A r \in rejected : r.cause # "conflict"

\* Work whose later mutations change only records that come after every record
\* an earlier one names, or that the earlier one names too.
OrderedWork ==
  \A w \in Work : \A i, j \in DOMAIN w.units : i < j =>
    \A k \in Key, l \in Changed(w.units[j]) :
      Names(w.units[i], k) => k < l \/ Names(w.units[i], l)

\* Transactions of ordered work never wait for each other's stamps in a cycle:
\* a mutation takes them in one order, whatever order its handler declares.
\* (Two batches that change the same records in opposite orders across their
\* mutations still can.)
NoStampDeadlock ==
  OrderedWork =>
    \A C \in (SUBSET Tx) \ {{}} :
      \E t \in C : ~ (At(t, {"advance"}) /\ \E u \in C : Waits(t, u))

===========================================================================
