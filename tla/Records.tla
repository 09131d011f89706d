------------------------------ MODULE Records ------------------------------
(***************************************************************************)
(* What mutations, receipts and pages do to records: one client's visible  *)
(* rows, the before images kept under pending mutations, record stamps and *)
(* channel cursors, against a server whose records, stamps and channel     *)
(* invalidations move on their own.                                        *)
(*                                                                         *)
(* Client side: crates/client/src/{mutate,authority,downlink,push,queue,   *)
(* policies}.rs.  Server side: process_push, process_pull and readback of  *)
(* crates/server/src over the statements of packages/postgres.             *)
(*                                                                         *)
(* A client write is one SQLite transaction and so one step on `db`; its   *)
(* parts are operators from a database to a database, in the order of the  *)
(* code.  Each server transaction is one step here.  That a batch runs     *)
(* once and its receipt arrives is the subject of module Push.             *)
(***************************************************************************)
EXTENDS Integers, SequencesExt

CONSTANTS
  Keys,           \* how many records there are; 1..Keys in canonical order
  Value,          \* the values of their other field
  Absent,         \* stands for "no row"
  Channel,
  PullChanges,    \* limits::PULL_CHANGES, invalidations per channel in a page
  Application,    \* the applications, see below
  MaxMutations, MaxVersion   \* bounds of the instance

Key == 1..Keys
Row == [owner : Key \cup {0}, value : Value]

\* An update names the fields it changes.
Patch ==
  {p \in UNION {[F -> Key \cup {0} \cup Value] : F \in SUBSET {"owner", "value"}} :
     /\ "owner" \in DOMAIN p => p.owner \in Key \cup {0}
     /\ "value" \in DOMAIN p => p.value \in Value}
Delete(k) == [key |-> k, kind |-> "delete", patch |-> << >>]
Op == [key : Key, kind : {"create"}, patch : Row] \cup [key : Key, kind : {"update"}, patch : Patch]
        \cup {Delete(k) : k \in Key}

\* An application subscribes to channels, has rows at the server at the start,
\* publishes each record on the channels it calls its home, enqueues named
\* mutations and writes directly; its server also changes records outside
\* handlers.  Some of its records a delivery may fail to read or to apply, and
\* so many pages are in transit at most.
ASSUME RecordsAssumption ==
  /\ Keys \in Nat /\ PullChanges \in Nat \ {0} /\ Absent \notin Row
  /\ \A a \in DOMAIN Application : LET of == Application[a] IN
       /\ of.channels \subseteq Channel
       /\ of.seed \in [Key -> Row \cup {Absent}]
       /\ of.home \in [Key -> SUBSET Channel]
       /\ \A m \in of.mutations : m.wire \in Seq(Op) /\ m.companion \in Seq(Op)
       /\ of.direct \subseteq Op /\ of.external \subseteq Op

VARIABLES
  app,            \* which application this is
  db,             \* the client's database
  nextOrdinal,
  receipt,        \* the receipt of the batch in flight, once there is one
  pages,          \* pages and live frames in transit
  server,         \* the server's database
  moved,          \* records whose truth a local-only write moved
  missed          \* the newest version of a record that could not be applied

vars == <<app, db, nextOrdinal, receipt, pages, server, moved, missed>>

App == Application[app]
Unsubscribed == -1
NoReceipt == [rejected |-> {}, records |-> << >>, batch |-> {}]

---------------------------------------------------------------------------
(* Sequences: FoldLeft as a recursive function, and the elements of s in X, *)
(* in their order.                                                         *)

Folded(step(_, _), base, s) ==
  LET run[n \in 0..Len(s)] == IF n = 0 THEN base ELSE step(run[n - 1], s[n]) IN run[Len(s)]
Filtered(s, X) == Folded(LAMBDA r, e : IF e \in X THEN Append(r, e) ELSE r, << >>, s)

\* Records in canonical order.
InOrder(K) == Filtered([k \in Key |-> k], K)
Deletions(K) == [i \in DOMAIN InOrder(K) |-> Delete(InOrder(K)[i])]

---------------------------------------------------------------------------
(* Rows and operations.  The owner field is a relation that cascades.      *)

Fits(row, op) ==
  /\ op.kind = "create" => row = Absent
  /\ op.kind = "update" => row # Absent

\* apply_to_row, where the operation fits.
apply_to_row(row, op) ==
  CASE op.kind = "delete" -> Absent
    [] op.kind = "create" -> op.patch
    [] op.kind = "update" -> [f \in DOMAIN row |-> IF f \in DOMAIN op.patch
                                                   THEN op.patch[f] ELSE row[f]]

Replayed(end, op) ==
  IF end.ok /\ Fits(end.row, op) THEN [row |-> apply_to_row(end.row, op), ok |-> TRUE]
  ELSE [end EXCEPT !.ok = FALSE]
Replay(base, ops) == Folded(Replayed, [row |-> base, ok |-> TRUE], ops)

OwnOps(q) == q.wire \o q.companion
Touched(q) == {OwnOps(q)[i].key : i \in DOMAIN OwnOps(q)} \cup q.effects
Deletes(q) == Filtered(OwnOps(q), {op \in ToSet(OwnOps(q)) : op.kind = "delete"})

\* A mutation's effects are stored after its own operations.
OpsOn(q, k) == Filtered(OwnOps(q), {op \in ToSet(OwnOps(q)) : op.key = k})
               \o (IF k \in q.effects THEN <<Delete(k)>> ELSE << >>)
ops_for(d, k) == Folded(LAMBDA s, q : s \o OpsOn(q, k), << >>, d.queue)

dirty(d, k) == \E i \in DOMAIN d.queue : k \in Touched(d.queue[i])
truth(d, k) == IF dirty(d, k) THEN d.before[k] ELSE d.main[k]

\* A row of the main or the before table names one of K as its owner.
OwnedBy(d, c, K) == \E row \in {d.main[c], d.before[c]} \ {Absent} : row.owner \in K

\* Every record reachable from k through cascading deletes.
Descendants(d, k) ==
  {c \in Key \ {k} :
     \A D \in SUBSET Key :
        (k \in D /\ \A x \in Key : OwnedBy(d, x, D) => x \in D) => c \in D}

\* Mutant: the copy overwrites a before image that is already there.
hold_truth_again(d, K) ==
  [d EXCEPT !.before = [k \in Key |-> IF k \in K THEN d.main[k] ELSE @[k]]]

\* Copy rows aside before their first pending operation; INSERT OR IGNORE.
hold_truth(d, K) ==
  [d EXCEPT !.before = [k \in Key |-> IF k \in K /\ ~ dirty(d, k) /\ @[k] = Absent
                                      THEN d.main[k] ELSE @[k]]]

\* Mutant: a rebuild keeps the before image of a record nothing is pending on.
rebuild_keep(d, K) ==
  [d EXCEPT !.main = [k \in Key |-> IF k \in K THEN Replay(d.before[k], ops_for(d, k)).row ELSE @[k]]]

\* Mutant: a rebuild forgets what is still queued.
rebuild_base(d, K) ==
  [d EXCEPT !.main = [k \in Key |-> IF k \in K THEN d.before[k] ELSE @[k]],
            !.before = [k \in Key |-> IF k \in K /\ ~ dirty(d, k) THEN Absent ELSE @[k]]]

\* Replay what is queued over the held truth; a replay that fails shows the
\* truth, and with nothing queued the before image goes.
rebuild(d, K) ==
  LET end(k) == Replay(d.before[k], ops_for(d, k)) IN
  [d EXCEPT
     !.main = [k \in Key |-> IF k \notin K THEN @[k]
                             ELSE IF end(k).ok THEN end(k).row ELSE d.before[k]],
     !.before = [k \in Key |-> IF k \in K /\ ~ dirty(d, k) THEN Absent ELSE @[k]]]

\* Mutant: queued deletes are not extended.
refresh_pending_none(d) == d

\* Extend queued deletes to descendants that appeared after they were queued.
extend(d, i, op) ==
  LET C == Descendants(d, op.key) \ d.queue[i].effects IN
  rebuild([hold_truth(d, C) EXCEPT !.queue[i].effects = @ \cup C], C)
extend_entry(d, i) == Folded(LAMBDA e, op : extend(e, i, op), d, Deletes(d.queue[i]))
refresh_pending(d) == Folded(extend_entry, d, [i \in DOMAIN d.queue |-> i])

rebuild_held(d, held) == refresh_pending(rebuild(d, held))

---------------------------------------------------------------------------
(* Local writes *)

\* One operation of a mutation being enqueued: hold, cascade, write.
WriteOp(end, op) ==
  LET d1 == hold_truth(end.d, {op.key})
      C == IF op.kind = "delete" THEN Descendants(d1, op.key) ELSE {}
      d2 == [hold_truth(d1, C) EXCEPT
               !.main = [k \in Key |-> IF k \in C THEN Absent ELSE @[k]]] IN
  IF end.ok /\ Fits(end.d.main[op.key], op)
  THEN [d |-> [d2 EXCEPT !.main[op.key] = apply_to_row(@, op)],
        effects |-> end.effects \cup C, ok |-> TRUE]
  ELSE [end EXCEPT !.ok = FALSE]

\* policies::derive: a mutation lives only if the queued creates of the
\* records it names or refers to are accepted, and a create only if the
\* queued delete of the same record is.
derive(d, wire) ==
  LET row(k) == IF d.main[k] # Absent THEN d.main[k] ELSE truth(d, k)
      references(k) == {k} \cup (IF row(k) = Absent THEN {} ELSE {row(k).owner})
      rests(op, prior) ==
        \/ prior.kind = "create" /\ prior.key \in references(op.key)
        \/ prior.kind = "delete" /\ op.kind = "create" /\ prior.key = op.key IN
  {q.ordinal : q \in {p \in ToSet(d.queue) : \E a \in DOMAIN wire, b \in DOMAIN p.wire :
                                               rests(wire[a], p.wire[b])}}

enqueue(m) ==
  /\ nextOrdinal <= MaxMutations
  /\ LET end == Folded(WriteOp, [d |-> db, effects |-> {}, ok |-> TRUE],
                         m.wire \o m.companion) IN
       /\ end.ok
       /\ db' = [end.d EXCEPT !.queue = Append(@,
                   [ordinal |-> nextOrdinal, wire |-> m.wire, companion |-> m.companion,
                    effects |-> end.effects, lifecycle |-> derive(end.d, m.wire),
                    sent |-> FALSE])]
  /\ nextOrdinal' = nextOrdinal + 1
  /\ UNCHANGED <<receipt, pages, server, moved, missed>>

\* A local write that is never sent moves the truth along with the row, except
\* where the row's existence is itself pending.
direct_one(d, op) ==
  LET k == op.key
      base == d.before[k]
      row == apply_to_row(d.main[k], op) IN
  [d EXCEPT
     !.main[k] = row,
     !.before[k] = IF ~ dirty(d, k) \/ (base = Absent /\ op.kind # "create") THEN @
                   ELSE IF Fits(base, op) THEN apply_to_row(base, op) ELSE row]

direct(op) ==
  /\ Fits(db.main[op.key], op)
  /\ LET C == IF op.kind = "delete" THEN Descendants(db, op.key) ELSE {} IN
       /\ db' = Folded(direct_one, db, Append(Deletions(C), op))
       /\ moved' = moved \cup C \cup {op.key}
  /\ UNCHANGED <<nextOrdinal, receipt, pages, server, missed>>

---------------------------------------------------------------------------
(* Leaving the queue *)

Entries(d, O) == Filtered(d.queue, {q \in ToSet(d.queue) : q.ordinal \in O})
Ordinals(d) == {q.ordinal : q \in ToSet(d.queue)}
in_flight(d) == {q.ordinal : q \in {p \in ToSet(d.queue) : p.sent}}
TouchedBy(d, O) == UNION {Touched(q) : q \in ToSet(Entries(d, O))}

delete_mutations(d, O) ==
  [d EXCEPT !.queue = Filtered(@, {q \in ToSet(@) : q.ordinal \notin O})]

\* The rejected mutations and those whose lifecycle rests on them.
Doomed(d, R) ==
  {o \in Ordinals(d) :
     \A D \in SUBSET Ordinals(d) :
        (R \subseteq D /\ \A q \in ToSet(d.queue) : q.lifecycle \cap D # {} => q.ordinal \in D)
           => o \in D}

\* The host drops a mutation that was never sent: remove_rejected.
drop_mutation(o) ==
  /\ o \notin in_flight(db)
  /\ LET gone == Doomed(db, {o}) IN
       db' = rebuild_held(delete_mutations(db, gone), TouchedBy(db, gone))
  /\ UNCHANGED <<nextOrdinal, receipt, pages, server, moved, missed>>

\* Send everything that may go and does not rest on something unsent; which of
\* it fits into a batch is the subject of module Push.
freeze ==
  /\ in_flight(db) = {}
  /\ LET free == {q.ordinal : q \in {p \in ToSet(db.queue) : p.lifecycle \cap Ordinals(db) = {}}} IN
       /\ free # {}
       /\ db' = [db EXCEPT !.queue = [i \in DOMAIN db.queue |->
                   [db.queue[i] EXCEPT !.sent = db.queue[i].sent \/ db.queue[i].ordinal \in free]]]
  /\ UNCHANGED <<nextOrdinal, receipt, pages, server, moved, missed>>

---------------------------------------------------------------------------
(* Authority: one applier for receipts and pages *)

\* Mutant: authority for a dirty record goes to the visible row.
stage_one_main(d, K, row) ==
  [d EXCEPT !.main = [k \in Key |-> IF k \in K THEN row ELSE @[k]]]

\* Beneath the pending operations of a dirty record, visible at once otherwise.
stage_one(d, K, row) ==
  [d EXCEPT
     !.before = [k \in Key |-> IF k \in K /\ dirty(d, k) THEN row ELSE @[k]],
     !.main = [k \in Key |-> IF k \in K /\ ~ dirty(d, k) THEN row ELSE @[k]]]

Newer(d, k, record) == record.stamp > d.stamp[k]

\* A newer stamp lands, a deletion with all its descendants; an older or equal
\* one changes nothing (an equal one with other content is only reported).
\* `held` collects the records to rebuild.
stage_authority(acc, k, record) ==
  IF ~ Newer(acc.d, k, record) THEN acc
  ELSE LET d1 == stage_one(acc.d, {k}, record.row)
           C == IF record.row = Absent THEN Descendants(d1, k) ELSE {}
           d2 == stage_one(d1, C, Absent) IN
       [d |-> [d2 EXCEPT !.stamp[k] = record.stamp],
        held |-> acc.held \cup {c \in {k} \cup C : dirty(acc.d, c)}]

\* Every record of a delivery in canonical order, each in its own savepoint:
\* one that cannot be applied leaves nothing behind.
stage_isolated(acc, records, skipped) ==
  Folded(LAMBDA end, k : stage_authority(end, k, records[k]), acc,
           InOrder(DOMAIN records \ skipped))

apply_records(d, records, skipped) ==
  LET end == stage_isolated([d |-> d, held |-> {}], records, skipped) IN
  rebuild_held(end.d, end.held)

\* Records of a delivery that land unless they are skipped.
Wanted(d, records) == {k \in DOMAIN records : records[k].stamp > d.stamp[k]}

\* Note the versions that were skipped.
Missed(K, records) ==
  [k \in Key |-> IF k \in K /\ records[k].stamp > missed[k] THEN records[k].stamp ELSE missed[k]]

\* The local-only operations of an accepted mutation: its companions, and the
\* deletes of the descendants of those of them that no wire operation names.
LocalOps(d, q, wire) ==
  LET C == UNION {Descendants(d, op.key) :
                    op \in {o \in ToSet(q.companion) : o.kind = "delete" /\ o.key \notin wire}} IN
  q.companion \o Deletions(C)

\* They become part of the base of the records the receipt does not cover.
fold(acc, op, covered) ==
  IF op.key \in covered THEN acc
  ELSE [d |-> [acc.d EXCEPT !.before[op.key] = IF Fits(@, op) THEN apply_to_row(@, op) ELSE @],
        folded |-> acc.folded \cup {op.key}]
fold_entry(acc, q, wire, covered) ==
  Folded(LAMBDA a, op : fold(a, op, covered), acc, LocalOps(acc.d, q, wire))
FoldCompanions(d, accepted, covered) ==
  LET wire == UNION {{q.wire[i].key : i \in DOMAIN q.wire} : q \in ToSet(Entries(d, accepted))} IN
  Folded(LAMBDA acc, q : fold_entry(acc, q, wire, covered), [d |-> d, folded |-> {}],
         Entries(d, accepted))

\* Mutant: completed mutations leave the queue before authority is staged.
Settled_early(d, r, skipped) ==
  LET accepted == r.batch \ r.rejected IN
  apply_records(delete_mutations(d, accepted \cup Doomed(d, r.rejected)), r.records, skipped)

\* Complete the batch in flight from its receipt: fold companions, stage the
\* authority beneath the queue as it was sent, remove what was rejected and
\* what is completed, rebuild what remains.
Settled(d, r, skipped) ==
  LET accepted == r.batch \ r.rejected
      gone == Doomed(d, r.rejected)
      folded == FoldCompanions(d, accepted, DOMAIN r.records)
      staged == stage_isolated([d |-> folded.d, held |-> TouchedBy(d, r.batch) \cup folded.folded],
                               r.records, skipped) IN
  rebuild_held(delete_mutations(staged.d, gone \cup accepted),
               staged.held \cup TouchedBy(d, gone))

acknowledge(skipped) ==
  /\ receipt # NoReceipt
  /\ skipped \subseteq DOMAIN receipt.records
  /\ db' = Settled(db, receipt, skipped)
  /\ LET accepted == receipt.batch \ receipt.rejected
         wanted == Wanted(db, receipt.records) IN
       /\ moved' = (moved \cup FoldCompanions(db, accepted, DOMAIN receipt.records).folded)
                   \ (wanted \ skipped)
       /\ missed' = Missed(wanted \cap skipped, receipt.records)
  /\ receipt' = NoReceipt
  /\ UNCHANGED <<nextOrdinal, pages, server>>

\* The channels of a page that move this client's cursors, and those it is
\* behind on.
moving_channels(d, p) == {c \in DOMAIN p.to : d.cursor[c] # Unsubscribed /\ p.to[c] > d.cursor[c]}
Gaps(d, p) == {c \in moving_channels(d, p) : p.from[c] > d.cursor[c]}

\* A page behind every cursor is covered; one with a gap is not applied at all.
Applicable(d, p) == moving_channels(d, p) # {} /\ Gaps(d, p) = {}

\* All changes of the page, then all its cursors.
apply_page(d, p, skipped) ==
  [apply_records(d, p.changes, skipped) EXCEPT
     !.cursor = [c \in Channel |-> IF c \in moving_channels(d, p) THEN p.to[c] ELSE @[c]]]

receive_downlink(p, skipped) ==
  /\ Applicable(db, p)
  /\ skipped \subseteq DOMAIN p.changes
  /\ db' = apply_page(db, p, skipped)
  /\ LET wanted == Wanted(db, p.changes) IN
       /\ moved' = moved \ (wanted \ skipped)
       /\ missed' = Missed(wanted \cap skipped, p.changes)
  /\ UNCHANGED <<nextOrdinal, receipt, pages, server>>

\* A subscription starts at cursor 0; ending it keeps rows, stamps and queue.
subscribe(c) ==
  /\ db.cursor[c] = Unsubscribed
  /\ db' = [db EXCEPT !.cursor[c] = 0]
  /\ UNCHANGED <<nextOrdinal, receipt, pages, server, moved, missed>>

unsubscribe(c) ==
  /\ db.cursor[c] # Unsubscribed
  /\ db' = [db EXCEPT !.cursor[c] = Unsubscribed]
  /\ UNCHANGED <<nextOrdinal, receipt, pages, server, moved, missed>>

---------------------------------------------------------------------------
(* The server.  A record's stamp is the number of its versions.            *)

Version(s, k) == Len(s.history[k])

Content(s, k) == IF s.history[k] = << >> THEN Absent ELSE Last(s.history[k])

\* The changed records published on a channel.
Published(K, c) == {k \in K : c \in App.home[k]}

\* Settle a set of changes: every record gets its next stamp, then each
\* publication the next position of its channel, in canonical key order.  A
\* channel has one invalidation per record, at its latest position.
settle(s, write) ==
  LET K == DOMAIN write
      position(c, k) == s.head[c] + Cardinality({j \in Published(K, c) : j <= k}) IN
  [history |-> [k \in Key |-> IF k \in K THEN Append(s.history[k], write[k]) ELSE s.history[k]],
   head |-> [c \in Channel |-> s.head[c] + Cardinality(Published(K, c))],
   cursor |-> [c \in Channel |-> [k \in Key |-> IF k \in Published(K, c) THEN position(c, k)
                                                ELSE s.cursor[c][k]]]]

\* The handler keeps its side of the contract: it applies an operation its
\* tables accept and deletes what a deleted record owns with it.
ServerOwned(rows, D) == {x \in Key : rows[x] # Absent /\ rows[x].owner \in D}
ServerCascade(rows, k) ==
  {c \in Key : \A D \in SUBSET Key : (k \in D /\ ServerOwned(rows, D) \subseteq D) => c \in D}
Admits(rows, op) ==
  /\ Fits(rows[op.key], op)
  /\ op.kind # "delete" => LET row == apply_to_row(rows[op.key], op) IN
                             row.owner = 0 \/ rows[row.owner] # Absent

Handle(run, op) ==
  IF ~ (run.ok /\ Admits(run.rows, op)) THEN [run EXCEPT !.ok = FALSE]
  ELSE LET K == IF op.kind = "delete" THEN ServerCascade(run.rows, op.key) \cap
                       {k \in Key : run.rows[k] # Absent} ELSE {} IN
       [rows |-> [k \in Key |-> IF k = op.key THEN apply_to_row(run.rows[k], op)
                                ELSE IF k \in K THEN Absent ELSE run.rows[k]],
        changed |-> run.changed \cup K \cup {op.key}, ok |-> TRUE]

Rows(s) == [k \in Key |-> Content(s, k)]

\* One mutation in its savepoint.  Settled, its changed records are read back
\* at their new stamps; refused by the handler or by its tables, it leaves
\* nothing.  The receipt keeps the last authority of each record.
Execute(acc, q, refused) ==
  LET run == Folded(Handle, [rows |-> Rows(acc.s), changed |-> {}, ok |-> TRUE], q.wire)
      s == settle(acc.s, [k \in run.changed |-> run.rows[k]]) IN
  IF q.ordinal \in refused \/ ~ run.ok
  THEN [acc EXCEPT !.rejected = @ \cup {q.ordinal}]
  ELSE [s |-> s, rejected |-> acc.rejected,
        records |-> [k \in run.changed \cup DOMAIN acc.records |->
                       IF k \in run.changed THEN [stamp |-> Version(s, k), row |-> Content(s, k)]
                       ELSE acc.records[k]]]

process_push ==
  /\ receipt = NoReceipt
  /\ in_flight(db) # {}
  /\ \E refused \in SUBSET in_flight(db) :
       LET end == Folded(LAMBDA acc, q : Execute(acc, q, refused),
                           [s |-> server, rejected |-> {}, records |-> << >>],
                           Entries(db, in_flight(db))) IN
       /\ server' = end.s
       /\ receipt' = [rejected |-> end.rejected, records |-> end.records, batch |-> in_flight(db)]
  /\ UNCHANGED <<db, nextOrdinal, pages, moved, missed>>

\* A change made outside handlers; it keeps the same contract.
settle_external(op) ==
  LET run == Handle([rows |-> Rows(server), changed |-> {}, ok |-> TRUE], op) IN
  /\ run.ok
  /\ \A k \in run.changed : Version(server, k) < MaxVersion
  /\ server' = settle(server, [k \in run.changed |-> run.rows[k]])
  /\ UNCHANGED <<db, nextOrdinal, receipt, pages, moved, missed>>

\* A page of a channel ends at the head, or at its last row when it is full.
ScanTo(s, c, scanned) ==
  IF Cardinality(scanned) = PullChanges THEN s.cursor[c][CHOOSE k \in scanned :
        \A j \in scanned : s.cursor[c][j] <= s.cursor[c][k]] ELSE s.head[c]

Scan(s, c, from) ==
  {k \in Key : s.cursor[c][k] > from /\
     Cardinality({j \in Key : from < s.cursor[c][j] /\ s.cursor[c][j] <= s.cursor[c][k]}) <= PullChanges}

\* Read each channel after its cursor and every record found once, at its
\* current stamp, all in one snapshot.
Page(s, from) ==
  [from |-> from,
   to |-> [c \in DOMAIN from |-> ScanTo(s, c, Scan(s, c, from[c]))],
   changes |-> [k \in UNION {Scan(s, c, from[c]) : c \in DOMAIN from} |->
                  [stamp |-> Version(s, k), row |-> Content(s, k)]]]

\* A pull from the client's cursors, or a live frame that goes on from a page
\* sent before.
process_pull ==
  /\ Cardinality(pages) < App.pages
  /\ LET starts(c) == {db.cursor[c]} \cup {p.to[c] : p \in {q \in pages : c \in DOMAIN q.to}} IN
       \E C \in SUBSET {c \in Channel : db.cursor[c] # Unsubscribed} :
         \E from \in [C -> UNION {starts(c) : c \in C}] :
            /\ \A c \in C : from[c] \in starts(c)
            /\ \E c \in C : from[c] < server.head[c]
            /\ pages' = pages \cup {Page(server, from)}
  /\ UNCHANGED <<db, nextOrdinal, receipt, server, moved, missed>>

LosePage(p) ==
  /\ pages' = pages \ {p}
  /\ UNCHANGED <<db, nextOrdinal, receipt, server, moved, missed>>

---------------------------------------------------------------------------
NoDb == [main |-> [k \in Key |-> Absent], before |-> [k \in Key |-> Absent],
         stamp |-> [k \in Key |-> 0],
         cursor |-> [c \in Channel |-> IF c \in App.channels THEN 0 ELSE Unsubscribed],
         queue |-> << >>]

\* An empty client; the server's rows have been published once.
Init ==
  /\ app \in DOMAIN Application
  /\ db = NoDb
  /\ nextOrdinal = 1
  /\ receipt = NoReceipt
  /\ pages = {}
  /\ LET seeded == {k \in Key : App.seed[k] # Absent} IN
       server = settle([history |-> [k \in Key |-> << >>], head |-> [c \in Channel |-> 0],
                        cursor |-> [c \in Channel |-> [k \in Key |-> 0]]],
                       [k \in seeded |-> App.seed[k]])
  /\ moved = {} /\ missed = [k \in Key |-> 0]

ClientNext ==
  \/ freeze
  \/ \E m \in App.mutations : enqueue(m)
  \/ \E op \in App.direct : direct(op)
  \/ \E o \in Ordinals(db) : drop_mutation(o)
  \/ \E c \in App.channels : subscribe(c) \/ unsubscribe(c)

Delivery ==
  \E skipped \in SUBSET App.failing :
    \/ acknowledge(skipped)
    \/ \E p \in pages : receive_downlink(p, skipped)

ServerNext ==
  \/ process_push \/ process_pull
  \/ \E op \in App.external : settle_external(op)
  \/ \E p \in pages : LosePage(p)

Next == UNCHANGED app /\ (ClientNext \/ Delivery \/ ServerNext)
Spec == Init /\ [][Next]_vars

---------------------------------------------------------------------------
(* Properties *)

At(k, n) == IF n = 0 THEN Absent ELSE server.history[k][n]

\* Under all optimism there is server truth.  Whatever was enqueued, dropped,
\* rejected, received twice, late or out of order, the base a record is replayed
\* from is exactly the server's content at the stamp the client stores for it,
\* or hidden by the deletion of its owner while a newer version is still to
\* come.  For a record with nothing pending the base is what readers see, so a
\* mutation that was rejected or dropped leaves no trace.
TruthIsServerVersion ==
  \A k \in Key \ moved :
    \/ truth(db, k) = At(k, db.stamp[k])
    \/ truth(db, k) = Absent /\ db.stamp[k] < Version(server, k)

\* Rejecting or dropping a mutation removes its optimism: a record nothing is
\* pending on, and of which the client never applied a server version, is not
\* visible.
OptimismRemoved ==
  \A k \in Key \ moved : (~ dirty(db, k) /\ db.stamp[k] = 0) => db.main[k] = Absent

\* Readers see the base with the pending edits replayed in order, after every
\* step and not only after those that rebuild.  A record some of whose pending
\* edits no longer apply, and one written directly, is not covered.
VisibleIsReplay ==
  \A k \in Key \ moved :
    LET end == Replay(db.before[k], ops_for(db, k)) IN
    dirty(db, k) /\ end.ok => db.main[k] = end.row

\* A record with nothing pending has no before image left: the next mutation
\* would replay over it instead of over newer authority.
NoStaleBefore ==
  \A k \in Key : ~ dirty(db, k) => db.before[k] = Absent

\* A client with nothing pending that has reached the head of a channel agrees
\* with the server on every record of that channel, except those it wrote
\* directly and those it was told it could not apply.
Converged ==
  db.queue = << >> =>
    \A c \in Channel : db.cursor[c] = server.head[c] =>
      \A k \in Key \ moved :
        server.cursor[c][k] > 0 /\ missed[k] <= db.stamp[k] => db.main[k] = Content(server, k)

\* A pending delete covers the descendants of its record: each is deleted with
\* it, or is named by a mutation queued with it or since.
Covered(d) ==
  \A i \in DOMAIN d.queue : \A op \in ToSet(Deletes(d.queue[i])) :
    Descendants(d, op.key) \subseteq
      d.queue[i].effects \cup UNION {{o.key : o \in ToSet(OwnOps(q))} : q \in ToSet(SubSeq(d.queue, i, Len(d.queue)))}

\* A step that settles: a receipt is taken, mutations leave the queue, or a page
\* moves cursors.
SettlingStep ==
  \/ receipt # NoReceipt /\ receipt' = NoReceipt
  \/ Len(db'.queue) < Len(db.queue)
  \/ \E c \in Channel : db.cursor[c] # Unsubscribed /\ db'.cursor[c] > db.cursor[c]

\* Descendants that appeared under a pending delete, by a delivery, a rejection
\* or a direct write, are deleted with it from the next receipt, page or drop on,
\* whatever it is about; enqueuing and sending leave none out.  (Between a direct
\* write and that step they are visible.)
CascadeExtends == [][SettlingStep \/ (Covered(db) /\ db'.queue # db.queue) => Covered(db')]_vars

\* It does not matter whether the receipt of a batch or a page that carries the
\* same changes comes first: both orders leave the same rows, bases, stamps and
\* cursors.  (What is queued may have picked up a delete of a child that only
\* one of the orders ever saw; and a row written directly over a pending delete
\* stays until the first step that replays the queue over it, so of a record
\* whose truth the client moved only the base is compared.)
Carries(p, r) ==
  \A k \in DOMAIN r.records :
    k \in DOMAIN p.changes /\ p.changes[k].stamp = r.records[k].stamp
Seen(d) == <<[k \in Key \ moved |-> d.main[k]], [k \in Key |-> truth(d, k)], d.stamp, d.cursor>>
OrderIrrelevant ==
  \A p \in pages :
    (receipt # NoReceipt /\ Applicable(db, p) /\ Carries(p, receipt)) =>
       Seen(apply_page(Settled(db, receipt, {}), p, {}))
         = Seen(Settled(apply_page(db, p, {}), receipt, {}))

\* Optimism never reaches the base: enqueuing, sending, dropping and rejecting
\* mutations leaves the truth of every record as it was, local-only ones
\* included; only authority, accepted companions and direct writes move it.
SameTruth == \A k \in Key : truth(db', k) = truth(db, k)
Shallow ==
  (\/ nextOrdinal' # nextOrdinal
   \/ db'.queue # db.queue /\ receipt' = receipt /\ db'.stamp = db.stamp
   \/ receipt # NoReceipt /\ receipt' = NoReceipt /\ receipt.rejected = receipt.batch) => SameTruth
OptimismIsShallow == [][Shallow]_vars

===========================================================================
