# A verification of ahead

`ahead` synchronises records between offline-first clients and one PostgreSQL
server. A client runs named mutations at once, on its own SQLite database, and
sends them later; the server runs each mutation's handler, answers with a
receipt, and tells every other client what changed through numbered positions of
channels. The decisions are Rust (`src/crates/client`, `src/crates/server`); the
hosts around them are TypeScript and Dart (`src/packages`).

This directory holds TLA+ modules of the parts of that system that decide
something, the TLC configurations that check them, and TLAPS proofs about all of
them, for every size. Every definition names its lines of
source in `PROJECT.json`, under `map`. Where a name of the code is a TLA+ identifier, the definition has it.

## 1. The system

```
 application                                            application
     | mutate, direct, subscribe                  handlers, transaction()
     v                                                        v
 +--------------------- client ----------+      +--------- server ------------------+
 | queue -> freeze -> SyncCycle (push) --+----->| claim -> handlers -> saveReceipt  |
 |   ^  acknowledge <---- receipt -------+------+    |  stamps, publications         |
 | records: main + before + stamps       |      |    v                              |
 |   ^                                   |      | heads, invalidations, record rows |
 | downlink: cursors, pull ledger  <-----+------+- process_pull (snapshot)          |
 |   ^                                   |      |    ^                              |
 | LiveSession, host loop, socket  <=====+======+= Subscriptions <- WakeHub <commit |
 +---------------------------------------+      +-----------------------------------+
```

| Component | State | Operations | What is hard, and what must hold |
|---|---|---|---|
| Client uplink: `client/src/{push,queue,policies}.rs` | rows of `ahead_mutation` and its dependency and prerequisite tables; `next_ordinal`, `next_push`, `last_completed_push` | `enqueue`, `drop`, prerequisite results, `freeze`, `encode_push`, `acknowledge` | Lost, repeated and late messages. Each mutation is run at most once and ends the way the server decided; order follows the dependencies; one blocked mutation blocks only its own. |
| Server push: `server/src/lib.rs` `process_push`, `packages/postgres` | the claim row of each client: sequence and receipt | claim, run, save | Copies of one request in concurrent transactions, serialization failures. The stored receipt is the only outcome of a batch. |
| Client records: `client/src/{mutate,authority,rows,ledger}.rs` | the application's tables, the `before` tables, stamps | optimistic writes, direct writes, rebuild, staging of authority, cascades | Versions come by receipt and by page in any order. Once all is delivered the client holds the server's rows; what is shown is the queue replayed over them. |
| Client pull: `client/src/{downlink,transport}.rs`, `PullLedger` | cursors, issued pulls | one pull for every subscription, the cursor gate, application of a page | Stale pages, changed subscriptions, gaps. A cursor never covers what was not delivered. |
| Client live session: `client/src/{live,connection}.rs`, `client-js/{connection,live,runtime}.mts` | session, driver, host session, buffers, command queue | socket, request and timer events; pause, resume, subscribe | Everything is asynchronous. No position is passed over; the lane never stops trying. |
| Server distribution: `server/src/readback.rs`, `packages/postgres/src` | record rows, stamps, channel heads, invalidations | advance, ensure, publish, scan, load | Concurrent writers under REPEATABLE READ and readers in between. A stamp names one content; a reader at a head has every change below it. |
| Server live connection: `server/src/live.rs`, `serveLive`, `WakeHub` | per-socket scopes, running pull, listeners | negotiate, wake, pull, page, close | A commit between any two steps still reaches the socket. |
| Server host: `packages/server/index.mts` | transaction sessions, touched channels | `run`, `transaction`, refusals, wakes | Wakes exactly for what was committed; conflicts retried. |
| Opening and schema files: `client/src/{schema_store,ddl}.rs`, `open_at` | sidecar, numbered files | open, rebuild beside, rebuild later | A failure or a crash at any file operation loses no file that was in use, with the exception in section 6; unsent work is left behind only when asked. |
| Generation fence and sessions: `Client::fence`, `Session` | `ahead_client.generation`, an open transaction with savepoints | write, the session commands | Several handles on one file, one of them forgotten: none may commit over what it has not seen. |
| Push host loop: `startConnection`, `runSync`, `ConnectionDriver`, `SyncCycle` | epoch, abort, driver, the cycle under way | start, pause, resume, wake, close | Everything is asynchronous. No wake or retry is slept through, and a paused lane sends nothing. |
| Compiler: `crates/compiler/src`; core schema: `core/src/schema.rs` | the output and history files | parse, validate, reconcile, generate, write | What a released client sends is understood by every later server, and the reverse, through every edit the compiler accepts. |
| Bindings, SQLite driver | the table of open clients; connections | open, close, command | One command at a time, one writer at a time. |
| Queries, wire types, SDK ports, simulator | none of their own | | see section 7 |

The hazards, each at its line with the properties that cover it or the reason
none does, are in `PROJECT.json`.

## 2. The modules

| Module | What it models | Composes with |
|---|---|---|
| `Settlement` | what the uplink promises a mutation | implemented by `Push` |
| `Push` | the queue, the batches, the network, the claim row | |
| `Records` | one client's rows against receipts and pages | takes from `Push` that a batch runs once and its receipt arrives |
| `Distribution` | server transactions by statement, row locks, and a reader | takes the claim row from `Push` |
| `LiveStream` | what a live socket promises | implemented by `ServerLive`, used by `ClientLive` |
| `ServerLive` | one socket at the server, with commits and wakes | `LiveStream` |
| `ClientLive` | the client's live lane; its server is a `LiveStream` | `LiveStream` |
| `PushLane` | the push lane of the client's host | provides the retries that `Push` takes as fair |
| `Contract` | schemas, histories, encoding and decoding, as operators | |
| `Contracts` | compiles, deployments and releases over the years | `Contract` |
| `Store` | the client's database files, sessions and the fence | `Contract`, for schemas and their compatibility |
| `PushProofs`, `RecordsProofs`, `DistributionProofs`, `ServerLiveProofs`, `ClientLiveProofs`, `PushLaneProofs`, `ContractsProofs`, `StoreProofs` | theorems, see section 5 | the module each is named for |
| `MCRecords` | the small applications on which `Records` is checked | `Records` |
| `MCPush`, `MCDistribution`, `MCClientLanes`, `MCContracts`, `MCStore` | values for TLC | |

Definitions whose names end in a suffix such as `Doomed_shallow` or `gaps_none`
are variants of the definition that follows them, with a plausible mistake in
it. `PROJECT.json` pairs each checked property with the variant it must detect.

### Push and Settlement

A mutation is its ordinal, its dependencies, its prerequisites and the verdict of
its handler. `status`, `push`, `lifecycle`, `sequence`, `prerequisite` and
`failed` are the columns and tables of the queue, `nextOrdinal`, `nextPush` and
`lastCompleted` the columns of `ahead_client`. A client operation is one SQLite
transaction and hence one action: `enqueue`, `drop_mutation`, `freeze`,
`encode_push` (the retry), `acknowledge`, `ignore_receipt`, and the three
prerequisite commands. Messages stay deliverable until lost, so they are lost,
repeated and reordered freely, and a client crash is the loss of what was in
transit. A server transaction `t` goes through `begin` (its snapshot), then
`retry` (40001), `answer_stored`, `refuse` or `take`, one `handle` per mutation,
and `save_receipt`; `abort` is any failure.

Abstracted: the byte limit of `freeze` is a free choice among the batches the
code could choose; the verdict is a free choice; how a policy derives
dependencies is a free choice among the queued mutations. A mutation's effect on
records is `Records`.

`Settlement` has neither numbers, batches, retries nor receipts: mutations are
submitted, the server decides each once and only after the mutations its
lifecycle rests on, and the client is told that decision or gives up on a
mutation the server never decided. `Push` implements it with `status`,
`lifecycle` for the needs, and the verdict read from the committed handler runs.

### Records

`db` is the client's database: `main` and `before` rows, `stamp`, `cursor` and
the queue with its effects. `server` is the history of versions, the channel
heads and the invalidations. `pages` are pulls and frames in transit, which may
be lost, late or repeated. `app` is which of the instance's applications this is, by
what it subscribes to, mutates, writes directly and has its server do; the state
machine is one for all of them. `moved` and `missed` are history: which truths a
direct local write moved, and which versions a delivery failed to apply. The
operators (`hold_truth`, `rebuild`, `refresh_pending`, `stage_authority`,
`apply_records`, ...) map a database to a database, and each client transaction
is one action that applies them in the order of the code. Loops over operations,
queue and deliveries are `Folded`, a recursive function rather than an operator, so that
`RecordsProofs` can follow them step by step. `RecordsAssumption` says what an
application is made of.

Abstracted: rows have an owner, which cascades, and a value; local SQL
constraints, normalisation, the `diverged` flag and reports are left out; the
pull ledger is a lost page; dependencies are in `Push`.

### Distribution

Server transactions by statement: `write` of the application's rows,
`advance` and `ensure` of stamps, `publish`, `load`, savepoints, `refuse`,
`handler_failed`, and `commit`, under REPEATABLE READ with row locks: a locked row that changed since the snapshot fails
with 40001, a cycle of waits with 40P01, and either runs the body again. A
subscriber pulls pages of any of its channels from snapshots. `store` holds rows,
stamps, heads and invalidations, a row's content being who wrote it last; `tx` the transactions;
`delivered` and `reader` what the subscriber holds; `woken` the channels told.

Abstracted: a handler declares every record it changes (the contract the
documentation puts on it); EnsureStamp's no-op update counts as a change of the
row; a loader failing on one record of a page is left out. `DistributionAssumption`
states that contract, and that records, rows of the application and channels are
rows of different tables.

### ServerLive and LiveStream

`jobs` is what waits for the event loop of the process: `notify`, after a commit,
and `read`, the end of a pull's transaction, append events, and `dispatch` runs the first one
through `Subscriptions::handle`. A pull's transaction takes its snapshot at its first
statement, `begin`, and its page arrives many awaits later: commits, and wakes of the very
channels it is reading, fall in between, and the page lacks them. `scopes` has each channel's
cursor and whether a wake is pending; `running` is what the session takes to be outstanding,
`pulls` the host's transactions with their snapshots; `told` is where the frames sent have led the client.
`second_frame`, `pull_failed` and `socket_closed` end a socket, `release` frees it.
`LiveStream` knows only heads, the stage of the socket and where its frames have led the client.

### ClientLive

`lane` is everything the client holds: the engine's cursors, subscription
epochs, generation and issued pulls; the driver (`paused`, `dirty`, `in_flight`,
`backoff`); the engine's session; and the host's session, timer, socket, frame
buffer, request and queue of commands `calls`. `Client#exclusive` runs one
command at a time in the order they were queued, and only commands touch the
engine, so a command with the actions the host executes for it is one step,
`run`; sockets, responses, timers, the application and the server act between
the steps. A catch-up is answered in two: `answer` reads the heads in the server's snapshot,
`respond` brings the response, and what was committed, streamed and lost between them is not
in it. That is what `again` is for: a pull asked for while one is in flight is made after it.
The server's end is `LiveStream`, whose actions are conjuncts of
`acknowledge`, `stream` and `commit`.

Left out: `stop` and `close` of the live lane, storage errors, the delay of `refreshAuth`, frames
a correct server does not send, the ledger's capacity of 1024, and the one-shot
pull of `SyncCycle`, which the SDKs never ask for (they pass `pushOnly`).

### PushLane

`driver` is `ConnectionDriver`, with `late` for a due time in the future; `conn`
has, for each connection the application opened, where `startConnection` stands
and its variables (`stirred` is a raised epoch, `stopped`, `paused`, `aborted`);
`sync` is `Client##syncing` with the request of its `SyncCycle`; `queue` counts
the mutations in the batch in flight and beyond it; `calls` is the queue of
`Client#exclusive`. A command runs as one step, `run`, and hands its caller what it
returns. `decide`, `settle`, `refreshAuth`, `timer` and `paused` are the loop between
its awaits; `answer`, `lose` and `due` the network and the clock; `connect`,
`mutate`, `pause`, `resume`, `wake` and `close` the application.

Abstracted: an expired credential is one of the failures, refreshed or not;
delays are "later". Left out: closing the whole client and failures of a command.
Assumed: the application does not call `pause` again before the previous call
returned. What a batch means, and which mutations a prerequisite keeps from it,
is in `Push`. `MCClientLanes` runs either lane, because the two share nothing but
the queue of commands, which serves the calls of each in their own order.

### Contract and Contracts

`Contract` translates the pure functions that decide which versions of a
declaration may live side by side: what the compiler accepts of a source
(`SourceValid`), the snapshot of a mutation and of a model (`capture`), what a
new snapshot may change within a version (`compatible`, `reads_on`), both
histories (`reconciles`, `reconciles_models`), the fence on published names
(`check_fence`), the documents a compile writes (`schema`, `backend`), what the
generated functions let an application pass and how they encode it (`Calls`,
`encode`), how the server takes it apart again (`decode`), what the server's start
refuses (`config_decode`), and when a database keeps its schema (`in_place`).
A mutation is sent as a flat list of operations; its slots are found again by
their order, which is the difficult part.

`Contracts` is the life of a project. `compile` reads and stages, `move` renames one
file, `crash` ends the process between two; `deploy` and `release` take finished
outputs, a backend before the applications built with it; `old_tools` is the
history left at its old place by earlier releases. `files` maps the files there are
to their texts, the old place being `superseded`. Every application ever released
remains in `released`. `SourceAssumption` says which parts a source has.

Assumed: outputs of a compile that was cut short are never deployed. Left out:
parsing and the layout of generated text, defaults, unique constraints,
deprecations, and policies the application writes.

### Store

`disk` has the database files by number, `sidecar` the number of the file in use;
`handles` the open clients with their generation in memory, schema and session;
`opening` is an opening or a rebuild in progress, one step per file operation
(`clear`, `create`, `framework`, `initialise`, `carry`, `point`, `finish`). Most failures end
it (`fail`); three do not, because the code goes on: a stray file that cannot be removed
stays (`clear`), a directory that cannot be listed counts as empty, so that numbers start over,
and an old file that cannot be opened or read has no subscriptions (`create`). History has what
the properties exempt, exactly: `unread` of an opening for the last, `astray` for a number
chosen over existing files; and `used`, the files ever in use. `restart` ends the process
anywhere, with another schema at the next start. `write` and `commit_session` go through the fence; a session holds
the file's write lock, works on a draft, and has savepoints. `abreast` is history:
which handles have seen all of a file. `app` is the schema of the running
application, and `Contract!in_place` says whether a file can be kept for it.

Assumed: two openings do not overlap, because all commands of a process run
under one lock (`bindings/node/src/client.rs:5`), and one process uses a
database. Work is a number of unsent mutations; which rows they wrote is in
`Records`.

## 3. The runs

| Run | Bounds | Shows |
|---|---|---|
| `push_safety` | 3 mutations, 1 prerequisite key, batches of 2, 2 server transactions | no mutation runs twice, outcomes agree, batches stay frozen, dependencies order the handlers, receipts are stable, the client is never refused for good |
| `push_live` | 2 mutations, the same otherwise, losses | `Push` implements `Settlement`; what no prerequisite holds settles; a prerequisite blocks only its own |
| `records` | four applications in one run: a record with 2 mutations, 2 later versions, 1 page, failing deliveries and direct writes; a parent and a child, pages of one record, 2 pages; the same with the child created directly; a record on two channels with a local-only one | truth is a version of the server, the visible row is the replay, all delivered means converged, deletions extend to new children, the order of two deliveries does not matter |
| `records_twice` | one mutation with two operations on one record | finding 1 |
| `records_race` | parent deleted and created again | finding 2 |
| `distribution` | 2 pushes, 2 settlements, 2 records from 2 rows, 2 channels, 2 transactions at once, pages of 1 | stamps, publications, wakes and pages under every interleaving of statements |
| `distribution_conflict` | the same | finding 3 |
| `server_live` | 2 channels, 3 positions, pages of 1, commits at any point of a pull | no wake is lost; the socket is the stream of `LiveStream` (proved too), and follows the heads (checked only) |
| `client_lanes` | live lane: 1 channel, 5 positions, pages of 4, buffers of 1, 2 disturbances; push lane: 2 connections, 2 mutations, 2 controls, 1 lost request | nothing is passed over, cursors cover what was delivered, the client catches up; a paused connection sends nothing, what is queued is sent and answered while a connection is in use |
| `client_live_judged` | 1 channel, 4 positions | finding 4 |
| `contracts` | every chain of 3 compiles of a project with a model, an enum and two mutations under 10 edits and 2 versions; every list of up to 3 slots of creates and deletes; children with and without bindings; 1 crash | what any released client queues means the same to every later server, what a server reads out the client can store, nothing published is forgotten, updates in place are sound |
| `store` | 2 handles, 3 schemas, 3 things found at the path, 2 restarts, 1 failure, 2 commits, 1 unsent mutation | no commit over an unseen one, no file in use lost, the sidecar moves only to a complete file, every record fits its table |

Why the bounds are enough. A batch of two with a third mutation outside it is
the smallest queue with a chain of dependents across batches, a batch passed
over, and a retry with newer rows waiting. Two server transactions suffice
because the claim row serialises any two. Symmetry is used only where no liveness is checked: for the server
transactions and for the handles of `store`. Messages need not vanish in `push_safety`:
one that is never taken is as good as lost. Three positions let a commit fall
before a pull, into it and after it. Two versions after the first make a
record deleted and created again; one page in transit with a receipt makes both
orders of delivery. Two records from two rows make transactions that conflict on
a row, on a stamp and on a channel separately. Buffers of one overflow at the
second frame, and five positions are what it takes to lose frames after a catch-up was
read and before it arrives, to subscribe again, drop a frame and meet the gap after it. The clock is
not modelled: a retry is due at any later time. Three compiles are the shortest
chain in which a client is two versions behind its server; three slots are the fewest with an ambiguous one between two
others. In `store` each life of a process moves the sidecar at most once, so
`MaxFile` of 3 never binds with two restarts; two commits make a writer fall
behind and try again. A session changes the work or the subscriptions of the file, not both, which
only keeps the number of drafts down. Two controls make a pause and a resume, or a pause of a
lane just awakened; the last connection is not closed, so the
first one has every ending and the second every continuation.

Deadlock is not checked: every bounded instance has states where all is
delivered and nothing is left to do.

## 4. Fairness

* `Push!FairSpec`: the client goes on freezing, re-sending and acknowledging,
  because `startConnection` retries for ever with bounded backoff; the server
  ends the transactions it began; a request sent again and again is taken in the
  end; and from some time on the network and the server no longer disturb the
  batch in flight. Nothing is assumed of the application.
* `ServerLive!FairSpec`: a commit's `notify` runs, a pull's transaction begins and ends,
  and the event loop runs its jobs. Pulls may fail.
* `ClientLive` in `client_lanes`: weak fairness of `System`, the commands, timers, answers, responses and
  the server's stream together, with its enabledness written out as `Quiet`. An application that
  pauses need not resume; connections may be lost as long as the instance's
  disturbances last, so losses end.
* `PushLane!Fairness`: queued commands run, the loop's promises resolve, time
  passes, and a request that is not lost is answered; lost requests are bounded.
  The runtime's event loop and the request's own timeout give this. `Pushed` only
  asks for progress while a connection is in use, so it assumes nothing of the
  application.

## 5. What is proved

Every theorem is of a module's `Spec` for every value of its constants, from the one
assumption the module names; those say what kind of thing a constant is, and, of
`Distribution`, that a handler declares what it changes. TLC checks the properties on
the instances of section 3, with bounds; the bounds are constants here, so the
theorems hold for any. No property among them is inductive alone. For each, the
inductive invariant is given in named parts, each about one place of the state.

### The uplink

`PushProofs`, for any mutations, batch size, prerequisite keys and server
transactions:

* `RunsAtMostOnce`, `OutcomesAgree`, `AlwaysServed`, `RetriesRepeat`, `ReceiptsRepeat`,
  `CausesAccepted`, `DeclaredOrder`: the invariants `ExactlyOnce`, `OutcomeAgreement`,
  `NeverWedged`, `FrozenBatch`, `StableReceipt`, `LifecycleOrder` and `SequenceOrder`.
* `Refinement`: `Spec => Settles`, every step of `Push` is a step of `Settlement`
  or a stutter.
* `TypeCorrect` and `Inductive`: `TypeOK`, which no run checks again, and `IInv`.

Exactly-once rests on the server comparing a number with its row, and is broken by a
client that gives one number to two batches, or by a transaction that runs on an old
snapshot. `IInv` says therefore:

* `QueueInv`: rows from `nextOrdinal` on do not exist, only queued rows carry a push
  number, and a queued mutation rests on queued or accepted ones only, because a
  rejection takes the dependents of the others along.
* `FlightInv`: at most one push is in flight, it is `nextPush - 1` and the successor
  of `lastCompleted`, and nothing in it rests on a mutation still queued.
* `ClaimInv`: the server's sequence is `lastCompleted` or one more; in the second
  case its receipt says how each mutation in flight ran.
* `LogInv`: what has run is settled at the client, or in flight with its answer
  stored; what is settled ran with that verdict; and `LifecycleOrder`.
* `MessageInv`: no message names a number beyond the ones given out; equal numbers
  mean equal requests (`FrozenBatch`) and equal receipts (`StableReceipt`).
* `TxInv`: at most one transaction holds the claim row; it runs the batch after the
  claim's, and has run each mutation of its request at most once.

Each action has a lemma (`EnqueueStep`, `DropStep`, ..., `SaveReceiptStep`), and
`Inductive` puts them together. `DoomedClosure` characterises the least set of
dependents, which is what `acknowledge` and `drop_mutation` need for
`LifecycleOrder`. `SequenceOrder` takes a second invariant on top of the first,
`OrderInv`: a mutation follows earlier ones only, nothing in flight follows what is
still unsent, and a transaction runs its batch in ordinal order. `StepRefines` is the
refinement of one step.

### The client's records

`RecordsProofs`, for any number of records, any channels, page sizes and applications:

* `NoStaleBeforeHolds` (`NoStaleBefore`), and `Inductive`.
* `OptimismIsShallowHolds` (the action property `OptimismIsShallow`), `BaseIsVersionHolds`
  and `ConvergedOnRootsHolds`, if no mutation names a record again that it creates, or
  deletes after it created (`OnceNamed`). The excluded case is finding 1.
* `VisibleIsReplayHolds` (`VisibleIsReplay`, the guarantee L1 of `guarantees.md:15`), if
  besides no mutation creates, after a delete, a record that can have an owner
  (`NoneRevived`). The excluded case breaks it, see the end of section 6.
* `TruthIsServerVersionHolds` and `ConvergedHolds` (`TruthIsServerVersion`, `Converged`), if
  besides no record ever has an owner (`Root = Key`). The excluded case is finding 2: a
  record with an owner may be hidden by an old deletion of that owner. `BaseIsVersion` and
  `ConvergedOnRoots` are what remains true of such records: hidden or the right version,
  never a wrong one.

The four applications that TLC runs satisfy `OnceNamed` and `NoneRevived`, and one of
them `Root = Key`.

What makes these hard is that nothing arrives in order. The invariant `IInv` therefore says
of everything in transit what it is worth, not when it comes:

* `Clean`: a record with nothing pending has no before image.
* `QueueIs`: ordinals are given out once, so a batch names its mutations.
* `Placed`: the server has every record of a channel at one position, below the head.
* `ReceiptIs`, `PagesAre`: each record of a receipt or a page is a version of the
  server; a page has every record that changed between where it starts and where it ends.
* `Reached`: no cursor beyond a head, no stamp beyond the versions.
* `Covers`: what changed below a cursor the client has, or knows it could not apply.
* `BasesAre`: the base of a record is the version of its stamp, or hidden with its owner.
* `Visible`: readers see of a record the base with what is pending replayed over it. It is
  kept apart from the base: a step shows on what was shown (`ShowsOn`), and a delivery
  also shows whatever it moved (`Showing`), written directly before or not. That an
  enqueued mutation's writes, done one by one on the table, end where the replay of its
  stored operations ends, effects last, is `WritesFollow` and `EntryReplays`.

What an operator does to a database is a lemma: `Rebuilt`, `Extended` and `RebuildHeld` for the
replay, `Staged` and `ApplyRecords` for authority, `Enqueued` and `DirectDoes` for local
writes, `Settles` for receipts. A step lemma says what must be true of a step for
each part to stay (`LocalKeeps`, `DeliveringKeeps`, `ServesKeeps`), and one lemma per
action that it is. A fold is taken apart by `Along`: what is true at first and stays true
from one element to the next is true at the end. It is stated about a family of sets,
because the prover cannot take the formula as a parameter.

### Server transactions, stamps and channels

`DistributionProofs`, for any records, rows, channels, transactions
at once, and any work they do:

* `WakesFollow` (`CommitWakes`), `OneContent` (`StampNamesContent`), `NoneMissed`
  (`NothingMissed`), `StampsCount` (`StampCountsChanges`), `StampsOrdered`
  (`NoStampDeadlock`), and `TypeCorrect` (`TypeOK`, checked by no run).

Each is about a transaction that works on a snapshot while others commit, so the
invariants say what the snapshot is still worth:

* `ShapeInv`: where a transaction is in its work: its unit, the statements left, its
  savepoint, and the channels it touched.
* `LocksInv`: two open transactions never hold one row, and a row one has written was
  written by nobody since its snapshot. Whatever else follows, follows from this.
* `StampsInv`: `Sound`, positions are distinct and not above the head; for each
  transaction `Follows`, that a record without a new writer since the snapshot has
  sources without one, and what is held is ahead of the committed state;
  `Declared`, that a record whose source was written is advanced or about to be; `Since`
  and `ReadBack`, what the unit changed since its savepoint and read back for the
  receipt; and `Named`, that authority already handed out still agrees with the database.
* `CountsInv`: `Counted`, by how much a unit has moved each stamp, with the savepoint to
  go back to when it is refused.
* `OrderInv`: `Ascending`, what a transaction holds comes before what it will advance.

The last one gives `StampsOrdered`: around a cycle of waits the rows waited for would
increase for ever, and a finite cycle has a greatest (`Greatest`). The library's
induction takes a formula as parameter, so `Least` and `Induct` state induction over sets
of numbers, from the well-foundedness of `<`.

### The live socket of the server

`ServerLiveProofs`, for any channels, page size and number of commits:

* `NoWakeIsLost` (`NoLostWake`), `TypeCorrect` (`TypeOK`).
* `SocketStreams`: `Spec => Streams`, every step of the socket and its jobs is a step of
  `LiveStream` or a stutter.

`SessionInv` keeps cursors within heads, `PhaseInv` says what there is before the socket
opens, `RunningInv` that the pull outstanding asks from exactly the session's cursors and
that its snapshot lies between these and the heads, which may have moved on, `JobsInv` that
a page waiting for the event loop answers it, and `ToldInv` that
the frames sent have led the client to those cursors, which the refinement needs.
`NoLostWake` is a part of its own: of a channel beyond the cursor, the snapshot or the page is
as new as the head, or the page continues, or the channel is pending, or a wake is on its way.
A commit after the snapshot leaves only the last two, so it is the wake during a pull that
carries it.

### The client's live lane

`ClientLiveProofs`, for any channels, buffers, page lengths and disturbances:

* `CursorsCover` (`CursorCoversDelivered`), `NonePassedOver` (`NothingPassedOver`),
  `TypeCorrect` (`TypeOK`), `Inductive`.

`NothingPassedOver` speaks of a lane at rest. To be inductive, it has to say where
everything the server has sent, and the session does not hold, is meanwhile: in the
host's buffer, with a waiting command, in the session's queue, in an answer, or owed.
An answer holds what was sent before it was read (`Coming`), and nothing sent and lost since:
then `again` is set, and the pull after it is owed. That is `Ahead`, and `CoverInv` claims it of every
acknowledged session; `GreetInv` does so before, when the first frame's heads stand for all
that was sent. `LinkInv` relates the host's session to the engine's, `CallsInv` bounds the
commands that wait (one frame, one answer), `LedgerInv` has the ledger know the request of
a session whose subscription still holds, and `Draining` that the host waits exactly while a
frame's command does. What each operator does to a lane is a lemma, a command
(`Commanded`) is put together from them, and steps from commands. The exemption
of finding 4 is part of the property, as `dropped`.

### The push lane

`PushLaneProofs`, for any connections, mutations, controls and failures: `QuietWhenPaused`, the
invariant `PausedIsQuiet` of `client_lanes`, and `Inductive`. A loop decides, and its decision runs
after the pause. `Waiting` therefore says that a loop with a command queued stands where that
command left it, and has no other; `CycleInv` that the one cycle is awaited by the loop it is of; and
`QuietInv` that a quiet connection is paused and its request not under way.

### Compiles, deployments and releases

`ContractsProofs`, for any projects, compiles and crashes:

* `HistoriesKeep` (`NothingForgotten`) and `ReadersServed` (`Readable`).

Both rest on an order on snapshots: `CompatibleExtends` and `ReadsOnExtends` show that
`compatible` and `reads_on` are transitive, so that an application stays related to the
histories through every later compile, and `ContractsKept` and `MutationsKept` that an
accepted compile's histories extend the ones it read. The rest is the crash between
two renames. `JobInv`: no two staged files have one name. `PendingInv`: when all moves
are done the files are of one compile (`Ends`), and meanwhile every staged file already
serves what was released. `FinishedInv`: finished outputs are of one compile.
`ReleasedInv`: every released application is served by the backend in service and
remembered by the histories.

### The database files

`StoreProofs`, for any handles, schemas, channels, files and restarts, with a failure or
the end of the process after any step of an opening:

* `OneWriterHolds` (`OneWriter`), `KeptHolds` (`Kept`), `TablesHoldRecords` (`Storable`), the
  action property `MovesComplete` (`Moved`), and the invariants `Inductive` and `SchemasAgree`.

`OneWriter` compares a handle's number with the file's, and would be broken by a
handle that got ahead of its file; `Kept` by an opening that clears or points to
the wrong number; `Moved` by work or subscriptions written to the old file between the
choice of a plan and the move. `IInv` has one part per place:

* `DiskInv`, `LayoutInv`: under every number there is a database or nothing; one with a
  schema has passed the framework.
* `UseInv`: the file in use is complete, and until `astray` so is every file that ever was
  in use, and none lies above it.
* `HandleInv`: a handle's file was in use and is complete; its generation is not ahead of
  the file's, and if equal it has seen all of it. If it is left behind, the file in use has
  the application's schema, so that no second rebuild starts from it.
* `OpeningInv`: where each step of an opening is: on the file in use until the new
  one is named, on the one above it until the sidecar moves, and complete before that;
  after a number chosen unseen, on any. `Leaving` is what is true of the old file
  meanwhile: its work was asked about, and its subscriptions are carried unless `unread`.

The second invariant, `PlaceInv`, holds until `astray`: `SchemasAgree` is
`Spec => [](~astray => PlaceInv)`, by `StaysAstray`. A file has just its schema's tables,
unless it was found (`TablesInv`); a handle has its file's schema (`SchemaInv`); and what
an opening decided stays true of the file in use, and the new file is as it was made
(`PlanInv`), because commands of a process take turns and no commit comes
between. `HandlesStay` is what every step of an opening has in common: it keeps the
handles and never lowers a generation; `FileMade` is the same of a step that makes a file.

### Only model-checked

* Liveness: `EventuallySettled` and `NoHeadOfLineBlocking` of `Push`, `FollowsHead` of
  `ServerLive`, `CaughtUp` of `ClientLive`, `Pushed` of `PushLane`. Fairness and ENABLED are
  outside the prover.
* `CascadeExtends` and `OrderIrrelevant` of `Records`. The first is about what a cascade of
  one record reaches through rows that other pending mutations still change. It is a property
  of steps: the code looks for new descendants when a receipt, a page or a drop is applied
  (`authority.rs:108`), so after a direct write they are visible until then. The second
  compares two runs of every delivery; of a record the
  client wrote directly it compares the base only, because such a row, written over a pending
  delete, is replaced when the queue is replayed over it and not before.
* `Served` and `UpdatedInPlace` of `Contracts`: `encode` and `decode` walk a list of
  operations, and what that walk computes is an induction over data of its own. The
  histories they depend on are proved.

## 6. Findings

1. `records_twice` (`OptimismRemoved`): a mutation that creates a record and
   changes it in the same call copies the optimistic row aside as its truth
   (`mutate.rs:264`). Rejected or dropped, it leaves the record behind.
2. `records_race` (`Converged`): a deletion cascades to descendants whatever
   their stamps (`authority.rs:76`). An old deletion of a parent, delivered after
   a newer child, deletes the child, and no later delivery brings it back.
3. `distribution_conflict` (`ConflictsRetried`): a serialization failure inside a
   handler becomes a rejection of its mutation (`index.mts:638`), where
   `persistence.md:42` has the transaction retried.
4. `client_live_judged` (`FramesNotJudged`): a streamed frame is taken for the
   answer to a pull of an abandoned session (`lib.rs:311`) and dropped. The next
   frame shows the gap; until it comes the client is behind. `CaughtUp` and
   `NothingPassedOver` exempt exactly this case.

Seen and not run: the cascade of an authoritative deletion follows the owner the
client sees, optimism included (`mutate.rs:180`), so the instances move no child
between parents; and two transactions take stamps in canonical order within one
mutation but not across the mutations of a batch, against the comment at
`readback.rs:127`, so the database may have to break a cycle of locks
(`Distribution` lets it, and retries).

A mutation's effects, the deletes its cascades made, are stored after its own operations
(`mutate.rs:282`), and a cascade reaches a child by its before image too, even when a
pending mutation has deleted it already (`mutate.rs:181`). After that, a mutation that deletes
the parent and then creates the child again shows the child until the next rebuild, whose
replay ends with the delete. `NoneRevived` excludes it.

A request aborted by a pause that is taken back in the same turn is reported as a
failure and retried after the backoff (`connection.mts:74`), where
`scheduling.md:21` has such a failure reported as success; nothing is lost, and
`Pushed` holds. An identity field that gets another type is accepted at higher
versions (`history.rs:274` compares names), although `models.md:18` says that an
identity change is refused at every version: released applications then hold
keys the backend no longer has.

A compile stopped between two renames leaves new outputs beside old histories,
and its `schema.json` then binds the names of the next compile although nothing of
it was published; a deleted history is taken for an empty one.

Three failures of a rebuild are swallowed, and `Store` takes them. When the file in use
cannot be opened or read while a fresh one is made, its subscriptions are dropped
without a word (`client/src/lib.rs:477`): `Moved` exempts exactly that opening (`unread`).
A stray that cannot be removed stays, which does no harm, since the next number is above
it (`schema_store.rs:112`). But when the directory cannot be listed (`schema_store.rs:88`)
the number chosen is 1, whatever there is: a file of an earlier generation may then be opened
as the new one and the sidecar moved back to it, with its work and subscriptions, and a
later rebuild removes the files above it, which were in use. `lib.rs:459` says of a file
above the one in use that it was never pointed at, and `schema_store.rs:6` that an old
file is never deleted. `Kept`, `Moved` and `Storable` exempt exactly what follows such a choice (`astray`).

`rebuild` forgets its origin
before it opens (`lib.rs:536`), so a rebuild that failed cannot be asked for again
through the same handle, and a file of an earlier layout, or without a schema,
leaves its unsent work without asking; `Moved` speaks of recorded files for that
reason, and `Storable` excepts adopted tables, which may keep columns that must
not be empty. After the sidecar moved, a handle on the old file can still commit
work there.

## 7. What is not modelled

* Of the compiler: parsing, the text it generates, queries, deprecations, and what
  a policy written by the application does. Of the core: defaults, unique
  constraints, the encoding of messages and values.
* Queries, and the types and codes of the host contract: functions from input to
  output, or encodings, without state.
* The SQLite store and PostgreSQL: what the code relies on is modelled (atomic
  durable client transactions, write locks, savepoints; REPEATABLE READ, row
  locks), not their insides. The bindings are the table of open clients of `Store`.
* Dart and React Native: ports of the host loops that `ClientLive` and `PushLane` take
  from JavaScript.
* The simulator: a randomised test harness.
* Two processes opening or rebuilding one database at once, files deleted by
  others, a directory listed in part, and a sidecar that is there and cannot be read, which makes
  the path itself the file in use (`schema_store.rs:26`).
* Wakes between several server processes: `publish.md:47` accepts that they are
  not sent.
* The `Session` of the server's host counts pending operations; they are the
  engine's, which awaits each one. What a handler leaves unawaited itself is
  outside its settlement: `Distribution` takes handlers to await all they start.
* Failures of a client's commands, closing the whole client, and watchers.

## 8. Plan

The order is by what the system cannot do without: first a mutation's fate, then
the rows, then distribution, then liveness of delivery, then what lasts longer
than a process: files, versions and released applications; and the lane that
keeps the uplink going. These are done. Next:

1. `ClientLive` and `PushLane` with the errors of commands and the client's `close`;
   then `ServerLive` and `ClientLive` composed in place of `LiveStream`.
2. `Store` with two processes that open one database at the same time.
3. Proofs: `CascadeExtends` and `OrderIrrelevant` of `Records`; that a `ClientLive` over `ServerLive` still covers
   what was delivered, from `SocketStreams`.
