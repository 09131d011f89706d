------------------------------- MODULE Store -------------------------------
(***************************************************************************)
(* Which database file a client uses, and who may write it.                *)
(*                                                                         *)
(* crates/client/src/{lib,schema_store,ddl}.rs, with crates/sqlite.  An    *)
(* application names one path; the file in use is the one the sidecar      *)
(* names, the path itself (file 0) or a numbered file beside it.  A schema *)
(* the file in use cannot hold gets a fresh file, and the sidecar moves    *)
(* last.  Several handles of one process may be open, one of them perhaps  *)
(* forgotten: the generation fence stops the writer that was overtaken.    *)
(*                                                                         *)
(* A command runs alone (bindings keep one lock per process), so an        *)
(* opening is interrupted only by its own failure or by the end of the     *)
(* process; every file operation of it is a step.                          *)
(***************************************************************************)
EXTENDS Contract

CONSTANTS
  Handle,                          \* the clients of one process
  Application,                     \* the schemas the application may be built with
  Found,                           \* what may lie at the path before the first start
  Channel,
  MaxFile, MaxWork, MaxCommits, MaxRestarts, MaxFaults   \* bounds of the instance

Absent == [absent |-> TRUE]
Unrecorded == [unrecorded |-> TRUE]

\* A new database file, before any table.
Blank == [layout |-> "fresh", tables |-> << >>, descriptor |-> Unrecorded,
          generation |-> 0, work |-> 0, cursors |-> << >>]
FileOk(file) == DOMAIN file = DOMAIN Blank /\ file.generation \in Nat

\* A schema is not the lack of one; what is found is a file that no opening has
\* completed.
ASSUME StoreAssumption ==
  /\ MaxFile \in Nat /\ MaxWork \in Nat /\ MaxCommits \in Nat
  /\ Unrecorded \notin Application
  /\ \A file \in Found \ {Absent} : FileOk(file) /\ file.descriptor = Unrecorded

VARIABLES
  found,       \* what lay at the path at first
  disk,        \* the database files, by number
  sidecar,     \* the number of the file in use
  app,         \* the schema of the running application
  handles,     \* the open clients
  opening,     \* the opening in progress
  abreast,     \* history: for each file, the handles that have seen all of it
  used,        \* history: the files ever in use
  astray,      \* history: a number was chosen that was not above all others
  bounds       \* restarts, faults and commits so far

vars == <<found, disk, sidecar, app, handles, opening, abreast, used, astray, bounds>>

File == 0..MaxFile
Closed == [closed |-> TRUE]
Idle == [idle |-> TRUE]
None == [none |-> TRUE]

Exists(f) == disk[f] # Absent
Open(h) == handles[h] # Closed
InSession(h) == Open(h) /\ handles[h].session # None

\* A transaction that another handle holds open keeps the write lock.
Locked(h, f) == \E k \in Handle \ {h} : InSession(k) /\ handles[k].file = f

---------------------------------------------------------------------------
(* Tables (ddl).                                                            *)

storage_type(type) == IF type \in {"int", "boolean"} THEN "INTEGER" ELSE "TEXT"
column(field) == [type |-> storage_type(field.type), nullable |-> field.nullable]
table_ddl(model) ==
  [identity |-> model.identity, columns |-> [f \in DOMAIN model.fields |-> column(model.fields[f])]]

\* What reconciliation refuses: another identity, another storage type, and a
\* missing column that may not be empty.
TableFits(table, model) ==
  /\ table.identity = model.identity
  /\ \A f \in DOMAIN model.fields :
       IF f \in DOMAIN table.columns
         THEN table.columns[f].type = storage_type(model.fields[f].type)
         ELSE model.fields[f].nullable
TablesFit(tables, schema_) ==
  \A m \in DOMAIN schema_.models \cap DOMAIN tables : TableFits(tables[m], schema_.models[m])

\* What one has, and of the other what it lacks (@@, which no prover expands).
Extended(f, g) == [x \in DOMAIN f \cup DOMAIN g |-> IF x \in DOMAIN f THEN f[x] ELSE g[x]]

\* Columns are added, never changed or dropped.
reconcile(tables, schema_) ==
  LET made == [m \in DOMAIN schema_.models |-> table_ddl(schema_.models[m])]
      Added_to(m) == [tables[m] EXCEPT !.columns = Extended(@, made[m].columns)]
  IN Extended([m \in DOMAIN tables |-> IF m \in DOMAIN made THEN Added_to(m) ELSE tables[m]], made)

---------------------------------------------------------------------------
(* Opening (open_at, open, rebuild_beside).                                 *)

Plan(schema_, pending, fresh) == [schema |-> schema_, pending |-> pending, fresh |-> fresh]

\* Mutant: tables that fit are enough.
Fitting_tables(file, schema_) == TablesFit(file.tables, schema_)
Fitting(file, schema_) ==
  IF file.descriptor = Unrecorded THEN TablesFit(file.tables, schema_)
                                  ELSE in_place(file.descriptor, schema_)

\* How the file in use is opened: as it is, with the schema of its unsent work,
\* or left for a fresh file beside it.
Choose(file, discard) ==
  CASE file.layout = "fresh" -> Plan(app, FALSE, FALSE)
    [] file.layout = "legacy" -> Plan(app, FALSE, TRUE)
    [] OTHER ->
         IF Fitting(file, app) THEN Plan(app, FALSE, FALSE)
         ELSE IF file.descriptor # Unrecorded /\ file.work > 0 /\ ~ discard
           THEN Plan(file.descriptor, TRUE, FALSE)
         ELSE Plan(app, FALSE, TRUE)

\* Opening the connection creates the file.  `asked` is what the application
\* said about unsent work, which counts when the file is left, `discard` what
\* open_at is told.  (A sidecar that is there but cannot be read is not modelled.)
Start(h, discard, asked) ==
  LET file == IF Exists(sidecar) THEN disk[sidecar] ELSE Blank
      plan == Choose(file, discard)
  IN
    /\ plan.fresh => sidecar < MaxFile
    /\ disk' = [disk EXCEPT ![sidecar] = file]
    /\ opening' = [handle |-> h, asked |-> asked /\ plan.fresh, carried |-> {}, unread |-> FALSE, file |-> sidecar,
                   schema |-> plan.schema, pending |-> plan.pending, fresh |-> plan.fresh,
                   step |-> IF plan.fresh THEN "clear" ELSE "framework"]

open_at(h, discard) ==
  /\ opening = Idle /\ ~ Open(h)
  /\ Start(h, discard, discard)
  /\ UNCHANGED <<found, sidecar, app, handles, abreast, used, astray, bounds>>

\* The handle stays on the old file until the switch; it forgets its origin first.
\* Mutant: the queue is not looked at again.
Unsent_left(h, discard) == TRUE
Unsent(h, discard) == disk[handles[h].file].work = 0 \/ discard
rebuild(h, discard) ==
  /\ opening = Idle /\ Open(h) /\ ~ InSession(h)
  /\ handles[h].pending /\ handles[h].origin
  /\ Unsent(h, discard)
  /\ Start(h, TRUE, discard)
  /\ handles' = [handles EXCEPT ![h].origin = FALSE]
  /\ UNCHANGED <<found, sidecar, app, abreast, used, astray, bounds>>

Doing(step) == opening # Idle /\ opening.step = step
Then(step) == opening' = [opening EXCEPT !.step = step]

\* n operations of an opening fail.
Fail(n) == bounds.faults + n <= MaxFaults /\ bounds' = [bounds EXCEPT !.faults = @ + n]
Failed(done) == IF done THEN 0 ELSE 1

\* Numbered files above the one in use.
\* Mutant: every numbered file.
Strays_all(f) == 1..MaxFile
Strays(f) == {n \in 1..MaxFile : n > f}

\* Those that cannot be listed or removed stay.  (Not the last number of the
\* instance, above which there is no room.)
clear ==
  /\ Doing("clear") /\ Then("create")
  /\ \E stay \in SUBSET {n \in Strays(opening.file) : Exists(n) /\ n < MaxFile} :
       /\ Fail(Failed(stay = {}))
       /\ disk' = [n \in File |-> IF n \in Strays(opening.file) \ stay THEN Absent ELSE disk[n]]
  /\ UNCHANGED <<found, sidecar, app, handles, abreast, used, astray>>

\* One above every numbered file.
Next_free(next) ==
  \A n \in 1..MaxFile : (Exists(n) => n < next) /\ (n = next - 1 => Exists(n))

\* The new file is named, and the channels of the old one are read.  A directory
\* that cannot be listed counts as empty, so that a first file that is there is
\* opened as it is; an old file that cannot be read has no channels.  (A failure
\* that makes no difference is not counted.)
create ==
  LET channels == DOMAIN disk[opening.file].cursors IN
    /\ Doing("create")
    /\ \E next \in 1..MaxFile, carried \in {channels, {}} :
         /\ Next_free(next) \/ next = 1
         /\ Fail(Failed(Next_free(next)) + Failed(carried = channels))
         /\ disk' = IF Exists(next) THEN disk ELSE [disk EXCEPT ![next] = Blank]
         /\ opening' = [opening EXCEPT !.step = "framework", !.file = next,
                                       !.carried = carried, !.unread = carried # channels]
         /\ astray' = (astray \/ ~ Next_free(next))
    /\ UNCHANGED <<found, sidecar, app, handles, abreast, used>>

framework ==
  /\ Doing("framework") /\ Then("initialise")
  /\ disk' = [disk EXCEPT ![opening.file].layout = "current"]
  /\ UNCHANGED <<found, sidecar, app, handles, abreast, used, astray, bounds>>

\* One transaction: the tables, the descriptor, and the client's row.
initialise ==
  LET f == opening.file IN
    /\ Doing("initialise") /\ Then(IF opening.fresh THEN "carry" ELSE "finish")
    /\ ~ Locked(opening.handle, f) /\ TablesFit(disk[f].tables, opening.schema)
    /\ disk' = [disk EXCEPT ![f].tables = reconcile(@, opening.schema),
                            ![f].descriptor = opening.schema,
                            ![f].generation = IF @ = 0 THEN 1 ELSE @]
    /\ UNCHANGED <<found, sidecar, app, handles, abreast, used, astray, bounds>>

\* The subscriptions start over in the new file: a write of their cursors.
Restarted(cursors, C) ==
  [c \in DOMAIN cursors \cup C |-> IF c \in C THEN 0 ELSE cursors[c]]
carry ==
  LET f == opening.file IN
    /\ Doing("carry") /\ Then("point")
    /\ \/ opening.carried = {} /\ UNCHANGED <<disk, abreast>>
       \/ /\ opening.carried # {}
          /\ disk' = [disk EXCEPT ![f].cursors = Restarted(@, opening.carried),
                                  ![f].generation = @ + 1]
          /\ abreast' = [abreast EXCEPT ![f] = {}]
    /\ UNCHANGED <<found, sidecar, app, handles, used, astray, bounds>>

point ==
  /\ Doing("point") /\ Then("finish")
  /\ sidecar' = opening.file /\ used' = used \cup {opening.file}
  /\ UNCHANGED <<found, disk, app, handles, abreast, astray, bounds>>

\* A rebuild that made no new file keeps the handle it was asked through.
finish ==
  LET h == opening.handle
      f == opening.file
      rebuilding == Open(h)
      kept == rebuilding /\ ~ opening.fresh
  IN
    /\ Doing("finish")
    /\ opening' = Idle
    /\ handles' = IF kept THEN handles ELSE
         [handles EXCEPT ![h] = [file |-> f, generation |-> disk[f].generation,
                                 schema |-> opening.schema, pending |-> opening.pending,
                                 origin |-> TRUE, session |-> None]]
    /\ abreast' = IF kept THEN abreast ELSE
         [n \in File |-> IF n = f THEN abreast[n] \cup {h} ELSE abreast[n] \ {h}]
    /\ used' = used \cup {f}
    /\ UNCHANGED <<found, disk, sidecar, app, astray, bounds>>

\* A step fails, or finds the file locked for longer than it waits or with other
\* tables: the transaction it was in is rolled back and the opening returns the
\* error.
fail ==
  /\ opening # Idle
  /\ \/ Fail(1)
     \/ /\ Doing("initialise") /\ UNCHANGED bounds
        /\ \/ Locked(opening.handle, opening.file)
           \/ ~ TablesFit(disk[opening.file].tables, opening.schema)
  /\ opening' = Idle
  /\ UNCHANGED <<found, disk, sidecar, app, handles, abreast, used, astray>>

---------------------------------------------------------------------------
(* Writing (write, the session commands, the fence).                        *)

Rows(file) == [work |-> file.work, cursors |-> file.cursors]

\* What the application may do to them, and what an answer of the server may.
Changes(rows) ==
  {[rows EXCEPT !.work = n] : n \in (rows.work + 1)..MaxWork} \cup
  {[rows EXCEPT !.cursors = @ @@ (c :> 0)] : c \in Channel} \cup
  {[rows EXCEPT !.cursors = Restrict(@, DOMAIN @ \ {c})] : c \in DOMAIN rows.cursors}
Answers(rows) ==
  {[rows EXCEPT !.work = n] : n \in 0..(rows.work - 1)} \cup
  {[rows EXCEPT !.cursors[c] = 1] : c \in DOMAIN rows.cursors}

\* Mutant: the count of updated rows is not looked at.
fence_ignored(h) == TRUE
fence(h) == disk[handles[h].file].generation = handles[h].generation

\* The update of the fence counts as the write does.
Commit(h, rows) ==
  LET f == handles[h].file
      current == disk[f].generation = handles[h].generation
  IN
    /\ bounds.commits < MaxCommits
    /\ bounds' = [bounds EXCEPT !.commits = @ + 1]
    /\ disk' = [disk EXCEPT ![f].work = rows.work, ![f].cursors = rows.cursors,
                            ![f].generation = IF current THEN @ + 1 ELSE @]
    /\ handles' = [handles EXCEPT ![h].generation = @ + 1, ![h].session = None]
    /\ abreast' = [abreast EXCEPT ![f] = {h}]

write(h) ==
  /\ opening = Idle /\ Open(h) /\ ~ InSession(h)
  /\ ~ Locked(h, handles[h].file) /\ fence(h)
  /\ LET rows == Rows(disk[handles[h].file]) IN
       \E changed \in Changes(rows) \cup Answers(rows) : Commit(h, changed)
  /\ UNCHANGED <<found, sidecar, app, opening, used, astray>>

\* A session takes the write lock at once.  Its draft is what its transaction
\* sees; `saved` are the drafts of its savepoints.
begin_session(h) ==
  /\ opening = Idle /\ Open(h) /\ ~ InSession(h) /\ ~ Locked(h, handles[h].file)
  /\ bounds.commits < MaxCommits
  /\ handles' = [handles EXCEPT ![h].session = [draft |-> Rows(disk[handles[h].file]), saved |-> << >>]]
  /\ UNCHANGED <<found, disk, sidecar, app, opening, abreast, used, astray, bounds>>

Session(h, changed) ==
  /\ opening = Idle /\ InSession(h)
  /\ handles' = [handles EXCEPT ![h].session = changed]
  /\ UNCHANGED <<found, disk, sidecar, app, opening, abreast, used, astray, bounds>>

\* (A bound: a session changes the work or the subscriptions, not both.)
session(h) ==
  InSession(h) /\ LET rows == Rows(disk[handles[h].file]) IN
    \E changed \in Changes(handles[h].session.draft) :
      /\ changed.work = rows.work \/ changed.cursors = rows.cursors
      /\ Session(h, [handles[h].session EXCEPT !.draft = changed])
session_savepoint(h) ==
  InSession(h) /\ LET s == handles[h].session IN
    Len(s.saved) < MaxWork /\ Session(h, [s EXCEPT !.saved = Append(@, s.draft)])
session_release(h) ==
  InSession(h) /\ LET s == handles[h].session IN
    s.saved # << >> /\ Session(h, [s EXCEPT !.saved = Front(@)])
session_rollback_savepoint(h) ==
  InSession(h) /\ LET s == handles[h].session IN
    s.saved # << >> /\ Session(h, [draft |-> Last(s.saved), saved |-> Front(s.saved)])
rollback_session(h) == Session(h, None)

\* Refused, and rolled back, with a savepoint open or behind another writer.
commit_session(h) ==
  /\ opening = Idle /\ InSession(h)
  /\ IF handles[h].session.saved = << >> /\ fence(h)
       THEN Commit(h, handles[h].session.draft)
       ELSE /\ handles' = [handles EXCEPT ![h].session = None]
            /\ UNCHANGED <<disk, abreast, bounds>>
  /\ UNCHANGED <<found, sidecar, app, opening, used, astray>>

---------------------------------------------------------------------------
(* The application.                                                         *)

close(h) ==
  /\ opening = Idle /\ Open(h)
  /\ handles' = [handles EXCEPT ![h] = Closed]
  /\ abreast' = [f \in File |-> abreast[f] \ {h}]
  /\ UNCHANGED <<found, disk, sidecar, app, opening, used, astray, bounds>>

\* The process ends at any point; the next one may have another schema.
restart ==
  /\ bounds.restarts < MaxRestarts
  /\ bounds' = [bounds EXCEPT !.restarts = @ + 1]
  /\ app' \in Application
  /\ opening' = Idle
  /\ handles' = [h \in Handle |-> Closed]
  /\ abreast' = [f \in File |-> {}]
  /\ UNCHANGED <<found, disk, sidecar, used, astray>>

Init ==
  /\ found \in Found
  /\ disk = [f \in File |-> IF f = 0 THEN found ELSE Absent]
  /\ sidecar = 0
  /\ app \in Application
  /\ handles = [h \in Handle |-> Closed]
  /\ opening = Idle
  /\ abreast = [f \in File |-> {}]
  /\ used = {} /\ astray = FALSE
  /\ bounds = [restarts |-> 0, faults |-> 0, commits |-> 0]

Next ==
  \/ \E h \in Handle : \E discard \in BOOLEAN : open_at(h, discard) \/ rebuild(h, discard)
  \/ clear \/ create \/ framework \/ initialise \/ carry \/ point \/ finish \/ fail
  \/ \E h \in Handle :
       \/ write(h) \/ begin_session(h) \/ session(h) \/ commit_session(h) \/ rollback_session(h)
       \/ session_savepoint(h) \/ session_release(h) \/ session_rollback_savepoint(h)
       \/ close(h)
  \/ restart

Spec == Init /\ [][Next]_vars

---------------------------------------------------------------------------
(* Properties.                                                              *)

\* A handle that would pass the fence has seen every commit of its file: no
\* commit goes on top of another that its writer did not know of.
OneWriter ==
  \A h \in Handle : Open(h) =>
    LET f == handles[h].file IN
      handles[h].generation = disk[f].generation => h \in abreast[f]

Initialised(f) ==
  Exists(f) /\ disk[f].generation > 0 /\ disk[f].descriptor # Unrecorded

\* No file that was ever in use is lost, the unsent work left in it included,
\* and none is put in use before it is initialised, whatever opening failed, was
\* cut short or went on without what it could not remove or read: files are
\* made above the one in use.  (Unless the directory could not be listed when a
\* file was named: then numbers start over, and files above are lost.)
Kept ==
  /\ ~ astray => \A f \in used : Initialised(f)
  /\ found # Absent => Exists(0)

Unstarted(file) == file.cursors = [c \in DOMAIN file.cursors |-> 0]

\* The file in use changes only to one complete for the application, with every
\* subscription of the old file unless that could not be read; and, unless a
\* number was chosen unseen, with no work and every cursor at the start.  Work an
\* opened file still had to send is left behind only when the application said so.
Moved ==
  [][sidecar' # sidecar =>
       LET old == disk[sidecar]
           new == disk'[sidecar']
       IN /\ new.descriptor = app
          /\ old.descriptor # Unrecorded /\ old.work > 0 => opening.asked
          /\ ~ opening.unread => DOMAIN old.cursors \subseteq DOMAIN new.cursors
          /\ ~ astray => /\ new.work = 0 /\ Unstarted(new)
                        /\ DOMAIN new.cursors \subseteq DOMAIN old.cursors]_vars

\* Every record of a handle's schema can be stored in its file: each field has
\* its column, and a column of no field may be left empty.  A file from before
\* schemas were recorded is excepted, and so are those a number was chosen for
\* unseen: they are judged by the columns they have, not by those the schema no
\* longer has.
Storable ==
  \A h \in Handle : Open(h) /\ ~ astray /\ (handles[h].file = 0 => found = Absent) =>
    LET models == handles[h].schema.models
        tables == disk[handles[h].file].tables
    IN \A m \in DOMAIN models :
         /\ m \in DOMAIN tables /\ tables[m].identity = models[m].identity
         /\ \A f \in DOMAIN models[m].fields :
              f \in DOMAIN tables[m].columns /\ tables[m].columns[f] = column(models[m].fields[f])
         /\ \A f \in DOMAIN tables[m].columns \ DOMAIN models[m].fields :
              tables[m].columns[f].nullable
===========================================================================
