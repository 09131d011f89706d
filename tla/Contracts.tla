----------------------------- MODULE Contracts -----------------------------
(***************************************************************************)
(* The life of a contract: the developer compiles one source after another *)
(* into the same directories, deploys backends and releases applications,  *)
(* and every application ever released keeps running.                      *)
(*                                                                         *)
(* crates/compiler/src/main.rs, over the operators of Contract.  A compile *)
(* reads the files at once, stages all it writes, and moves the staged     *)
(* files into place one by one; the process may end between two moves.     *)
(* The developer deploys and releases only what a compile has finished,    *)
(* and a backend before the applications built with it.                    *)
(***************************************************************************)
EXTENDS Contract

CONSTANTS
  Project,                   \* the sources each project may go through
  MaxCompiles, MaxCrashes    \* bounds of the instance

\* What the parser makes of a source has the parts module Contract lists.
ASSUME SourceAssumption ==
  \A p \in DOMAIN Project : \A source \in Project[p] :
    /\ DOMAIN source = {"enums", "models", "mutations", "requirements", "prerequisites"}
    /\ \A m \in DOMAIN source.models :
         DOMAIN source.models[m] = {"version", "identity", "fields", "relations"}
    /\ \A n \in DOMAIN source.mutations :
         DOMAIN source.mutations[n] = {"version", "slots", "sequence"}

VARIABLES
  project,     \* which project this is
  files,       \* the text of each file there is
  job,         \* the staged files a compile has still to move
  finished,    \* the outputs are all of one compile
  deployed,    \* the configuration the backend runs
  released,    \* the applications released so far
  bounds       \* compiles and crashes so far

vars == <<project, files, job, finished, deployed, released, bounds>>

Missing == [missing |-> TRUE]

Init ==
  /\ project \in DOMAIN Project
  /\ files = << >>
  /\ job = << >> /\ finished = FALSE
  /\ deployed = Missing /\ released = << >>
  /\ bounds = [compiles |-> 0, crashes |-> 0]

---------------------------------------------------------------------------
(* Compiling.                                                               *)

\* The histories are read at once; one that is not there is empty.
Read_(file) == IF file \in DOMAIN files THEN files[file] ELSE << >>
\* The mutation history is read from its old place if it is not at the new one.
\* Mutant: a missing history is an empty one.
MutationHistory_there == Read_("mutations")
MutationHistory ==
  Read_(IF "mutations" \in DOMAIN files THEN "mutations" ELSE "superseded")
ModelHistory == Read_("models")

Accepted(source) ==
  /\ SourceValid(source)
  /\ "schema" \in DOMAIN files => check_fence(files["schema"], source)
  /\ reconciles(Resolved(source), MutationHistory)
  /\ reconciles_models(source, ModelHistory)

\* The files of a compile, in the order they are moved.
Outputs(source) ==
  LET resolved == Resolved(source)
      mutations == reconcile_history(resolved, MutationHistory)
      models == reconcile_model_history(source, ModelHistory)
  IN << [name |-> "schema", text |-> schema(resolved, mutations)],
        [name |-> "backend", text |-> backend(resolved, mutations, models)],
        [name |-> "client", text |-> schema(resolved, mutations)],
        [name |-> "mutations", text |-> mutations],
        [name |-> "models", text |-> models] >>

\* A refusal changes nothing; otherwise everything is staged.
compile(source) ==
  /\ job = << >> /\ bounds.compiles < MaxCompiles
  /\ Accepted(source)
  /\ job' = Outputs(source)
  /\ bounds' = [bounds EXCEPT !.compiles = @ + 1]
  /\ UNCHANGED <<project, files, finished, deployed, released>>

move ==
  /\ job # << >>
  /\ files' = [file \in DOMAIN files \cup {Head(job).name} |->
                IF file = Head(job).name THEN Head(job).text ELSE files[file]]
  /\ job' = Tail(job)
  /\ finished' = (Len(job) = 1)
  /\ UNCHANGED <<project, deployed, released, bounds>>

\* A file could not be staged, or the process ended.
crash ==
  /\ job # << >> /\ bounds.crashes < MaxCrashes
  /\ job' = << >>
  /\ bounds' = [bounds EXCEPT !.crashes = @ + 1]
  /\ UNCHANGED <<project, files, finished, deployed, released>>

---------------------------------------------------------------------------
(* The developer and the applications in the field.                         *)

deploy ==
  /\ finished /\ job = << >> /\ deployed # files["backend"]
  /\ deployed' = files["backend"]
  /\ UNCHANGED <<project, files, job, finished, released, bounds>>

release ==
  /\ finished /\ job = << >> /\ deployed = files["backend"]
  /\ files["client"] \notin ToSet(released)
  /\ released' = Append(released, files["client"])
  /\ UNCHANGED <<project, files, job, finished, deployed, bounds>>

\* The tools of an earlier release kept the history among the outputs.
old_tools ==
  /\ finished /\ job = << >> /\ "superseded" \notin DOMAIN files /\ Len(released) = 1
  /\ files' = [file \in (DOMAIN files \ {"mutations"}) \cup {"superseded"} |->
                files[IF file = "superseded" THEN "mutations" ELSE file]]
  /\ UNCHANGED <<project, job, finished, deployed, released, bounds>>

Next ==
  \/ \E source \in Project[project] : compile(source)
  \/ move \/ crash \/ deploy \/ release \/ old_tools

Spec == Init /\ [][Next]_vars

---------------------------------------------------------------------------
(* Properties.                                                              *)

Settled == job = << >>

\* decode, compatible, reconcile_history: whatever an application released at
\* any time can queue, the backend in service decodes into exactly the
\* arguments the application passed, nothing moved to another slot, with what
\* the application did not know of left empty.
Understood(backend_, client) ==
  \A call \in Calls(client) :
    LET r == decode(backend_, call.body) IN
      /\ r.ok
      /\ \A n \in DOMAIN call.args :
           /\ Len(r.args[n]) = Len(call.args[n])
           /\ \A i \in DOMAIN call.args[n] :
                LET sent == call.args[n][i]
                    got == r.args[n][i]
                IN /\ got.identity = sent.identity
                   /\ \A f \in DOMAIN got.values :
                        got.values[f] = IF f \in DOMAIN sent.values THEN sent.values[f] ELSE Null
                   /\ DOMAIN sent.values \subseteq DOMAIN got.values
Served ==
  Settled /\ deployed # Missing =>
    /\ config_decode(deployed)
    /\ \A i \in DOMAIN released : Understood(deployed, released[i])

\* model_break, check_declared: the backend serves every released application the
\* read contract it was built with, and whatever the loader of that contract
\* returns the application can store.
Readable ==
  Settled /\ deployed # Missing => \A i \in DOMAIN released :
    LET client == released[i] IN
      /\ check_declared(deployed, client)
      /\ \A m \in DOMAIN client.models :
           LET contract == deployed.contracts[m][client.models[m].version]
               model == contract.models["self"]
           IN \A state \in Assignments(contract, model, Plain(model)) :
                validate_state(client, m, state)

\* main: wherever a compile was cut short, the histories on disk still hold every
\* version that was released, and the next compile starts from them.
NothingForgotten ==
  \A i \in DOMAIN released :
    LET client == released[i] IN
      /\ \A n \in DOMAIN client.mutations :
           LET v == client.mutations[n].version IN
             /\ n \in DOMAIN MutationHistory /\ v \in DOMAIN MutationHistory[n]
             /\ compatible(client.client_policies[n][v], MutationHistory[n][v])
      /\ \A m \in DOMAIN client.models :
           m \in DOMAIN ModelHistory /\ client.models[m].version \in DOMAIN ModelHistory[m]

\* compatibility, policies: an application updated over its database in place keeps
\* its rows, finds the policy of every mutation it had queued, and reads the
\* same records from its slots as the server will.
UpdatedInPlace ==
  Settled => \A j \in DOMAIN released : \A i \in 1..(j - 1) :
    LET old == released[i]
        new == released[j]
    IN in_place(old, new) =>
         /\ \A m \in DOMAIN old.models :
              \A state \in Assignments(old, old.models[m], Plain(old.models[m])) :
                validate_state(new, m, state)
         /\ \A call \in Calls(old) :
              LET policy == new.client_policies[call.body.name][call.body.version] IN
                /\ call.body.name \in DOMAIN new.client_policies
                /\ call.body.version \in DOMAIN new.client_policies[call.body.name]
                /\ policy_slots(policy, call.body.operations)
                     = [n \in DOMAIN call.args |->
                          [k \in DOMAIN call.args[n] |-> call.args[n][k].identity]]
===========================================================================
