------------------------------ MODULE Contract ------------------------------
(***************************************************************************)
(* The contract between clients and a server as data: the declarations of  *)
(* a schema, what the compiler accepts of them, the snapshots it retains   *)
(* of every published version, how a client encodes a mutation, and how    *)
(* the server and the client's policies decode one.  All operators are     *)
(* pure; module Contracts has the steps.                                   *)
(*                                                                         *)
(* crates/compiler/src/{validate,generate,history,emit}.rs,                *)
(* crates/core/src/schema.rs, the decoding part of crates/server/src/      *)
(* lib.rs and crates/client/src/policies.rs.                               *)
(***************************************************************************)
EXTENDS Integers, SequencesExt

CONSTANTS
  Scalar,   \* the values of each scalar type: a function of the type's name
  Null      \* the value of an empty nullable field

(***************************************************************************)
(* A source is a record of                                                 *)
(*   enums          name -> set of values                                  *)
(*   models         name -> [version, identity (set), fields, relations]   *)
(*   mutations      name -> [version, slots (sequence), sequence]          *)
(*   requirements   set of [model, field, name]                            *)
(*   prerequisites  name -> argument type                                 *)
(* A field is [type, nullable]; a relation is [target, via], `via` giving  *)
(* the local field of each identity field of the target; a slot is [name,  *)
(* model, operation, cardinality, allowed, bindings], a binding [relation, *)
(* slot].  `allowed` is the set of fields an update may patch, or Every.   *)
(***************************************************************************)
Every == {"*"}

Slots(mutation) == ToSet(mutation.slots)
Plain(model) == DOMAIN model.fields \ model.identity

---------------------------------------------------------------------------
(* Values and schemas (core).                                              *)

\* A scalar's name wins over an enum's.
ValuesOf(schema, type) == IF type \in DOMAIN Scalar THEN Scalar[type] ELSE schema.enums[type]

\* A value of a field, after normalisation.
Fits(schema, field, value) ==
  IF value = Null THEN field.nullable ELSE value \in ValuesOf(schema, field.type)

ModelValid(schema, model) ==
  /\ model.version > 0
  /\ \A f \in DOMAIN model.fields : model.fields[f].type \in DOMAIN Scalar \cup DOMAIN schema.enums
  /\ model.identity # {} /\ model.identity \subseteq DOMAIN model.fields
  /\ \A f \in model.identity : ~ model.fields[f].nullable /\ model.fields[f].type \in DOMAIN Scalar

RelationValid(schema, model, relation) ==
  /\ relation.target \in DOMAIN schema.models
  /\ DOMAIN relation.via = schema.models[relation.target].identity
  /\ \A id \in DOMAIN relation.via :
       /\ relation.via[id] \in DOMAIN model.fields
       /\ model.fields[relation.via[id]].type = schema.models[relation.target].fields[id].type

SchemaValid(schema) ==
  /\ DOMAIN schema.models # {} /\ DOMAIN schema.models \cap DOMAIN schema.enums = {}
  /\ \A e \in DOMAIN schema.enums : schema.enums[e] # {}
  /\ \A m \in DOMAIN schema.models :
       /\ ModelValid(schema, schema.models[m])
       /\ \A r \in DOMAIN schema.models[m].relations :
            RelationValid(schema, schema.models[m], schema.models[m].relations[r])

\* An identity is a key of the schema: exactly the identity fields, each fitting.
record_key(schema, model, identity) ==
  /\ model \in DOMAIN schema.models
  /\ DOMAIN identity = schema.models[model].identity
  /\ \A f \in DOMAIN identity : Fits(schema, schema.models[model].fields[f], identity[f])

\* What a reader of `schema` makes of a received state: unknown fields are
\* ignored, missing nullable ones are empty.
Read(schema, model, state) ==
  [f \in Plain(schema.models[model]) |-> IF f \in DOMAIN state THEN state[f] ELSE Null]
\* A received state carries no identity field and a value for each of its own.
validate_state(schema, model, state) ==
  /\ DOMAIN state \cap schema.models[model].identity = {}
  /\ \A f \in Plain(schema.models[model]) :
       Fits(schema, schema.models[model].fields[f], Read(schema, model, state)[f])

---------------------------------------------------------------------------
(* What the compiler accepts of a mutation (validate).                     *)

BindingValid(source, mutation, slot, binding) ==
  LET relations == source.models[slot.model].relations IN
    /\ binding.relation \in DOMAIN relations
    /\ \E parent \in Slots(mutation) :
         /\ parent.name = binding.slot
         /\ parent.model = relations[binding.relation].target
         /\ parent.cardinality = "single"

SameKind(s, t) == s.model = t.model /\ s.operation = t.operation

\* Operations carry no slot name.  A slot that may take any number leaves the
\* next one of its kind nothing to be told by, unless a single slot between
\* them fixes the position.
\* Mutant: only neighbours are compared.
Ambiguous_adjacent(slots) ==
  \E j \in 2..Len(slots) : SameKind(slots[j - 1], slots[j]) /\ slots[j - 1].cardinality # "single"
Ambiguous(slots) ==
  \E j \in DOMAIN slots : \E i \in 1..(j - 1) :
    /\ SameKind(slots[i], slots[j]) /\ slots[i].cardinality # "single"
    /\ \A k \in (i + 1)..(j - 1) : slots[k].cardinality # "single"

SlotValid(source, mutation, slot) ==
  /\ slot.model \in DOMAIN source.models
  /\ slot.allowed = Every \/ slot.allowed \subseteq Plain(source.models[slot.model])
  /\ \A binding \in slot.bindings : BindingValid(source, mutation, slot, binding)

MutationValid(source, mutation) ==
  /\ mutation.version > 0 /\ mutation.slots # << >>
  /\ IsInjective([i \in DOMAIN mutation.slots |-> mutation.slots[i].name])
  /\ \A slot \in Slots(mutation) : SlotValid(source, mutation, slot)
  /\ ~ Ambiguous(mutation.slots)

\* A prerequisite's argument has the type of the field that requires it.
RequirementValid(source, r) ==
  /\ r.model \in DOMAIN source.models /\ r.field \in DOMAIN source.models[r.model].fields
  /\ r.name \in DOMAIN source.prerequisites
  /\ source.models[r.model].fields[r.field].type = source.prerequisites[r.name]

SourceValid(source) ==
  /\ SchemaValid(source)
  /\ \A n \in DOMAIN source.mutations : MutationValid(source, source.mutations[n])
  /\ \A r \in source.requirements : RequirementValid(source, r)

\* An update slot that names no fields may patch every field but the identity;
\* a binding is resolved to the local fields of its relation.
default_patch(source, slot) ==
  [slot EXCEPT
     !.allowed = IF @ = Every THEN Plain(source.models[slot.model]) ELSE @,
     !.bindings = {[slot |-> b.slot, via |-> source.models[slot.model].relations[b.relation].via] :
                     b \in @}]
Resolved(source) ==
  [source EXCEPT !.mutations =
     [n \in DOMAIN @ |-> [@[n] EXCEPT !.slots =
        [i \in DOMAIN @ |-> default_patch(source, @[i])]]]]

---------------------------------------------------------------------------
(* Snapshots of published versions (history).                              *)

TypesOf(fields) == {fields[f].type : f \in DOMAIN fields} \ DOMAIN Scalar

Selected(model, used) ==
  {f \in DOMAIN model.fields :
     \/ f \in model.identity
     \/ \E s \in used : \/ s.operation = "create"
                        \/ s.operation = "update" /\ f \in s.allowed}

\* The input of a mutation: the models its slots touch with the fields they can
\* carry, the enums of those, and what the client must have prepared.
capture(source, mutation) ==
  LET Used(m) == {s \in Slots(mutation) : s.model = m}
      models == [m \in {s.model : s \in Slots(mutation)} |->
                   [source.models[m] EXCEPT
                      !.version = 1,
                      !.fields = Restrict(@, Selected(source.models[m], Used(m))),
                      !.relations = << >>]]
      requirements == {r \in source.requirements :
                         r.model \in DOMAIN models /\ r.field \in DOMAIN models[r.model].fields}
  IN [slots |-> mutation.slots, sequence |-> mutation.sequence,
      input |-> [models |-> models,
                 enums |-> Restrict(source.enums, UNION {TypesOf(models[m].fields) : m \in DOMAIN models}
                                                    \cap DOMAIN source.enums)],
      known |-> [m \in DOMAIN models |-> DOMAIN source.models[m].fields],
      requirements |-> requirements,
      prerequisites |-> Restrict(source.prerequisites, {r.name : r \in requirements})]

SameSlot(s, t) ==
  /\ s.name = t.name /\ s.model = t.model /\ s.operation = t.operation
  /\ s.cardinality = t.cardinality /\ s.bindings = t.bindings
  /\ s.allowed \subseteq t.allowed

KeepsFields(old, new) ==
  /\ DOMAIN old.fields \subseteq DOMAIN new.fields /\ old.identity = new.identity
  /\ \A f \in DOMAIN old.fields : new.fields[f] = old.fields[f]
Added(old, new) == DOMAIN new.fields \ DOMAIN old.fields

\* Inputs an old client sends to `old` are understood the same way by `new`.
compatible(old, new) ==
  /\ DOMAIN old.slots = DOMAIN new.slots
  /\ \A i \in DOMAIN old.slots : SameSlot(old.slots[i], new.slots[i])
  /\ \A e \in DOMAIN old.input.enums :
       e \in DOMAIN new.input.enums /\ old.input.enums[e] \subseteq new.input.enums[e]
  /\ \A m \in DOMAIN old.input.models :
       LET a == old.input.models[m]
           b == new.input.models[m]
       IN /\ m \in DOMAIN new.input.models /\ KeepsFields(a, b)
          /\ (\E s \in Slots(new) : s.model = m /\ s.operation = "create")
               => \A f \in Added(a, b) : b.fields[f].nullable
  /\ old.requirements = new.requirements /\ old.sequence = new.sequence

Latest(versions) == Max(DOMAIN versions \cup {0})
Retained(history, name) == IF name \in DOMAIN history THEN history[name] ELSE << >>

\* A declaration is kept in a history, never removed and never lowered; at a
\* published version it must be as before.
Keeps(history, declared) ==
  /\ DOMAIN history \subseteq DOMAIN declared
  /\ \A n \in DOMAIN history : declared[n].version >= Latest(history[n])
Published(history, declared) ==
  {n \in DOMAIN history \cap DOMAIN declared : declared[n].version \in DOMAIN history[n]}
Retain(history, declared, snapshot) ==
  [n \in DOMAIN declared |->
     [v \in DOMAIN Retained(history, n) \cup {declared[n].version} |->
        IF v = declared[n].version THEN snapshot[n] ELSE history[n][v]]]

reconciles(source, history) ==
  LET snapshot == [n \in DOMAIN source.mutations |-> capture(source, source.mutations[n])]
      result == Retain(history, source.mutations, snapshot)
  IN /\ Keeps(history, source.mutations)
     /\ \A n \in Published(history, source.mutations) :
          compatible(history[n][source.mutations[n].version], snapshot[n])
     /\ \A n \in DOMAIN result : \A v \in DOMAIN result[n] :
          \A r \in result[n][v].requirements :
            /\ r.name \in DOMAIN source.prerequisites
            /\ source.prerequisites[r.name] = result[n][v].prerequisites[r.name]
reconcile_history(source, history) ==
  Retain(history, source.mutations,
         [n \in DOMAIN source.mutations |-> capture(source, source.mutations[n])])

\* The read contract of a model: the structure its loader returns.
capture_model(source, model) ==
  [models |-> [m \in {"self"} |-> [model EXCEPT !.relations = << >>]],
   enums |-> Restrict(source.enums, TypesOf(model.fields) \cap DOMAIN source.enums)]

\* Only an added nullable field leaves an old reader unaffected.
\* Mutant: an enum may gain values, as in a mutation's input.
reads_on_enums(old, new) ==
  /\ KeepsFields(old.models["self"], new.models["self"])
  /\ \A f \in Added(old.models["self"], new.models["self"]) : new.models["self"].fields[f].nullable
reads_on(old, new) ==
  /\ KeepsFields(old.models["self"], new.models["self"])
  /\ \A f \in Added(old.models["self"], new.models["self"]) : new.models["self"].fields[f].nullable
  /\ \A e \in DOMAIN old.enums : e \in DOMAIN new.enums /\ new.enums[e] = old.enums[e]

SameIdentity(history, source) ==
  \A m \in DOMAIN history : \A v \in DOMAIN history[m] :
    m \in DOMAIN source.models =>
      history[m][v].models["self"].identity = source.models[m].identity
reconciles_models(source, history) ==
  /\ Keeps(history, source.models)
  /\ \A m \in Published(history, source.models) :
       reads_on(history[m][source.models[m].version], capture_model(source, source.models[m]))
  /\ SameIdentity(history, source)
reconcile_model_history(source, history) ==
  Retain(history, source.models,
         [m \in DOMAIN source.models |-> capture_model(source, source.models[m])])

\* The fence on published names: a model and its fields stay while its version does.
check_fence(before, after) ==
  \A m \in DOMAIN before.models :
    /\ m \in DOMAIN after.models
    /\ \/ after.models[m].version > before.models[m].version
       \/ DOMAIN before.models[m].fields \subseteq DOMAIN after.models[m].fields

---------------------------------------------------------------------------
(* What the compiler writes (generate, main).                              *)

schema(source, retained) ==
  [models |-> source.models, enums |-> source.enums, mutations |-> source.mutations,
   client_policies |-> retained]
backend(source, retained, contracts) ==
  [models |-> source.models, enums |-> source.enums, mutations |-> retained,
   contracts |-> contracts]

---------------------------------------------------------------------------
(* Encoding and decoding mutations (emit, server, policies).               *)

(* Arguments give each slot the sequence of its records, [identity,        *)
(* values]; operations are [model, op, identity, values] in slot order.    *)

ItemOps(slot, items) ==
  [i \in DOMAIN items |-> [model |-> slot.model, op |-> slot.operation,
                           identity |-> items[i].identity, values |-> items[i].values]]
encode(mutation, args) ==
  FoldLeft(LAMBDA ops, slot : ops \o ItemOps(slot, args[slot.name]), << >>, mutation.slots)

\* The operations a slot takes: as many of its kind as come next, one at most
\* unless it is a list.
Takes(slot, ops, at) ==
  LET mine(i) == ops[i].model = slot.model /\ ops[i].op = slot.operation
      run == Max({0} \cup {n \in 1..(Len(ops) - at) : \A i \in 1..n : mine(at + i)})
  IN IF slot.cardinality = "list" THEN run ELSE Min({1, run})

\* Walk the operations slot by slot, `Item` making an argument of each; the
\* walk fails when a slot lacks its record, an item is refused, or operations
\* are left over.
Split(slots, ops) ==
  FoldLeft(LAMBDA acc, slot :
             LET n == Takes(slot, ops, acc.at) IN
               [at |-> acc.at + n,
                args |-> (slot.name :> SubSeq(ops, acc.at + 1, acc.at + n)) @@ acc.args,
                ok |-> acc.ok /\ (slot.cardinality = "single" => n = 1)],
           [at |-> 0, args |-> << >>, ok |-> TRUE], slots)

ModelOf(schema_, slot) == schema_.models[slot.model]

\* One operation under its slot: a create must bring every field that may not be
\* empty, a patch only fields the slot allows, unless this version never knew them.
ItemOk(snapshot, slot, op) ==
  LET model == ModelOf(snapshot.input, slot)
      identity == Restrict(op.identity, DOMAIN op.identity \cap model.identity)
      fits(f) == Fits(snapshot.input, model.fields[f], op.values[f])
  IN /\ record_key(snapshot.input, slot.model, identity)
     /\ slot.operation = "create" =>
          LET data == Read(snapshot.input, slot.model, op.values) IN
            \A f \in DOMAIN data : Fits(snapshot.input, model.fields[f], data[f])
     /\ slot.operation = "update" =>
          \A f \in DOMAIN op.values :
            /\ f \in snapshot.known[slot.model] => f \in slot.allowed
            /\ f \in DOMAIN model.fields => fits(f)

\* What the handler gets of it.
Item(snapshot, slot, op) ==
  [identity |-> Restrict(op.identity, ModelOf(snapshot.input, slot).identity),
   values |-> CASE slot.operation = "create" -> Read(snapshot.input, slot.model, op.values)
                [] slot.operation = "update" ->
                     Restrict(op.values, DOMAIN op.values \cap DOMAIN ModelOf(snapshot.input, slot).fields)
                [] OTHER -> << >>]

\* A created child names the parent its binding says.
Bound(mutation, slot, args) ==
  \A binding \in slot.bindings :
    LET parent == args[binding.slot][1].identity
        via == binding.via
    IN \A i \in DOMAIN args[slot.name] : \A id \in DOMAIN via :
         LET child == args[slot.name][i] IN
           (IF via[id] \in DOMAIN child.identity THEN child.identity[via[id]]
                                                 ELSE child.values[via[id]]) = parent[id]

Known(backend_, body) ==
  body.name \in DOMAIN backend_.mutations /\ body.version \in DOMAIN backend_.mutations[body.name]

Refused == [ok |-> FALSE, args |-> << >>]
decode(backend_, body) ==
  IF ~ Known(backend_, body) THEN Refused
  ELSE LET snapshot == backend_.mutations[body.name][body.version]
           split == Split(snapshot.slots, body.operations)
           itemsOk == \A slot \in Slots(snapshot) : \A i \in DOMAIN split.args[slot.name] :
                        ItemOk(snapshot, slot, split.args[slot.name][i])
           args == [n \in DOMAIN split.args |->
                      LET slot == CHOOSE s \in Slots(snapshot) : s.name = n IN
                        [i \in DOMAIN split.args[n] |-> Item(snapshot, slot, split.args[n][i])]]
       IN IF split.ok /\ split.at = Len(body.operations) /\ itemsOk
             /\ \A slot \in Slots(snapshot) : slot.operation = "create" => Bound(snapshot, slot, args)
          THEN [ok |-> TRUE, args |-> args] ELSE Refused

\* The client's reading of its own queue: the records of each slot.
policy_slots(policy, operations) ==
  LET split == Split(policy.slots, operations) IN
    [n \in DOMAIN split.args |-> [i \in DOMAIN split.args[n] |-> split.args[n][i].identity]]

---------------------------------------------------------------------------
(* What the generated code lets an application pass: complete records to a *)
(* create, any of the allowed fields to an update.  A list is tried with   *)
(* none, one and two equal records.                                        *)

Assignments(schema_, model, fields) ==
  {v \in [fields -> UNION {ValuesOf(schema_, model.fields[f].type) : f \in fields} \cup {Null}] :
     \A f \in fields : Fits(schema_, model.fields[f], v[f])}
Items(client, slot) ==
  LET model == ModelOf(client, slot) IN
    [identity : Assignments(client, model, model.identity),
     values : CASE slot.operation = "create" -> Assignments(client, model, Plain(model))
                [] slot.operation = "update" ->
                     UNION {Assignments(client, model, F) : F \in SUBSET slot.allowed}
                [] OTHER -> {<< >>}]
Many(slot, items) ==
  CASE slot.cardinality = "single" -> {<<x>> : x \in items}
    [] slot.cardinality = "optional" -> {<< >>} \cup {<<x>> : x \in items}
    [] slot.cardinality = "list" -> {<< >>} \cup {<<x>> : x \in items} \cup {<<x, x>> : x \in items}
Arguments(client, mutation) ==
  LET Start == {<< >>}
      Extend(all, slot) == {(slot.name :> some) @@ args :
                              some \in Many(slot, Items(client, slot)), args \in all}
  IN {args \in FoldLeft(Extend, Start, mutation.slots) :
        \A slot \in Slots(mutation) : slot.operation = "create" => Bound(mutation, slot, args)}

Body(client, name, args) ==
  [name |-> name, version |-> client.mutations[name].version,
   operations |-> encode(client.mutations[name], args)]
\* Everything an application of this client can queue: bodies with their arguments.
Calls(client) ==
  UNION {{[args |-> args, body |-> Body(client, name, args)] :
            args \in Arguments(client, client.mutations[name])} : name \in DOMAIN client.mutations}

---------------------------------------------------------------------------
(* What a server checks of its compiled configuration before it starts.    *)

SlotLoads(snapshot, slot) ==
  /\ slot.model \in DOMAIN snapshot.input.models
  /\ slot.allowed \subseteq Plain(ModelOf(snapshot.input, slot))
  /\ slot.operation # "update" => slot.allowed = {}
  /\ \A b \in slot.bindings : \E parent \in Slots(snapshot) :
       /\ parent.name = b.slot /\ parent.cardinality = "single"
       /\ DOMAIN b.via = ModelOf(snapshot.input, parent).identity
       /\ Range(b.via) \subseteq DOMAIN ModelOf(snapshot.input, slot).fields
config_decode(backend_) ==
  /\ SchemaValid(backend_)
  /\ \A n \in DOMAIN backend_.mutations : \A v \in DOMAIN backend_.mutations[n] :
       LET snapshot == backend_.mutations[n][v] IN
         /\ SchemaValid(snapshot.input)
         /\ \A slot \in Slots(snapshot) : SlotLoads(snapshot, slot)
  /\ \A m \in DOMAIN backend_.contracts : \A v \in DOMAIN backend_.contracts[m] :
       /\ m \in DOMAIN backend_.models
       /\ backend_.contracts[m][v].models["self"].identity = backend_.models[m].identity
       /\ SchemaValid(backend_.contracts[m][v])
  /\ \A m \in DOMAIN backend_.models : backend_.models[m].version \in DOMAIN backend_.contracts[m]

\* The read contracts a client declares are served, each in its own version.
check_declared(backend_, client) ==
  \A m \in DOMAIN client.models :
    m \in DOMAIN backend_.models /\ client.models[m].version \in DOMAIN backend_.contracts[m]

---------------------------------------------------------------------------
(* How the schema an application was built with relates to the one its     *)
(* local database was built for (core; unique constraints are left out).   *)

SameField(stored, incoming, a, b) ==
  a = b /\ (a.type \notin DOMAIN Scalar => incoming.enums[a.type] = stored.enums[a.type])
ModelFits(stored, incoming, m) ==
  LET a == stored.models[m]
      b == incoming.models[m]
  IN /\ a.version = b.version /\ a.identity = b.identity /\ a.relations = b.relations
     /\ DOMAIN a.fields \subseteq DOMAIN b.fields
     /\ \A f \in DOMAIN a.fields : SameField(stored, incoming, a.fields[f], b.fields[f])
     /\ \A f \in Added(a, b) : b.fields[f].nullable
\* Mutant: a new field need not be nullable.
in_place_required(stored, incoming) ==
  \A m \in DOMAIN stored.models :
    /\ m \in DOMAIN incoming.models
    /\ KeepsFields(stored.models[m], incoming.models[m])
in_place(stored, incoming) ==
  \A m \in DOMAIN stored.models :
    m \in DOMAIN incoming.models /\ ModelFits(stored, incoming, m)

===========================================================================
