-------------------------- MODULE ContractsProofs --------------------------
(***************************************************************************)
(* Proofs about Contracts: for every set of projects and any number of     *)
(* compiles and crashes, no compile forgets what was released, and every   *)
(* released application can store what the backend in service reads out.   *)
(*                                                                         *)
(* Both rest on the order `compatible` and `reads_on` put on snapshots:    *)
(* they are transitive, so that a history related to an application when   *)
(* it was released is related to it after every later compile.             *)
(***************************************************************************)
EXTENDS Contracts, SequenceTheorems, TLAPS

---------------------------------------------------------------------------
(* The order on snapshots.                                                 *)

\* compatible: what an old client sends to `a` reaches `c` through `b`.
LEMMA CompatibleExtends ==
  ASSUME NEW a, NEW b, NEW c, compatible(a, b), compatible(b, c)
  PROVE  compatible(a, c)
<1>1. DOMAIN a.slots = DOMAIN c.slots /\ \A i \in DOMAIN a.slots : SameSlot(a.slots[i], c.slots[i])
  BY DEF compatible, SameSlot
<1>2. \A e \in DOMAIN a.input.enums :
        e \in DOMAIN c.input.enums /\ a.input.enums[e] \subseteq c.input.enums[e]
  BY DEF compatible
<1>3. ASSUME NEW m \in DOMAIN a.input.models
      PROVE  /\ m \in DOMAIN c.input.models
             /\ KeepsFields(a.input.models[m], c.input.models[m])
  <2>1. m \in DOMAIN b.input.models /\ KeepsFields(a.input.models[m], b.input.models[m])
    BY <1>3 DEF compatible
  <2>2. m \in DOMAIN c.input.models /\ KeepsFields(b.input.models[m], c.input.models[m])
    BY <2>1 DEF compatible
  <2> QED BY <2>1, <2>2 DEF KeepsFields
<1>4. ASSUME NEW m \in DOMAIN a.input.models,
             \E s \in Slots(c) : s.model = m /\ s.operation = "create",
             NEW f \in Added(a.input.models[m], c.input.models[m])
      PROVE  c.input.models[m].fields[f].nullable
  <2>1. \E s \in Slots(b) : s.model = m /\ s.operation = "create"
    BY <1>4 DEF compatible, SameSlot, Slots, ToSet
  <2>2. /\ m \in DOMAIN b.input.models
        /\ \A g \in Added(a.input.models[m], b.input.models[m]) : b.input.models[m].fields[g].nullable
    BY <2>1, <1>4 DEF compatible
  <2>3. /\ KeepsFields(b.input.models[m], c.input.models[m])
        /\ \A g \in Added(b.input.models[m], c.input.models[m]) : c.input.models[m].fields[g].nullable
    BY <2>2, <1>4 DEF compatible
  <2> QED BY <2>2, <2>3, <1>4 DEF KeepsFields, Added
<1>5. a.requirements = c.requirements /\ a.sequence = c.sequence
  BY DEF compatible
<1> QED BY <1>1, <1>2, <1>3, <1>4, <1>5 DEF compatible

\* compatible: a published version compiled again unchanged is accepted.
LEMMA CompatibleWithItself ==
  ASSUME NEW a PROVE compatible(a, a)
BY DEF compatible, SameSlot, KeepsFields, Added

\* model_break: a reader of `a` that `b` leaves unaffected stays so when `c` leaves
\* readers of `b` unaffected.
LEMMA ReadsOnExtends ==
  ASSUME NEW a, NEW b, NEW c, reads_on(a, b), reads_on(b, c)
  PROVE  reads_on(a, c)
<1>1. KeepsFields(a.models["self"], c.models["self"])
  BY DEF reads_on, KeepsFields
<1>2. \A f \in Added(a.models["self"], c.models["self"]) : c.models["self"].fields[f].nullable
  BY DEF reads_on, KeepsFields, Added
<1>3. \A e \in DOMAIN a.enums : e \in DOMAIN c.enums /\ c.enums[e] = a.enums[e]
  BY DEF reads_on
<1> QED BY <1>1, <1>2, <1>3 DEF reads_on

LEMMA ReadsItself ==
  ASSUME NEW a PROVE reads_on(a, a)
BY DEF reads_on, KeepsFields, Added

---------------------------------------------------------------------------
(* Applications and the histories that still hold them.                    *)

\* The history `M` holds what application `client` calls its mutations by.
Remembers(client, M) ==
  \A n \in DOMAIN client.mutations :
    LET v == client.mutations[n].version IN
      /\ n \in DOMAIN M /\ v \in DOMAIN M[n]
      /\ compatible(client.client_policies[n][v], M[n][v])

\* The model history `D` holds contracts the models of `client` read on.
ReadsFrom(client, D) ==
  \A m \in DOMAIN client.models :
    LET v == client.models[m].version IN
      /\ m \in DOMAIN D /\ v \in DOMAIN D[m]
      /\ reads_on(capture_model(client, client.models[m]), D[m][v])

ServedBy(client, backend_) ==
  DOMAIN client.models \subseteq DOMAIN backend_.models /\ ReadsFrom(client, backend_.contracts)

\* What validation leaves of a source's models.
Typed(client) ==
  \A m \in DOMAIN client.models :
    LET model == client.models[m] IN
      /\ DOMAIN model = {"version", "identity", "fields", "relations"}
      /\ model.identity \subseteq DOMAIN model.fields
      /\ \A f \in DOMAIN model.fields :
           model.fields[f].type \in DOMAIN Scalar \cup DOMAIN client.enums

\* reconcile: the history a compile writes holds whatever the one it read held.
LEMMA MutationsKept ==
  ASSUME NEW client, NEW source, NEW H, reconciles(source, H), Remembers(client, H)
  PROVE  Remembers(client, reconcile_history(source, H))
<1> DEFINE M == reconcile_history(source, H)
<1>1. ASSUME NEW n \in DOMAIN client.mutations, NEW v, v = client.mutations[n].version
      PROVE  /\ n \in DOMAIN M /\ v \in DOMAIN M[n]
             /\ compatible(client.client_policies[n][v], M[n][v])
  <2>1. /\ n \in DOMAIN H /\ v \in DOMAIN H[n]
        /\ compatible(client.client_policies[n][v], H[n][v])
    BY <1>1 DEF Remembers
  <2>2. n \in DOMAIN source.mutations
    BY <2>1 DEF reconciles, Keeps
  <2>3. /\ n \in DOMAIN M /\ v \in DOMAIN M[n]
        /\ M[n][v] = IF v = source.mutations[n].version
                     THEN capture(source, source.mutations[n]) ELSE H[n][v]
    BY <2>1, <2>2 DEF reconcile_history, Retain, Retained
  <2>4. CASE v = source.mutations[n].version
    <3>1. compatible(H[n][v], capture(source, source.mutations[n]))
      BY <2>1, <2>2, <2>4 DEF reconciles, Published
    <3> HIDE DEF M
    <3> QED BY <2>1, <2>3, <2>4, <3>1, CompatibleExtends
  <2>5. CASE v # source.mutations[n].version
    BY <2>1, <2>3, <2>5
  <2> QED BY <2>3, <2>4, <2>5
<1> QED BY <1>1 DEF Remembers

\* reconcile: it holds, too, every mutation of the source it was written for.
LEMMA MutationsHeld ==
  ASSUME NEW client, NEW source, NEW H,
         client.mutations = source.mutations,
         client.client_policies = reconcile_history(source, H)
  PROVE  Remembers(client, reconcile_history(source, H))
<1> DEFINE M == reconcile_history(source, H)
<1>1. ASSUME NEW n \in DOMAIN client.mutations
      PROVE  n \in DOMAIN M /\ client.mutations[n].version \in DOMAIN M[n]
  BY <1>1 DEF reconcile_history, Retain
<1> HIDE DEF M
<1> QED BY <1>1, CompatibleWithItself DEF Remembers, M

\* reconcile_models: the same of the contracts applications read by.
LEMMA ContractsKept ==
  ASSUME NEW client, NEW source, NEW H, reconciles_models(source, H), ReadsFrom(client, H)
  PROVE  /\ ReadsFrom(client, reconcile_model_history(source, H))
         /\ DOMAIN client.models \subseteq DOMAIN source.models
<1> DEFINE D == reconcile_model_history(source, H)
<1>1. ASSUME NEW m \in DOMAIN client.models, NEW v, v = client.models[m].version
      PROVE  /\ m \in DOMAIN D /\ v \in DOMAIN D[m] /\ m \in DOMAIN source.models
             /\ reads_on(capture_model(client, client.models[m]), D[m][v])
  <2>1. /\ m \in DOMAIN H /\ v \in DOMAIN H[m]
        /\ reads_on(capture_model(client, client.models[m]), H[m][v])
    BY <1>1 DEF ReadsFrom
  <2>2. m \in DOMAIN source.models
    BY <2>1 DEF reconciles_models, Keeps
  <2>3. /\ m \in DOMAIN D /\ v \in DOMAIN D[m]
        /\ D[m][v] = IF v = source.models[m].version
                     THEN capture_model(source, source.models[m]) ELSE H[m][v]
    BY <2>1, <2>2 DEF reconcile_model_history, Retain, Retained
  <2>4. CASE v = source.models[m].version
    <3>1. reads_on(H[m][v], capture_model(source, source.models[m]))
      BY <2>1, <2>2, <2>4 DEF reconciles_models, Published
    <3> HIDE DEF D
    <3> QED BY <2>1, <2>2, <2>3, <2>4, <3>1, ReadsOnExtends
  <2>5. CASE v # source.models[m].version
    BY <2>1, <2>2, <2>3, <2>5
  <2> QED BY <2>2, <2>3, <2>4, <2>5
<1> QED BY <1>1 DEF ReadsFrom

LEMMA ContractsHeld ==
  ASSUME NEW client, NEW source, NEW H,
         client.models = source.models, client.enums = source.enums
  PROVE  ReadsFrom(client, reconcile_model_history(source, H))
<1> DEFINE D == reconcile_model_history(source, H)
<1>1. ASSUME NEW m \in DOMAIN client.models, NEW v, v = client.models[m].version
      PROVE  /\ m \in DOMAIN D /\ v \in DOMAIN D[m]
             /\ D[m][v] = capture_model(client, client.models[m])
  BY <1>1 DEF reconcile_model_history, Retain, capture_model
<1> HIDE DEF D
<1>2. ASSUME NEW m \in DOMAIN client.models
      PROVE  reads_on(capture_model(client, client.models[m]), D[m][client.models[m].version])
  BY <1>1, <1>2, ReadsItself
<1> QED BY <1>1, <1>2 DEF ReadsFrom, D

---------------------------------------------------------------------------
(* The invariant.                                                          *)

\* The text file `n` has once every staged file has been moved.
Ends(there, staged, n, text) ==
  \/ \E i \in DOMAIN staged : staged[i].name = n /\ staged[i].text = text
  \/ /\ \A i \in DOMAIN staged : staged[i].name # n
     /\ n \in DOMAIN there /\ there[n] = text

\* Outputs and histories of one compile.
OfOneCompile(client, backend_, M, D) ==
  Typed(client) /\ Remembers(client, M) /\ ReadsFrom(client, D) /\ ServedBy(client, backend_)

\* Every staged file is another one, none the history at its old place.
JobInv ==
  /\ project \in DOMAIN Project
  /\ job \in Seq(ToSet(job))
  /\ \A i, j \in DOMAIN job : job[i].name = job[j].name => i = j
  /\ \A i \in DOMAIN job : job[i].name # "superseded"

\* What a compile moves will in the end be of one compile, and every single file
\* of it already serves the applications released before.
PendingInv ==
  job # << >> =>
    /\ \E client, backend_, M, D :
         /\ Ends(files, job, "client", client) /\ Ends(files, job, "backend", backend_)
         /\ Ends(files, job, "mutations", M) /\ Ends(files, job, "models", D)
         /\ OfOneCompile(client, backend_, M, D)
    /\ \A i \in DOMAIN job : \A client \in ToSet(released) :
         /\ job[i].name = "backend" => ServedBy(client, job[i].text)
         /\ job[i].name = "mutations" => Remembers(client, job[i].text)
         /\ job[i].name = "models" => ReadsFrom(client, job[i].text)

FinishedInv ==
  finished =>
    /\ {"client", "backend", "models"} \subseteq DOMAIN files
    /\ "mutations" \in DOMAIN files \/ "superseded" \in DOMAIN files
    /\ OfOneCompile(files["client"], files["backend"], MutationHistory, ModelHistory)

ReleasedInv ==
  /\ released \in Seq(ToSet(released))
  /\ \A client \in ToSet(released) :
       /\ OfOneCompile(client, deployed, MutationHistory, ModelHistory)
       /\ "backend" \in DOMAIN files => ServedBy(client, files["backend"])

IInv == JobInv /\ PendingInv /\ FinishedInv /\ ReleasedInv

---------------------------------------------------------------------------
(* Lemmas about the files.                                                 *)

LEMMA OfItsElements ==
  ASSUME NEW S, NEW s \in Seq(S)
  PROVE  s \in Seq(ToSet(s))
<1>1. s = [i \in 1..Len(s) |-> s[i]] /\ Len(s) \in Nat /\ DOMAIN s = 1..Len(s)
  OBVIOUS
<1>2. \A i \in 1..Len(s) : s[i] \in ToSet(s)
  BY <1>1 DEF ToSet
<1> QED BY <1>1, <1>2, SeqDef

\* What follows the first staged file.
LEMMA TailOf ==
  ASSUME NEW s, s \in Seq(ToSet(s)), s # << >>
  PROVE  /\ DOMAIN s = 1..Len(s) /\ Len(s) \in Nat \ {0} /\ Head(s) = s[1]
         /\ Tail(s) \in Seq(ToSet(Tail(s))) /\ DOMAIN Tail(s) = 1..(Len(s) - 1)
         /\ \A i \in DOMAIN Tail(s) : Tail(s)[i] = s[i + 1] /\ i + 1 \in DOMAIN s
<1>1. /\ DOMAIN s = 1..Len(s) /\ Len(s) \in Nat \ {0} /\ Head(s) = s[1]
      /\ Tail(s) \in Seq(ToSet(s)) /\ Len(Tail(s)) = Len(s) - 1
      /\ \A i \in 1..Len(Tail(s)) : Tail(s)[i] = s[i + 1]
  BY HeadTailProperties, EmptySeq
<1>2. Tail(s) \in Seq(ToSet(Tail(s)))
  BY <1>1, OfItsElements
<1>3. DOMAIN Tail(s) = 1..(Len(s) - 1)
  BY <1>1
<1> QED BY <1>1, <1>2, <1>3

\* main: moving a file leaves every file the text it ends with.
LEMMA MovedEnds ==
  ASSUME NEW there, NEW after, NEW staged, NEW n, NEW text,
         staged \in Seq(ToSet(staged)), staged # << >>,
         \A i, j \in DOMAIN staged : staged[i].name = staged[j].name => i = j,
         after = [file \in DOMAIN there \cup {Head(staged).name} |->
                    IF file = Head(staged).name THEN Head(staged).text ELSE there[file]],
         Ends(there, staged, n, text)
  PROVE  Ends(after, Tail(staged), n, text)
<1>1. /\ DOMAIN staged = 1..Len(staged) /\ Len(staged) \in Nat \ {0} /\ Head(staged) = staged[1]
      /\ DOMAIN Tail(staged) = 1..(Len(staged) - 1)
      /\ \A i \in DOMAIN Tail(staged) : Tail(staged)[i] = staged[i + 1] /\ i + 1 \in DOMAIN staged
  BY TailOf
<1>2. CASE Head(staged).name = n
  <2>1. Head(staged).text = text
    BY <1>1, <1>2 DEF Ends
  <2>2. \A i \in DOMAIN Tail(staged) : Tail(staged)[i].name # n
    BY <1>1, <1>2
  <2> QED BY <1>2, <2>1, <2>2 DEF Ends
<1>3. CASE Head(staged).name # n
  <2>1. CASE \E i \in DOMAIN staged : staged[i].name = n /\ staged[i].text = text
    <3>1. PICK i \in DOMAIN staged : staged[i].name = n /\ staged[i].text = text
      BY <2>1
    <3>2. i # 1
      BY <1>1, <1>3, <3>1
    <3>3. i - 1 \in DOMAIN Tail(staged) /\ Tail(staged)[i - 1] = staged[i]
      BY <1>1, <3>2
    <3> QED BY <3>1, <3>3 DEF Ends
  <2>2. CASE /\ \A i \in DOMAIN staged : staged[i].name # n
             /\ n \in DOMAIN there /\ there[n] = text
    <3>1. \A i \in DOMAIN Tail(staged) : Tail(staged)[i].name # n
      BY <1>1, <2>2
    <3> QED BY <1>3, <2>2, <3>1 DEF Ends
  <2> QED BY <2>1, <2>2 DEF Ends
<1> QED BY <1>2, <1>3

\* SchemaValid: the models of an accepted source are typed.
LEMMA AcceptedTyped ==
  ASSUME NEW p \in DOMAIN Project, NEW source \in Project[p], SchemaValid(source)
  PROVE  Typed(source)
BY SourceAssumption DEF SchemaValid, ModelValid, Typed

\* Resolving bindings changes the mutations only.
LEMMA ResolvedSource ==
  ASSUME NEW p \in DOMAIN Project, NEW source \in Project[p]
  PROVE  Resolved(source).models = source.models /\ Resolved(source).enums = source.enums
BY SourceAssumption DEF Resolved

---------------------------------------------------------------------------
(* The steps.                                                              *)

LEMMA ContractsInitial == Init => IInv
<1> SUFFICES ASSUME Init PROVE IInv
  OBVIOUS
<1>1. << >> \in Seq(ToSet(<< >>)) /\ DOMAIN << >> = {} /\ ToSet(<< >>) = {}
  BY EmptySeq DEF ToSet
<1> QED BY <1>1 DEF Init, IInv, JobInv, PendingInv, FinishedInv, ReleasedInv

\* The files a compile stages.
Stages(staged, A, B, C, D, E) ==
  staged = << [name |-> "schema", text |-> A], [name |-> "backend", text |-> B],
              [name |-> "client", text |-> C], [name |-> "mutations", text |-> D],
              [name |-> "models", text |-> E] >>

LEMMA StagedOutputs ==
  ASSUME NEW A, NEW B, NEW C, NEW D, NEW E, NEW staged, Stages(staged, A, B, C, D, E)
  PROVE  /\ staged \in Seq(ToSet(staged)) /\ staged # << >>
         /\ \A i, j \in DOMAIN staged : staged[i].name = staged[j].name => i = j
         /\ \A i \in DOMAIN staged : staged[i].name # "superseded"
         /\ \A there : /\ Ends(there, staged, "backend", B) /\ Ends(there, staged, "client", C)
                       /\ Ends(there, staged, "mutations", D) /\ Ends(there, staged, "models", E)
         /\ \A i \in DOMAIN staged : /\ staged[i].name = "backend" => staged[i].text = B
                                     /\ staged[i].name = "mutations" => staged[i].text = D
                                     /\ staged[i].name = "models" => staged[i].text = E
<1>1. /\ DOMAIN staged = 1..5
      /\ staged[1] = [name |-> "schema", text |-> A] /\ staged[2] = [name |-> "backend", text |-> B]
      /\ staged[3] = [name |-> "client", text |-> C] /\ staged[4] = [name |-> "mutations", text |-> D]
      /\ staged[5] = [name |-> "models", text |-> E]
  BY DEF Stages
<1>2. staged \in Seq(ToSet(staged)) /\ staged # << >>
  <2>1. staged = [i \in 1..5 |-> staged[i]]
    BY DEF Stages
  <2>2. \A i \in 1..5 : staged[i] \in ToSet(staged)
    BY <1>1 DEF ToSet
  <2>3. staged \in [1..5 -> ToSet(staged)] /\ 5 \in Nat
    BY <2>1, <2>2
  <2>4. staged \in Seq(ToSet(staged))
    BY <2>3, SeqDef
  <2>5. staged # << >>
    BY <1>1
  <2> QED BY <2>4, <2>5
<1>3. /\ staged[1].name = "schema" /\ staged[2].name = "backend" /\ staged[2].text = B
      /\ staged[3].name = "client" /\ staged[3].text = C
      /\ staged[4].name = "mutations" /\ staged[4].text = D
      /\ staged[5].name = "models" /\ staged[5].text = E
  BY <1>1
<1>4. \A i \in DOMAIN staged : i = 1 \/ i = 2 \/ i = 3 \/ i = 4 \/ i = 5
  BY <1>1
<1>5. 1 \in DOMAIN staged /\ 2 \in DOMAIN staged /\ 3 \in DOMAIN staged
      /\ 4 \in DOMAIN staged /\ 5 \in DOMAIN staged
  BY <1>1
<1>6. \A there : /\ Ends(there, staged, "backend", B) /\ Ends(there, staged, "client", C)
                 /\ Ends(there, staged, "mutations", D) /\ Ends(there, staged, "models", E)
  BY <1>3, <1>5 DEF Ends
<1> QED BY <1>2, <1>3, <1>4, <1>6

LEMMA CompileInductive ==
  ASSUME IInv, NEW source \in Project[project], compile(source)
  PROVE  IInv'
<1> DEFINE resolved == Resolved(source)
           M == reconcile_history(resolved, MutationHistory)
           D == reconcile_model_history(source, ModelHistory)
           client == schema(resolved, M)
           back == backend(resolved, M, D)
<1>1. /\ Stages(job', client, back, client, M, D)
      /\ UNCHANGED <<project, files, finished, deployed, released>>
      /\ SchemaValid(source) /\ reconciles(resolved, MutationHistory)
      /\ reconciles_models(source, ModelHistory)
      /\ project \in DOMAIN Project
  BY DEF compile, Outputs, Stages, Accepted, SourceValid, IInv, JobInv
<1>2. resolved.models = source.models /\ resolved.enums = source.enums
  BY <1>1, ResolvedSource
<1>3. OfOneCompile(client, back, M, D)
  <2>1. Typed(source)
    BY <1>1, AcceptedTyped
  <2>2. /\ client.models = source.models /\ client.enums = source.enums
        /\ client.mutations = resolved.mutations /\ client.client_policies = M
        /\ back.models = source.models /\ back.contracts = D
    BY <1>2 DEF schema, backend
  <2> HIDE DEF client, back, resolved
  <2>3. Remembers(client, M)
    BY <2>2, MutationsHeld
  <2>4. ReadsFrom(client, D)
    BY <2>2, ContractsHeld
  <2>5. Typed(client)
    BY <2>1, <2>2 DEF Typed
  <2> QED BY <2>2, <2>3, <2>4, <2>5 DEF OfOneCompile, ServedBy
<1>4. ASSUME NEW c \in ToSet(released)
      PROVE  Remembers(c, M) /\ ReadsFrom(c, D) /\ ServedBy(c, back)
  <2>1. Remembers(c, MutationHistory) /\ ReadsFrom(c, ModelHistory)
    BY DEF IInv, ReleasedInv, OfOneCompile
  <2>2. back.models = source.models /\ back.contracts = D
    BY <1>2 DEF backend
  <2> HIDE DEF back, resolved
  <2>3. Remembers(c, M)
    BY <1>1, <2>1, MutationsKept
  <2>4. ReadsFrom(c, D) /\ DOMAIN c.models \subseteq DOMAIN source.models
    BY <1>1, <2>1, ContractsKept
  <2> QED BY <2>2, <2>3, <2>4 DEF ServedBy
<1> HIDE DEF client, back, M, D, resolved
<1>5. /\ job' \in Seq(ToSet(job')) /\ job' # << >>
      /\ \A i, j \in DOMAIN job' : job'[i].name = job'[j].name => i = j
      /\ \A i \in DOMAIN job' : job'[i].name # "superseded"
      /\ \A there : /\ Ends(there, job', "backend", back) /\ Ends(there, job', "client", client)
                    /\ Ends(there, job', "mutations", M) /\ Ends(there, job', "models", D)
      /\ \A i \in DOMAIN job' : /\ job'[i].name = "backend" => job'[i].text = back
                                /\ job'[i].name = "mutations" => job'[i].text = M
                                /\ job'[i].name = "models" => job'[i].text = D
  BY <1>1, StagedOutputs
<1>6. JobInv'
  BY <1>1, <1>5 DEF JobInv
<1>7. PendingInv'
  BY <1>1, <1>3, <1>4, <1>5 DEF PendingInv
<1>8. FinishedInv' /\ ReleasedInv'
  BY <1>1 DEF IInv, FinishedInv, ReleasedInv, MutationHistory, ModelHistory, Read_
<1> QED BY <1>6, <1>7, <1>8 DEF IInv

LEMMA MoveInductive ==
  ASSUME IInv, move
  PROVE  IInv'
<1> DEFINE first == Head(job)
<1>1. /\ job # << >> /\ job' = Tail(job) /\ finished' = (Len(job) = 1)
      /\ files' = [file \in DOMAIN files \cup {first.name} |->
                     IF file = first.name THEN first.text ELSE files[file]]
      /\ UNCHANGED <<project, deployed, released>>
  BY DEF move
<1>2. /\ project \in DOMAIN Project /\ job \in Seq(ToSet(job))
      /\ \A i, j \in DOMAIN job : job[i].name = job[j].name => i = j
      /\ \A i \in DOMAIN job : job[i].name # "superseded"
  BY DEF IInv, JobInv
<1>3. /\ DOMAIN job = 1..Len(job) /\ Len(job) \in Nat \ {0} /\ first = job[1]
      /\ job' \in Seq(ToSet(job')) /\ DOMAIN job' = 1..(Len(job) - 1)
      /\ \A i \in DOMAIN job' : job'[i] = job[i + 1] /\ i + 1 \in DOMAIN job
  BY <1>1, <1>2, TailOf
<1>4. JobInv'
  <2>1. ASSUME NEW i \in DOMAIN job', NEW j \in DOMAIN job', job'[i].name = job'[j].name
        PROVE  i = j
    <3>1. i + 1 = j + 1
      BY <1>2, <1>3, <2>1
    <3> QED BY <1>3, <3>1
  <2>2. \A i \in DOMAIN job' : job'[i].name # "superseded"
    BY <1>2, <1>3
  <2>3. project' \in DOMAIN Project
    BY <1>1, <1>2
  <2> QED BY <1>3, <2>1, <2>2, <2>3 DEF JobInv
<1>5. \A n, text : Ends(files, job, n, text) => Ends(files', job', n, text)
  BY <1>1, <1>2, MovedEnds
<1>6. PICK client, back, M, D :
        /\ Ends(files, job, "client", client) /\ Ends(files, job, "backend", back)
        /\ Ends(files, job, "mutations", M) /\ Ends(files, job, "models", D)
        /\ OfOneCompile(client, back, M, D)
  BY <1>1 DEF IInv, PendingInv
<1>7. /\ Ends(files', job', "client", client) /\ Ends(files', job', "backend", back)
      /\ Ends(files', job', "mutations", M) /\ Ends(files', job', "models", D)
  BY <1>5, <1>6
<1>8. \A i \in DOMAIN job : \A c \in ToSet(released) :
        /\ job[i].name = "backend" => ServedBy(c, job[i].text)
        /\ job[i].name = "mutations" => Remembers(c, job[i].text)
        /\ job[i].name = "models" => ReadsFrom(c, job[i].text)
  BY <1>1 DEF IInv, PendingInv
<1>9. PendingInv'
  <2>1. \A i \in DOMAIN job' : \A c \in ToSet(released) :
          /\ job'[i].name = "backend" => ServedBy(c, job'[i].text)
          /\ job'[i].name = "mutations" => Remembers(c, job'[i].text)
          /\ job'[i].name = "models" => ReadsFrom(c, job'[i].text)
    BY <1>3, <1>8
  <2> QED BY <1>1, <1>6, <1>7, <2>1 DEF PendingInv
<1>10. FinishedInv'
  <2> SUFFICES ASSUME Len(job) = 1 PROVE FinishedInv'
    BY <1>1 DEF FinishedInv
  <2>1. DOMAIN job' = {}
    BY <1>3
  <2>2. /\ "client" \in DOMAIN files' /\ files'["client"] = client
        /\ "backend" \in DOMAIN files' /\ files'["backend"] = back
        /\ "mutations" \in DOMAIN files' /\ files'["mutations"] = M
        /\ "models" \in DOMAIN files' /\ files'["models"] = D
    BY <1>7, <2>1 DEF Ends
  <2>3. MutationHistory' = M /\ ModelHistory' = D
    BY <2>2 DEF MutationHistory, ModelHistory, Read_
  <2> QED BY <1>6, <2>2, <2>3 DEF FinishedInv
<1>11. ReleasedInv'
  <2>1. ASSUME NEW c \in ToSet(released)
        PROVE  /\ OfOneCompile(c, deployed, MutationHistory', ModelHistory')
               /\ "backend" \in DOMAIN files' => ServedBy(c, files'["backend"])
    <3>1. /\ OfOneCompile(c, deployed, MutationHistory, ModelHistory)
          /\ "backend" \in DOMAIN files => ServedBy(c, files["backend"])
      BY DEF IInv, ReleasedInv
    <3>2. /\ first.name = "backend" => ServedBy(c, first.text)
          /\ first.name = "mutations" => Remembers(c, first.text)
          /\ first.name = "models" => ReadsFrom(c, first.text)
          /\ first.name # "superseded"
      <4>1. 1 \in DOMAIN job
        BY <1>3
      <4> QED BY <1>2, <1>3, <1>8, <4>1
    <3> HIDE DEF first
    <3>3. "backend" \in DOMAIN files' => ServedBy(c, files'["backend"])
      BY <1>1, <3>1, <3>2
    <3>4. Remembers(c, MutationHistory')
      <4>1. MutationHistory' = IF first.name = "mutations" THEN first.text ELSE MutationHistory
        BY <1>1, <3>2 DEF MutationHistory, Read_
      <4> QED BY <3>1, <3>2, <4>1 DEF OfOneCompile
    <3>5. ReadsFrom(c, ModelHistory')
      <4>1. ModelHistory' = IF first.name = "models" THEN first.text ELSE ModelHistory
        BY <1>1 DEF ModelHistory, Read_
      <4> QED BY <3>1, <3>2, <4>1 DEF OfOneCompile
    <3> QED BY <3>1, <3>3, <3>4, <3>5 DEF OfOneCompile
  <2> QED BY <1>1, <2>1 DEF IInv, ReleasedInv
<1> QED BY <1>4, <1>9, <1>10, <1>11 DEF IInv

LEMMA CrashInductive ==
  ASSUME IInv, crash
  PROVE  IInv'
<1>1. job' = << >> /\ UNCHANGED <<project, files, finished, deployed, released>>
  BY DEF crash
<1>2. << >> \in Seq(ToSet(<< >>)) /\ DOMAIN << >> = {}
  BY EmptySeq
<1>3. JobInv' /\ PendingInv'
  BY <1>1, <1>2 DEF IInv, JobInv, PendingInv
<1>4. FinishedInv' /\ ReleasedInv'
  BY <1>1 DEF IInv, FinishedInv, ReleasedInv, MutationHistory, ModelHistory, Read_
<1> QED BY <1>3, <1>4 DEF IInv

LEMMA DeployInductive ==
  ASSUME IInv, deploy
  PROVE  IInv'
<1>1. /\ finished /\ job = << >> /\ deployed' = files["backend"]
      /\ UNCHANGED <<project, files, job, finished, released>>
  BY DEF deploy
<1>2. MutationHistory' = MutationHistory /\ ModelHistory' = ModelHistory
  BY <1>1 DEF MutationHistory, ModelHistory, Read_
<1>3. JobInv' /\ PendingInv' /\ FinishedInv'
  BY <1>1, <1>2 DEF IInv, JobInv, PendingInv, FinishedInv
<1>4. ReleasedInv'
  BY <1>1, <1>2 DEF IInv, ReleasedInv, FinishedInv, OfOneCompile
<1> QED BY <1>3, <1>4 DEF IInv

LEMMA ReleaseInductive ==
  ASSUME IInv, release
  PROVE  IInv'
<1> DEFINE client == files["client"]
<1>1. /\ finished /\ job = << >> /\ deployed = files["backend"]
      /\ released' = Append(released, client)
      /\ UNCHANGED <<project, files, job, finished, deployed>>
  BY DEF release
<1>2. MutationHistory' = MutationHistory /\ ModelHistory' = ModelHistory
  BY <1>1 DEF MutationHistory, ModelHistory, Read_
<1>3. JobInv' /\ PendingInv' /\ FinishedInv'
  BY <1>1, <1>2 DEF IInv, JobInv, PendingInv, FinishedInv
<1>4. /\ released' \in Seq(ToSet(released'))
      /\ \A c \in ToSet(released') : c \in ToSet(released) \/ c = client
  <2>1. released \in Seq(ToSet(released) \cup {client})
    BY DEF IInv, ReleasedInv
  <2>2. released' \in Seq(ToSet(released) \cup {client})
    BY <1>1, <2>1
  <2>3. released' \in Seq(ToSet(released'))
    BY <2>2, OfItsElements
  <2>4. \A i \in DOMAIN released' : released'[i] \in ToSet(released) \cup {client}
    BY <2>2
  <2> QED BY <2>3, <2>4 DEF ToSet
<1>5. OfOneCompile(client, deployed, MutationHistory, ModelHistory) /\ ServedBy(client, files["backend"])
  BY <1>1 DEF IInv, FinishedInv, OfOneCompile
<1>6. ReleasedInv'
  BY <1>1, <1>2, <1>4, <1>5 DEF IInv, ReleasedInv
<1> QED BY <1>3, <1>6 DEF IInv

LEMMA OldToolsInductive ==
  ASSUME IInv, old_tools
  PROVE  IInv'
<1>1. /\ finished /\ job = << >> /\ "superseded" \notin DOMAIN files
      /\ files' = [file \in (DOMAIN files \ {"mutations"}) \cup {"superseded"} |->
                     files[IF file = "superseded" THEN "mutations" ELSE file]]
      /\ UNCHANGED <<project, job, finished, deployed, released>>
  BY DEF old_tools
<1>2. {"client", "backend", "models", "mutations"} \subseteq DOMAIN files
  BY <1>1 DEF IInv, FinishedInv
<1>3. /\ DOMAIN files' = (DOMAIN files \ {"mutations"}) \cup {"superseded"}
      /\ files'["client"] = files["client"] /\ files'["backend"] = files["backend"]
      /\ files'["models"] = files["models"] /\ files'["superseded"] = files["mutations"]
  BY <1>1, <1>2
<1>4. MutationHistory' = MutationHistory /\ ModelHistory' = ModelHistory
  BY <1>2, <1>3 DEF MutationHistory, ModelHistory, Read_
<1>5. JobInv' /\ PendingInv'
  BY <1>1 DEF IInv, JobInv, PendingInv
<1>6. FinishedInv'
  BY <1>1, <1>2, <1>3, <1>4 DEF IInv, FinishedInv
<1>7. ReleasedInv'
  BY <1>1, <1>2, <1>3, <1>4 DEF IInv, ReleasedInv
<1> QED BY <1>5, <1>6, <1>7 DEF IInv

LEMMA ContractsInductive == IInv /\ [Next]_vars => IInv'
<1> SUFFICES ASSUME IInv, [Next]_vars PROVE IInv'
  OBVIOUS
<1>1. ASSUME NEW source \in Project[project], compile(source) PROVE IInv'
  BY <1>1, CompileInductive
<1>2. CASE move
  BY <1>2, MoveInductive
<1>3. CASE crash
  BY <1>3, CrashInductive
<1>4. CASE deploy
  BY <1>4, DeployInductive
<1>5. CASE release
  BY <1>5, ReleaseInductive
<1>6. CASE old_tools
  BY <1>6, OldToolsInductive
<1>7. CASE UNCHANGED vars
  BY <1>7 DEF vars, IInv, JobInv, PendingInv, FinishedInv, ReleasedInv,
              MutationHistory, ModelHistory, Read_
<1> QED BY <1>1, <1>2, <1>3, <1>4, <1>5, <1>6, <1>7 DEF Next

---------------------------------------------------------------------------
(* The theorems.                                                           *)

\* main: wherever compiles stop, a released application's mutations and models
\* stay in the histories the next compile starts from, in their versions, and
\* what is retained of a mutation still takes what that application sends.
THEOREM HistoriesKeep == Spec => []NothingForgotten
<1>1. IInv => NothingForgotten
  <2> SUFFICES ASSUME IInv, NEW i \in DOMAIN released
               PROVE  Remembers(released[i], MutationHistory) /\ ReadsFrom(released[i], ModelHistory)
    BY DEF NothingForgotten, Remembers, ReadsFrom
  <2>1. released[i] \in ToSet(released)
    BY DEF ToSet
  <2> QED BY <2>1 DEF IInv, ReleasedInv, OfOneCompile
<1> QED BY <1>1, ContractsInitial, ContractsInductive, PTL DEF Spec

\* reads_on: what a loader of the retained contract returns fits the application's schema.
LEMMA FitsReader ==
  ASSUME NEW client, Typed(client), NEW m \in DOMAIN client.models, NEW contract,
         reads_on(capture_model(client, client.models[m]), contract),
         NEW state \in Assignments(contract, contract.models["self"], Plain(contract.models["self"]))
  PROVE  validate_state(client, m, state)
<1> DEFINE mine == client.models[m]
           model == contract.models["self"]
           captured == capture_model(client, mine)
<1>1. /\ DOMAIN mine = {"version", "identity", "fields", "relations"}
      /\ mine.identity \subseteq DOMAIN mine.fields
      /\ \A f \in DOMAIN mine.fields : mine.fields[f].type \in DOMAIN Scalar \cup DOMAIN client.enums
  BY DEF Typed
<1>2. /\ captured.models["self"].fields = mine.fields
      /\ captured.models["self"].identity = mine.identity
      /\ DOMAIN captured.enums = TypesOf(mine.fields) \cap DOMAIN client.enums
      /\ \A e \in DOMAIN captured.enums : captured.enums[e] = client.enums[e]
  BY <1>1 DEF capture_model, Restrict
<1>3. /\ mine.identity = model.identity /\ DOMAIN mine.fields \subseteq DOMAIN model.fields
      /\ \A f \in DOMAIN mine.fields : model.fields[f] = mine.fields[f]
      /\ \A e \in DOMAIN captured.enums : contract.enums[e] = client.enums[e]
  BY <1>2 DEF reads_on, KeepsFields
<1>4. /\ DOMAIN state = Plain(model)
      /\ \A f \in Plain(model) : Fits(contract, model.fields[f], state[f])
  BY DEF Assignments
<1>5. DOMAIN state \cap mine.identity = {}
  BY <1>3, <1>4 DEF Plain
<1>6. ASSUME NEW f \in Plain(mine)
      PROVE  Fits(client, mine.fields[f], Read(client, m, state)[f])
  <2>1. /\ f \in DOMAIN mine.fields /\ f \in Plain(model) /\ model.fields[f] = mine.fields[f]
        /\ Read(client, m, state)[f] = state[f]
    BY <1>3, <1>4 DEF Plain, Read
  <2>2. Fits(contract, mine.fields[f], state[f])
    BY <1>4, <2>1
  <2>3. ValuesOf(contract, mine.fields[f].type) = ValuesOf(client, mine.fields[f].type)
    <3>1. CASE mine.fields[f].type \in DOMAIN Scalar
      BY <3>1 DEF ValuesOf
    <3>2. CASE mine.fields[f].type \notin DOMAIN Scalar
      <4>1. mine.fields[f].type \in DOMAIN captured.enums
        BY <1>1, <1>2, <2>1, <3>2 DEF TypesOf
      <4> HIDE DEF captured
      <4> QED BY <1>3, <3>2, <4>1 DEF ValuesOf
    <3> QED BY <3>1, <3>2
  <2> QED BY <2>1, <2>2, <2>3 DEF Fits
<1> QED BY <1>5, <1>6 DEF validate_state

\* check_declared, model_break: the backend in service has the read contract of every
\* model of every released application, and the application can store whatever
\* the loader of that contract returns.
THEOREM ReadersServed == Spec => []Readable
<1>1. IInv => Readable
  <2> SUFFICES ASSUME IInv, NEW i \in DOMAIN released
               PROVE  /\ check_declared(deployed, released[i])
                      /\ \A m \in DOMAIN released[i].models :
                           LET contract == deployed.contracts[m][released[i].models[m].version]
                               model == contract.models["self"]
                           IN \A state \in Assignments(contract, model, Plain(model)) :
                                validate_state(released[i], m, state)
    BY DEF Readable
  <2> DEFINE client == released[i]
  <2>1. client \in ToSet(released)
    BY DEF ToSet
  <2>2. Typed(client) /\ ServedBy(client, deployed)
    BY <2>1 DEF IInv, ReleasedInv, OfOneCompile
  <2> HIDE DEF client
  <2>3. check_declared(deployed, client)
    BY <2>2 DEF check_declared, ServedBy, ReadsFrom
  <2>4. ASSUME NEW m \in DOMAIN client.models, NEW contract,
               contract = deployed.contracts[m][client.models[m].version],
               NEW state \in Assignments(contract, contract.models["self"], Plain(contract.models["self"]))
        PROVE  validate_state(client, m, state)
    <3>1. reads_on(capture_model(client, client.models[m]), contract)
      BY <2>2, <2>4 DEF ServedBy, ReadsFrom
    <3> QED BY <2>2, <2>4, <3>1, FitsReader
  <2> QED BY <2>3, <2>4 DEF client
<1> QED BY <1>1, ContractsInitial, ContractsInductive, PTL DEF Spec

===========================================================================
