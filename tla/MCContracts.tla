---------------------------- MODULE MCContracts ----------------------------
(* Small projects for Contracts.                                            *)
EXTENDS Contracts

Scalars == [uuid |-> {"u"}, string |-> {"s", "t"}, int |-> {"i"}]

Field(type, nullable) == [type |-> type, nullable |-> nullable]
Model(version, fields) ==
  [version |-> version, identity |-> {"id"}, fields |-> fields, relations |-> << >>]
Slot(name, model, operation, cardinality) ==
  [name |-> name, model |-> model, operation |-> operation, cardinality |-> cardinality,
   allowed |-> IF operation = "update" THEN Every ELSE {}, bindings |-> {}]
Mutation(version, slots) == [version |-> version, slots |-> slots, sequence |-> "none"]

---------------------------------------------------------------------------
(* A model with a field, an enum and an optional addition, created and      *)
(* changed by two mutations, through every short chain of edits.            *)

Shape == [a |-> {Field("int", FALSE)}, g |-> {}, e |-> {"x"}, allowed |-> Every, needs |-> {}]
Shapes ==
  {Shape,
   [Shape EXCEPT !.g = {Field("int", TRUE)}],
   [Shape EXCEPT !.g = {Field("int", FALSE)}],
   [Shape EXCEPT !.g = {Field("int", TRUE)}, !.e = {"x", "y"}],
   [Shape EXCEPT !.a = {Field("int", TRUE)}],
   [Shape EXCEPT !.a = {Field("string", FALSE)}],
   [Shape EXCEPT !.a = {}],
   [Shape EXCEPT !.e = {"x", "y"}],
   [Shape EXCEPT !.allowed = {"e"}],
   [Shape EXCEPT !.needs = {"int"}]}

Source(shape, modelVersion, mutationVersion) ==
  LET only(set) == CHOOSE x \in set : TRUE
      fields == (IF shape.a = {} THEN << >> ELSE "a" :> only(shape.a))
                @@ (IF shape.g = {} THEN << >> ELSE "g" :> only(shape.g))
                @@ [id |-> Field("uuid", FALSE), e |-> Field("Kind", FALSE)]
  IN [enums |-> [Kind |-> shape.e],
      models |-> [T |-> Model(modelVersion, fields)],
      mutations |->
        [Add |-> Mutation(mutationVersion, <<Slot("new", "T", "create", "single")>>),
         Edit |-> Mutation(mutationVersion,
                    <<[Slot("old", "T", "update", "optional") EXCEPT !.allowed = shape.allowed]>>)],
      requirements |-> {[model |-> "T", field |-> "a", name |-> "upload"] : t \in shape.needs},
      prerequisites |-> IF shape.needs = {} THEN << >> ELSE "upload" :> "int"]
Evolution == {Source(s, v, w) : s \in Shapes, v \in 1..2, w \in 1..2}

---------------------------------------------------------------------------
(* Every list of at most three slots over creates and deletes of one model. *)

Bare(slots, models) ==
  [enums |-> << >>, models |-> models, mutations |-> [Do |-> Mutation(1, slots)],
   requirements |-> {}, prerequisites |-> << >>]
Names == <<"one", "two", "three">>
Kinds == [create1 |-> <<"create", "single">>, create01 |-> <<"create", "optional">>,
          creates |-> <<"create", "list">>, delete1 |-> <<"delete", "single">>,
          delete01 |-> <<"delete", "optional">>, deletes |-> <<"delete", "list">>]
Lists == UNION {[1..n -> DOMAIN Kinds] : n \in 1..3}
Listed(list) ==
  {Bare([i \in DOMAIN list |-> Slot(Names[i], "T", Kinds[list[i]][1], Kinds[list[i]][2])],
        [T |-> Model(1, [id |-> Field("string", FALSE)])])}

---------------------------------------------------------------------------
(* Children created with their parent; later without the binding.           *)

Family(bindings, version) ==
  [Bare(<<Slot("parent", "P", "create", "single"),
          [Slot("children", "C", "create", "list") EXCEPT !.bindings = bindings]>>,
        [P |-> Model(1, [id |-> Field("string", FALSE)]),
         C |-> [Model(1, [id |-> Field("string", FALSE), p |-> Field("string", FALSE)])
                  EXCEPT !.relations = [owner |-> [target |-> "P", via |-> [id |-> "p"]]]]])
     EXCEPT !.mutations.Do.version = version]
Families == {Family({[relation |-> "owner", slot |-> "parent"]}, 1),
             Family({}, 1), Family({}, 2), Family({[relation |-> "owner", slot |-> "children"]}, 2)}

Projects == [p \in Lists |-> Listed(p)] @@ (<<"evolution">> :> Evolution) @@ (<<"families">> :> Families)

===========================================================================
