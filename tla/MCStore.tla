------------------------------ MODULE MCStore ------------------------------
(* Two clients of one application whose schema changes between starts.      *)
EXTENDS Store

Scalars == [uuid |-> {"u"}, string |-> {"s"}, int |-> {"i"}]

Field(type, nullable) == [type |-> type, nullable |-> nullable]
Id == [id |-> Field("uuid", FALSE)]
Schema(version, fields) ==
  [enums |-> << >>,
   models |-> [T |-> [version |-> version, identity |-> {"id"}, relations |-> << >>,
                      fields |-> Id @@ fields]]]

First == Schema(1, [a |-> Field("int", FALSE)])
Wider == Schema(1, [a |-> Field("int", FALSE), b |-> Field("string", TRUE)])
Renamed == Schema(2, [c |-> Field("int", TRUE)])
Applications == {First, Wider, Renamed}

\* What may lie at the path: nothing, a file of an earlier layout, or one from
\* before schemas were recorded, with work to send.
Earlier(layout) ==
  [Blank EXCEPT !.layout = layout, !.tables = [T |-> table_ddl(First.models.T)],
                !.generation = 1, !.work = 1, !.cursors = [x |-> 1]]
Starts == {Absent, Earlier("legacy"), Earlier("current")}

Symmetry == Permutations(Handle)
===========================================================================
