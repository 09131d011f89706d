----------------------------- MODULE MCRecords -----------------------------
(* The small applications on which TLC checks Records.                     *)
EXTENDS Records

CONSTANTS a, b, x, y

Create(k, o, v) == [key |-> k, kind |-> "create", patch |-> [owner |-> o, value |-> v]]
Update(k, v) == [key |-> k, kind |-> "update", patch |-> [value |-> v]]
Plain(op) == [wire |-> <<op>>, companion |-> << >>]
At0(v) == [owner |-> 0, value |-> v]

\* One record, created, changed and deleted by everyone.
One ==
  [channels |-> {x}, home |-> <<{x}, {}>>, seed |-> <<Absent, Absent>>,
   mutations |-> {Plain(Create(1, 0, a)), Plain(Update(1, b)), Plain(Delete(1))},
   direct |-> {Update(1, b)}, external |-> {Create(1, 0, b), Update(1, a), Delete(1)},
   failing |-> {1}, pages |-> 1]

\* A parent and a child on one channel; nobody moves the child.
Tree ==
  [channels |-> {x}, home |-> <<{x}, {x}>>, seed |-> <<At0(a), [owner |-> 1, value |-> a]>>,
   mutations |-> {Plain(Delete(1)), Plain(Create(2, 1, b)), Plain(Delete(2)),
                  [wire |-> <<Create(1, 0, b), Create(2, 1, b)>>, companion |-> << >>]},
   direct |-> {},
   external |-> {Create(1, 0, b), Delete(1), Create(2, 1, a), Update(2, b)},
   failing |-> {}, pages |-> 2]

\* The same, where the application creates the child directly.
Late ==
  [Tree EXCEPT !.mutations = {Plain(Delete(1)), Plain(Delete(2))}, !.direct = {Create(2, 1, a)},
               !.external = {Create(1, 0, b), Delete(1), Update(2, b)}, !.pages = 1]

\* A record on two channels, and a local-only one that mutations touch on the
\* side and the application writes directly.
Side ==
  [channels |-> {x, y}, home |-> <<{x, y}, {}>>, seed |-> <<At0(a), Absent>>,
   mutations |-> {[wire |-> <<Update(1, b)>>, companion |-> <<Create(2, 0, a)>>],
                  [wire |-> <<Delete(1)>>, companion |-> <<Delete(2)>>],
                  [wire |-> <<Update(1, a)>>, companion |-> <<Update(2, b)>>]},
   direct |-> {Create(2, 0, b)}, external |-> {Update(1, a)},
   failing |-> {}, pages |-> 1]

Applications == <<One, Tree, Late, Side>>

\* A mutation that names the same record twice.
Twice ==
  [channels |-> {x}, home |-> <<{x}>>, seed |-> <<Absent>>,
   mutations |-> {[wire |-> <<Create(1, 0, a), Update(1, b)>>, companion |-> << >>]},
   direct |-> {}, external |-> {}, failing |-> {}, pages |-> 1]
OnlyTwice == <<Twice>>

\* A child created under a parent that was deleted and created again.
Race == [Tree EXCEPT !.mutations = {Plain(Create(2, 1, b))},
                     !.external = {Delete(1), Create(1, 0, b)}]
OnlyRace == <<Race>>

===========================================================================
