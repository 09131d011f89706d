--------------------------- MODULE MCDistribution ---------------------------
(* Small instances of Distribution for TLC. *)
EXTENDS Distribution

Symmetry == Permutations(Tx)

CONSTANTS ch1, ch2, row1, row2

On(c, K) == [channel |-> c, records |-> K]
One(w, K, P) == [writes |-> w, changes |-> K, publications |-> P]

\* Record 1 derives from both rows, record 2 from row2 alone.
Derives == <<{row1, row2}, {row2}>>

\* Two pushes and two settlements that change record 1 through different rows
\* and declare their changes in different orders.  The second push has two
\* mutations; the last of them publishes a record it does not change.
WritersWork ==
  {[push |-> TRUE, units |-> <<One(<<row1>>, <<1>>, <<On(ch1, {1})>>)>>],
   [push |-> TRUE, units |-> <<One(<<row2>>, <<1, 2>>, <<On(ch1, {1, 2})>>),
                               One(<<row1>>, <<1>>, <<On(ch2, {1, 2})>>)>>],
   [push |-> FALSE, units |-> <<One(<<row2>>, <<1, 2>>, <<On(ch2, {2})>>)>>],
   [push |-> FALSE, units |-> <<One(<<row1>>, <<2, 1>>, <<On(ch2, {1})>>)>>]}

\* The second push comes back to record 1 after both records.
ASSUME WritersOrdered == OrderedWork

============================================================================
