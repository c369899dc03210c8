--------------------------- MODULE MCStatsSegment ---------------------------
(***************************************************************************)
(* Small directories for TLC: a counter vector with two columns, aliases of  *)
(* its columns, an alias of an alias, a cycle and an alias out of range.      *)
(***************************************************************************)
EXTENDS StatsSegment

CONSTANTS x, y, z, names

Entry(n, t, r) == [name |-> n, type |-> t, rows |-> r, target |-> 0, column |-> 0]
Vector(n, r) == Entry(n, "CounterVectorSimple", r)
Alias(n, t, c) == [Entry(n, "Symlink", <<>>) EXCEPT !.target = t, !.column = c]
FreeSlot(n) == Entry(n, "Empty", <<>>)

\* Two rows (threads), two columns; y names column 1, z names y.
Base == << Vector(x, <<<<10, 11>>, <<20, 21>>>>), Alias(y, 0, 1), Alias(z, 1, 0) >>

\* The vector has moved behind its alias, and one name is gone.
Moved == << Alias(y, 1, 0), Vector(x, <<<<30, 31>>, <<40, 41>>>>) >>

\* Fewer columns, a free slot, an alias whose column is out of range.
Shrunk == << Alias(z, 2, 1), FreeSlot(y), Vector(x, <<<<50>>, <<60>>>>) >>

\* A cycle and an alias of nothing; cells without rows aliased with a column;
\* combined counters with a null row, and a list of names.
Cyclic == << Alias(x, 1, 0), Alias(y, 0, 0), Alias(z, 7, 0) >>
Scalars == << Entry(x, "ScalarIndex", <<<<70>>>>), Alias(y, 0, 5),
              Entry(z, "Gauge", <<<<71>>>>) >>
Combined == << Entry(x, "CounterVectorCombined", << <<<<1, 64>>>>, <<>> >>), Alias(y, 0, 0),
               Entry(z, "NameVector", <<x, y>>) >>

AllDirectories == {Base, Moved, Shrunk, Cyclic, Scalars, Combined}
BusyDirectories == {Base, Moved}

\* Loads of one word each, and a load that takes epoch and in_progress, which
\* lie in one aligned 16-byte block.
WordLoads == {{"epoch"}, {"in_progress"}, {"vector"}}
PairLoads == WordLoads \cup {{"epoch", "in_progress"}}

\* An order of loads that makes both copies as good as a snapshot, and no order:
\* the words may come as they lie in memory, or from the last to the first.
SoundOrder == {<<"in_progress", "epoch">>, <<"epoch", "vector">>}
AnyOrder == {}
=============================================================================
