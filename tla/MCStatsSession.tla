---------------------------- MODULE MCStatsSession ---------------------------
(***************************************************************************)
(* What a daemon hands over and publishes, for TLC: the directory of a small   *)
(* server, of one with more nodes, more workers and other aliases, of one      *)
(* without most families, malformed ones, two of one layout with other         *)
(* numbers, and two that lack names of nodes.                                  *)
(***************************************************************************)
EXTENDS StatsSession, TLC

CONSTANTS n1, n2    \* nodes

\* A matrix of rows and columns, a scalar, a gauge.
Matrix(rows, cols, x) == Value("Simple", [r \in 1 .. rows |-> [c \in 1 .. cols |-> x + c]])
Scalar(x) == Value("Scalar", <<<<x>>>>)
Gauge(x) == Value("Gauge", <<<<x>>>>)

NodeFamily(nodes, workers) ==
    NAMES :> Value("Names", nodes) @@
    [c \in Counters |-> Value("Simple", [r \in 1 .. workers + 1 |->
        [i \in DOMAIN nodes |-> Len(nodes) + (IF nodes[i] = n1 THEN 0 ELSE 10)]])]

\* The shape of the counters is published before the names are, e2e.
Unnamed(names) == NAMES :> Value("Names", names) @@ NodeFamily(<<n1, n2>>, 1)

SysFamily(workers, loops, cleared) ==
    WORKERS :> Scalar(workers) @@ LOOPS :> Matrix(1, workers, loops) @@
    RATES :> Matrix(1, workers, 2) @@ CLEARED :> Scalar(cleared) @@
    HEARTBEAT :> Gauge(3) @@ BOOTTIME :> Scalar(4)
Errors(aliases, threads) ==
    [n \in {<<"err">> \o a : a \in aliases} |-> Matrix(threads, 1, threads)]
Heap(h) ==
    <<"mem", h>> :> Matrix(1, HeapColumns, 0) @@ <<"mem", h, "used">> :> Matrix(1, 1, 1)
Pool(p, cached, used, available) ==
    <<"pool", p, "cached">> :> Gauge(cached) @@ <<"pool", p, "used">> :> Gauge(used) @@
    <<"pool", p, "available">> :> Gauge(available) @@ <<"pool", p, "other">> :> Gauge(0)

Small ==
    NodeFamily(<<n1>>, 1) @@ SysFamily(1, 7, 0) @@ Heap("h1") @@ Pool("p1", 1, 1, 2) @@
    Errors({<<n1, "e1">>, <<n1, "e2">>}, 2)

\* Another node and another worker; one alias gone, others new.
Grown ==
    NodeFamily(<<n1, n2>>, 2) @@ SysFamily(2, 8, 5) @@ Heap("h1") @@ Heap("h2") @@
    Pool("p1", 0, 3, 1) @@ Pool("p2", 4, 0, 0) @@
    Errors({<<n1, "e2">>, <<n2, "e3">>}, 3)

\* Grown with its counters and loops further on.
Busy == [c \in Counters |-> Matrix(3, 2, 20)] @@ LOOPS :> Matrix(1, 2, 9) @@ Grown

\* No node has its name yet, and there is a worker more than the counters have
\* rows for; one node has its name.
Early == Unnamed(<<"", "">>) @@ WORKERS :> Scalar(2) @@ Small
Blank == Unnamed(<<n1, "">>) @@ Small

\* No node counters, no errors, no heaps, no pools.
Bare == SysFamily(1, 9, 0) @@ <<"err">> :> Scalar(0)

\* Values of other types, and a pool that lacks a gauge.
Mistyped ==
    NAMES :> Scalar(1) @@ CLEARED :> Matrix(1, 1, 1) @@ <<"mem", "h1">> :> Scalar(1) @@
    <<"err", n1, "e1">> :> Gauge(1) @@ <<"pool", "p1", "used">> :> Gauge(1) @@
    <<"err", n1>> :> Scalar(0) @@ SysFamily(1, 5, 0) @@ NodeFamily(<<n1>>, 1)

\* Shapes that do not agree within one directory, and the nodes in other slots.
Skewed ==
    VECTORS :> Matrix(3, 1, 0) @@ RATES :> Matrix(1, 2, 0) @@
    <<"mem", "h1">> :> Matrix(1, 3, 0) @@ <<"mem", "h2">> :> Matrix(2, 1, 0) @@
    <<"err", n1, "e1">> :> Matrix(2, 2, 0) @@ <<"err", n1>> :> Scalar(0) @@
    SysFamily(1, 7, 0) @@ NodeFamily(<<n2, n1>>, 1)

AllDirectories == {Small, Grown, Bare, Mistyped, Skewed, Busy, Early, Blank}

\* One report of each family, and two of /sys to compare.
Callers == {<<"node">>, <<"err">>, <<"mem">>, <<"pool">>, <<"sys", "sys">>}

\* A segment too short to map, one too short for its header, one of another
\* version, and a sound one.
Handed == {[size |-> 0, version |-> 2], [size |-> 1, version |-> 2],
           [size |-> 2, version |-> 3], [size |-> 2, version |-> 2]}
=============================================================================
