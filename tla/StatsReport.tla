----------------------------- MODULE StatsReport -----------------------------
(***************************************************************************)
(* The projections of hammer-stats-client: node.rs, node_error.rs, memory.rs, *)
(* buffer_pools.rs and system.rs.  A report is made of several reads of the   *)
(* stats segment; between two of them the daemon may publish another          *)
(* directory.  A read is of one directory, as StatsSegment promises of the     *)
(* values it returns; what it does not promise of the failures is an error met *)
(* in a half-published one.  The cells of a counter vector are loaded one by   *)
(* one while the workers count on, which no epoch tells.  Two reports of /sys  *)
(* may be compared for the rate of the main loops between them.               *)
(***************************************************************************)
EXTENDS Integers, Sequences, FiniteSets

LOCAL INSTANCE SequencesExt

CONSTANTS
    Directories,      \* what the daemon publishes: functions from names to values
    HeapColumns,      \* columns of a heap's row: 7
    Requests,         \* bound: the sequences of families a caller reports on
    MaxTicks,         \* bound: times the monotonic clock advances
    MaxPublications,  \* bound: publications after the first and changes of numbers
    MaxMisses         \* bound: reads that fail amid a publication

Families == {"node", "err", "mem", "pool", "sys"}

\* A metric name is the sequence of its segments, the family's prefix first.
NAMES == <<"node", "names">>
CLOCKS == <<"node", "clocks">>
VECTORS == <<"node", "vectors">>
CALLS == <<"node", "calls">>
SUSPENDS == <<"node", "suspends">>
WORKERS == <<"sys", "num_worker_threads">>
LOOPS == <<"sys", "main_loop_count_per_worker">>
RATES == <<"sys", "loops_per_worker">>
CLEARED == <<"sys", "last_stats_clear">>
HEARTBEAT == <<"sys", "heartbeat">>
BOOTTIME == <<"sys", "boottime">>

Counters == {CLOCKS, VECTORS, CALLS, SUSPENDS}
Gauges == {"cached", "used", "available"}

\* A MetricValue, or the error of a read: Undecodable stands for those of
\* decode_entry, Protocol, UnsupportedDirectoryType and SymlinkCycle.
Value(t, r) == [tag |-> t, rows |-> r]
Missing == Value("MetricNotFound", <<>>)
Exhausted == Value("RetryExhausted", <<>>)
Undecodable == Value("Undecodable", <<>>)
ReadErrors == {Missing, Exhausted, Undecodable}

\* The outcome of a report: None if the family is absent, Ok with what was
\* read of each name, or an error.
Outcome(t, vs) == [tag |-> t, values |-> vs]
NoValues == [n \in {} |-> Missing]

\* The cells of a simple counter, in the order they are loaded in.
Positions(v) ==
    IF v.tag = "Simple" THEN UNION {{<<r, c>> : c \in DOMAIN v.rows[r]} : r \in DOMAIN v.rows}
    ELSE {}
Precedes(p, q) == p[1] < q[1] \/ (p[1] = q[1] /\ p[2] < q[2])
NoCells == [p \in {} |-> 0]

\* What inner_u64_vector makes of the cells loaded before and the others now.
Assemble(v, cells) ==
    IF v.tag # "Simple" THEN v
    ELSE Value("Simple", [r \in DOMAIN v.rows |-> [c \in DOMAIN v.rows[r] |->
            IF <<r, c>> \in DOMAIN cells THEN cells[<<r, c>>] ELSE v.rows[r][c]]])

Elements(s) == {s[i] : i \in DOMAIN s}

\* A directory has finitely many names, each of a segment or more.  A metric is
\* no error, its rows are a sequence, those of counters are vectors of numbers.
ASSUME DirectoriesAssumption ==
    /\ Directories # {} /\ HeapColumns \in Nat \ {0}
    /\ \A d \in Directories :
        /\ IsFiniteSet(DOMAIN d)
        /\ \A n \in DOMAIN d :
            /\ Len(n) \in Nat \ {0}
            /\ d[n] = Value(d[n].tag, d[n].rows)
            /\ \A e \in ReadErrors : d[n].tag # e.tag
            /\ d[n].rows \in Seq(Elements(d[n].rows))
            /\ d[n].tag = "Simple" => d[n].rows \in Seq(Seq(Nat))
ASSUME BoundsAssumption ==
    MaxTicks \in Nat /\ MaxPublications \in Nat /\ MaxMisses \in Nat

VARIABLES
    directory,      \* the published directory
    pc, family,
    plan,           \* the names still to be read, in order
    values,         \* what was read so far
    loaded,         \* the cells loaded of the value under read
    result,
    requests,       \* the families still to be reported on
    now, sampled,   \* the monotonic clock, and when this report was begun
    samples,        \* the successful reports of /sys the caller keeps
    rate,           \* the last main_loop_rates_per_second asked for
    publications, misses,
    quiet,          \* history: nothing was published or misled during this report
    seen,           \* history: what the segment held since this report began, for
                    \* one of the nodes since it read the names
    lasting,        \* history: names published all through this report, none of
                    \* whose reads was misled by an unfinished publication
    looped, mark    \* history: what the main loops really ran, now and when this
                    \* report loaded the count of each

reportVars == <<pc, family, plan, values, loaded, result, requests, sampled, samples, rate, mark>>
historyVars == <<quiet, seen, lasting, looped>>
vars == <<directory, reportVars, historyVars, now, publications, misses>>

\* The counts of the main loops, one per worker.
Loops(d) ==
    IF LOOPS \in DOMAIN d /\ d[LOOPS].tag = "Simple" /\ Len(d[LOOPS].rows) = 1
    THEN d[LOOPS].rows[1] ELSE <<>>

\* No rate: samples that cannot be differenced.
NoRate == [elapsed |-> 0, deltas |-> <<>>]
Unasked == [self |-> 0, earlier |-> 0, answer |-> NoRate]

Init ==
    /\ directory \in Directories
    /\ pc = "idle" /\ family = "sys" /\ plan = <<>> /\ values = NoValues /\ loaded = NoCells
    /\ result = Outcome("none", NoValues)
    /\ requests \in Requests
    /\ now = 0 /\ sampled = 0 /\ samples = <<>> /\ rate = Unasked
    /\ publications = 0 /\ misses = 0
    /\ quiet = TRUE /\ seen = {} /\ lasting = {}
    /\ looped = [breaks |-> 0, total |-> Loops(directory)] /\ mark = <<>>

-----------------------------------------------------------------------------
(* Which names a report reads *)

\* alias_parts: a node error's alias names a node and an error.
IsAlias(n) == n[1] = "err" /\ Len(n) >= 3

\* Mutant of IsHeapEntry: the aliases below a heap count as heaps.
IsHeapEntryOrAlias(n) == n[1] = "mem" /\ Len(n) >= 2

\* is_heap_entry: a heap, not an alias below one.
IsHeapEntry(n) == n[1] = "mem" /\ Len(n) = 2

\* pool_of_gauge_entry: one of the three gauges of a pool.
IsGaugeEntry(n) == n[1] = "pool" /\ Len(n) = 3 /\ n[3] \in Gauges

NodePlan == <<NAMES, CLOCKS, VECTORS, CALLS, SUSPENDS, WORKERS>>
SystemPlan == <<WORKERS, LOOPS, RATES, CLEARED, HEARTBEAT, BOOTTIME>>

\* Aliases are read sorted, heaps in the order of the directory; any order is
\* taken here.
AliasPlans(listing) == SetToSeqs({n \in listing : IsAlias(n)})
HeapPlans(listing) == SetToSeqs({n \in listing : IsHeapEntry(n)})

\* The three reads of each pool in turn; a pool is met once for each gauge and
\* read once.
PoolPlans(listing) ==
    LET gauge(i) == CASE i % 3 = 1 -> "cached" [] i % 3 = 2 -> "used" [] OTHER -> "available"
    IN  {[i \in 1 .. 3 * Len(pools) |-> <<"pool", pools[(i + 2) \div 3], gauge(i)>>] :
            pools \in SetToSeqs({n[2] : n \in {m \in listing : IsGaugeEntry(m)}})}

\* The reads of a report, given the names() it begins with.
Plans(f, listing) ==
    CASE f = "node" -> {NodePlan}
      [] f = "sys" -> {SystemPlan}
      [] f = "err" -> AliasPlans(listing)
      [] f = "mem" -> HeapPlans(listing)
      [] f = "pool" -> PoolPlans(listing)

\* An absent family is an ordinary result of the two that may be absent.
Absent(f, listing) ==
    \/ f = "node" /\ NAMES \notin listing
    \/ f = "err" /\ \A n \in listing : n[1] # "err" \/ Len(n) = 1

-----------------------------------------------------------------------------
(* Checks of what was read *)

Types(n) ==
    CASE n = NAMES -> {"Names"}
      [] n \in Counters \cup {LOOPS, RATES} -> {"Simple"}
      [] n[1] = "sys" /\ n \notin {LOOPS, RATES} -> {"Scalar", "Gauge"}
      [] n[1] = "pool" -> {"Gauge"}
      [] OTHER -> {"Simple"}

\* What may be wrong with the rows of a value of the right type: read_row wants
\* one row, heap_usage one row of HeapColumns, read_counts one cell per row.
RowDefect(v) == IF Len(v.rows) # 1 THEN "UnexpectedRowCount" ELSE "none"
HeapDefect(v) ==
    IF Len(v.rows) # 1 THEN "UnexpectedRowCount"
    ELSE IF Len(v.rows[1]) # HeapColumns THEN "UnexpectedColumnCount" ELSE "none"
AliasDefect(v) ==
    IF \E r \in DOMAIN v.rows : Len(v.rows[r]) # 1 THEN "UnexpectedColumnCount" ELSE "none"

\* The error a value causes by itself: a failed read, its type, its shape.
Defect(n, v) ==
    IF v \in ReadErrors THEN v.tag
    ELSE IF v.tag \notin Types(n) THEN "UnexpectedMetricType"
    ELSE CASE n \in {LOOPS, RATES} -> RowDefect(v)
           [] n[1] = "mem" -> HeapDefect(v)
           [] n[1] = "err" -> AliasDefect(v)
           [] OTHER -> "none"

\* The worker count a scalar holds.
Workers(vs) == vs[WORKERS].rows[1][1]

\* Mutant of NodeShape: only the clocks are compared with the names.
NodeShapeOfClocks(vs) ==
    IF \E c \in Counters : Len(vs[c].rows) # Len(vs[CLOCKS].rows)
    THEN "UnexpectedRowCount"
    ELSE IF \E r \in DOMAIN vs[CLOCKS].rows : Len(vs[CLOCKS].rows[r]) # Len(vs[NAMES].rows)
         THEN "UnexpectedColumnCount" ELSE "none"

\* The four counters have a row per thread and a column per name.
NodeShape(vs) ==
    IF \E c \in Counters : Len(vs[c].rows) # Len(vs[CLOCKS].rows)
    THEN "UnexpectedRowCount"
    ELSE IF \E c \in Counters : \E r \in DOMAIN vs[c].rows :
               Len(vs[c].rows[r]) # Len(vs[NAMES].rows)
         THEN "UnexpectedColumnCount" ELSE "none"

\* Thread zero and the workers have a row each.
NodeThreads(vs) ==
    IF Len(vs[CLOCKS].rows) # Workers(vs) + 1 THEN "WorkerCountMismatch" ELSE "none"

\* A column per worker.
SystemShape(vs) ==
    IF \E m \in {LOOPS, RATES} : Len(vs[m].rows[1]) # Workers(vs)
    THEN "WorkerCountMismatch" ELSE "none"

\* The error the values read so far cause together, once n has been read.
Mismatch(n, vs) ==
    CASE family = "node" /\ n = SUSPENDS -> NodeShape(vs)
      [] family = "node" /\ n = WORKERS -> NodeThreads(vs)
      [] family = "sys" /\ n = RATES -> SystemShape(vs)
      [] OTHER -> "none"

\* What the report keeps of a value: a clear time of zero is no clear time.
Kept(n, v) == IF n = CLEARED /\ v.rows = <<<<0>>>> THEN Value("None", <<>>) ELSE v

With(vs, n, v) == [m \in DOMAIN vs \cup {n} |-> IF m = n THEN Kept(n, v) ELSE vs[m]]

-----------------------------------------------------------------------------
(* Lookups in a finished report *)

\* The slots a name occupies.
Slots(vs, n) == {i \in DOMAIN vs[NAMES].rows : vs[NAMES].rows[i] = n}

\* column(rows, slot)
ColumnOf(v, slot) == [r \in DOMAIN v.rows |-> v.rows[r][slot]]

NoUsage == [c \in Counters |-> <<>>]

\* Mutant of node: the slots are counted from one.
node_next_slot(vs, n) ==
    IF Cardinality(Slots(vs, n)) # 1 THEN NoUsage
    ELSE LET slot == CHOOSE i \in Slots(vs, n) : TRUE IN
         [c \in Counters |-> ColumnOf(vs[c], (slot % Len(vs[NAMES].rows)) + 1)]

\* NodeStats::node: the four counters of the slot of a name, None for a name
\* that has not exactly one.
node(vs, n) ==
    IF Cardinality(Slots(vs, n)) # 1 THEN NoUsage
    ELSE LET slot == CHOOSE i \in Slots(vs, n) : TRUE IN
         [c \in Counters |-> ColumnOf(vs[c], slot)]

-----------------------------------------------------------------------------
(* A report *)

\* read(n) of a directory at rest.
Lookup(d, n) == IF n \in DOMAIN d THEN d[n] ELSE Missing

Done(t, vs) ==
    /\ pc' = "done" /\ result' = Outcome(t, vs)
    /\ plan' = <<>> /\ values' = NoValues

\* What the loops ran when a column's count was loaded, or now if it was not yet.
Marked ==
    [c \in DOMAIN looped.total |->
        IF <<1, c>> \in DOMAIN loaded THEN mark[c]
        ELSE [breaks |-> looped.breaks, total |-> looped.total[c]]]

\* The values vs are read, rest remains.
Continue(vs, rest) ==
    IF rest = <<>> THEN Done("Ok", vs)
    ELSE pc' = "read" /\ plan' = rest /\ values' = vs /\ UNCHANGED result

\* The listing, names(), comes first; /sys does without one, and takes the
\* time before its reads.  The clock matters, and is advanced, only there.
Report(f) ==
    /\ pc = "idle" /\ requests # <<>> /\ f = Head(requests)
    /\ requests' = Tail(requests) /\ family' = f
    /\ \/ /\ f = "sys" /\ now' \in now .. MaxTicks /\ sampled' = now'
          /\ pc' = "read" /\ plan' \in Plans(f, {})
       \/ /\ f # "sys" /\ UNCHANGED <<now, sampled>>
          /\ pc' = "list" /\ plan' = <<>>
    /\ quiet' = TRUE /\ seen' = {directory} /\ lasting' = DOMAIN directory
    /\ UNCHANGED <<directory, values, loaded, result, samples, rate, mark, looped,
                   publications, misses>>

List ==
    /\ pc = "list"
    /\ IF Absent(family, DOMAIN directory) THEN Done("None", NoValues)
       ELSE \E p \in Plans(family, DOMAIN directory) : Continue(NoValues, p)
    /\ UNCHANGED <<directory, family, loaded, requests, sampled, samples, rate, mark,
                   historyVars, now, publications, misses>>

ListFails ==
    /\ pc = "list" /\ misses < MaxMisses
    /\ misses' = misses + 1 /\ quiet' = FALSE
    /\ \E v \in {Exhausted, Undecodable} : Done(v.tag, NoValues)
    /\ UNCHANGED <<directory, family, loaded, requests, sampled, samples, rate, mark, seen, lasting, looped,
                   now, publications>>

\* The value of n is checked; the report goes on or ends with an error.
Use(n, v) ==
    LET vs == With(values, n, v) IN
    IF Defect(n, v) # "none" THEN Done(Defect(n, v), NoValues)
    ELSE IF Mismatch(n, vs) # "none" THEN Done(Mismatch(n, vs), NoValues)
    ELSE Continue(vs, Tail(plan))

\* Mutant of Take: the first alias that is gone ends the report.
TakeUntilMissing(n, v) ==
    IF family = "err" /\ v = Missing THEN Done("Ok", values) ELSE Use(n, v)

\* A node error's alias may be gone since the listing: it is left out.
Take(n, v) ==
    IF family = "err" /\ v = Missing THEN Continue(values, Tail(plan)) ELSE Use(n, v)

\* inner_u64_vector: the next cell of a counter, if it is not the last.
LoadCell ==
    /\ pc = "read"
    /\ LET v == Lookup(directory, Head(plan))
           left == Positions(v) \ DOMAIN loaded
       IN  \E p \in left :
            /\ left # {p} /\ \A q \in left \ {p} : Precedes(p, q)
            /\ loaded' = [q \in DOMAIN loaded \cup {p} |->
                            IF q = p THEN v.rows[p[1]][p[2]] ELSE loaded[q]]
    /\ mark' = IF Head(plan) = LOOPS THEN Marked ELSE mark
    /\ UNCHANGED <<directory, pc, family, plan, values, result, requests, sampled, samples, rate,
                   historyVars, now, publications, misses>>

\* The last cell is loaded, if there is one, and the value taken.
Read ==
    /\ pc = "read"
    /\ LET v == Lookup(directory, Head(plan)) IN
        /\ Cardinality(Positions(v) \ DOMAIN loaded) <= 1
        /\ Take(Head(plan), Assemble(v, loaded))
    /\ loaded' = NoCells
    /\ mark' = IF Head(plan) = LOOPS THEN Marked ELSE mark
    /\ seen' = IF family = "node" /\ Head(plan) = NAMES THEN {directory} ELSE seen
    /\ UNCHANGED <<directory, family, requests, sampled, samples, rate, quiet, lasting, looped, now,
                   publications, misses>>

\* A read that overlaps a publication: it gives up, does not find the name, or
\* cannot decode what it finds.
ReadMisled ==
    /\ pc = "read" /\ misses < MaxMisses
    /\ misses' = misses + 1 /\ quiet' = FALSE /\ lasting' = lasting \ {Head(plan)}
    /\ \E v \in ReadErrors : Take(Head(plan), v)
    /\ loaded' = NoCells
    /\ UNCHANGED <<directory, family, requests, sampled, samples, rate, mark, seen, looped, now,
                   publications>>

\* The caller has the report; it keeps the ones of /sys.
Return ==
    /\ pc = "done"
    /\ pc' = "idle" /\ result' = Outcome("none", NoValues)
    /\ samples' = IF family = "sys" /\ result.tag = "Ok"
                  THEN Append(samples, [counts |-> result.values[LOOPS].rows[1],
                                        at |-> sampled, mark |-> mark])
                  ELSE samples
    /\ quiet' = TRUE /\ seen' = {} /\ lasting' = {}
    /\ UNCHANGED <<directory, family, plan, values, loaded, requests, sampled, rate, mark, looped,
                   now, publications, misses>>

\* Mutant of main_loop_rates_per_second: samples of one instant are differenced.
rates_of_an_instant(self, earlier) ==
    IF \/ self.at < earlier.at
       \/ Len(self.counts) # Len(earlier.counts)
       \/ \E i \in DOMAIN self.counts : self.counts[i] < earlier.counts[i]
    THEN NoRate
    ELSE [elapsed |-> self.at - earlier.at,
          deltas |-> [i \in DOMAIN self.counts |-> self.counts[i] - earlier.counts[i]]]

\* The increments and the time they are divided by.
main_loop_rates_per_second(self, earlier) ==
    IF \/ self.at <= earlier.at
       \/ Len(self.counts) # Len(earlier.counts)
       \/ \E i \in DOMAIN self.counts : self.counts[i] < earlier.counts[i]
    THEN NoRate
    ELSE [elapsed |-> self.at - earlier.at,
          deltas |-> [i \in DOMAIN self.counts |-> self.counts[i] - earlier.counts[i]]]

\* The caller compares any two samples, in either order.
Compare ==
    /\ pc = "idle" /\ Len(samples) >= 2 /\ rate = Unasked
    /\ \E i, j \in DOMAIN samples :
        rate' = [self |-> i, earlier |-> j,
                 answer |-> main_loop_rates_per_second(samples[i], samples[j])]
    /\ UNCHANGED <<directory, pc, family, plan, values, loaded, result, requests, sampled, samples,
                   mark, historyVars, now, publications, misses>>

\* What the loops ran since the last break: the counts grew, or were cleared or
\* belong to other workers.
LoopedOn(before, after) ==
    IF /\ Len(before) = Len(after)
       /\ \A i \in DOMAIN after : after[i] >= before[i]
    THEN [looped EXCEPT !.total =
            [i \in DOMAIN after |-> looped.total[i] + (after[i] - before[i])]]
    ELSE [breaks |-> looped.breaks + 1, total |-> after]

\* What the daemon does to the segment, as the histories see it.
Change ==
    /\ publications < MaxPublications
    /\ directory' \in Directories \ {directory}
    /\ publications' = publications + 1
    /\ IF pc = "idle" THEN UNCHANGED <<quiet, seen, lasting>>
       ELSE /\ quiet' = FALSE /\ seen' = seen \cup {directory'}
            /\ lasting' = lasting \cap DOMAIN directory'
    /\ looped' = LoopedOn(Loops(directory), Loops(directory'))
    /\ UNCHANGED <<pc, family, plan, values, result, requests, sampled, samples, rate, mark,
                   now, misses>>

\* The daemon publishes another directory.  A read that is under way finds
\* another epoch, if it gets that far, and begins again.
Publish == Change /\ loaded' = NoCells

\* The same entries, names and vectors, maybe with other numbers in them.
SameLayout(d, e) ==
    /\ DOMAIN d = DOMAIN e
    /\ \A n \in DOMAIN d :
        /\ d[n].tag = e[n].tag
        /\ d[n].tag = "Names" => d[n] = e[n]
        /\ d[n].tag = "Simple" =>
            /\ DOMAIN d[n].rows = DOMAIN e[n].rows
            /\ \A r \in DOMAIN d[n].rows : DOMAIN d[n].rows[r] = DOMAIN e[n].rows[r]

\* The daemon's threads count on, or clear the counts, under the same epoch: the
\* cells a read has loaded stay what they were.
Work == Change /\ SameLayout(directory, directory') /\ UNCHANGED loaded

-----------------------------------------------------------------------------
(* Properties *)

ShapeTags == {"UnexpectedRowCount", "UnexpectedColumnCount", "WorkerCountMismatch"}
ErrorTags ==
    ShapeTags \cup {"MetricNotFound", "RetryExhausted", "Undecodable", "UnexpectedMetricType"}

TypeOK ==
    /\ directory \in Directories
    /\ pc \in {"idle", "list", "read", "done"} /\ family \in Families
    /\ (pc = "read" <=> plan # <<>>) /\ (pc = "done" <=> result.tag # "none")
    /\ result.tag \in {"none", "None", "Ok"} \cup ErrorTags
    /\ result.tag # "Ok" => result.values = NoValues
    /\ publications \in 0 .. MaxPublications /\ misses \in 0 .. MaxMisses
    /\ quiet \in BOOLEAN /\ sampled \in 0 .. now /\ now \in 0 .. MaxTicks
    /\ \A i \in DOMAIN samples : samples[i].at \in 0 .. now

\* Reference: the names a report of family f is about, in directory d.
Subject(f, d) ==
    CASE f = "node" -> {NAMES, WORKERS} \cup Counters
      [] f = "sys" -> {WORKERS, LOOPS, RATES, CLEARED, HEARTBEAT, BOOTTIME}
      [] f = "err" -> {n \in DOMAIN d : n[1] = "err" /\ Len(n) > 2}
      [] f = "mem" -> {n \in DOMAIN d : n[1] = "mem" /\ Len(n) = 2}
      [] f = "pool" -> {<<"pool", p, g>> : g \in Gauges, p \in
            {n[2] : n \in {m \in DOMAIN d : m[1] = "pool" /\ Len(m) = 3 /\ m[3] \in Gauges}}}

\* Every row is as long as what it is reported against: NodeStats::node indexes
\* each row of each counter with the slot of a name.
Agree(f, vs) ==
    /\ f = "node" => \A c \in Counters :
        /\ Len(vs[c].rows) = Workers(vs) + 1
        /\ \A r \in DOMAIN vs[c].rows : DOMAIN vs[c].rows[r] = DOMAIN vs[NAMES].rows
    /\ f = "sys" => \A m \in {LOOPS, RATES} : Len(vs[m].rows[1]) = Workers(vs)

\* A report no publication overlaps says what the directory says: it succeeds
\* with the values of the family's names if these are sound and agree, fails
\* if they do not, and is None if the family is not there.
QuietReportsAnswer ==
    pc = "done" /\ quiet =>
        LET names == Subject(family, directory)
            defects == {Defect(n, Lookup(directory, n)) : n \in names} \ {"none"}
            read == [n \in names |-> Kept(n, Lookup(directory, n))]
            absent == \/ family = "node" /\ NAMES \notin DOMAIN directory
                      \/ family = "err" /\ \A n \in DOMAIN directory :
                                              n[1] = "err" => Len(n) < 2
        IN  CASE result.tag = "None" -> absent
              [] result.tag = "Ok" -> /\ ~absent /\ defects = {}
                                      /\ Agree(family, read) /\ result.values = read
              [] OTHER -> /\ ~absent
                          /\ IF defects = {} THEN ~Agree(family, read)
                             ELSE result.tag \in defects \cup ShapeTags

\* A report that succeeds has matching shapes, though its values come from
\* reads of different directories: no caller indexes a row out of bounds.
ShapesAgree == pc = "done" /\ result.tag = "Ok" => Agree(family, result.values)

\* node_error.rs: an alias that vanishes is an ordinary absence.  The report
\* never fails for it and still has every alias that was there all the time.
ErrorsComplete ==
    pc = "done" /\ family = "err" =>
        /\ result.tag # "MetricNotFound"
        /\ result.tag \in {"Ok", "None"} =>
            \A n \in lasting : n[1] = "err" /\ Len(n) > 2 => n \in DOMAIN result.values

\* NodeStats::node: the counters of a node are the columns of its slot, though
\* the names are read first and then each counter, cell by cell, amid the
\* workers' counting and with publications in between.  Every cell is one this
\* node had since the names were read, unless a counter published meanwhile had
\* that column for another node, or for one not named yet.
NodesKeepTheirCounters ==
    pc = "done" /\ family = "node" /\ result.tag = "Ok" =>
        \A n \in Elements(result.values[NAMES].rows) :
            LET usage == node(result.values, n)
                names(d, s) == s \in DOMAIN Lookup(d, NAMES).rows /\ d[NAMES].rows[s] = n
                has(d, s) == \E c \in Counters \cap DOMAIN d : \E r \in DOMAIN d[c].rows :
                                d[c].tag = "Simple" /\ s \in DOMAIN d[c].rows[r]
                steady == \A d \in seen : \A s \in Slots(result.values, n) :
                                has(d, s) => names(d, s)
            IN  usage # NoUsage /\ steady =>
                    \A c \in Counters : \A r \in DOMAIN usage[c] :
                        \E d \in seen : \E s \in DOMAIN Lookup(d, NAMES).rows :
                            /\ names(d, s) /\ c \in DOMAIN d
                            /\ DOMAIN usage[c] = DOMAIN d[c].rows
                            /\ usage[c][r] = d[c].rows[r][s]

\* SystemStats::main_loop_rates_per_second: two samples of one run of the
\* counters, the earlier one older, are differenced into what each main loop
\* really ran between the loads of its count, though the counts of a sample are
\* loaded one after the other; any others of the same run give no rate.
RatesAreWhatTheLoopsRan ==
    rate # Unasked =>
        LET self == samples[rate.self]
            earlier == samples[rate.earlier]
        IN  /\ DOMAIN self.mark = DOMAIN earlier.mark
            /\ \A c \in DOMAIN self.mark : self.mark[c].breaks = earlier.mark[c].breaks
            => rate.answer = IF self.at <= earlier.at THEN NoRate
                    ELSE [elapsed |-> self.at - earlier.at,
                          deltas |-> [c \in DOMAIN self.counts |->
                                        self.mark[c].total - earlier.mark[c].total]]
=============================================================================
