---------------------------- MODULE StatsSegment ----------------------------
(***************************************************************************)
(* The optimistic reader of the shared stats segment (hammer-stats-client,   *)
(* client.rs) and the daemon that publishes the segment.                     *)
(*                                                                         *)
(* The segment header holds an epoch, an in_progress flag and the pointer    *)
(* of the directory vector.  The reader copies the header, decodes the       *)
(* directory one entry at a time while the daemon may be rewriting it, and    *)
(* accepts what it decoded when a second copy shows the same epoch and no     *)
(* publication in progress.  A copy is no atomic step: it is made of loads    *)
(* of one or more words, and the daemon may store between any two of them.    *)
(*                                                                         *)
(* The daemon is not part of the repository.  It is modelled from what the    *)
(* reader expects: it raises in_progress, stores entries, the vector length   *)
(* and the vector pointer in any order, advances the epoch and lowers         *)
(* in_progress.  It may stop anywhere.                                        *)
(***************************************************************************)
EXTENDS Integers, Sequences, FiniteSets

CONSTANTS
    Directories,    \* the directories the daemon publishes: sequences of entries
    First,          \* the directory published before a client can connect
    Names,          \* the metric names callers ask for
    Listing,        \* the query of names()
    Capacity,       \* entries a directory buffer has room for
    Buffers,        \* where a directory vector may lie
    RetryLimit,     \* RETRY_LIMIT
    SymlinkLimit,   \* SYMLINK_LIMIT
    Loads,          \* the sets of header words one load of a copy may take
    NotAfter,       \* pairs <<a, b>>: a copy does not load word a after word b
    MaxCalls,       \* bound: reads made by the client
    MaxPublications \* bound: directories published

Indexes == 0 .. Capacity - 1

\* The stores of a publication besides its entries.
LengthWord == -1
VectorWord == -2

\* Outcomes of a decode: a MetricValue or an error.
ErrorTags == {"MetricNotFound", "ElementOutOfBounds", "SymlinkCycle",
              "UnsupportedDirectoryType", "RetryExhausted"}
Value(t, r) == [tag |-> t, rows |-> r]
Error(t) == [tag |-> t, rows |-> <<>>]
IsError(v) == v.tag \in ErrorTags
Nothing == [tag |-> "none", rows |-> <<>>]

Queries == Names \cup {Listing}

\* The entries of the directories, any of which a cell may still hold.
Entries == UNION {{d[i] : i \in DOMAIN d} : d \in Directories}

ASSUME DirectoriesAssumption ==
    /\ First \in Directories /\ First # <<>>
    /\ \A d \in Directories : d \in Seq(Entries) /\ Len(d) <= Capacity
ASSUME EntriesAssumption ==
    \A e \in Entries : e.target \in Nat /\ e.column \in Nat
ASSUME LimitsAssumption ==
    /\ RetryLimit \in Nat \ {0} /\ SymlinkLimit \in Nat \ {0}
    /\ Capacity \in Nat \ {0}
    /\ MaxCalls \in Nat /\ MaxPublications \in Nat
ASSUME BuffersAssumption == Buffers # {}

\* The words of SharedHeader a publication stores; version and base never change.
HeaderWords == {"epoch", "in_progress", "vector"}

\* A copy with the words ws still to load may load the words l of them next.
MayLoad(l, ws) ==
    /\ l \in Loads /\ l \subseteq ws
    /\ \A w \in l, v \in ws \ l : <<v, w>> \notin NotAfter

\* Every copy comes to its end.
ASSUME LoadsAssumption ==
    \A ws \in SUBSET HeaderWords \ {{}} : \E l \in Loads \ {{}} : MayLoad(l, ws)

VARIABLES
    \* the segment
    epoch, in_progress, directory_vector,
    length,         \* length[b]: the length word in front of buffer b
    cells,          \* cells[b][i]: entry i of buffer b
    \* the daemon
    stage,          \* "idle", "store" or "close" a publication
    todo,           \* stores of the publication under way still to be made
    next,           \* the directory it publishes, and the buffer it uses
    published,      \* history: the directory of each epoch
    \* the reader
    pc, query,
    attempts,       \* header copies so far
    due,            \* the words of the header copy under way still to be loaded
    seen,           \* the start header: epoch, in_progress, directory_vector
    again,          \* the second header copy: epoch, in_progress
    count,          \* the directory length resolve() read
    index, depth,   \* the entry it looks at, symlinks followed
    columns,        \* columns of the symlinks followed, outermost first
    out,            \* names listed so far, then the outcome
    calls,
    quiet           \* history: no publication touched this call

segment == <<epoch, in_progress, directory_vector, length, cells>>
daemon == <<stage, todo, next, published>>
cursor == <<count, index, depth, columns>>
header == <<due, seen, again>>
reader == <<pc, query, attempts, header, cursor, out, calls>>
vars == <<segment, daemon, reader, quiet>>

-----------------------------------------------------------------------------
(* Decoding *)

\* MetricValue::column: one column of every row, or an error when a row is
\* too short.  Values without rows, and errors, pass.
Column(v, c) ==
    IF v.tag \notin {"Simple", "Combined"} THEN v
    ELSE IF \E r \in DOMAIN v.rows : c >= Len(v.rows[r])
         THEN Error("ElementOutOfBounds")
         ELSE Value(v.tag, [r \in DOMAIN v.rows |-> <<v.rows[r][c + 1]>>])

\* The value an entry other than a symlink stands for.  A null row of a counter
\* vector is an empty one.
EntryValue(e) ==
    CASE e.type = "ScalarIndex" -> Value("Scalar", e.rows)
      [] e.type = "Gauge" -> Value("Gauge", e.rows)
      [] e.type = "CounterVectorSimple" -> Value("Simple", e.rows)
      [] e.type = "CounterVectorCombined" -> Value("Combined", e.rows)
      [] e.type = "NameVector" -> Value("Names", e.rows)
      [] OTHER -> Error("UnsupportedDirectoryType")

\* Mutant of Crop: the outermost symlink's column is applied first.
CropOutermostFirst(v, cs) ==
    LET crop[k \in 0 .. Len(cs)] == IF k = 0 THEN v ELSE Column(crop[k - 1], cs[k])
    IN  crop[Len(cs)]

\* The columns of the symlinks followed, applied on the way back: the last k of
\* them, and all.
Cropped(v, cs) ==
    LET crop[k \in 0 .. Len(cs)] ==
          IF k = 0 THEN v ELSE Column(crop[k - 1], cs[Len(cs) - k + 1])
    IN  crop
Crop(v, cs) == Cropped(v, cs)[Len(cs)]

\* What decode_entry yields on a directory that does not change, of each entry
\* when it may still descend d times.
decode_entry(dir) ==
    LET decode[d \in 0 .. SymlinkLimit] == [j \in Nat |->
          IF d = 0 THEN Error("SymlinkCycle")
          ELSE IF j >= Len(dir) THEN Error("ElementOutOfBounds")
          ELSE IF dir[j + 1].type = "Symlink"
               THEN Column(decode[d - 1][dir[j + 1].target], dir[j + 1].column)
               ELSE EntryValue(dir[j + 1])]
    IN  decode
Decoded(dir, i) == decode_entry(dir)[SymlinkLimit][i]

\* What names() and read() yield on a directory that does not change.
Answer(dir, q) ==
    IF q = Listing
    THEN Value("Names", [i \in DOMAIN dir |-> dir[i].name])
    ELSE LET found == {i \in DOMAIN dir : dir[i].name = q}
         IN  IF found = {} THEN Error("MetricNotFound")
             ELSE Decoded(dir, (CHOOSE i \in found : \A j \in found : i <= j) - 1)

-----------------------------------------------------------------------------
(* The daemon *)

Init ==
    /\ epoch = 1 /\ in_progress = FALSE
    /\ directory_vector \in Buffers
    /\ length = [b \in Buffers |-> Len(First)]
    /\ cells = [b \in Buffers |-> [i \in Indexes |->
                    First[IF i < Len(First) THEN i + 1 ELSE 1]]]
    /\ stage = "idle" /\ todo = {}
    /\ next = [dir |-> First, at |-> directory_vector]
    /\ published = <<First>>
    /\ pc = "idle" /\ query = Listing /\ attempts = 0
    /\ due = {} /\ again = [epoch |-> 0, in_progress |-> FALSE]
    /\ seen = [epoch |-> 0, in_progress |-> FALSE, vector |-> directory_vector]
    /\ count = 0 /\ index = 0 /\ depth = 0 /\ columns = <<>>
    /\ out = Nothing /\ calls = 0 /\ quiet = TRUE

\* in_progress is raised before the first store of a publication.
BeginPublication ==
    /\ stage = "idle" /\ epoch <= MaxPublications
    /\ stage' = "store" /\ in_progress' = TRUE
    /\ \E d \in Directories, b \in Buffers :
        /\ next' = [dir |-> d, at |-> b]
        /\ todo' = (0 .. Len(d) - 1) \cup {LengthWord, VectorWord}
    /\ quiet' = FALSE
    /\ UNCHANGED <<epoch, directory_vector, length, cells, published, reader>>

\* The stores of the publication, in any order: entries, length, pointer.
StoreEntry(i) ==
    /\ stage = "store" /\ i \in todo
    /\ cells' = [cells EXCEPT ![next.at][i] = next.dir[i + 1]]
    /\ todo' = todo \ {i}
    /\ quiet' = FALSE
    /\ UNCHANGED <<epoch, in_progress, directory_vector, length,
                   stage, next, published, reader>>

StoreLength ==
    /\ stage = "store" /\ LengthWord \in todo
    /\ length' = [length EXCEPT ![next.at] = Len(next.dir)]
    /\ todo' = todo \ {LengthWord}
    /\ quiet' = FALSE
    /\ UNCHANGED <<epoch, in_progress, directory_vector, cells,
                   stage, next, published, reader>>

StoreVector ==
    /\ stage = "store" /\ VectorWord \in todo
    /\ directory_vector' = next.at
    /\ todo' = todo \ {VectorWord}
    /\ quiet' = FALSE
    /\ UNCHANGED <<epoch, in_progress, length, cells, stage, next, published, reader>>

\* The epoch advances once every store is made, and in_progress falls last.
AdvanceEpoch ==
    /\ stage = "store" /\ todo = {}
    /\ stage' = "close" /\ epoch' = epoch + 1
    /\ published' = Append(published, next.dir)
    /\ quiet' = FALSE
    /\ UNCHANGED <<in_progress, directory_vector, length, cells, todo, next, reader>>

EndPublication ==
    /\ stage = "close"
    /\ stage' = "idle" /\ in_progress' = FALSE
    /\ quiet' = FALSE
    /\ UNCHANGED <<epoch, directory_vector, length, cells, todo, next, published, reader>>

-----------------------------------------------------------------------------
(* The reader: names(), read() and with_published_directory *)

\* names() or read(name) is called.
Call(q) ==
    /\ pc = "idle" /\ calls < MaxCalls
    /\ query' = q /\ pc' = "header" /\ due' = HeaderWords
    /\ attempts' = 0 /\ calls' = calls + 1
    /\ quiet' = ~in_progress
    /\ UNCHANGED <<segment, daemon, seen, again, cursor, out>>

\* read_header copies the header with plain loads, which nothing makes atomic:
\* which words a load takes, and in which order, is what the build and the
\* machine make of the copy (Loads and NotAfter).
LoadStart(l) ==
    /\ pc = "header" /\ MayLoad(l, due)
    /\ seen' = [epoch |-> IF "epoch" \in l THEN epoch ELSE seen.epoch,
                in_progress |-> IF "in_progress" \in l THEN in_progress ELSE seen.in_progress,
                vector |-> IF "vector" \in l THEN directory_vector ELSE seen.vector]
    /\ due' = due \ l
    /\ pc' = (IF due' = {} THEN "resolve" ELSE "header")
    /\ UNCHANGED <<segment, daemon, query, attempts, again, cursor, out, calls, quiet>>

\* The second copy, whose vector is not used.
LoadEnd(l) ==
    /\ pc = "end" /\ MayLoad(l, due)
    /\ again' = [epoch |-> IF "epoch" \in l THEN epoch ELSE again.epoch,
                 in_progress |-> IF "in_progress" \in l THEN in_progress ELSE again.in_progress]
    /\ due' = due \ l
    /\ pc' = (IF due' = {} THEN "compare" ELSE "end")
    /\ UNCHANGED <<segment, daemon, query, attempts, seen, cursor, out, calls, quiet>>

\* The loop goes round, or RETRY_LIMIT attempts are used up.
Retry ==
    /\ attempts' = attempts + 1
    /\ IF attempts + 1 = RetryLimit
         THEN pc' = "done" /\ out' = Error("RetryExhausted") /\ due' = {}
         ELSE pc' = "header" /\ out' = Nothing /\ due' = HeaderWords

\* Mutant of SkipInProgress: waiting for a publication to end is not counted.
SkipUncounted ==
    /\ pc = "resolve" /\ seen.in_progress
    /\ pc' = "header" /\ due' = HeaderWords
    /\ UNCHANGED <<segment, daemon, query, attempts, seen, again, cursor, out, calls, quiet>>

\* A header copied during a publication is not used,
SkipInProgress ==
    /\ pc = "resolve" /\ seen.in_progress
    /\ Retry
    /\ UNCHANGED <<segment, daemon, query, seen, again, cursor, calls, quiet>>

\* otherwise the directory vector is resolved: its length is read.
Resolve ==
    /\ pc = "resolve" /\ ~seen.in_progress
    /\ count' = length[seen.vector]
    /\ index' = 0 /\ depth' = 0 /\ columns' = <<>>
    /\ out' = (IF query = Listing THEN Value("Names", <<>>) ELSE Nothing)
    /\ pc' = "scan"
    /\ UNCHANGED <<segment, daemon, query, attempts, header, calls, quiet>>

\* The decoding closure has an outcome.  An error leaves
\* with_published_directory at once, through `?`; a value goes on to the
\* second header copy.
Decided(v) ==
    /\ out' = v
    /\ IF IsError(v) THEN pc' = "done" /\ due' = {} ELSE pc' = "end" /\ due' = HeaderWords

\* read_entry: entry i of the directory the reader resolved, as it is now.
EntryAt(i) == cells[seen.vector][i]

\* names(), and find_entry of read(): the next entry's name.
Scan ==
    /\ pc = "scan" /\ index < count
    /\ LET e == EntryAt(index) IN
       IF query = Listing
       THEN /\ out' = [out EXCEPT !.rows = Append(@, e.name)]
            /\ index' = index + 1 /\ pc' = pc
       ELSE /\ out' = out
            /\ IF e.name = query THEN pc' = "decode" /\ index' = index
                                 ELSE pc' = pc /\ index' = index + 1
    /\ UNCHANGED <<segment, daemon, query, attempts, header, count, depth, columns,
                   calls, quiet>>

ScanEnds ==
    /\ pc = "scan" /\ index >= count
    /\ Decided(IF query = Listing THEN out ELSE Error("MetricNotFound"))
    /\ UNCHANGED <<segment, daemon, query, attempts, seen, again, cursor, calls, quiet>>

\* Mutant of DecodeSymlink: the depth of the recursion is not limited.
DecodeSymlinkUnlimited ==
    /\ pc = "decode" /\ index < count
    /\ LET e == EntryAt(index) IN
        /\ e.type = "Symlink"
        /\ index' = e.target
        /\ columns' = Append(columns, e.column)
    /\ depth' = depth + 1
    /\ UNCHANGED <<segment, daemon, pc, query, attempts, header, count, out, calls, quiet>>

\* decode_entry: the entry is read again, now for its type and data; a symlink
\* leads to another entry.
DecodeSymlink ==
    /\ pc = "decode" /\ depth < SymlinkLimit /\ index < count
    /\ LET e == EntryAt(index) IN
        /\ e.type = "Symlink"
        /\ index' = e.target
        /\ columns' = Append(columns, e.column)
    /\ depth' = depth + 1
    /\ UNCHANGED <<segment, daemon, pc, query, attempts, header, count, out, calls, quiet>>

DecodeValue ==
    /\ pc = "decode"
    /\ \/ /\ depth >= SymlinkLimit
          /\ Decided(Error("SymlinkCycle"))
       \/ /\ depth < SymlinkLimit /\ index >= count
          /\ Decided(Error("ElementOutOfBounds"))
       \/ /\ depth < SymlinkLimit /\ index < count
          /\ LET e == EntryAt(index) IN
              /\ e.type # "Symlink"
              /\ Decided(Crop(EntryValue(e), columns))
    /\ UNCHANGED <<segment, daemon, query, attempts, seen, again, cursor, calls, quiet>>

\* Mutant of Accept: the second header copy is only asked for in_progress.
AcceptAnyEpoch ==
    /\ pc = "compare" /\ ~again.in_progress
    /\ pc' = "done"
    /\ UNCHANGED <<segment, daemon, query, attempts, header, cursor, out, calls, quiet>>

\* The second header copy decides whether the decoded value counts.
Accept ==
    /\ pc = "compare" /\ ~again.in_progress /\ again.epoch = seen.epoch
    /\ pc' = "done"
    /\ UNCHANGED <<segment, daemon, query, attempts, header, cursor, out, calls, quiet>>

Reject ==
    /\ pc = "compare" /\ (again.in_progress \/ again.epoch # seen.epoch)
    /\ Retry
    /\ UNCHANGED <<segment, daemon, query, seen, again, cursor, calls, quiet>>

Return ==
    /\ pc = "done"
    /\ pc' = "idle" /\ query' = Listing /\ attempts' = 0
    /\ count' = 0 /\ index' = 0 /\ depth' = 0 /\ columns' = <<>> /\ out' = Nothing
    /\ UNCHANGED <<segment, daemon, header, calls, quiet>>

Publish ==
    \/ BeginPublication \/ StoreLength \/ StoreVector
    \/ \E i \in Indexes : StoreEntry(i)
    \/ AdvanceEpoch \/ EndPublication

Read ==
    \/ \E l \in Loads : LoadStart(l) \/ LoadEnd(l)
    \/ SkipInProgress \/ Resolve
    \/ Scan \/ ScanEnds \/ DecodeSymlink \/ DecodeValue
    \/ Accept \/ Reject \/ Return

Next == Publish \/ Read \/ \E q \in Queries : Call(q)

Spec == Init /\ [][Next]_vars

\* A read that was called keeps running; the daemon owes nothing.
FairSpec == Spec /\ WF_vars(Read)

-----------------------------------------------------------------------------
(* Properties *)

Pcs == {"idle", "header", "resolve", "scan", "decode", "end", "compare", "done"}

TypeOK ==
    /\ epoch \in 1 .. MaxPublications + 1 /\ in_progress \in BOOLEAN
    /\ directory_vector \in Buffers
    /\ length \in [Buffers -> 0 .. Capacity]
    /\ stage \in {"idle", "store", "close"}
    /\ todo \subseteq Indexes \cup {LengthWord, VectorWord}
    /\ next.dir \in Directories /\ next.at \in Buffers
    /\ published \in Seq(Directories) /\ Len(published) = epoch
    /\ pc \in Pcs /\ query \in Queries
    /\ attempts \in 0 .. RetryLimit
    /\ seen.epoch \in 0 .. epoch /\ seen.in_progress \in BOOLEAN
    /\ seen.vector \in Buffers
    /\ due \subseteq HeaderWords /\ (due # {} <=> pc \in {"header", "end"})
    /\ again.epoch \in 0 .. epoch /\ again.in_progress \in BOOLEAN
    /\ count \in 0 .. Capacity /\ index \in Nat /\ depth \in 0 .. SymlinkLimit
    /\ Len(columns) = depth
    /\ calls \in 0 .. MaxCalls /\ quiet \in BOOLEAN

\* A value that is returned is the answer of one published directory, the one
\* of the epoch both header copies carry: never a mixture of two
\* publications, never an unfinished one.
ValuesArePublished ==
    pc = "done" /\ ~IsError(out) => out = Answer(published[seen.epoch], query)

\* The reader never reports a failure it met in a half-published directory:
\* a failure, too, is the answer of some published directory.  This is what
\* the comment on with_published_directory says of the code.
FailuresArePublished ==
    pc = "done" /\ IsError(out) /\ out.tag # "RetryExhausted" =>
        \E e \in 1 .. epoch : out = Answer(published[e], query)

\* A call no publication overlaps answers at the first attempt, value or
\* error, from the directory that is published.
QuietReadsAnswer ==
    pc = "done" /\ quiet => out = Answer(published[epoch], query)

\* Every call returns, however busy the daemon is and also if it died in the
\* middle of a publication: attempts and symlinks are bounded.
ReadsReturn == pc # "idle" ~> pc = "idle"
=============================================================================
