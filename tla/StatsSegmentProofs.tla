------------------------- MODULE StatsSegmentProofs -------------------------
(***************************************************************************)
(* Proofs about StatsSegment, for any directories, any number of buffers,      *)
(* calls and publications, and any limits of retries and symlinks.             *)
(***************************************************************************)
EXTENDS StatsSegment, Induction

-----------------------------------------------------------------------------
(* decode_entry and the columns of symlinks *)

\* decode_entry: what an entry decodes to with d levels left, in terms of what its
\* target decodes to with one less.
LEMMA DecodeEntry ==
    ASSUME NEW dir
    PROVE  decode_entry(dir) =
             [d \in 0 .. SymlinkLimit |-> [j \in Nat |->
                IF d = 0 THEN Error("SymlinkCycle")
                ELSE IF j >= Len(dir) THEN Error("ElementOutOfBounds")
                ELSE IF dir[j + 1].type = "Symlink"
                     THEN Column(decode_entry(dir)[d - 1][dir[j + 1].target], dir[j + 1].column)
                     ELSE EntryValue(dir[j + 1])]]
<1> DEFINE body(d, rest) == [j \in Nat |->
              IF d = 0 THEN Error("SymlinkCycle")
              ELSE IF j >= Len(dir) THEN Error("ElementOutOfBounds")
              ELSE IF dir[j + 1].type = "Symlink"
                   THEN Column(rest[dir[j + 1].target], dir[j + 1].column)
                   ELSE EntryValue(dir[j + 1])]
           Defined == {n \in Nat : \E g : g = [d \in 0 .. n |-> body(d, g[d - 1])]}
<1>0. \A r1, r2 : body(0, r1) = body(0, r2)
  OBVIOUS
<1> HIDE DEF body
<1>1. 0 \in Defined
  <2> DEFINE g == [d \in 0 .. 0 |-> body(0, <<>>)]
  <2>1. g = [d \in 0 .. 0 |-> body(d, g[d - 1])]
    BY DEF body
  <2> QED
    BY <2>1
<1>2. ASSUME NEW n \in Nat, n \in Defined PROVE n + 1 \in Defined
  <2> PICK g : g = [d \in 0 .. n |-> body(d, g[d - 1])]
    BY <1>2
  <2> DEFINE h == [d \in 0 .. n + 1 |-> IF d = n + 1 THEN body(d, g[n]) ELSE g[d]]
             k == [d \in 0 .. n + 1 |-> body(d, h[d - 1])]
  <2>1. ASSUME NEW d \in 0 .. n + 1 PROVE h[d] = k[d]
    <3>1. CASE d = n + 1
      BY <3>1
    <3>2. CASE d \in 1 .. n
      BY <3>2
    <3>3. CASE d = 0
      BY <1>0, <3>3
    <3> QED
      BY <3>1, <3>2, <3>3
  <2>2. h = k
    BY <2>1
  <2> HIDE DEF h
  <2> QED
    BY <2>2
<1>3. \E g : g = [d \in 0 .. SymlinkLimit |-> body(d, g[d - 1])]
  BY <1>1, <1>2, SetInduction, LimitsAssumption
<1>4. decode_entry(dir) = CHOOSE g : g = [d \in 0 .. SymlinkLimit |-> body(d, g[d - 1])]
  BY DEF decode_entry, body
<1>5. decode_entry(dir) = [d \in 0 .. SymlinkLimit |-> body(d, decode_entry(dir)[d - 1])]
  BY <1>3, <1>4, Zenon
<1> QED
  BY <1>5, Zenon DEF body

\* One entry of it, when it may still descend d times.
LEMMA DecodeAt ==
    ASSUME NEW dir, NEW d \in 0 .. SymlinkLimit, NEW j \in Nat
    PROVE  decode_entry(dir)[d][j] =
             IF d = 0 THEN Error("SymlinkCycle")
             ELSE IF j >= Len(dir) THEN Error("ElementOutOfBounds")
             ELSE IF dir[j + 1].type = "Symlink"
                  THEN Column(decode_entry(dir)[d - 1][dir[j + 1].target], dir[j + 1].column)
                  ELSE EntryValue(dir[j + 1])
<1> DEFINE row(n) == [k \in Nat |->
              IF n = 0 THEN Error("SymlinkCycle")
              ELSE IF k >= Len(dir) THEN Error("ElementOutOfBounds")
              ELSE IF dir[k + 1].type = "Symlink"
                   THEN Column(decode_entry(dir)[n - 1][dir[k + 1].target], dir[k + 1].column)
                   ELSE EntryValue(dir[k + 1])]
<1>1. decode_entry(dir) = [n \in 0 .. SymlinkLimit |-> row(n)]
  BY DecodeEntry
<1>2. decode_entry(dir)[d] = row(d)
  <2> HIDE DEF row
  <2> QED
    BY <1>1
<1>3. decode_entry(dir)[d][j] = row(d)[j]
  BY <1>2
<1> QED
  BY <1>3

\* The columns applied one after the other, the innermost first.
LEMMA CroppedIs ==
    ASSUME NEW v, NEW cs \in Seq(Nat)
    PROVE  Cropped(v, cs) =
             [k \in 0 .. Len(cs) |->
                IF k = 0 THEN v ELSE Column(Cropped(v, cs)[k - 1], cs[Len(cs) - k + 1])]
<1> DEFINE body(k, before) == IF k = 0 THEN v ELSE Column(before, cs[Len(cs) - k + 1])
           Defined == {n \in Nat : \E g : g = [k \in 0 .. n |-> body(k, g[k - 1])]}
<1> HIDE DEF body
<1>1. 0 \in Defined
  <2> DEFINE g == [k \in 0 .. 0 |-> v]
  <2>1. g = [k \in 0 .. 0 |-> body(k, g[k - 1])]
    BY DEF body
  <2> QED
    BY <2>1
<1>2. ASSUME NEW n \in Nat, n \in Defined PROVE n + 1 \in Defined
  <2> PICK g : g = [k \in 0 .. n |-> body(k, g[k - 1])]
    BY <1>2
  <2> DEFINE h == [k \in 0 .. n + 1 |-> IF k = n + 1 THEN body(k, g[n]) ELSE g[k]]
             f == [k \in 0 .. n + 1 |-> body(k, h[k - 1])]
  <2>1. ASSUME NEW k \in 0 .. n + 1 PROVE h[k] = f[k]
    <3>1. CASE k = n + 1
      BY <3>1
    <3>2. CASE k \in 1 .. n
      BY <3>2
    <3>3. CASE k = 0
      BY <3>3 DEF body
    <3> QED
      BY <3>1, <3>2, <3>3
  <2>2. h = f
    BY <2>1
  <2>3. h = [k \in 0 .. n + 1 |-> body(k, h[k - 1])]
    BY <2>2
  <2> HIDE DEF h, f
  <2>4. \E g0 : g0 = [k \in 0 .. n + 1 |-> body(k, g0[k - 1])]
    BY <2>3, Zenon
  <2>5. n + 1 \in Nat
    OBVIOUS
  <2> QED
    BY <2>4, <2>5, Zenon
<1>3. \E g : g = [k \in 0 .. Len(cs) |-> body(k, g[k - 1])]
  <2>1. Nat \subseteq Defined
    BY <1>1, <1>2, SetInduction
  <2>2. Len(cs) \in Nat
    OBVIOUS
  <2> QED
    BY <2>1, <2>2
<1>4. Cropped(v, cs) = CHOOSE g : g = [k \in 0 .. Len(cs) |-> body(k, g[k - 1])]
  BY DEF Cropped, body
<1>5. Cropped(v, cs) = [k \in 0 .. Len(cs) |-> body(k, Cropped(v, cs)[k - 1])]
  BY <1>3, <1>4, Zenon
<1> QED
  BY <1>5, Zenon DEF body

\* A symlink followed last is cropped first.
LEMMA CropInnermostFirst ==
    ASSUME NEW v, NEW cs \in Seq(Nat), NEW c \in Nat
    PROVE  Crop(v, Append(cs, c)) = Crop(Column(v, c), cs)
<1> DEFINE ds == Append(cs, c)
           more == Cropped(v, ds)
           less == Cropped(Column(v, c), cs)
           Same == {n \in Nat : n <= Len(cs) => more[n + 1] = less[n]}
<1>1. ds \in Seq(Nat) /\ Len(ds) = Len(cs) + 1 /\ ds[Len(ds)] = c
  OBVIOUS
<1>2. \A i \in 1 .. Len(cs) : ds[i] = cs[i]
  OBVIOUS
<1> HIDE DEF ds
<1>3. \A k \in 0 .. Len(ds) : more[k] = IF k = 0 THEN v ELSE Column(more[k - 1], ds[Len(ds) - k + 1])
  <2>1. more = [k \in 0 .. Len(ds) |->
                   IF k = 0 THEN v ELSE Column(more[k - 1], ds[Len(ds) - k + 1])]
    BY <1>1, CroppedIs
  <2> QED
    BY <2>1
<1>4. \A k \in 0 .. Len(cs) :
        less[k] = IF k = 0 THEN Column(v, c) ELSE Column(less[k - 1], cs[Len(cs) - k + 1])
  BY CroppedIs
<1> HIDE DEF more, less
<1>5. 0 \in Same
  <2>1. more[0] = v /\ less[0] = Column(v, c)
    BY <1>1, <1>3, <1>4
  <2>2. more[1] = Column(more[0], ds[Len(ds)])
    <3>1. 1 \in 0 .. Len(ds) /\ 1 # 0 /\ 1 - 1 = 0 /\ Len(ds) - 1 + 1 = Len(ds)
      BY <1>1
    <3>2. more[1] = Column(more[1 - 1], ds[Len(ds) - 1 + 1])
      BY <1>3, <3>1
    <3> QED
      BY <3>1, <3>2
  <2> QED
    BY <1>1, <2>1, <2>2
<1>6. ASSUME NEW n \in Nat, n \in Same PROVE n + 1 \in Same
  <2> SUFFICES ASSUME n + 1 <= Len(cs) PROVE more[n + 2] = less[n + 1]
    OBVIOUS
  <2>1. more[n + 1] = less[n]
    BY <1>6
  <2>2. more[n + 2] = Column(more[n + 1], ds[Len(cs) - n])
    <3>1. n + 2 \in 0 .. Len(ds) /\ n + 2 # 0 /\ (n + 2) - 1 = n + 1
          /\ Len(ds) - (n + 2) + 1 = Len(cs) - n
      BY <1>1
    <3> QED
      BY <1>3, <3>1
  <2>3. less[n + 1] = Column(less[n], cs[Len(cs) - n])
    BY <1>4
  <2> QED
    BY <1>2, <2>1, <2>2, <2>3
<1>7. Len(cs) \in Same
  <2>1. Nat \subseteq Same
    BY <1>5, <1>6, SetInduction
  <2> QED
    BY <2>1
<1> QED
  BY <1>1, <1>7 DEF Crop, more, less, ds

\* An error passes through the columns.
LEMMA CropError ==
    ASSUME NEW v, NEW cs \in Seq(Nat), v.tag \notin {"Simple", "Combined"}
    PROVE  Crop(v, cs) = v
<1> DEFINE all == Cropped(v, cs)
           Same == {n \in Nat : n <= Len(cs) => all[n] = v}
<1>1. \A k \in 0 .. Len(cs) : all[k] = IF k = 0 THEN v ELSE Column(all[k - 1], cs[Len(cs) - k + 1])
  BY CroppedIs
<1> HIDE DEF all
<1>2. 0 \in Same
  BY <1>1
<1>3. ASSUME NEW n \in Nat, n \in Same PROVE n + 1 \in Same
  <2> SUFFICES ASSUME n + 1 <= Len(cs) PROVE all[n + 1] = v
    OBVIOUS
  <2>1. all[n] = v
    BY <1>3
  <2>2. all[n + 1] = Column(all[n], cs[Len(cs) - n])
    BY <1>1
  <2> QED
    BY <2>1, <2>2 DEF Column
<1>4. Len(cs) \in Same
  <2>1. Nat \subseteq Same
    BY <1>2, <1>3, SetInduction
  <2> QED
    BY <2>1
<1> QED
  BY <1>4 DEF Crop, all

\* Without symlinks there is nothing to crop.
LEMMA CropNothing == ASSUME NEW v PROVE Crop(v, <<>>) = v
<1>1. Len(<<>>) = 0 /\ <<>> \in Seq(Nat)
  OBVIOUS
<1>2. Cropped(v, <<>>)[0] = v
  <2> DEFINE cs == <<>>
             all == Cropped(v, cs)
  <2>1. cs \in Seq(Nat) /\ 0 \in 0 .. Len(cs)
    BY <1>1
  <2> HIDE DEF cs
  <2>2. all = [k \in 0 .. Len(cs) |->
                 IF k = 0 THEN v ELSE Column(all[k - 1], cs[Len(cs) - k + 1])]
    BY <2>1, CroppedIs
  <2> HIDE DEF all
  <2>3. all[0] = v
    BY <2>1, <2>2
  <2> QED
    BY <2>3 DEF all, cs
<1> QED
  BY <1>1, <1>2 DEF Crop
-----------------------------------------------------------------------------
(* The inductive invariant *)

\* Types, and the bounds the next step relies on.
TypeInv ==
    /\ TypeOK
    /\ cells \in [Buffers -> [Indexes -> Entries]]
    /\ seen \in [epoch : Nat, in_progress : BOOLEAN, vector : Buffers]
    /\ again \in [epoch : Nat, in_progress : BOOLEAN]
    /\ columns \in Seq(Nat)
    /\ stage = "store" =>
        /\ epoch <= MaxPublications
        /\ todo \subseteq (0 .. Len(next.dir) - 1) \cup {LengthWord, VectorWord}
    /\ pc \in {"header", "resolve", "scan", "decode", "end", "compare"} => attempts < RetryLimit

\* The buffer b holds the directory dir.
Holds(dir, b) ==
    /\ length[b] = Len(dir)
    /\ \A i \in 0 .. Len(dir) - 1 : cells[b][i] = dir[i + 1]

\* The daemon: in_progress is up from the first store to the last, and between
\* publications the vector's buffer holds the directory of the epoch.
DaemonInv ==
    /\ in_progress <=> stage # "idle"
    /\ stage \in {"idle", "close"} => Holds(published[epoch], directory_vector)
    /\ stage = "store" =>
        /\ LengthWord \notin todo => length[next.at] = Len(next.dir)
        /\ VectorWord \notin todo => directory_vector = next.at
        /\ \A i \in 0 .. Len(next.dir) - 1 : i \notin todo => cells[next.at][i] = next.dir[i + 1]

\* A copy loads the epoch no later than the vector, and the flag no later than
\* the epoch.
EpochFirst == <<"epoch", "vector">> \in NotAfter
FlagFirst == <<"in_progress", "epoch">> \in NotAfter

\* The words that the first and the second copy have loaded.
Copied(w) ==
    \/ pc = "header" /\ w \notin due
    \/ pc \in {"resolve", "scan", "decode", "end", "compare", "done"}
CopiedAgain(w) == (pc = "end" /\ w \notin due) \/ pc = "compare"

\* Nothing was stored since the epoch was published that the first copy carries.
Untouched == seen.epoch = epoch /\ stage # "store"

\* The reader is in the directory of its epoch, and nothing changes there.
Trusted == Untouched /\ seen.vector = directory_vector

\* A call no publication touched has copied the header that is there.
QuietInv ==
    quiet =>
        /\ ~in_progress
        /\ Copied("epoch") => seen.epoch = epoch
        /\ Copied("in_progress") => ~seen.in_progress
        /\ Copied("vector") => seen.vector = directory_vector
        /\ CopiedAgain("epoch") => again.epoch = epoch
        /\ CopiedAgain("in_progress") => ~again.in_progress

\* The epoch first: a vector that is loaded after it belongs to it.
VectorInv ==
    EpochFirst /\ Copied("vector") =>
        /\ Copied("epoch")
        /\ Untouched => seen.vector = directory_vector

\* What the reader has decoded so far of the directory it may trust.
ReadInv ==
    Trusted => LET dir == published[epoch] IN
        /\ pc = "scan" =>
            /\ count = Len(dir) /\ index <= count /\ depth = 0 /\ columns = <<>>
            /\ query = Listing => out = Value("Names", [i \in 1 .. index |-> dir[i].name])
            /\ query # Listing => \A i \in 1 .. index : dir[i].name # query
        /\ pc = "decode" =>
            /\ count = Len(dir)
            /\ Crop(decode_entry(dir)[SymlinkLimit - depth][index], columns) = Answer(dir, query)
        /\ pc \in {"end", "compare"} => out = Answer(dir, query)
        /\ pc = "done" /\ quiet => out = Answer(dir, query)

\* The outcome is the answer of the directory of the epoch the first copy carries.
Answered == seen.epoch >= 1 /\ out = Answer(published[seen.epoch], query)

\* The flag first: found low, either no publication had begun by then, and what
\* was decoded is the answer, or the epoch had passed on already, and the second
\* copy will tell.  Loaded after the epoch it may be the flag of a publication
\* that began and ended in between, which tells nothing.
FlagInv ==
    FlagFirst =>
        /\ CopiedAgain("epoch") => CopiedAgain("in_progress")
        /\ EpochFirst /\ CopiedAgain("in_progress") /\ ~again.in_progress =>
              \/ Answered
              \/ seen.epoch < epoch /\ (CopiedAgain("epoch") => again.epoch > seen.epoch)

\* Only values go on to the second copy, and a value that passed it is the answer
\* of its epoch's directory, however much is published later.
DoneInv ==
    /\ pc \in {"end", "compare"} => ~IsError(out)
    /\ EpochFirst /\ FlagFirst /\ pc = "done" /\ ~IsError(out) => Answered

IInv ==
    TypeInv /\ DaemonInv /\ QuietInv /\ VectorInv /\ ReadInv /\ FlagInv /\ DoneInv

\* A published directory is a sequence of entries that fits a buffer.
LEMMA DirectoryFacts ==
    ASSUME NEW dir \in Directories
    PROVE  /\ dir \in Seq(Entries) /\ Len(dir) \in 0 .. Capacity
           /\ \A i \in 0 .. Len(dir) - 1 : i \in Indexes /\ i + 1 \in DOMAIN dir /\ dir[i + 1] \in Entries
  BY DirectoriesAssumption, LimitsAssumption DEF Indexes

-----------------------------------------------------------------------------
(* Steps of the daemon *)

\* The daemon keeps the state well formed,
LEMMA PublishTypes == IInv /\ Publish => TypeInv'
<1> SUFFICES ASSUME TypeInv, Publish PROVE TypeInv'
  BY DEF IInv
<1> USE LimitsAssumption DEF TypeInv, TypeOK, Pcs, reader, header, cursor
<1>1. CASE BeginPublication
  <2> PICK d \in Directories, b \in Buffers :
        /\ next' = [dir |-> d, at |-> b]
        /\ todo' = (0 .. Len(d) - 1) \cup {LengthWord, VectorWord}
    BY <1>1 DEF BeginPublication
  <2>1. 0 .. Len(d) - 1 \subseteq Indexes
    BY DirectoryFacts
  <2> QED
    BY <1>1, <2>1 DEF BeginPublication
<1>2. CASE StoreLength
  <2>1. Len(next.dir) \in 0 .. Capacity
    BY DirectoryFacts
  <2> QED
    BY <1>2, <2>1 DEF StoreLength
<1>3. CASE StoreVector
  BY <1>3 DEF StoreVector
<1>4. ASSUME NEW i \in Indexes, StoreEntry(i) PROVE TypeInv'
  <2>1. i \in 0 .. Len(next.dir) - 1
    <3>1. i \notin {LengthWord, VectorWord}
      BY DEF LengthWord, VectorWord, Indexes
    <3>2. i \in todo /\ todo \subseteq (0 .. Len(next.dir) - 1) \cup {LengthWord, VectorWord}
      BY <1>4 DEF StoreEntry
    <3> QED
      BY <3>1, <3>2
  <2>2. next.dir[i + 1] \in Entries
    BY <2>1, DirectoryFacts
  <2>3. cells' \in [Buffers -> [Indexes -> Entries]]
    BY <1>4, <2>2 DEF StoreEntry
  <2> QED
    BY <1>4, <2>3 DEF StoreEntry
<1>5. CASE AdvanceEpoch
  <2>1. published' \in Seq(Directories) /\ Len(published') = epoch'
    BY <1>5 DEF AdvanceEpoch
  <2>2. epoch' \in 1 .. MaxPublications + 1 /\ seen.epoch \in 0 .. epoch'
        /\ again.epoch \in 0 .. epoch'
    BY <1>5 DEF AdvanceEpoch
  <2> QED
    BY <1>5, <2>1, <2>2 DEF AdvanceEpoch
<1>6. CASE EndPublication
  BY <1>6 DEF EndPublication
<1> QED
  BY <1>1, <1>2, <1>3, <1>4, <1>5, <1>6 DEF Publish

\* has stored the whole directory when it closes,
LEMMA PublishDaemon == IInv /\ Publish => DaemonInv'
<1> SUFFICES ASSUME TypeInv, DaemonInv, Publish PROVE DaemonInv'
  BY DEF IInv
<1> USE DEF TypeInv, TypeOK, DaemonInv, Holds, LengthWord, VectorWord
<1>1. CASE BeginPublication
  BY <1>1, DirectoryFacts DEF BeginPublication
<1>2. CASE StoreLength
  <2>1. stage = "store" /\ stage' = "store" /\ (in_progress' <=> stage' # "idle")
    BY <1>2 DEF StoreLength
  <2> QED
    BY <1>2, <2>1, SMTT(30) DEF StoreLength
<1>3. CASE StoreVector
  <2>1. stage = "store" /\ stage' = "store" /\ (in_progress' <=> stage' # "idle")
    BY <1>3 DEF StoreVector
  <2> QED
    BY <1>3, <2>1, SMTT(30) DEF StoreVector
<1>4. ASSUME NEW i \in Indexes, StoreEntry(i) PROVE DaemonInv'
  <2>1. i \notin {LengthWord, VectorWord} /\ stage = "store" /\ stage' = "store"
    BY <1>4 DEF StoreEntry, Indexes
  <2>2. ASSUME NEW k \in 0 .. Len(next.dir) - 1, k \notin todo'
        PROVE  cells'[next.at][k] = next.dir[k + 1]
    <3>1. k \in Indexes
      BY DirectoryFacts
    <3>2. CASE k = i
      BY <1>4, <3>1, <3>2 DEF StoreEntry
    <3>3. CASE k # i
      BY <1>4, <2>2, <3>1, <3>3 DEF StoreEntry
    <3> QED
      BY <3>2, <3>3
  <2> QED
    BY <1>4, <2>1, <2>2 DEF StoreEntry
<1>5. CASE AdvanceEpoch
  BY <1>5, SMTT(60) DEF AdvanceEpoch
<1>6. CASE EndPublication
  BY <1>6 DEF EndPublication
<1> QED
  BY <1>1, <1>2, <1>3, <1>4, <1>5, <1>6 DEF Publish

\* What a reader may trust after a step of the daemon it could trust before: such a
\* step at most ends a publication.
LEMMA PublishDistrusted ==
    IInv /\ Publish => /\ quiet' = FALSE
                       /\ Untouched' => Untouched /\ UNCHANGED <<directory_vector, epoch, published>>
<1> SUFFICES ASSUME IInv, Publish
             PROVE  /\ quiet' = FALSE
                    /\ Untouched' => Untouched /\ UNCHANGED <<directory_vector, epoch, published>>
  OBVIOUS
<1> USE DEF IInv, TypeInv, TypeOK, Untouched, reader, header
<1>1. CASE BeginPublication
  BY <1>1 DEF BeginPublication
<1>2. CASE StoreLength
  BY <1>2 DEF StoreLength
<1>3. CASE StoreVector
  BY <1>3 DEF StoreVector
<1>4. ASSUME NEW i \in Indexes, StoreEntry(i) PROVE quiet' = FALSE /\ ~Untouched'
  BY <1>4 DEF StoreEntry
<1>5. CASE AdvanceEpoch
  BY <1>5 DEF AdvanceEpoch
<1>6. CASE EndPublication
  BY <1>6 DEF EndPublication
<1> QED
  BY <1>1, <1>2, <1>3, <1>4, <1>5, <1>6 DEF Publish

\* What was published stays what its epoch published.
LEMMA PublishDone == IInv /\ Publish => FlagInv' /\ DoneInv'
<1> SUFFICES ASSUME IInv, Publish PROVE FlagInv' /\ DoneInv'
  OBVIOUS
<1>1. UNCHANGED <<pc, out, due, seen, again, query>>
  BY DEF Publish, BeginPublication, StoreLength, StoreVector, StoreEntry, AdvanceEpoch,
         EndPublication, reader, header
<1>2. \A e \in 1 .. epoch : published'[e] = published[e]
  <2>1. published' = published \/ published' = Append(published, next.dir)
    BY DEF Publish, BeginPublication, StoreLength, StoreVector, StoreEntry, AdvanceEpoch,
           EndPublication
  <2>2. published \in Seq(Directories) /\ Len(published) = epoch
    BY DEF IInv, TypeInv, TypeOK
  <2>3. \A e \in 1 .. Len(published) : Append(published, next.dir)[e] = published[e]
    BY <2>2
  <2> QED
    BY <2>1, <2>2, <2>3
<1>3. seen.epoch \in 0 .. epoch /\ epoch \in Nat
  BY DEF IInv, TypeInv, TypeOK
<1>4. epoch' = epoch \/ epoch' = epoch + 1
  BY DEF Publish, BeginPublication, StoreLength, StoreVector, StoreEntry, AdvanceEpoch,
         EndPublication
<1>5. Answered => Answered'
  BY <1>1, <1>2, <1>3 DEF Answered
<1>6. seen.epoch < epoch => seen'.epoch < epoch'
  BY <1>1, <1>3, <1>4
<1>7. FlagInv'
  BY <1>1, <1>5, <1>6 DEF IInv, FlagInv, CopiedAgain
<1>8. DoneInv'
  BY <1>1, <1>5 DEF IInv, DoneInv, IsError
<1> QED
  BY <1>7, <1>8

\* and keeps the rest of the invariant.
LEMMA PublishStep == IInv /\ Publish => IInv'
<1> SUFFICES ASSUME IInv, Publish PROVE IInv'
  OBVIOUS
<1>1. UNCHANGED reader
  BY DEF Publish, BeginPublication, StoreLength, StoreVector, StoreEntry, AdvanceEpoch,
         EndPublication
<1>2. QuietInv'
  BY PublishDistrusted DEF QuietInv
<1>3. VectorInv'
  BY <1>1, PublishDistrusted DEF IInv, VectorInv, Copied, reader, header
<1>4. ReadInv'
  <2> SUFFICES ASSUME Trusted' PROVE ReadInv'
    BY DEF ReadInv
  <2>1. Trusted /\ UNCHANGED <<epoch, published>>
    BY <1>1, PublishDistrusted DEF Trusted, reader, header
  <2> QED
    BY <1>1, <2>1, PublishDistrusted DEF IInv, ReadInv, reader, header, cursor
<1> QED
  BY <1>2, <1>3, <1>4, PublishTypes, PublishDaemon, PublishDone DEF IInv

-----------------------------------------------------------------------------
(* Steps of the reader *)

Reads == Read \/ \E q \in Queries : Call(q)

\* The reader keeps the state well formed,
LEMMA ReadTypes == IInv /\ Reads => TypeInv'
<1> SUFFICES ASSUME TypeInv, Reads PROVE TypeInv'
  BY DEF IInv
<1> USE LimitsAssumption
    DEF TypeInv, TypeOK, Pcs, segment, daemon, header, cursor, Retry, Decided, Queries, HeaderWords
<1>1. ASSUME NEW l \in Loads, LoadStart(l) PROVE TypeInv'
  <2>1. /\ seen' \in [epoch : Nat, in_progress : BOOLEAN, vector : Buffers]
        /\ seen'.epoch \in 0 .. epoch /\ seen'.in_progress \in BOOLEAN /\ seen'.vector \in Buffers
    BY <1>1 DEF LoadStart
  <2>2. due' \subseteq due /\ pc' \in {"header", "resolve"} /\ (due' # {} <=> pc' = "header")
    BY <1>1 DEF LoadStart
  <2>3. UNCHANGED <<segment, daemon, query, attempts, again, cursor, out, calls, quiet>>
        /\ pc = "header"
    BY <1>1 DEF LoadStart
  <2> QED
    BY <2>1, <2>2, <2>3
<1>2. ASSUME NEW l \in Loads, LoadEnd(l) PROVE TypeInv'
  <2>1. /\ again' \in [epoch : Nat, in_progress : BOOLEAN]
        /\ again'.epoch \in 0 .. epoch /\ again'.in_progress \in BOOLEAN
    BY <1>2 DEF LoadEnd
  <2>2. due' \subseteq due /\ pc' \in {"end", "compare"} /\ (due' # {} <=> pc' = "end")
    BY <1>2 DEF LoadEnd
  <2>3. UNCHANGED <<segment, daemon, query, attempts, seen, cursor, out, calls, quiet>>
        /\ pc = "end"
    BY <1>2 DEF LoadEnd
  <2> QED
    BY <2>1, <2>2, <2>3
<1>3. CASE SkipInProgress \/ Reject
  <2>1. attempts \in Nat /\ attempts < RetryLimit /\ RetryLimit \in Nat
    BY <1>3 DEF SkipInProgress, Reject
  <2>2. \/ pc' = "done" /\ due' = {} /\ attempts' = RetryLimit
        \/ pc' = "header" /\ due' = HeaderWords /\ attempts' \in 0 .. RetryLimit - 1
    <3> USE <2>1 DEF SkipInProgress, Reject
    <3>1. CASE attempts + 1 = RetryLimit
      BY <1>3, <3>1
    <3>2. CASE attempts + 1 # RetryLimit
      BY <1>3, <3>2
    <3> QED
      BY <3>1, <3>2
  <2>3. UNCHANGED <<segment, daemon, query, seen, again, cursor, calls, quiet>>
    BY <1>3 DEF SkipInProgress, Reject
  <2>4. due' \subseteq HeaderWords /\ (due' # {} <=> pc' \in {"header", "end"})
    BY <2>2
  <2>5. pc' \in Pcs /\ pc' \notin {"resolve", "scan", "decode", "end", "compare"}
        /\ attempts' \in 0 .. RetryLimit /\ (pc' = "header" => attempts' < RetryLimit)
    BY <2>1, <2>2
  <2> QED
    BY <2>3, <2>4, <2>5
<1>4. CASE Resolve
  BY <1>4 DEF Resolve
<1>5. CASE Scan
  <2>1. /\ index' = index \/ index' = index + 1
        /\ pc' = pc \/ pc' = "decode"
    BY <1>5, Zenon DEF Scan
  <2>2. pc = "scan" /\ index \in Nat
    BY <1>5 DEF Scan
  <2>3. index' \in Nat /\ pc' \in {"scan", "decode"}
    BY <2>1, <2>2
  <2>4. UNCHANGED <<segment, daemon, query, attempts, header, count, depth, columns, calls, quiet>>
    BY <1>5 DEF Scan
  <2> QED
    BY <2>2, <2>3, <2>4
<1>6. CASE ScanEnds
  BY <1>6 DEF ScanEnds
<1>7. CASE DecodeSymlink
  <2>1. index \in Indexes
    BY <1>7 DEF DecodeSymlink, Indexes
  <2>2. EntryAt(index) \in Entries
    BY <2>1 DEF EntryAt
  <2>3. EntryAt(index).target \in Nat /\ EntryAt(index).column \in Nat
    BY <2>2, EntriesAssumption
  <2>4. index' \in Nat /\ columns' \in Seq(Nat) /\ Len(columns') = depth'
    BY <1>7, <2>3 DEF DecodeSymlink
  <2>5. /\ pc = "decode" /\ depth' = depth + 1 /\ depth < SymlinkLimit
        /\ UNCHANGED <<segment, daemon, pc, query, attempts, header, count, out, calls, quiet>>
    BY <1>7 DEF DecodeSymlink
  <2> QED
    BY <2>4, <2>5
<1>8. CASE DecodeValue
  <2>1. PICK v : Decided(v)
    BY <1>8 DEF DecodeValue
  <2>2. /\ pc' \in {"end", "done"} /\ due' \subseteq HeaderWords
        /\ due' # {} <=> pc' = "end"
    BY <2>1 DEF Decided, HeaderWords
  <2>3. UNCHANGED <<segment, daemon, query, attempts, seen, again, cursor, calls, quiet>>
        /\ pc = "decode"
    BY <1>8 DEF DecodeValue
  <2> QED
    BY <2>2, <2>3
<1>9. CASE Accept
  BY <1>9 DEF Accept
<1>11. CASE Return
  <2>1. <<>> \in Seq(Nat) /\ Len(<<>>) = 0
    OBVIOUS
  <2> QED
    BY <1>11, <2>1 DEF Return
<1>12. ASSUME NEW q \in Queries, Call(q) PROVE TypeInv'
  BY <1>12 DEF Call
<1> QED
  BY <1>1, <1>2, <1>3, <1>4, <1>5, <1>6, <1>7, <1>8, <1>9, <1>11, <1>12 DEF Reads, Read

\* The reader stores nothing in the segment,
LEMMA ReadFrame == Reads => UNCHANGED <<segment, daemon>>
  BY DEF Reads, Read, LoadStart, LoadEnd, SkipInProgress, Resolve, Scan, ScanEnds,
         DecodeSymlink, DecodeValue, Accept, Reject, Return, Call

LEMMA ReadDaemon == IInv /\ Reads => DaemonInv'
  BY ReadFrame DEF IInv, DaemonInv, Holds, segment, daemon

\* and knows of each word it loads what it may be compared with.
LEMMA ReadQuiet == IInv /\ Reads => QuietInv' /\ VectorInv'
<1> SUFFICES ASSUME IInv, Reads PROVE QuietInv' /\ VectorInv'
  OBVIOUS
<1> USE DEF IInv, TypeInv, TypeOK, Pcs, QuietInv, VectorInv, Untouched, Trusted, segment, daemon,
        header, Copied, CopiedAgain, HeaderWords, Retry, Decided
<1>1. ASSUME NEW l \in Loads, LoadStart(l) PROVE QuietInv' /\ VectorInv'
  <2>1. pc = "header" /\ UNCHANGED <<segment, daemon, quiet>> /\ pc' \in {"header", "resolve"}
        /\ due' = due \ l /\ (pc' = "resolve" <=> due' = {})
    BY <1>1 DEF LoadStart
  <2>2. \A w \in HeaderWords : Copied(w)' <=> Copied(w) \/ w \in l
    BY <1>1, <2>1 DEF LoadStart, MayLoad
  <2>3. /\ seen'.epoch = (IF "epoch" \in l THEN epoch ELSE seen.epoch)
        /\ seen'.in_progress = (IF "in_progress" \in l THEN in_progress ELSE seen.in_progress)
        /\ seen'.vector = (IF "vector" \in l THEN directory_vector ELSE seen.vector)
    BY <1>1 DEF LoadStart
  <2>4. QuietInv'
    BY <2>1, <2>2, <2>3
  <2>5. ASSUME EpochFirst, Copied("vector")' PROVE Copied("epoch")' /\ (Untouched' => seen'.vector = directory_vector')
    <3>1. CASE "vector" \in l
      <4>1. "epoch" \notin due \ l
        BY <1>1, <2>5, <3>1 DEF LoadStart, MayLoad, EpochFirst
      <4> QED
        BY <2>1, <2>3, <3>1, <4>1
    <3>2. CASE "vector" \notin l
      <4>1. Copied("vector") /\ Copied("epoch") /\ "epoch" \notin due
        BY <2>1, <2>2, <2>5, <3>2
      <4>2. "epoch" \notin l
        BY <1>1, <4>1 DEF LoadStart, MayLoad
      <4> QED
        BY <2>1, <2>2, <2>3, <2>5, <3>2, <4>1, <4>2
    <3> QED
      BY <3>1, <3>2
  <2> QED
    BY <2>4, <2>5
<1>2. ASSUME NEW l \in Loads, LoadEnd(l) PROVE QuietInv' /\ VectorInv'
  <2>1. pc = "end" /\ UNCHANGED <<segment, daemon, seen, quiet>> /\ pc' \in {"end", "compare"}
        /\ due' = due \ l /\ (pc' = "compare" <=> due' = {})
    BY <1>2 DEF LoadEnd
  <2>2. \A w \in HeaderWords : CopiedAgain(w)' <=> CopiedAgain(w) \/ w \in l
    BY <1>2, <2>1 DEF LoadEnd, MayLoad
  <2>3. /\ again'.epoch = (IF "epoch" \in l THEN epoch ELSE again.epoch)
        /\ again'.in_progress = (IF "in_progress" \in l THEN in_progress ELSE again.in_progress)
    BY <1>2 DEF LoadEnd
  <2> QED
    BY <2>1, <2>2, <2>3
<1>3. CASE SkipInProgress
  BY <1>3 DEF SkipInProgress
<1>4. CASE Resolve
  BY <1>4 DEF Resolve
<1>5. CASE Scan
  BY <1>5 DEF Scan
<1>6. CASE ScanEnds
  BY <1>6 DEF ScanEnds
<1>7. CASE DecodeSymlink
  BY <1>7 DEF DecodeSymlink
<1>8. CASE DecodeValue
  BY <1>8 DEF DecodeValue
<1>9. CASE Accept
  BY <1>9 DEF Accept
<1>10. CASE Reject
  BY <1>10 DEF Reject
<1>11. CASE Return
  BY <1>11 DEF Return
<1>12. ASSUME NEW q \in Queries, Call(q) PROVE QuietInv' /\ VectorInv'
  BY <1>12 DEF Call
<1> QED
  BY <1>1, <1>2, <1>3, <1>4, <1>5, <1>6, <1>7, <1>8, <1>9, <1>10, <1>11, <1>12 DEF Reads, Read

\* find_entry: the first entry of that name is the one that is decoded.
LEMMA AnswerFound ==
    ASSUME NEW dir \in Directories, NEW q, q # Listing, NEW j \in 0 .. Len(dir) - 1,
           dir[j + 1].name = q, \A i \in 1 .. j : dir[i].name # q
    PROVE  Answer(dir, q) = decode_entry(dir)[SymlinkLimit][j]
<1> DEFINE found == {i \in DOMAIN dir : dir[i].name = q}
<1>1. DOMAIN dir = 1 .. Len(dir) /\ Len(dir) \in Nat
  BY DirectoryFacts
<1>2. j + 1 \in found /\ \A i \in found : j + 1 <= i
  BY <1>1
<1>3. \A i \in found : (\A k \in found : i <= k) => i = j + 1
  BY <1>1, <1>2
<1>4. (CHOOSE i \in found : \A k \in found : i <= k) = j + 1
  BY <1>2, <1>3
<1> QED
  BY <1>2, <1>4 DEF Answer, Decoded

\* What has been decoded of a directory that may be trusted is the answer.
LEMMA TrustedAnswer ==
    ReadInv /\ Trusted /\ pc \in {"end", "compare"} => out = Answer(published[epoch], query)
  BY SMT DEF ReadInv

\* What the reader has decoded of a directory that it may trust.
LEMMA ReadDecoded == IInv /\ Reads => ReadInv'
<1> SUFFICES ASSUME IInv, Reads, Trusted' PROVE ReadInv'
  BY DEF ReadInv
<1> DEFINE dir == published[epoch]
<1>a. UNCHANGED <<segment, daemon>> /\ UNCHANGED published /\ UNCHANGED epoch
  BY ReadFrame DEF segment, daemon
<1>b. dir \in Directories
  BY DEF IInv, TypeInv, TypeOK
<1>c. /\ dir \in Seq(Entries) /\ Len(dir) \in Nat /\ DOMAIN dir = 1 .. Len(dir)
      /\ \A i \in 0 .. Len(dir) - 1 : dir[i + 1] \in Entries
  BY <1>b, DirectoryFacts
<1>d. Holds(dir, directory_vector)
  BY <1>a DEF IInv, TypeInv, TypeOK, DaemonInv, Trusted, Untouched, segment, daemon
<1>e. index \in Nat /\ count \in Nat /\ depth \in 0 .. SymlinkLimit /\ columns \in Seq(Nat)
      /\ SymlinkLimit \in Nat /\ Len(columns) = depth
  BY LimitsAssumption DEF IInv, TypeInv, TypeOK
<1> HIDE DEF dir
<1> USE DEF ReadInv
<1>1. CASE (\E l \in Loads : LoadStart(l)) \/ Return \/ \E q \in Queries : Call(q)
  <2>1. pc' \in {"header", "resolve", "idle"}
    BY <1>1 DEF LoadStart, Return, Call
  <2> QED
    BY <2>1
<1>2. CASE Resolve
  BY <1>2, <1>a, <1>c, <1>d DEF Resolve, Trusted, Holds, segment, header, dir
<1>3. CASE SkipInProgress \/ Reject
  <2>1. ~quiet /\ ~quiet' /\ pc' \in {"header", "done"}
    BY <1>3 DEF SkipInProgress, Reject, Retry, IInv, QuietInv, Copied, CopiedAgain
  <2> QED
    BY <2>1
<1>4. CASE Accept \/ \E l \in Loads : LoadEnd(l)
  <2>1. Trusted /\ pc \in {"end", "compare"} /\ pc' \in {"end", "compare", "done"}
        /\ UNCHANGED <<out, query>>
    BY <1>4, <1>a DEF Accept, LoadEnd, Trusted, Untouched, segment, daemon, header
  <2>2. out = Answer(dir, query)
    BY <2>1, TrustedAnswer, Zenon DEF IInv, dir
  <2> QED
    BY <1>a, <2>1, <2>2 DEF dir
<1>5. CASE Scan
  <2>1. Trusted /\ UNCHANGED <<query, count, depth, columns>> /\ pc = "scan"
    BY <1>5, <1>a DEF Scan, Trusted, Untouched, segment, daemon, header
  <2>2. /\ count = Len(dir) /\ index < count /\ depth = 0 /\ columns = <<>>
        /\ query = Listing => out = Value("Names", [i \in 1 .. index |-> dir[i].name])
        /\ query # Listing => \A i \in 1 .. index : dir[i].name # query
    BY <1>5, <2>1 DEF Scan, IInv, dir
  <2>3. EntryAt(index) = dir[index + 1]
    BY <1>d, <1>e, <2>1, <2>2 DEF EntryAt, Trusted, Holds
  <2>4. CASE query = Listing
    <3>1. out' = [out EXCEPT !.rows = Append(@, dir[index + 1].name)] /\ index' = index + 1
          /\ pc' = "scan"
      BY <1>5, <2>1, <2>3, <2>4 DEF Scan
    <3>2. Append([i \in 1 .. index |-> dir[i].name], dir[index + 1].name)
            = [i \in 1 .. index + 1 |-> dir[i].name]
      BY <1>e
    <3> DEFINE before == [i \in 1 .. index |-> dir[i].name]
    <3>3. out = [tag |-> "Names", rows |-> before]
      BY <2>2, <2>4 DEF Value
    <3> HIDE DEF before
    <3>4. out' = [tag |-> "Names", rows |-> Append(before, dir[index + 1].name)]
      BY <3>1, <3>3
    <3>5. out' = Value("Names", [i \in 1 .. index + 1 |-> dir[i].name])
      BY <3>2, <3>4 DEF Value, before
    <3>6. index' <= count'
      BY <1>e, <2>1, <2>2, <3>1
    <3> QED
      BY <1>a, <2>1, <2>2, <2>4, <3>1, <3>5, <3>6 DEF dir
  <2>5. CASE query # Listing /\ dir[index + 1].name = query
    <3>1. pc' = "decode" /\ UNCHANGED index
      BY <1>5, <2>3, <2>5 DEF Scan
    <3>2. Answer(dir, query) = decode_entry(dir)[SymlinkLimit][index]
      BY <1>b, <1>e, <2>2, <2>5, AnswerFound
    <3>3. Crop(decode_entry(dir)[SymlinkLimit - depth][index], columns)
            = decode_entry(dir)[SymlinkLimit][index]
      BY <1>e, <2>2, CropNothing
    <3> QED
      BY <1>a, <2>1, <2>2, <3>1, <3>2, <3>3 DEF dir
  <2>6. CASE query # Listing /\ dir[index + 1].name # query
    <3>1. pc' = "scan" /\ index' = index + 1
      BY <1>5, <2>1, <2>3, <2>6 DEF Scan
    <3>2. \A i \in 1 .. index + 1 : dir[i].name # query
      BY <1>e, <2>2, <2>6
    <3> QED
      BY <1>a, <1>e, <2>1, <2>2, <2>6, <3>1, <3>2 DEF dir
  <2> QED
    BY <2>4, <2>5, <2>6
<1>6. CASE ScanEnds
  <2>1. Trusted /\ pc = "scan" /\ UNCHANGED query /\ pc' \in {"end", "done"}
    BY <1>6, <1>a DEF ScanEnds, Decided, Trusted, Untouched, segment, daemon, header
  <2>2. /\ index = Len(dir)
        /\ query = Listing => out = Value("Names", [i \in 1 .. index |-> dir[i].name])
        /\ query # Listing => \A i \in 1 .. index : dir[i].name # query
    BY <1>6, <1>c, <1>e, <2>1 DEF ScanEnds, IInv, dir
  <2>3. CASE query = Listing
    BY <1>6, <1>a, <1>c, <2>1, <2>2, <2>3 DEF ScanEnds, Decided, Answer, dir
  <2>4. CASE query # Listing
    <3>1. Answer(dir, query) = Error("MetricNotFound")
      BY <1>c, <2>2, <2>4 DEF Answer
    <3> QED
      BY <1>6, <1>a, <2>1, <2>4, <3>1 DEF ScanEnds, Decided, dir
  <2> QED
    BY <2>3, <2>4
<1>7. CASE DecodeSymlink
  <2>1. Trusted /\ pc = "decode" /\ pc' = "decode" /\ UNCHANGED <<query, count>>
    BY <1>7, <1>a DEF DecodeSymlink, Trusted, Untouched, segment, daemon, header
  <2>2. /\ count = Len(dir) /\ index < count
        /\ Crop(decode_entry(dir)[SymlinkLimit - depth][index], columns) = Answer(dir, query)
    BY <1>7, <2>1 DEF DecodeSymlink, IInv, dir
  <2>3. EntryAt(index) = dir[index + 1]
    BY <1>d, <1>e, <2>1, <2>2 DEF EntryAt, Trusted, Holds
  <2> DEFINE e == dir[index + 1]
             v == decode_entry(dir)[SymlinkLimit - depth - 1][e.target]
  <2>4. /\ e.type = "Symlink" /\ index' = e.target /\ columns' = Append(columns, e.column)
        /\ depth' = depth + 1 /\ depth < SymlinkLimit
    BY <1>7, <2>3 DEF DecodeSymlink
  <2>5. e.target \in Nat /\ e.column \in Nat
    BY <1>c, <1>e, <2>2, EntriesAssumption
  <2>6. decode_entry(dir)[SymlinkLimit - depth][index] = Column(v, e.column)
    <3>1. SymlinkLimit - depth \in 0 .. SymlinkLimit /\ SymlinkLimit - depth # 0
      BY <1>e, <2>4
    <3>2. decode_entry(dir)[SymlinkLimit - depth][index] =
            IF SymlinkLimit - depth = 0 THEN Error("SymlinkCycle")
            ELSE IF index >= Len(dir) THEN Error("ElementOutOfBounds")
            ELSE IF e.type = "Symlink" THEN Column(v, e.column) ELSE EntryValue(e)
      BY <1>e, <3>1, DecodeAt
    <3>3. ~(index >= Len(dir))
      BY <1>e, <2>2
    <3> QED
      BY <2>4, <3>1, <3>2, <3>3
  <2>7. Crop(v, Append(columns, e.column)) = Answer(dir, query)
    BY <1>e, <2>2, <2>5, <2>6, CropInnermostFirst
  <2>8. SymlinkLimit - depth' = SymlinkLimit - depth - 1
    BY <1>e, <2>4
  <2> QED
    BY <1>a, <2>1, <2>2, <2>4, <2>7, <2>8 DEF dir
<1>8. CASE DecodeValue
  <2>1. Trusted /\ pc = "decode" /\ UNCHANGED query /\ pc' \in {"end", "done"}
    BY <1>8, <1>a DEF DecodeValue, Decided, Trusted, Untouched, segment, daemon, header
  <2>2. /\ count = Len(dir)
        /\ Crop(decode_entry(dir)[SymlinkLimit - depth][index], columns) = Answer(dir, query)
    BY <2>1 DEF IInv, dir
  <2>3. out' = Answer(dir, query)
    <3>1. CASE depth >= SymlinkLimit
      <4>1. SymlinkLimit - depth = 0
        BY <1>e, <3>1
      <4>2. decode_entry(dir)[0][index] = Error("SymlinkCycle")
        <5>1. 0 \in 0 .. SymlinkLimit
          BY <1>e
        <5> QED
          BY <1>e, <5>1, DecodeAt
      <4>3. Crop(Error("SymlinkCycle"), columns) = Error("SymlinkCycle")
        BY <1>e, CropError DEF Error
      <4> QED
        BY <1>8, <1>e, <2>2, <3>1, <4>1, <4>2, <4>3 DEF DecodeValue, Decided
    <3>2. CASE depth < SymlinkLimit /\ index >= count
      <4>1. SymlinkLimit - depth \in 0 .. SymlinkLimit /\ SymlinkLimit - depth # 0
        BY <1>e, <3>2
      <4>2. decode_entry(dir)[SymlinkLimit - depth][index] = Error("ElementOutOfBounds")
        BY <1>e, <2>2, <3>2, <4>1, DecodeAt
      <4>3. Crop(Error("ElementOutOfBounds"), columns) = Error("ElementOutOfBounds")
        BY <1>e, CropError DEF Error
      <4> QED
        BY <1>8, <1>e, <2>2, <3>2, <4>2, <4>3 DEF DecodeValue, Decided
    <3>3. CASE depth < SymlinkLimit /\ index < count
      <4>1. SymlinkLimit - depth \in 0 .. SymlinkLimit /\ SymlinkLimit - depth # 0
        BY <1>e, <3>3
      <4>2. EntryAt(index) = dir[index + 1]
        BY <1>d, <1>e, <2>1, <2>2, <3>3 DEF EntryAt, Trusted, Holds
      <4>3. dir[index + 1].type # "Symlink"
            /\ out' = Crop(EntryValue(dir[index + 1]), columns)
        BY <1>8, <1>e, <3>3, <4>2 DEF DecodeValue, Decided
      <4>4. decode_entry(dir)[SymlinkLimit - depth][index] = EntryValue(dir[index + 1])
        BY <1>e, <2>2, <3>3, <4>1, <4>3, DecodeAt
      <4> QED
        BY <2>2, <4>3, <4>4
    <3> QED
      BY <1>e, <3>1, <3>2, <3>3
  <2> QED
    BY <1>a, <2>1, <2>3 DEF dir
<1> QED
  BY <1>1, <1>2, <1>3, <1>4, <1>5, <1>6, <1>7, <1>8 DEF Reads, Read

\* What the second copy tells.
LEMMA ReadFlag == IInv /\ Reads => FlagInv'
<1> SUFFICES ASSUME IInv, Reads, FlagFirst PROVE FlagInv'
  BY DEF FlagInv
<1>a. UNCHANGED <<epoch, in_progress, published, stage, directory_vector>>
  BY ReadFrame DEF segment, daemon
<1>b. seen.epoch \in 0 .. epoch /\ epoch \in Nat /\ epoch >= 1 /\ (in_progress <=> stage # "idle")
  BY DEF IInv, TypeInv, TypeOK, DaemonInv
<1>1. ASSUME NEW l \in Loads, LoadEnd(l) PROVE FlagInv'
  <2>1. pc = "end" /\ UNCHANGED <<seen, out, query>> /\ pc' \in {"end", "compare"}
        /\ due' = due \ l /\ (pc' = "compare" <=> due' = {}) /\ due \subseteq HeaderWords
    BY <1>1 DEF LoadEnd, cursor, IInv, TypeInv, TypeOK
  <2>2. \A w \in HeaderWords : CopiedAgain(w)' <=> CopiedAgain(w) \/ w \in l
    BY <1>1, <2>1 DEF LoadEnd, MayLoad, CopiedAgain
  <2>3. /\ again'.epoch = (IF "epoch" \in l THEN epoch ELSE again.epoch)
        /\ again'.in_progress = (IF "in_progress" \in l THEN in_progress ELSE again.in_progress)
    BY <1>1 DEF LoadEnd
  <2>4. CopiedAgain("epoch")' => CopiedAgain("in_progress")'
    <3>1. CASE "epoch" \in l
      <4>1. "in_progress" \notin due \ l
        BY <1>1, <3>1 DEF LoadEnd, MayLoad, FlagFirst
      <4> QED
        BY <2>1, <4>1 DEF CopiedAgain
    <3>2. CASE "epoch" \notin l
      BY <2>2, <3>2 DEF IInv, FlagInv, HeaderWords
    <3> QED
      BY <3>1, <3>2
  <2>5. ASSUME EpochFirst, CopiedAgain("in_progress")', ~again'.in_progress
        PROVE  \/ Answered'
               \/ seen'.epoch < epoch' /\ (CopiedAgain("epoch")' => again'.epoch > seen'.epoch)
    <3>1. Answered => Answered'
      BY <1>a, <2>1 DEF Answered
    <3>2. CASE "in_progress" \in l
      <4>1. ~in_progress /\ stage = "idle"
        BY <1>b, <2>3, <2>5, <3>2
      <4>2. CASE seen.epoch = epoch
        <5>1. Trusted
          BY <2>1, <4>1, <4>2, <2>5 DEF IInv, VectorInv, Copied, Trusted, Untouched
        <5>2. out = Answer(published[epoch], query)
          BY <2>1, <5>1, TrustedAnswer DEF IInv
        <5>3. Answered
          BY <1>b, <4>2, <5>2 DEF Answered
        <5> QED
          BY <3>1, <5>3
      <4>3. CASE seen.epoch < epoch
        <5>1. CopiedAgain("epoch")' => "epoch" \in l
          <6>1. "in_progress" \in due
            BY <1>1, <3>2 DEF LoadEnd, MayLoad
          <6>2. ~CopiedAgain("in_progress")
            BY <2>1, <6>1 DEF CopiedAgain
          <6>3. ~CopiedAgain("epoch")
            BY <6>2 DEF IInv, FlagInv
          <6> QED
            BY <2>2, <6>3 DEF HeaderWords
        <5> QED
          BY <1>a, <2>1, <2>3, <4>3, <5>1
      <4> QED
        BY <1>b, <4>2, <4>3
    <3>3. CASE "in_progress" \notin l
      <4>1. CopiedAgain("in_progress") /\ ~again.in_progress
        BY <2>2, <2>3, <2>5, <3>3 DEF HeaderWords
      <4>2. \/ Answered
            \/ seen.epoch < epoch /\ (CopiedAgain("epoch") => again.epoch > seen.epoch)
        BY <2>5, <4>1 DEF IInv, FlagInv
      <4>3. CASE seen.epoch < epoch /\ (CopiedAgain("epoch") => again.epoch > seen.epoch)
        BY <1>a, <1>b, <2>1, <2>2, <2>3, <4>3 DEF HeaderWords
      <4> QED
        BY <3>1, <4>2, <4>3
    <3> QED
      BY <3>2, <3>3
  <2> QED
    BY <2>4, <2>5 DEF FlagInv
<1>2. CASE ~\E l \in Loads : LoadEnd(l)
  <2>1. pc' # "compare" /\ (pc' = "end" => due' = HeaderWords)
    BY <1>2 DEF Reads, Read, LoadStart, SkipInProgress, Resolve, Scan, ScanEnds, DecodeSymlink,
       DecodeValue, Accept, Reject, Return, Call, Retry, Decided
  <2> QED
    BY <2>1 DEF FlagInv, CopiedAgain, HeaderWords
<1> QED
  BY <1>1, <1>2

\* What becomes of a call: only a value that stood the second copy is one.
LEMMA ReadDone == IInv /\ Reads => DoneInv'
<1> SUFFICES ASSUME IInv, Reads PROVE DoneInv'
  OBVIOUS
<1> USE DEF DoneInv
<1>1. CASE (\E l \in Loads : LoadStart(l)) \/ Resolve \/ Scan \/ DecodeSymlink \/ Return
           \/ \E q \in Queries : Call(q)
  <2>1. pc' \notin {"end", "compare", "done"}
    BY <1>1 DEF LoadStart, Resolve, Scan, DecodeSymlink, Return, Call
  <2> QED
    BY <2>1
<1>2. CASE SkipInProgress \/ Reject
  BY <1>2 DEF SkipInProgress, Reject, Retry, IsError, Error, ErrorTags
<1>3. CASE ScanEnds \/ DecodeValue
  BY <1>3 DEF ScanEnds, DecodeValue, Decided, IsError
<1>4. ASSUME NEW l \in Loads, LoadEnd(l) PROVE DoneInv'
  BY <1>4 DEF LoadEnd, IInv, IsError
<1>5. CASE Accept
  <2>1. pc = "compare" /\ UNCHANGED <<out, query, seen, published>> /\ ~again.in_progress
        /\ again.epoch = seen.epoch /\ pc' = "done"
    BY <1>5 DEF Accept, segment, daemon, header
  <2>2. ~(again.epoch > seen.epoch)
    BY <2>1 DEF IInv, TypeInv, TypeOK
  <2>3. EpochFirst /\ FlagFirst => Answered
    BY <2>1, <2>2 DEF IInv, FlagInv, CopiedAgain
  <2> QED
    BY <2>1, <2>3 DEF Answered
<1> QED
  BY <1>1, <1>2, <1>3, <1>4, <1>5 DEF Reads, Read

\* Every step of the reader keeps the invariant.
LEMMA ReadStep == IInv /\ Reads => IInv'
  BY ReadTypes, ReadDaemon, ReadQuiet, ReadDecoded, ReadFlag, ReadDone DEF IInv

-----------------------------------------------------------------------------
(* Theorems *)

\* Every state has it.
LEMMA Invariance == Spec => []IInv
<1>1. Init => IInv
  <2> SUFFICES ASSUME Init PROVE IInv
    OBVIOUS
  <2> USE LimitsAssumption DEF Init
  <2>1. First \in Seq(Entries) /\ Len(First) \in 1 .. Capacity
    BY DirectoriesAssumption
  <2>2. \A i \in Indexes : First[IF i < Len(First) THEN i + 1 ELSE 1] \in Entries
    BY <2>1 DEF Indexes
  <2>3. TypeInv
    <3>1. published \in Seq(Directories) /\ Len(published) = 1 /\ published[1] = First
      BY DirectoriesAssumption
    <3>2. length \in [Buffers -> 0 .. Capacity] /\ cells \in [Buffers -> [Indexes -> Entries]]
      BY <2>1, <2>2
    <3>3. seen \in [epoch : Nat, in_progress : BOOLEAN, vector : Buffers]
      OBVIOUS
    <3>4. columns \in Seq(Nat) /\ Len(columns) = depth
      OBVIOUS
    <3>9. /\ again \in [epoch : Nat, in_progress : BOOLEAN]
          /\ again.epoch \in 0 .. epoch /\ again.in_progress \in BOOLEAN
          /\ due \subseteq HeaderWords /\ (due # {} <=> pc \in {"header", "end"})
      OBVIOUS
    <3>5. /\ epoch \in 1 .. MaxPublications + 1 /\ attempts \in 0 .. RetryLimit
          /\ seen.epoch \in 0 .. epoch /\ seen.vector \in Buffers /\ seen.in_progress = FALSE
          /\ count \in 0 .. Capacity /\ index \in Nat /\ depth \in 0 .. SymlinkLimit
          /\ calls \in 0 .. MaxCalls
      OBVIOUS
    <3>6. next.dir \in Directories /\ next.at \in Buffers
      BY DirectoriesAssumption
    <3>7. in_progress \in BOOLEAN /\ quiet \in BOOLEAN /\ seen.in_progress \in BOOLEAN
      BY <3>5
    <3>8. TypeOK
      BY <3>1, <3>2, <3>4, <3>5, <3>6, <3>7, <3>9 DEF TypeOK, Pcs, Queries
    <3> QED
      BY <3>2, <3>3, <3>4, <3>8, <3>9 DEF TypeInv
  <2>4. DaemonInv
    BY <2>1 DEF DaemonInv, Holds, Indexes
  <2>5. QuietInv /\ VectorInv /\ ReadInv /\ FlagInv /\ DoneInv
    BY DEF QuietInv, VectorInv, ReadInv, FlagInv, DoneInv, Copied, CopiedAgain
  <2> QED
    BY <2>3, <2>4, <2>5 DEF IInv
<1>2. IInv /\ [Next]_vars => IInv'
  <2> SUFFICES ASSUME IInv, [Next]_vars PROVE IInv'
    OBVIOUS
  <2>1. CASE Publish
    BY <2>1, PublishStep
  <2>2. CASE Reads
    BY <2>2, ReadStep
  <2>3. CASE UNCHANGED vars
    <3> USE <2>3 DEF vars, segment, daemon, reader, header, cursor
    <3>1. TypeInv'
      BY DEF IInv, TypeInv, TypeOK
    <3>2. DaemonInv'
      BY DEF IInv, DaemonInv, Holds
    <3>3. QuietInv' /\ VectorInv'
      BY DEF IInv, QuietInv, VectorInv, Untouched, Copied, CopiedAgain
    <3>4. ReadInv' /\ FlagInv' /\ DoneInv'
      BY DEF IInv, ReadInv, FlagInv, DoneInv, Answered, Untouched, Trusted, CopiedAgain
    <3> QED
      BY <3>1, <3>2, <3>3, <3>4 DEF IInv
  <2> QED
    BY <2>1, <2>2, <2>3 DEF Next, Reads
<1> QED
  BY <1>1, <1>2, PTL DEF Spec

\* client.rs: the words of the header, the cursor of a decode and the attempts stay
\* in their bounds.
THEOREM TypeCorrect == Spec => []TypeOK
<1>1. IInv => TypeOK
  BY DEF IInv, TypeInv
<1> QED
  BY Invariance, <1>1, PTL

\* client.rs, with_published_directory and read_header: if the copies of the header
\* load its epoch no later than its directory_vector, and its flag no later than
\* its epoch, a value that is returned is the answer of the directory of one
\* epoch, whatever the daemon stores meanwhile and between any two loads.
THEOREM PublishedValues ==
    /\ <<"epoch", "vector">> \in NotAfter
    /\ <<"in_progress", "epoch">> \in NotAfter
    => (Spec => []ValuesArePublished)
<1> SUFFICES ASSUME EpochFirst, FlagFirst PROVE Spec => []ValuesArePublished
  BY DEF EpochFirst, FlagFirst
<1>1. IInv => ValuesArePublished
  BY DEF IInv, DoneInv, Answered, ValuesArePublished
<1> QED
  BY Invariance, <1>1, PTL

\* client.rs, names and read: a call no publication touches answers, value or
\* error, from the published directory, whatever the loads of the header and their order.
THEOREM QuietAnswers == Spec => []QuietReadsAnswer
<1>1. IInv => QuietReadsAnswer
  <2> SUFFICES ASSUME IInv, pc = "done", quiet PROVE out = Answer(published[epoch], query)
    BY DEF QuietReadsAnswer
  <2>1. Trusted
    BY DEF IInv, DaemonInv, QuietInv, Copied, Trusted, Untouched
  <2> QED
    BY <2>1 DEF IInv, ReadInv
<1> QED
  BY Invariance, <1>1, PTL
=============================================================================
