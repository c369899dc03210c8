------------------------- MODULE StatsSessionProofs -------------------------
(***************************************************************************)
(* Proofs about StatsSession, for any directories, requests and segments and   *)
(* any number of connects, publications and troubles: a connect leaves nothing *)
(* behind, and a report, made of reads of different directories, still fits    *)
(* together.                                                                  *)
(***************************************************************************)
EXTENDS StatsSession, FiniteSetTheorems, SequenceTheorems, Induction, TLAPS

LOCAL INSTANCE SequencesExt

-----------------------------------------------------------------------------
(* The handoff: StatsHandoff for any segments, any size of the control buffer *)
(* and any number of connects, descriptors in a message and troubles.        *)

\* What connect holds at each stage.  The socket and the segment's descriptor are
\* open from the call that makes them to the end of their scope, and nothing else
\* is while no message had a second descriptor.
OpenInv ==
    /\ stage \in {"idle", "connected"} => Socket \notin open /\ 1 \notin open
    /\ stage \in {"socket", "connect", "receive"} => 1 \notin open
    /\ stage \in {"fstat", "mmap", "header"} => Socket \notin open
    /\ ~surplus => open \subseteq {Socket, 1}

\* The message was received before fstat, and no other follows it, so that what
\* fstat measured is what mmap maps.
SizeInv ==
    /\ stage \in {"fstat", "mmap", "header", "connected"} => peer = "none"
    /\ stage = "mmap" => handed.size > 0

HandoffIInv == HandoffTypeOK /\ OpenInv /\ SizeInv

\* receive_segment_fd: descriptors above the first are a surplus.
LEMMA SurplusCounted ==
    ASSUME NEW n \in Nat, NEW m \in Nat,
           Cardinality({f \in 1 .. n : f <= m}) <= 1
    PROVE  {f \in 1 .. n : f <= m} \subseteq {1}
<1> DEFINE got == {f \in 1 .. n : f <= m}
<1>1. IsFiniteSet(got)
  <2>1. IsFiniteSet(1 .. n)
    BY FS_Interval
  <2> QED
    BY <2>1, FS_Subset, got \in SUBSET (1 .. n)
<1>2. ASSUME NEW f \in got, f # 1 PROVE FALSE
  <2>1. {1, 2} \subseteq got
    BY <1>2
  <2>2. Cardinality({1, 2}) = 2
    <3>1. IsFiniteSet({2}) /\ Cardinality({2}) = 1
      BY FS_Singleton
    <3>2. Cardinality({2} \cup {1}) = Cardinality({2}) + 1
      <4>1. 1 \notin {2}
        OBVIOUS
      <4> QED
        BY <3>1, <4>1, FS_AddElement
    <3> QED
      BY <3>1, <3>2, {1, 2} = {2} \cup {1}
  <2>3. Cardinality({1, 2}) <= Cardinality(got)
    BY <1>1, <2>1, FS_Subset
  <2>4. Cardinality(got) \in Nat
    BY <1>1, FS_CardinalityType
  <2> QED
    BY <2>2, <2>3, <2>4
<1> QED
  BY <1>2

\* A connect that fails drops what it holds.
LEMMA FailHolds ==
    ASSUME HandoffIInv, NEW e \in Failures, Fail(e),
           peer' \in {peer, "none"}, sent' \in {sent, 0}, UNCHANGED <<listening, handed, surplus>>
    PROVE  HandoffIInv'
<1>1. HandoffTypeOK'
  <2>1. 0 \in 0 .. MaxSent
    BY HandoffBounds
  <2>2. sent' \in 0 .. MaxSent
    BY <2>1 DEF HandoffIInv, HandoffTypeOK
  <2>3. open' \subseteq 0 .. MaxSent
    BY DEF HandoffIInv, HandoffTypeOK, Fail
  <2> QED
    BY <2>2, <2>3 DEF HandoffIInv, HandoffTypeOK, Fail, Stages
<1>2. OpenInv' /\ SizeInv'
  BY DEF HandoffIInv, OpenInv, SizeInv, Fail, Socket
<1> QED
  BY <1>1, <1>2 DEF HandoffIInv

\* Every step of connect and of the listener keeps the invariant.
LEMMA HandoffStepHolds == HandoffIInv /\ [HandoffNext]_handoffVars => HandoffIInv'
<1> SUFFICES ASSUME HandoffIInv, [HandoffNext]_handoffVars PROVE HandoffIInv'
  OBVIOUS
<1> USE SegmentsAssumption, HandoffBounds
    DEF HandoffIInv, HandoffTypeOK, OpenInv, SizeInv, Stages, Failures, Fail, Socket,
        Trouble, NoTrouble, boundVars, listenerVars
<1>1. CASE OpenSocket
  <2>1. CASE Fail("Connect")
    BY <1>1, <2>1, FailHolds DEF OpenSocket
  <2>2. CASE stage' = "socket"
    <3>1. 0 \in 0 .. MaxSent
      OBVIOUS
    <3>2. sent' \in 0 .. MaxSent
      BY <1>1, <3>1 DEF OpenSocket
    <3>3. open' \subseteq 0 .. MaxSent
      BY <1>1, <2>2, <3>1 DEF OpenSocket
    <3> QED
      BY <1>1, <2>2, <3>2, <3>3 DEF OpenSocket
  <2> QED
    BY <1>1, <2>1, <2>2 DEF OpenSocket
<1>2. CASE Address
  <2>1. CASE Fail("SocketPathTooLong")
    BY <1>2, <2>1, FailHolds DEF Address
  <2>2. CASE stage' = "connect"
    BY <1>2, <2>2, ZenonT(40) DEF Address
  <2> QED
    BY <1>2, <2>1, <2>2 DEF Address
<1>3. CASE ConnectSocket
  <2>1. CASE Fail("Connect")
    BY <1>3, <2>1, FailHolds DEF ConnectSocket
  <2>2. CASE stage' = "receive"
    BY <1>3, <2>2 DEF ConnectSocket
  <2> QED
    BY <1>3, <2>1, <2>2 DEF ConnectSocket
<1>4. CASE Interrupted
  BY <1>4 DEF Interrupted
<1>5. CASE TimedOut
  BY <1>5 DEF TimedOut
<1>6. CASE ReceiveFails
  BY <1>6 DEF ReceiveFails
<1>7. CASE Receive
  <2> DEFINE got == IF peer = "sent" THEN {f \in 1 .. sent : f <= ControlFds} ELSE {}
  <2>1. got \subseteq 0 .. MaxSent /\ Socket \notin got
    OBVIOUS
  <2>2. ~surplus' => ~surplus /\ got \subseteq {1}
    <3>1. CASE peer = "sent"
      <4>1. Cardinality(got) \in Nat
        <5>1. IsFiniteSet(1 .. sent)
          BY FS_Interval
        <5>2. got \in SUBSET (1 .. sent)
          OBVIOUS
        <5>3. IsFiniteSet(got)
          BY <5>1, <5>2, FS_Subset
        <5> QED
          BY <5>3, FS_CardinalityType
      <4>2. surplus' <=> surplus \/ Cardinality(got) > 1
        BY <1>7 DEF Receive
      <4>3. Cardinality(got) <= 1 => got \subseteq {1}
        BY <3>1, SurplusCounted
      <4> HIDE DEF got
      <4> QED
        BY <4>1, <4>2, <4>3
    <3>2. CASE peer # "sent"
      BY <1>7, <3>2 DEF Receive
    <3> QED
      BY <3>1, <3>2
  <2>3. surplus' \in BOOLEAN /\ UNCHANGED mapped /\ stage = "receive" /\ sent' = 0
        /\ peer' = "none" /\ UNCHANGED <<listening, handed>>
    BY <1>7 DEF Receive
  <2>4. \/ stage' = "fstat" /\ open' = (open \ {Socket}) \cup got /\ UNCHANGED failure
        \/ stage' = "idle" /\ failure' = "AncillaryData"
           /\ open' = (open \ {Socket}) \cup (got \ {1})
    BY <1>7 DEF Receive
  <2> HIDE DEF got
  <2>5. HandoffTypeOK'
    <3>1. sent' \in 0 .. MaxSent
      BY <2>3
    <3>2. open' \subseteq 0 .. MaxSent
      BY <2>1, <2>4
    <3> QED
      BY <2>3, <2>4, <3>1, <3>2
  <2>6. OpenInv'
    BY <2>1, <2>2, <2>3, <2>4
  <2> QED
    BY <2>3, <2>4, <2>5, <2>6
<1>8. CASE Fstat
  <2>1. CASE \E e \in {"Fstat", "InvalidSegmentSize"} : Fail(e)
    BY <1>8, <2>1, FailHolds DEF Fstat
  <2>2. CASE stage' = "mmap"
    BY <1>8, <2>2 DEF Fstat
  <2> QED
    BY <1>8, <2>1, <2>2 DEF Fstat
<1>9. CASE Mmap
  <2>1. CASE Fail("Mapping")
    BY <1>9, <2>1, FailHolds DEF Mmap
  <2>2. CASE stage' = "header"
    <3>1. handed # NoSegment
      BY <1>9 DEF Mmap, NoSegment
    <3> QED
      BY <1>9, <2>2, <3>1 DEF Mmap
  <2> QED
    BY <1>9, <2>1, <2>2 DEF Mmap
<1>10. CASE CheckHeader
  <2>1. CASE \E e \in {"InvalidMapping", "VersionMismatch"} : Fail(e)
    BY <1>10, <2>1, FailHolds DEF CheckHeader
  <2>2. CASE stage' = "connected"
    BY <1>10, <2>2 DEF CheckHeader
  <2> QED
    BY <1>10, <2>1, <2>2 DEF CheckHeader
<1>11. CASE DropClient
  BY <1>11 DEF DropClient
<1>12. CASE Accept
  BY <1>12 DEF Accept
<1>13. CASE Hand
  BY <1>13 DEF Hand
<1>14. CASE Close
  BY <1>14 DEF Close
<1>15. CASE Fill
  BY <1>15 DEF Fill
<1>16. CASE Drain
  BY <1>16 DEF Drain
<1>17. CASE Exit
  BY <1>17 DEF Exit
<1>18. CASE Start
  BY <1>18 DEF Start
<1>19. CASE UNCHANGED handoffVars
  BY <1>19 DEF handoffVars
<1> QED
  BY <1>1, <1>2, <1>3, <1>4, <1>5, <1>6, <1>7, <1>8, <1>9, <1>10, <1>11, <1>12, <1>13,
     <1>14, <1>15, <1>16, <1>17, <1>18, <1>19 DEF HandoffNext

\* Every state of a connect has the invariant.
LEMMA HandoffInvariance == HandoffSpec => []HandoffIInv
<1>1. HandoffInit => HandoffIInv
  BY SegmentsAssumption, HandoffBounds
     DEF HandoffInit, HandoffIInv, HandoffTypeOK, OpenInv, SizeInv, Stages, Failures,
         Socket, NoSegment
<1> QED
  BY <1>1, HandoffStepHolds, PTL DEF HandoffSpec

\* client.rs, connect: descriptors, mapping, failure and stage stay in their types.
THEOREM HandoffTypeCorrect == HandoffSpec => []HandoffTypeOK
<1>1. HandoffIInv => HandoffTypeOK
  BY DEF HandoffIInv
<1> QED
  BY HandoffInvariance, <1>1, PTL

\* client.rs, connect: whichever call fails, a connect that has returned holds no
\* socket and no descriptor of the segment, and only a connected client a mapping.
THEOREM NothingIsHeld == HandoffSpec => []NothingHeld
<1>1. HandoffIInv => NothingHeld
  BY DEF HandoffIInv, OpenInv, HandoffTypeOK, NothingHeld
<1> QED
  BY HandoffInvariance, <1>1, PTL

-----------------------------------------------------------------------------
(* The reports *)

\* What a report keeps of name n in directory d: of a counter its shape, each cell
\* as a directory of ds with that layout has it.
ReadOf(v, n, d, ds) ==
    IF d[n].tag = "Simple"
    THEN /\ v = Value("Simple", v.rows) /\ v.rows \in Seq(Seq(Nat))
         /\ DOMAIN v.rows = DOMAIN d[n].rows /\ Len(v.rows) = Len(d[n].rows)
         /\ \A r \in DOMAIN v.rows :
                /\ DOMAIN v.rows[r] = DOMAIN d[n].rows[r] /\ Len(v.rows[r]) = Len(d[n].rows[r])
                /\ \A c \in DOMAIN v.rows[r] : \E e \in ds :
                        SameLayout(d, e) /\ v.rows[r][c] = e[n].rows[r][c]
    ELSE v = Kept(n, d[n])

\* Every value was read, without a defect, from a directory of ds.
ReadFrom(vs, ds) ==
    \A n \in DOMAIN vs : \E d \in ds :
        n \in DOMAIN d /\ Defect(n, d[n]) = "none" /\ ReadOf(vs[n], n, d, ds)

\* The cells loaded of the next name, since the last publication: numbers that a
\* directory of this layout had there, and has still if nothing has changed.
LoadedInv ==
    /\ pc # "read" => loaded = NoCells
    /\ \A p \in DOMAIN loaded :
        /\ Head(plan) \in DOMAIN directory /\ loaded[p] \in Nat
        /\ quiet => loaded[p] = directory[Head(plan)].rows[p[1]][p[2]]
        /\ \E e \in seen : /\ SameLayout(directory, e)
                           /\ loaded[p] = e[Head(plan)].rows[p[1]][p[2]]

\* A row of counts and what the loops had run when each was loaded.
Counted(counts, m) ==
    /\ counts \in Seq(Nat) /\ DOMAIN counts = DOMAIN m
    /\ \A c \in DOMAIN m : counts[c] = m[c].total

\* The report has read the first k - 1 names of p and is about to read the next.
At(p, k) ==
    /\ plan = SubSeq(p, k, Len(p))
    /\ DOMAIN values = {p[i] : i \in 1 .. k - 1}

\* The client is not dropped under a report.
IdleInv == stage # "connected" => pc = "idle"

\* What was published during a report, and what of it lasted.
SeenInv ==
    /\ pc # "read" => values = NoValues
    /\ pc \in {"list", "read", "done"} =>
        /\ directory \in seen /\ seen \subseteq Directories
        /\ lasting \subseteq DOMAIN directory
        /\ quiet => seen = {directory}
    /\ pc = "list" => family # "sys"

\* A report on its way: where it is in its plan and what it holds.
ReadInv ==
    pc = "read" =>
        /\ plan \in Seq(Elements(plan))
        /\ ReadFrom(values, seen)
        /\ family = "node" => \E k \in 1 .. 6 :
            At(NodePlan, k) /\ (k = 6 => NodeShape(values) = "none")
        /\ family = "sys" => \E k \in 1 .. 6 :
            /\ At(SystemPlan, k)
            /\ k > 3 => SystemShape(values) = "none"
            /\ k > 2 => Counted(values[LOOPS].rows[1], mark)

\* The aliases that lasted are read or will be.
AliasInv ==
    pc = "read" /\ family = "err" =>
        \A n \in lasting : IsAlias(n) => n \in DOMAIN values \cup Elements(plan)

\* A report nothing overlaps reads the family's names.
QuietInv ==
    pc = "read" /\ quiet =>
        /\ ~Absent(family, DOMAIN directory)
        /\ DOMAIN values \cup Elements(plan) = Subject(family, directory)

\* A report that succeeded.
DoneInv ==
    pc = "done" /\ result.tag = "Ok" =>
        /\ ReadFrom(result.values, seen)
        /\ Agree(family, result.values)
        /\ family = "node" => DOMAIN result.values = Counters \cup {NAMES, WORKERS}
        /\ family = "sys" => /\ LOOPS \in DOMAIN result.values
                             /\ Counted(result.values[LOOPS].rows[1], mark)

\* One run of the counters goes on from a to b.
GrownTo(a, b) ==
    /\ DOMAIN a.total = DOMAIN b.total
    /\ \A i \in DOMAIN a.total : a.total[i] <= b.total[i]

Ran == [breaks : Nat, total : Seq(Nat)]
Mark == [breaks : Nat, total : Nat]
Sample == [counts : Seq(Nat), at : Nat, mark : Seq(Mark)]

\* No column of m was marked in a run that had not begun, or further on than the
\* run is now;
PastOf(m, run, on) ==
    \A c \in DOMAIN m :
        /\ m[c].breaks <= run.breaks
        /\ on /\ m[c].breaks = run.breaks =>
            c \in DOMAIN run.total /\ m[c].total <= run.total[c]
Past(m) == PastOf(m, looped, stage = "connected")

\* or than b is, in the columns both have.
Before(a, b) ==
    \A c \in DOMAIN a \cap DOMAIN b :
        a[c].breaks = b[c].breaks => a[c].total <= b[c].total

\* The loops whose counts are loaded are marked.
MarkedInv ==
    pc = "read" /\ Head(plan) = LOOPS =>
        \A c \in DOMAIN looped.total : <<1, c>> \in DOMAIN loaded =>
            c \in DOMAIN mark /\ mark[c].total = loaded[<<1, c>>]

\* The loops' history, the reports' place in it and the samples kept.
LoopInv ==
    /\ looped \in Ran /\ mark \in Seq(Mark) /\ samples \in Seq(Sample)
    /\ stage = "connected" => looped.total = Loops(directory)
    /\ Past(mark) /\ MarkedInv
    /\ \A i \in DOMAIN samples :
        /\ Counted(samples[i].counts, samples[i].mark) /\ samples[i].at <= sampled
        /\ Past(samples[i].mark) /\ Before(samples[i].mark, mark)
    /\ \A i, j \in DOMAIN samples : i <= j =>
        /\ samples[i].at <= samples[j].at
        /\ Before(samples[i].mark, samples[j].mark)

\* The rate asked for is that of two samples.
RateInv ==
    rate # Unasked =>
        /\ rate.self \in DOMAIN samples /\ rate.earlier \in DOMAIN samples
        /\ rate.answer = main_loop_rates_per_second(samples[rate.self], samples[rate.earlier])

SessionIInv ==
    /\ SessionTypeOK /\ HandoffIInv /\ IdleInv /\ SeenInv /\ LoadedInv /\ ReadInv /\ AliasInv
    /\ QuietInv /\ DoneInv /\ ErrorsComplete /\ QuietReportsAnswer /\ LoopInv /\ RateInv
-----------------------------------------------------------------------------
(* Plans *)

\* A sequence is one of its elements.
LEMMA OwnElements ==
    ASSUME NEW S, NEW s \in Seq(S)
    PROVE  s \in Seq(Elements(s)) /\ Elements(s) \subseteq S
<1>1. Len(s) \in Nat /\ s \in [1 .. Len(s) -> S]
  BY LenProperties
<1>2. s \in [1 .. Len(s) -> Elements(s)]
  BY <1>1 DEF Elements
<1>3. s \in Seq(Elements(s))
  BY <1>1, <1>2, SeqDef
<1> QED
  BY <1>1, <1>3 DEF Elements

\* A plan is its next name and the rest.
LEMMA NextName ==
    ASSUME NEW s, s \in Seq(Elements(s)), s # <<>>
    PROVE  /\ Head(s) \in Elements(s)
           /\ Tail(s) \in Seq(Elements(Tail(s)))
           /\ Elements(s) = {Head(s)} \cup Elements(Tail(s))
<1>1. Len(s) \in Nat \ {0} /\ DOMAIN s = 1 .. Len(s)
  OBVIOUS
<1>2. /\ Head(s) \in Elements(s) /\ Tail(s) \in Seq(Elements(s)) /\ Len(Tail(s)) = Len(s) - 1
      /\ \A i \in 1 .. Len(Tail(s)) : Tail(s)[i] = s[i + 1]
  BY HeadTailProperties
<1>3. Head(s) = s[1] /\ DOMAIN Tail(s) = 1 .. Len(s) - 1
  BY <1>1, <1>2
<1>4. Tail(s) \in Seq(Elements(Tail(s)))
  BY <1>2, OwnElements
<1>7. \A x \in Elements(s) : x = Head(s) \/ x \in Elements(Tail(s))
  <2> SUFFICES ASSUME NEW i \in 1 .. Len(s), s[i] # Head(s)
               PROVE  s[i] \in Elements(Tail(s))
    BY <1>1 DEF Elements
  <2>1. i - 1 \in 1 .. Len(s) - 1
    BY <1>1, <1>3
  <2>2. Tail(s)[i - 1] = s[i]
    BY <1>1, <1>2, <2>1
  <2> QED
    BY <1>3, <2>1, <2>2 DEF Elements
<1>8. \A x \in Elements(Tail(s)) : x \in Elements(s)
  BY <1>2, <1>3 DEF Elements
<1> QED
  BY <1>2, <1>4, <1>7, <1>8

\* A plan of fixed names is its k-th name and the rest.
LEMMA NextFixed ==
    ASSUME NEW S, NEW p \in Seq(S), NEW k \in 1 .. Len(p)
    PROVE  /\ Head(SubSeq(p, k, Len(p))) = p[k]
           /\ Tail(SubSeq(p, k, Len(p))) = SubSeq(p, k + 1, Len(p))
           /\ SubSeq(p, k + 1, Len(p)) = <<>> <=> k = Len(p)
<1>1. Len(p) \in Nat /\ k \in Nat /\ Len(p) \in k .. Len(p)
  OBVIOUS
<1>2. /\ Head(SubSeq(p, k, Len(p))) = p[k]
      /\ Tail(SubSeq(p, k, Len(p))) = SubSeq(p, k + 1, Len(p))
  BY <1>1, HeadTailOfSubSeq
<1>3. Len(SubSeq(p, k + 1, Len(p))) = IF k + 1 <= Len(p) THEN Len(p) - (k + 1) + 1 ELSE 0
  <2>1. \A i \in k + 1 .. Len(p) : p[i] \in S
    BY <1>1
  <2>2. k + 1 \in Int /\ Len(p) \in Int
    BY <1>1
  <2> QED
    BY <2>1, <2>2, SubSeqProperties
<1>4. k = Len(p) => SubSeq(p, k + 1, Len(p)) = <<>>
  BY <1>1, SubSeqEmpty
<1>5. k # Len(p) => SubSeq(p, k + 1, Len(p)) # <<>>
  <2> DEFINE rest == SubSeq(p, k + 1, Len(p))
  <2>1. k # Len(p) => Len(rest) > 0
    BY <1>1, <1>3
  <2> HIDE DEF rest
  <2>2. rest = <<>> => Len(rest) = 0
    OBVIOUS
  <2>3. k # Len(p) => rest # <<>>
    BY <2>1, <2>2
  <2> QED
    BY <2>3 DEF rest
<1> QED
  BY <1>2, <1>4, <1>5

\* A listing's names in any order: each of them is in the plan.
LEMMA Permutation ==
    ASSUME NEW S, IsFiniteSet(S), NEW p \in SetToSeqs(S)
    PROVE  p \in Seq(S) /\ Elements(p) = S
<1> DEFINE N == Cardinality(S)
<1>1. N \in Nat
  BY FS_CardinalityType
<1>2. p \in [1 .. N -> S] /\ \A i, j \in 1 .. N : i # j => p[i] # p[j]
  BY DEF SetToSeqs
<1> HIDE DEF N
<1>4. IsFiniteSet(1 .. N) /\ Cardinality(1 .. N) = N
  BY <1>1, FS_Interval
<1>6. ASSUME NEW x \in S PROVE \E i \in 1 .. N : p[i] = x
  <2> SUFFICES ASSUME \A i \in 1 .. N : p[i] # x PROVE FALSE
    OBVIOUS
  <2>1. IsFiniteSet(S \ {x}) /\ Cardinality(S \ {x}) = N - 1
    BY FS_RemoveElement DEF N
  <2>2. p \in [1 .. N -> S \ {x}]
    BY <1>2
  <2>3. N - 1 < N
    BY <1>1
  <2>4. Cardinality(S \ {x}) < Cardinality(1 .. N)
    BY <1>4, <2>1, <2>3
  <2> DEFINE I == 1 .. N
             T == S \ {x}
  <2>5. \E i, j \in I : i # j /\ p[i] = p[j]
    <3>1. IsFiniteSet(I) /\ IsFiniteSet(T) /\ Cardinality(T) < Cardinality(I) /\ p \in [I -> T]
      BY <1>4, <2>1, <2>2, <2>4
    <3> HIDE DEF I, T
    <3> QED
      BY <3>1, FS_PigeonHole, Zenon
  <2> QED
    BY <1>2, <2>5
<1>7. DOMAIN p = 1 .. N
  BY <1>2
<1>8. Elements(p) = S
  BY <1>2, <1>6, <1>7 DEF Elements
<1> QED
  BY <1>1, <1>2, <1>8
\* Pools are met once for each gauge and read three times each, in turn.
LEMMA PoolPlan ==
    ASSUME NEW d \in Directories, NEW p \in PoolPlans(DOMAIN d)
    PROVE  p \in Seq(Elements(p)) /\ Elements(p) = Subject("pool", d)
<1> DEFINE M == {m \in DOMAIN d : IsGaugeEntry(m)}
           P == {n[2] : n \in M}
           gauge(i) == CASE i % 3 = 1 -> "cached" [] i % 3 = 2 -> "used" [] OTHER -> "available"
<1>1. IsFiniteSet(M)
  BY DirectoriesAssumption, FS_Subset, M \in SUBSET DOMAIN d
<1>2. IsFiniteSet(P)
  <2> DEFINE f == [n \in M |-> n[2]]
  <2>1. P = {f[n] : n \in M}
    OBVIOUS
  <2> HIDE DEF f, M, P
  <2> QED
    BY <1>1, <2>1, FiniteImage
<1>3. PICK pools \in SetToSeqs(P) :
        p = [i \in 1 .. 3 * Len(pools) |-> <<"pool", pools[(i + 2) \div 3], gauge(i)>>]
  BY DEF PoolPlans
<1>4. pools \in Seq(P) /\ Elements(pools) = P
  BY <1>2, Permutation
<1>5. Subject("pool", d) = {<<"pool", q, g>> : g \in Gauges, q \in P}
  BY DEF Subject, IsGaugeEntry
<1> HIDE DEF P, M
<1>6. /\ Len(pools) \in Nat /\ DOMAIN pools = 1 .. Len(pools)
      /\ \A j \in 1 .. Len(pools) : pools[j] \in P
  BY <1>4
<1>7. DOMAIN p = 1 .. 3 * Len(pools) /\ 3 * Len(pools) \in Nat
  BY <1>3, <1>6
<1>8. ASSUME NEW i \in 1 .. 3 * Len(pools) PROVE p[i] \in Subject("pool", d)
  <2>1. (i + 2) \div 3 \in 1 .. Len(pools)
    BY <1>6
  <2>2. gauge(i) \in Gauges
    BY DEF Gauges
  <2>3. p[i] = <<"pool", pools[(i + 2) \div 3], gauge(i)>>
    BY <1>3
  <2> HIDE DEF gauge
  <2> QED
    BY <1>5, <1>6, <2>1, <2>2, <2>3
<1>9. ASSUME NEW q \in P, NEW g \in Gauges PROVE <<"pool", q, g>> \in Elements(p)
  <2>1. PICK j \in 1 .. Len(pools) : pools[j] = q
    BY <1>4, <1>6 DEF Elements
  <2>2. \E i \in 1 .. 3 * Len(pools) : (i + 2) \div 3 = j /\ gauge(i) = g
    <3>1. j \in Nat /\ 1 <= j /\ j <= Len(pools)
      BY <1>6
    <3>2. CASE g = "cached"
      <4>1. 3 * j - 2 \in 1 .. 3 * Len(pools) /\ (3 * j - 2 + 2) \div 3 = j
            /\ (3 * j - 2) % 3 = 1
        BY <1>6, <3>1
      <4> QED
        BY <3>2, <4>1
    <3>3. CASE g = "used"
      <4>1. 3 * j - 1 \in 1 .. 3 * Len(pools) /\ (3 * j - 1 + 2) \div 3 = j
            /\ (3 * j - 1) % 3 = 2
        BY <1>6, <3>1
      <4> QED
        BY <3>3, <4>1
    <3>4. CASE g = "available"
      <4>1. 3 * j \in 1 .. 3 * Len(pools) /\ (3 * j + 2) \div 3 = j /\ (3 * j) % 3 = 0
        BY <1>6, <3>1
      <4>2. (3 * j) % 3 # 1 /\ (3 * j) % 3 # 2
        BY <4>1
      <4>3. gauge(3 * j) = "available"
        BY <4>2, Zenon
      <4> QED
        BY <3>4, <4>1, <4>3
    <3> QED
      BY <3>2, <3>3, <3>4 DEF Gauges
  <2>3. PICK i \in 1 .. 3 * Len(pools) : (i + 2) \div 3 = j /\ gauge(i) = g
    BY <2>2
  <2>4. p[i] = <<"pool", q, g>>
    BY <1>3, <2>1, <2>3
  <2> QED
    BY <1>7, <2>4 DEF Elements
<1>10. Elements(p) = Subject("pool", d)
  <2>1. \A x \in Elements(p) : x \in Subject("pool", d)
    BY <1>7, <1>8 DEF Elements
  <2>2. \A x \in Subject("pool", d) : x \in Elements(p)
    BY <1>5, <1>9
  <2> QED
    BY <2>1, <2>2
<1>11. p \in [1 .. 3 * Len(pools) -> Elements(p)]
  BY <1>3, <1>7 DEF Elements
<1> QED
  BY <1>7, <1>10, <1>11, SeqDef

\* A report's plan are the names of its family that are listed, each in its turn.
LEMMA PlanCovers ==
    ASSUME NEW d \in Directories, NEW f \in Families, NEW p \in Plans(f, DOMAIN d)
    PROVE  p \in Seq(Elements(p)) /\ Elements(p) = Subject(f, d)
<1>1. CASE f = "node"
  <2>1. p = NodePlan
    BY <1>1 DEF Plans
  <2>2. DOMAIN NodePlan = 1 .. 6
    BY DEF NodePlan
  <2>3. Elements(NodePlan) = {NAMES, CLOCKS, VECTORS, CALLS, SUSPENDS, WORKERS}
    BY <2>2 DEF NodePlan, Elements
  <2>4. NodePlan \in Seq({NAMES, CLOCKS, VECTORS, CALLS, SUSPENDS, WORKERS})
    BY DEF NodePlan
  <2> QED
    BY <1>1, <2>1, <2>3, <2>4 DEF Subject, Counters
<1>2. CASE f = "sys"
  <2>1. p = SystemPlan
    BY <1>2 DEF Plans
  <2>2. DOMAIN SystemPlan = 1 .. 6
    BY DEF SystemPlan
  <2>3. Elements(SystemPlan) = {WORKERS, LOOPS, RATES, CLEARED, HEARTBEAT, BOOTTIME}
    BY <2>2 DEF SystemPlan, Elements
  <2>4. SystemPlan \in Seq({WORKERS, LOOPS, RATES, CLEARED, HEARTBEAT, BOOTTIME})
    BY DEF SystemPlan
  <2> QED
    BY <1>2, <2>1, <2>3, <2>4 DEF Subject
<1>3. CASE f = "err"
  <2> DEFINE S == {n \in DOMAIN d : IsAlias(n)}
  <2>1. IsFiniteSet(S)
    BY DirectoriesAssumption, FS_Subset, S \in SUBSET DOMAIN d
  <2>2. p \in SetToSeqs(S)
    BY <1>3 DEF Plans, AliasPlans
  <2>3. \A n \in DOMAIN d : Len(n) >= 3 <=> Len(n) > 2
    BY DirectoriesAssumption
  <2>4. S = Subject("err", d)
    BY <2>3 DEF Subject, IsAlias
  <2> HIDE DEF S
  <2>5. p \in Seq(S) /\ Elements(p) = S
    BY <2>1, <2>2, Permutation
  <2> QED
    BY <1>3, <2>4, <2>5
<1>4. CASE f = "mem"
  <2> DEFINE S == {n \in DOMAIN d : IsHeapEntry(n)}
  <2>1. IsFiniteSet(S)
    BY DirectoriesAssumption, FS_Subset, S \in SUBSET DOMAIN d
  <2>2. p \in SetToSeqs(S)
    BY <1>4 DEF Plans, HeapPlans
  <2>3. S = Subject("mem", d)
    BY DEF Subject, IsHeapEntry
  <2> HIDE DEF S
  <2>4. p \in Seq(S) /\ Elements(p) = S
    BY <2>1, <2>2, Permutation
  <2> QED
    BY <1>4, <2>3, <2>4
<1>5. CASE f = "pool"
  BY <1>5, PoolPlan DEF Plans
<1> QED
  BY <1>1, <1>2, <1>3, <1>4, <1>5 DEF Families
-----------------------------------------------------------------------------
(* The steps of a session, as the report sees them *)

\* The next name's read has brought v, rightly or misled by a publication.
Advance(v) ==
    /\ pc = "read" /\ Take(Head(plan), v) /\ loaded' = NoCells
    /\ \/ /\ v = Assemble(Lookup(directory, Head(plan)), loaded)
          /\ UNCHANGED <<quiet, lasting, misses>>
          /\ mark' = IF Head(plan) = LOOPS THEN Marked ELSE mark
          /\ seen' = IF family = "node" /\ Head(plan) = NAMES THEN {directory} ELSE seen
       \/ /\ v \in ReadErrors /\ quiet' = FALSE /\ lasting' = lasting \ {Head(plan)}
          /\ misses' \in 0 .. MaxMisses /\ UNCHANGED <<mark, seen>>
    /\ UNCHANGED <<directory, family, sampled, samples, rate, looped, now, publications>>

\* A listing or a read has failed.
GiveUp ==
    /\ pc \in {"list", "read"} /\ quiet' = FALSE
    /\ \E t \in {"RetryExhausted", "Undecodable"} : Done(t, NoValues)
    /\ misses' \in 0 .. MaxMisses
    /\ loaded' = NoCells \/ (pc = "list" /\ UNCHANGED loaded)
    /\ UNCHANGED <<directory, family, sampled, samples, rate, mark, seen, lasting, looped, now,
                   publications>>

\* Another segment is mapped, or this one is unmapped.
Remap ==
    /\ pc = "idle" /\ directory' \in Directories
    /\ \/ /\ stage # "connected" /\ stage' = "connected"
          /\ looped' = [breaks |-> looped.breaks + 1, total |-> Loops(directory')]
       \/ stage' # "connected" /\ looped' = [looped EXCEPT !.total = <<>>]
    /\ UNCHANGED <<pc, family, plan, values, loaded, result, sampled, samples, rate, mark, quiet,
                   seen, lasting, now, publications, misses>>

\* Nothing the report knows of.
Still ==
    /\ UNCHANGED <<directory, pc, family, plan, values, loaded, result, sampled, samples, rate,
                   mark, quiet, seen, lasting, looped, now, publications, misses>>
    /\ stage' = "connected" <=> stage = "connected"

Moves ==
    \/ Still \/ Remap
    \/ Compare /\ UNCHANGED stage
    \/ /\ stage = "connected" /\ stage' = "connected"
       /\ \/ \E f \in Families : Report(f)
          \/ List \/ LoadCell \/ GiveUp \/ Return \/ Publish \/ Work
          \/ \E v : Advance(v)

\* Every step of a session is one of these.
LEMMA SessionMoves ==
    ASSUME TypeOK, IdleInv, [SessionNext]_sessionVars
    PROVE  Moves
<1>1. CASE Begin
  BY <1>1 DEF Begin, Moves, handoffVars
<1>2. CASE ReportStep
  <2>1. stage = "connected" /\ stage' = "connected"
    BY <1>2 DEF ReportStep, handoffVars
  <2>2. CASE List \/ Return \/ LoadCell
    BY <2>1, <2>2 DEF Moves
  <2>3. CASE Read
    <3>1. Advance(Assemble(Lookup(directory, Head(plan)), loaded))
      BY <2>3 DEF Read, Advance
    <3> QED
      BY <2>1, <3>1 DEF Moves
  <2>4. CASE ListFails
    <3>1. misses' \in 0 .. MaxMisses
      BY <2>4, BoundsAssumption DEF ListFails, TypeOK
    <3>2. GiveUp
      BY <2>4, <3>1 DEF ListFails, GiveUp, Exhausted, Undecodable, Value
    <3> QED
      BY <2>1, <3>2 DEF Moves
  <2>5. CASE ReadMisled
    <3>1. misses' \in 0 .. MaxMisses
      BY <2>5, BoundsAssumption DEF ReadMisled, TypeOK
    <3>2. PICK v \in ReadErrors : Take(Head(plan), v)
      BY <2>5 DEF ReadMisled
    <3>3. Advance(v)
      BY <2>5, <3>1, <3>2 DEF ReadMisled, Advance
    <3> QED
      BY <2>1, <3>3 DEF Moves
  <2> QED
    BY <1>2, <2>2, <2>3, <2>4, <2>5 DEF ReportStep
<1>3. CASE ReadTorn
  <2>1. misses' \in 0 .. MaxMisses
    BY <1>3 DEF ReadTorn, TypeOK
  <2>2. GiveUp
    BY <1>3, <2>1 DEF ReadTorn, GiveUp
  <2> QED
    BY <1>3, <2>2 DEF ReadTorn, Moves, handoffVars
<1>4. CASE CompareStep
  BY <1>4 DEF CompareStep, Moves, handoffVars
<1>5. CASE PublishStep
  BY <1>5 DEF PublishStep, Moves, handoffVars
<1>6. CASE Connected
  <2>1. stage # "connected" /\ pc = "idle"
    BY <1>6 DEF Connected, CheckHeader, IdleInv
  <2>2. UNCHANGED <<pc, family, plan, values, loaded, result, sampled, samples, rate, mark, quiet,
                    seen, lasting, now, publications, misses>>
    BY <1>6 DEF Connected, reportVars
  <2>3. CASE stage' = "connected"
    <3>1. /\ directory' \in Directories
          /\ looped' = [breaks |-> looped.breaks + 1, total |-> Loops(directory')]
      BY <1>6, <2>3 DEF Connected
    <3> QED
      BY <2>1, <2>2, <2>3, <3>1 DEF Remap, Moves
  <2>4. CASE stage' # "connected"
    <3>1. UNCHANGED <<directory, looped>>
      BY <1>6, <2>4 DEF Connected
    <3>2. Still
      BY <2>1, <2>2, <2>4, <3>1 DEF Still
    <3> QED
      BY <3>2 DEF Moves
  <2> QED
    BY <2>3, <2>4
<1>7. CASE HandoffStep
  <2>1. stage' = "connected" <=> stage = "connected"
    BY <1>7 DEF HandoffStep, OpenSocket, Address, ConnectSocket, Interrupted, TimedOut,
                ReceiveFails, Receive, Fstat, Mmap, Accept, Close, Fill, Drain, Start, Fail
  <2>2. UNCHANGED vars
    BY <1>7 DEF HandoffStep
  <2> QED
    BY <2>1, <2>2 DEF vars, reportVars, historyVars, Still, Moves
<1>8. CASE HandStep
  BY <1>8 DEF HandStep, Hand, vars, reportVars, historyVars, Still, Moves
<1>9. CASE ExitStep
  BY <1>9 DEF ExitStep, Exit, vars, reportVars, historyVars, Still, Moves
<1>10. CASE DropStep
  <2>1. directory' \in Directories
    BY <1>10, DirectoriesAssumption DEF DropStep, Unmapped
  <2>2. stage' # "connected"
    BY <1>10 DEF DropStep, DropClient
  <2> QED
    BY <1>10, <2>1, <2>2 DEF DropStep, reportVars, Remap, Moves
<1>11. CASE UNCHANGED sessionVars
  BY <1>11 DEF sessionVars, handoffVars, vars, reportVars, historyVars, Still, Moves
<1> QED
  BY <1>1, <1>2, <1>3, <1>4, <1>5, <1>6, <1>7, <1>8, <1>9, <1>10, <1>11 DEF SessionNext

\* Every step of a session is a step of the handoff, or leaves it alone.
LEMMA SessionHandoff == SessionNext => [HandoffNext]_handoffVars
BY DEF SessionNext, Begin, ReportStep, ReadTorn, CompareStep, PublishStep, Connected,
       HandoffStep, HandStep, ExitStep, DropStep, HandoffNext
-----------------------------------------------------------------------------
(* Types *)

\* What Take does with a value: an alias that is gone is passed over, a defect or
\* a mismatch ends the report, any other value is kept.
LEMMA TakeCases ==
    ASSUME NEW n, NEW v, Take(n, v)
    PROVE  \/ family = "err" /\ v = Missing /\ Continue(values, Tail(plan))
           \/ /\ ~(family = "err" /\ v = Missing)
              /\ Defect(n, v) # "none" /\ Done(Defect(n, v), NoValues)
           \/ /\ Defect(n, v) = "none" /\ Mismatch(n, With(values, n, v)) # "none"
              /\ Done(Mismatch(n, With(values, n, v)), NoValues)
           \/ /\ Defect(n, v) = "none" /\ Mismatch(n, With(values, n, v)) = "none"
              /\ Continue(With(values, n, v), Tail(plan))
BY DEF Take, Use

\* The errors a value may cause by itself, and with the others.
LEMMA DefectTags == \A n, v : Defect(n, v) \in ErrorTags \cup {"none"}
BY DEF Defect, RowDefect, HeapDefect, AliasDefect, ReadErrors, Missing, Exhausted, Undecodable,
       Value, ErrorTags, ShapeTags

\* A disagreement of shapes is reported as one of the shape errors.
LEMMA MismatchTags == \A n, vs : Mismatch(n, vs) \in ShapeTags \cup {"none"}
BY DEF Mismatch, NodeShape, NodeThreads, SystemShape, ShapeTags

\* A report that ends or goes on keeps its program counter, plan and result in line.
LEMMA DoneTypes ==
    ASSUME NEW t \in {"None", "Ok"} \cup ErrorTags, NEW vs, Done(t, vs), t # "Ok" => vs = NoValues
    PROVE  /\ pc' = "done" /\ plan' = <<>> /\ result'.tag = t /\ result'.values = vs
           /\ values' = NoValues /\ t # "none"
BY DEF Done, Outcome, ErrorTags, ShapeTags

\* A report goes on with its next read, or is done with what it has.
LEMMA ContinueTypes ==
    ASSUME NEW vs, NEW rest, Continue(vs, rest)
    PROVE  \/ /\ rest = <<>> /\ pc' = "done" /\ plan' = <<>> /\ result'.tag = "Ok"
              /\ result'.values = vs /\ values' = NoValues
           \/ /\ rest # <<>> /\ pc' = "read" /\ plan' = rest /\ values' = vs
              /\ UNCHANGED result
BY DEF Continue, Done, Outcome

\* What a step makes of the program counter, the plan and the result.
ControlOK ==
    /\ pc \in {"idle", "list", "read", "done"}
    /\ (pc = "read" <=> plan # <<>>) /\ (pc = "done" <=> result.tag # "none")
    /\ result.tag \in {"none", "None", "Ok"} \cup ErrorTags
    /\ result.tag # "Ok" => result.values = NoValues

\* Taking a value leads to the next read or to the end.
LEMMA TakeTypes ==
    ASSUME TypeOK, pc = "read", NEW n, NEW v, Take(n, v)
    PROVE  ControlOK' /\ pc' \in {"read", "done"}
<1>1. ASSUME NEW vs, Continue(vs, Tail(plan)) PROVE ControlOK' /\ pc' \in {"read", "done"}
  BY <1>1, ContinueTypes DEF ControlOK, TypeOK
<1>2. ASSUME NEW t \in ErrorTags, Done(t, NoValues) PROVE ControlOK' /\ pc' \in {"read", "done"}
  BY <1>2, DoneTypes DEF ControlOK
<1>3. Defect(n, v) # "none" => Defect(n, v) \in ErrorTags
  BY DefectTags
<1>4. Mismatch(n, With(values, n, v)) # "none" => Mismatch(n, With(values, n, v)) \in ErrorTags
  BY MismatchTags DEF ErrorTags
<1> QED
  BY <1>1, <1>2, <1>3, <1>4, TakeCases, Zenon

\* The types of the report are kept.
LEMMA TypeStep ==
    ASSUME TypeOK, LoopInv, Moves
    PROVE  TypeOK'
<1> USE BoundsAssumption
<1> DEFINE Clocks == /\ sampled \in 0 .. now /\ now \in 0 .. MaxTicks
                     /\ \A i \in DOMAIN samples : samples[i].at \in 0 .. now
<1>0. ASSUME ControlOK', Clocks', directory' \in Directories, family' \in Families,
             publications' \in 0 .. MaxPublications, misses' \in 0 .. MaxMisses,
             quiet' \in BOOLEAN
      PROVE  TypeOK'
  BY <1>0 DEF TypeOK, ControlOK
<1>t. /\ ControlOK /\ Clocks /\ directory \in Directories /\ family \in Families
      /\ publications \in 0 .. MaxPublications /\ misses \in 0 .. MaxMisses
      /\ quiet \in BOOLEAN
  BY DEF TypeOK, ControlOK
<1>c. UNCHANGED <<sampled, now, samples>> => Clocks'
  BY <1>t
<1>1. CASE Still
  <2>1. ControlOK'
    BY <1>1, <1>t DEF Still, ControlOK
  <2> QED
    BY <1>0, <1>1, <1>t, <1>c, <2>1 DEF Still
<1>2. CASE Remap
  <2>1. ControlOK'
    BY <1>2, <1>t DEF Remap, ControlOK
  <2> QED
    BY <1>0, <1>2, <1>t, <1>c, <2>1 DEF Remap
<1>3. CASE Compare
  <2>1. UNCHANGED <<pc, plan, result, directory, family, publications, misses, quiet, sampled,
                    now, samples>>
    BY <1>3 DEF Compare, historyVars
  <2>2. ControlOK'
    BY <2>1, <1>t DEF ControlOK
  <2> QED
    BY <1>0, <1>t, <1>c, <2>1, <2>2
<1>4. ASSUME NEW f \in Families, Report(f) PROVE TypeOK'
  <2>1. /\ family' = f /\ quiet' = TRUE
        /\ UNCHANGED <<directory, result, samples, publications, misses>>
    BY <1>4 DEF Report
  <2>2. CASE f = "sys" /\ now' \in now .. MaxTicks /\ sampled' = now' /\ pc' = "read"
             /\ plan' \in Plans(f, {})
    <3>1. plan' # <<>>
      <4>1. plan' = SystemPlan
        BY <2>2 DEF Plans
      <4>2. Len(SystemPlan) = 6 /\ Len(<<>>) = 0
        BY DEF SystemPlan
      <4> QED
        BY <4>1, <4>2
    <3>2. ControlOK'
      BY <1>t, <1>4, <2>1, <2>2, <3>1 DEF Report, ControlOK
    <3>3. Clocks'
      BY <1>t, <2>1, <2>2
    <3> QED
      BY <1>0, <1>t, <2>1, <3>2, <3>3
  <2>3. CASE UNCHANGED <<now, sampled>> /\ pc' = "list" /\ plan' = <<>>
    <3>2. ControlOK'
      BY <1>t, <1>4, <2>1, <2>3 DEF Report, ControlOK
    <3> QED
      BY <1>0, <1>t, <1>c, <2>1, <2>3, <3>2
  <2> QED
    BY <1>4, <2>2, <2>3 DEF Report
<1>5. CASE List
  <2>1. UNCHANGED <<directory, family, publications, misses, quiet, sampled, now, samples>>
    BY <1>5 DEF List, historyVars
  <2>2. ControlOK'
    <3>1. CASE Done("None", NoValues)
      BY <3>1, DoneTypes DEF ControlOK
    <3>2. ASSUME NEW p, Continue(NoValues, p) PROVE ControlOK'
      BY <1>5, <1>t, <3>2, ContinueTypes DEF List, ControlOK
    <3> QED
      BY <1>5, <3>1, <3>2 DEF List
  <2> QED
    BY <1>0, <1>t, <1>c, <2>1, <2>2
<1>6. CASE GiveUp
  <2>1. /\ UNCHANGED <<directory, family, publications, sampled, now, samples>>
        /\ quiet' = FALSE /\ misses' \in 0 .. MaxMisses
    BY <1>6 DEF GiveUp
  <2>2. ControlOK'
    <3>1. {"RetryExhausted", "Undecodable"} \subseteq ErrorTags
      BY DEF ErrorTags
    <3> QED
      BY <1>6, <3>1, DoneTypes DEF GiveUp, ControlOK
  <2> QED
    BY <1>0, <1>t, <1>c, <2>1, <2>2
<1>7. CASE Return
  <2>1. /\ UNCHANGED <<directory, family, publications, misses, sampled, now, plan>>
        /\ quiet' = TRUE /\ pc = "done" /\ pc' = "idle" /\ result' = Outcome("none", NoValues)
    BY <1>7 DEF Return
  <2>2. ControlOK'
    BY <1>t, <2>1 DEF Outcome, ControlOK
  <2>3. Clocks'
    <3>1. CASE samples' = samples
      BY <1>c, <2>1, <3>1
    <3>2. CASE family = "sys" /\ result.tag = "Ok"
      <4> DEFINE e == [counts |-> result.values[LOOPS].rows[1], at |-> sampled, mark |-> mark]
      <4>1. samples' = Append(samples, e) /\ e.at = sampled
        BY <1>7, <3>2 DEF Return
      <4> HIDE DEF e
      <4>2. \A i \in DOMAIN samples' : samples'[i] = e \/ (i \in DOMAIN samples /\ samples'[i] = samples[i])
        BY <4>1 DEF LoopInv
      <4> QED
        BY <1>t, <2>1, <4>1, <4>2
    <3> QED
      BY <1>7, <3>1, <3>2 DEF Return
  <2> QED
    BY <1>0, <1>t, <2>1, <2>2, <2>3
<1>8. CASE Publish \/ Work
  <2>0. Change
    BY <1>8 DEF Publish, Work
  <2>1. /\ UNCHANGED <<pc, plan, result, family, misses, sampled, now, samples>>
        /\ directory' \in Directories /\ publications' \in 0 .. MaxPublications
    BY <2>0, <1>t DEF Change
  <2>2. quiet' \in BOOLEAN
    BY <2>0, <1>t DEF Change
  <2>3. ControlOK'
    BY <1>t, <2>1 DEF ControlOK
  <2> QED
    BY <1>0, <1>t, <1>c, <2>1, <2>2, <2>3
<1>9. ASSUME NEW v, Advance(v) PROVE TypeOK'
  <2>1. UNCHANGED <<directory, family, publications, sampled, now, samples>>
    BY <1>9 DEF Advance
  <2>2. quiet' \in BOOLEAN /\ misses' \in 0 .. MaxMisses
    BY <1>9, <1>t DEF Advance
  <2>3. ControlOK'
    BY <1>9, TakeTypes DEF Advance
  <2> QED
    BY <1>0, <1>t, <1>c, <2>1, <2>2, <2>3
<1>10. CASE LoadCell
  <2>1. UNCHANGED <<pc, plan, result, directory, family, publications, misses, quiet, sampled,
                    now, samples>>
    BY <1>10 DEF LoadCell, historyVars
  <2>2. ControlOK'
    BY <2>1, <1>t DEF ControlOK
  <2> QED
    BY <1>0, <1>t, <1>c, <2>1, <2>2
<1> QED
  BY <1>1, <1>2, <1>3, <1>4, <1>5, <1>6, <1>7, <1>8, <1>9, <1>10 DEF Moves
-----------------------------------------------------------------------------
(* Values *)

\* The fixed names are different names.
LEMMA NamesDiffer ==
    /\ NAMES \notin Counters \cup {WORKERS, LOOPS, RATES, CLEARED, HEARTBEAT, BOOTTIME}
    /\ WORKERS \notin Counters \cup {LOOPS, RATES, CLEARED, HEARTBEAT, BOOTTIME}
    /\ Counters \cap {LOOPS, RATES, CLEARED, HEARTBEAT, BOOTTIME} = {}
    /\ LOOPS \notin {RATES, CLEARED, HEARTBEAT, BOOTTIME}
    /\ RATES \notin {CLEARED, HEARTBEAT, BOOTTIME}
    /\ CLOCKS \notin {VECTORS, CALLS, SUSPENDS} /\ VECTORS \notin {CALLS, SUSPENDS}
    /\ CALLS # SUSPENDS /\ CLEARED \notin {HEARTBEAT, BOOTTIME} /\ HEARTBEAT # BOOTTIME
    /\ \A c \in Counters : c[1] = "node"
    /\ LOOPS[1] = "sys" /\ RATES[1] = "sys"
BY DEF NAMES, Counters, WORKERS, LOOPS, RATES, CLEARED, HEARTBEAT, BOOTTIME, CLOCKS, VECTORS,
       CALLS, SUSPENDS

\* A metric in a directory is no error.
LEMMA MetricIsNoError ==
    ASSUME NEW d \in Directories, NEW n \in DOMAIN d
    PROVE  /\ d[n] \notin ReadErrors /\ d[n].tag \notin {"MetricNotFound", "RetryExhausted", "Undecodable"}
           /\ d[n] = Value(d[n].tag, d[n].rows)
           /\ d[n].tag = "Simple" => d[n].rows \in Seq(Seq(Nat))
BY DirectoriesAssumption DEF ReadErrors, Missing, Exhausted, Undecodable, Value

\* Only a name that is there has no defect.
LEMMA FoundIsThere ==
    ASSUME NEW d \in Directories, NEW n, Defect(n, Lookup(d, n)) = "none"
    PROVE  n \in DOMAIN d /\ Lookup(d, n) = d[n]
BY DEF Lookup, Defect, ReadErrors, Missing, Value

\* Only a name that is gone is not found.
LEMMA MissingIsGone ==
    ASSUME NEW d \in Directories, NEW n
    PROVE  /\ Lookup(d, n) = Missing => n \notin DOMAIN d
           /\ Defect(n, Lookup(d, n)) = "MetricNotFound" => n \notin DOMAIN d
<1> SUFFICES ASSUME n \in DOMAIN d
             PROVE  Lookup(d, n) # Missing /\ Defect(n, Lookup(d, n)) # "MetricNotFound"
  OBVIOUS
<1>1. Lookup(d, n) = d[n] /\ d[n] \notin ReadErrors
  BY MetricIsNoError DEF Lookup
<1> QED
  BY <1>1 DEF Defect, RowDefect, HeapDefect, AliasDefect, ReadErrors

\* A value's defect is one of its type and shape.
LEMMA DefectOfShape ==
    ASSUME NEW n, NEW v, NEW w, v \notin ReadErrors, w \notin ReadErrors, v.tag = w.tag,
           v.rows \in Seq(Seq(Nat)), DOMAIN v.rows = DOMAIN w.rows, Len(v.rows) = Len(w.rows),
           \A r \in DOMAIN v.rows : Len(v.rows[r]) = Len(w.rows[r])
    PROVE  Defect(n, v) = Defect(n, w)
<1>1. RowDefect(v) = RowDefect(w) /\ AliasDefect(v) = AliasDefect(w)
  BY DEF RowDefect, AliasDefect
<1>2. HeapDefect(v) = HeapDefect(w)
  <2>1. Len(v.rows) = 1 => 1 \in DOMAIN v.rows
    OBVIOUS
  <2> QED
    BY <2>1 DEF HeapDefect
<1>3. n \in {LOOPS, RATES} => n[1] = "sys"
  BY NamesDiffer
<1>4. CASE v.tag \notin Types(n)
  BY <1>4 DEF Defect
<1>5. CASE v.tag \in Types(n) /\ n \in {LOOPS, RATES}
  BY <1>1, <1>3, <1>5 DEF Defect
<1>6. CASE v.tag \in Types(n) /\ n \notin {LOOPS, RATES} /\ n[1] = "mem"
  BY <1>2, <1>6 DEF Defect
<1>7. CASE v.tag \in Types(n) /\ n \notin {LOOPS, RATES} /\ n[1] = "err"
  BY <1>1, <1>7 DEF Defect
<1>8. CASE v.tag \in Types(n) /\ n \notin {LOOPS, RATES} /\ n[1] \notin {"mem", "err"}
  BY <1>8 DEF Defect
<1> QED
  BY <1>4, <1>5, <1>6, <1>7, <1>8

\* A layout is one of itself, of those it is the layout of, and of theirs.
LEMMA LayoutsAgree ==
    /\ \A d : SameLayout(d, d)
    /\ \A d, e, f : SameLayout(d, e) /\ SameLayout(e, f) => SameLayout(d, f)
    /\ \A d, e : SameLayout(d, e) => SameLayout(e, d)
<1>1. \A d : SameLayout(d, d)
  BY DEF SameLayout
<1>2. \A d, e : SameLayout(d, e) => SameLayout(e, d)
  BY DEF SameLayout
<1>3. \A d, e, f : SameLayout(d, e) /\ SameLayout(e, f) => SameLayout(d, f)
  BY DEF SameLayout
<1> QED
  BY <1>1, <1>2, <1>3

\* What a read assembles from the cells loaded before and now: a value of the
\* directory's, as far as its shape goes, with cells that directories of the same
\* layout had; the directory's own if nothing has changed.
LEMMA AssembleIs ==
    ASSUME TypeOK, SeenInv, LoadedInv, pc = "read",
           NEW n, n = Head(plan), NEW v, v = Assemble(Lookup(directory, n), loaded)
    PROVE  /\ n \notin DOMAIN directory => v = Missing
           /\ n \in DOMAIN directory =>
                /\ v \notin ReadErrors /\ Defect(n, v) = Defect(n, directory[n])
                /\ directory[n].tag # "Simple" => v = directory[n]
                /\ directory[n].tag = "Simple" => ReadOf(v, n, directory, seen)
           /\ quiet => v = Lookup(directory, n)
<1>0. directory \in Directories /\ directory \in seen
  BY DEF TypeOK, SeenInv
<1>1. CASE n \notin DOMAIN directory
  BY <1>1 DEF Lookup, Assemble, Missing, Value
<1>2. CASE n \in DOMAIN directory /\ directory[n].tag # "Simple"
  BY <1>0, <1>2, MetricIsNoError DEF Lookup, Assemble
<1>3. CASE n \in DOMAIN directory /\ directory[n].tag = "Simple"
  <2> DEFINE w == directory[n]
             cell(r, c) == IF <<r, c>> \in DOMAIN loaded THEN loaded[<<r, c>>] ELSE w.rows[r][c]
             row(r) == [c \in DOMAIN w.rows[r] |-> cell(r, c)]
             rows == [r \in DOMAIN w.rows |-> row(r)]
  <2>1. v = Value("Simple", rows)
    BY <1>3 DEF Lookup, Assemble
  <2>2. w.rows \in Seq(Seq(Nat)) /\ w = Value("Simple", w.rows)
    BY <1>0, <1>3, MetricIsNoError
  <2>3. \A r \in DOMAIN w.rows : \A c \in DOMAIN w.rows[r] :
            /\ cell(r, c) \in Nat
            /\ quiet => cell(r, c) = w.rows[r][c]
            /\ \E e \in seen : SameLayout(directory, e) /\ cell(r, c) = e[n].rows[r][c]
    <3> TAKE r \in DOMAIN w.rows
    <3> TAKE c \in DOMAIN w.rows[r]
    <3>1. CASE <<r, c>> \in DOMAIN loaded
      <4>1. cell(r, c) = loaded[<<r, c>>] /\ <<r, c>>[1] = r /\ <<r, c>>[2] = c
        BY <3>1
      <4> QED
        BY <3>1, <4>1 DEF LoadedInv
    <3>2. CASE <<r, c>> \notin DOMAIN loaded
      <4>1. cell(r, c) = w.rows[r][c]
        BY <3>2
      <4>2. cell(r, c) \in Nat
        BY <2>2, <4>1
      <4> QED
        BY <1>0, <4>1, <4>2, LayoutsAgree
    <3> QED
      BY <3>1, <3>2
  <2> HIDE DEF cell
  <2>4. \A r \in DOMAIN w.rows :
            /\ row(r) \in Seq(Nat) /\ DOMAIN row(r) = DOMAIN w.rows[r] /\ Len(row(r)) = Len(w.rows[r])
            /\ quiet => row(r) = w.rows[r]
    <3> TAKE r \in DOMAIN w.rows
    <3>1. w.rows[r] \in Seq(Nat)
      BY <2>2
    <3>2. DOMAIN w.rows[r] = 1 .. Len(w.rows[r]) /\ Len(w.rows[r]) \in Nat
      BY <3>1
    <3>3. row(r) \in Seq(Nat) /\ Len(row(r)) = Len(w.rows[r])
      BY <2>3, <3>2
    <3>4. w.rows[r] = [c \in DOMAIN w.rows[r] |-> w.rows[r][c]]
      BY <3>1
    <3>5. quiet => row(r) = w.rows[r]
      BY <2>3, <3>4
    <3> QED
      BY <3>3, <3>5
  <2> HIDE DEF row
  <2>5. rows \in Seq(Seq(Nat)) /\ DOMAIN rows = DOMAIN w.rows /\ Len(rows) = Len(w.rows)
    <3>1. DOMAIN w.rows = 1 .. Len(w.rows) /\ Len(w.rows) \in Nat
      BY <2>2
    <3> QED
      BY <2>4, <3>1
  <2>6. quiet => rows = w.rows
    <3>1. w.rows = [r \in DOMAIN w.rows |-> w.rows[r]]
      BY <2>2
    <3> QED
      BY <2>4, <3>1
  <2>7. \A r \in DOMAIN rows : rows[r] = row(r)
    OBVIOUS
  <2>8. \A r \in DOMAIN rows : \A c \in DOMAIN w.rows[r] : rows[r][c] = cell(r, c)
    BY <2>7 DEF row
  <2> HIDE DEF rows
  <2>9. v = Value("Simple", v.rows) /\ v.tag = "Simple" /\ v.rows = rows /\ v \notin ReadErrors
    BY <2>1 DEF Value, ReadErrors, Missing, Exhausted, Undecodable
  <2>10. w \notin ReadErrors
    BY <1>0, <1>3, MetricIsNoError
  <2>11. Defect(n, v) = Defect(n, w)
    BY <1>3, <2>4, <2>5, <2>7, <2>9, <2>10, DefectOfShape
  <2>12. ReadOf(v, n, directory, seen)
    <3>1. \A r \in DOMAIN rows :
            /\ DOMAIN rows[r] = DOMAIN w.rows[r] /\ Len(rows[r]) = Len(w.rows[r])
            /\ \A c \in DOMAIN rows[r] : \E e \in seen :
                    SameLayout(directory, e) /\ rows[r][c] = e[n].rows[r][c]
      <4> TAKE r \in DOMAIN rows
      <4>1. r \in DOMAIN w.rows /\ rows[r] = row(r)
        BY <2>5, <2>7
      <4>2. DOMAIN rows[r] = DOMAIN w.rows[r] /\ Len(rows[r]) = Len(w.rows[r])
        BY <2>4, <4>1
      <4>3. ASSUME NEW c \in DOMAIN rows[r]
            PROVE  \E e \in seen : SameLayout(directory, e) /\ rows[r][c] = e[n].rows[r][c]
        <5>1. rows[r][c] = cell(r, c) /\ c \in DOMAIN w.rows[r]
          BY <2>8, <4>1, <4>2
        <5> QED
          BY <2>3, <4>1, <5>1
      <4> QED
        BY <4>2, <4>3
    <3>2. v.rows \in Seq(Seq(Nat)) /\ DOMAIN v.rows = DOMAIN w.rows /\ Len(v.rows) = Len(w.rows)
      BY <2>5, <2>9
    <3> QED
      BY <1>3, <2>9, <3>1, <3>2 DEF ReadOf
  <2>13. quiet => v = Lookup(directory, n)
    BY <1>3, <2>1, <2>2, <2>6 DEF Lookup
  <2> QED
    BY <1>3, <2>9, <2>11, <2>12, <2>13
<1> QED
  BY <1>1, <1>2, <1>3

\* What a report keeps of a counter is what it read.
LEMMA CounterIsKept ==
    ASSUME NEW d \in Directories, NEW n \in DOMAIN d, Defect(n, d[n]) = "none",
           d[n].tag = "Simple", NEW v
    PROVE  Kept(n, v) = v
<1>1. d[n] \notin ReadErrors
  BY MetricIsNoError
<1>2. d[n].tag \in Types(n)
  BY <1>1 DEF Defect
<1>3. CLEARED[1] = "sys" /\ CLEARED \notin Counters \cup {NAMES, LOOPS, RATES}
  BY NamesDiffer DEF CLEARED
<1>4. n # CLEARED
  BY <1>2, <1>3 DEF Types
<1> QED
  BY <1>4 DEF Kept

\* What a report keeps has the shape its readers rely on.
LEMMA KeptShape ==
    ASSUME NEW vs, ReadFrom(vs, Directories), NEW n \in DOMAIN vs, n # CLEARED
    PROVE  /\ vs[n].rows \in Seq(Elements(vs[n].rows))
           /\ n \in Counters \cup {LOOPS, RATES} => vs[n].rows \in Seq(Seq(Nat))
           /\ n \in {LOOPS, RATES} => Len(vs[n].rows) = 1
<1>1. PICK d \in Directories :
        n \in DOMAIN d /\ Defect(n, d[n]) = "none" /\ ReadOf(vs[n], n, d, Directories)
  BY DEF ReadFrom
<1>2. d[n] \notin ReadErrors
  BY <1>1, MetricIsNoError
<1>3. d[n].tag \in Types(n)
  BY <1>1, <1>2 DEF Defect
<1>4. n \in Counters \cup {LOOPS, RATES} => d[n].tag = "Simple"
  BY <1>3, NamesDiffer DEF Types
<1>5. n \in {LOOPS, RATES} => Len(d[n].rows) = 1
  BY <1>1, <1>2, <1>3, NamesDiffer DEF Defect, RowDefect
<1>6. CASE d[n].tag = "Simple"
  <2>1. vs[n].rows \in Seq(Seq(Nat)) /\ Len(vs[n].rows) = Len(d[n].rows)
    BY <1>1, <1>6 DEF ReadOf
  <2> QED
    BY <1>5, <2>1, OwnElements
<1>7. CASE d[n].tag # "Simple"
  <2>1. vs[n] = d[n]
    BY <1>1, <1>7 DEF ReadOf, Kept
  <2> QED
    BY <1>1, <1>4, <1>5, <1>7, <2>1, DirectoriesAssumption
<1> QED
  BY <1>6, <1>7

\* What With adds to the values.
LEMMA WithAdds ==
    ASSUME NEW vs, NEW n, NEW v
    PROVE  /\ DOMAIN With(vs, n, v) = DOMAIN vs \cup {n}
           /\ With(vs, n, v)[n] = Kept(n, v)
           /\ \A m \in DOMAIN vs \ {n} : With(vs, n, v)[m] = vs[m]
BY DEF With

\* The node checks, NodeShape after the counters and NodeThreads after the
\* workers, are together the agreement a caller relies on.
LEMMA NodeAgrees ==
    ASSUME NEW vs, ReadFrom(vs, Directories), Counters \cup {NAMES, WORKERS} \subseteq DOMAIN vs
    PROVE  Agree("node", vs) <=> NodeShape(vs) = "none" /\ NodeThreads(vs) = "none"
<1>1. \A c \in Counters : vs[c].rows \in Seq(Seq(Nat))
  BY KeptShape, NamesDiffer
<1>2. vs[NAMES].rows \in Seq(Elements(vs[NAMES].rows))
  BY KeptShape, NamesDiffer
<1>3. CLOCKS \in Counters
  BY DEF Counters
<1>4. \A c \in Counters : \A r \in DOMAIN vs[c].rows :
        DOMAIN vs[c].rows[r] = DOMAIN vs[NAMES].rows
            <=> Len(vs[c].rows[r]) = Len(vs[NAMES].rows)
  <2> TAKE c \in Counters
  <2> TAKE r \in DOMAIN vs[c].rows
  <2>1. vs[c].rows[r] \in Seq(Nat)
    BY <1>1
  <2> DEFINE a == Len(vs[c].rows[r])
             b == Len(vs[NAMES].rows)
  <2>2. a \in Nat /\ b \in Nat /\ DOMAIN vs[c].rows[r] = 1 .. a /\ DOMAIN vs[NAMES].rows = 1 .. b
    BY <1>2, <2>1, LenProperties
  <2> HIDE DEF a, b
  <2>3. 1 .. a = 1 .. b <=> a = b
    BY <2>2
  <2> QED
    BY <2>2, <2>3 DEF a, b
<1>5. Agree("node", vs) <=> \A c \in Counters :
        /\ Len(vs[c].rows) = Workers(vs) + 1
        /\ \A r \in DOMAIN vs[c].rows : Len(vs[c].rows[r]) = Len(vs[NAMES].rows)
  BY <1>4 DEF Agree
<1>6. NodeShape(vs) = "none" <=> \A c \in Counters :
        /\ Len(vs[c].rows) = Len(vs[CLOCKS].rows)
        /\ \A r \in DOMAIN vs[c].rows : Len(vs[c].rows[r]) = Len(vs[NAMES].rows)
  BY DEF NodeShape
<1>7. NodeThreads(vs) = "none" <=> Len(vs[CLOCKS].rows) = Workers(vs) + 1
  BY DEF NodeThreads
<1> QED
  BY <1>3, <1>5, <1>6, <1>7

\* The checks are made on what they need: more values do not change them.
LEMMA ChecksKeep ==
    ASSUME NEW vs, NEW ws
    PROVE  /\ (\A m \in Counters \cup {NAMES} : vs[m] = ws[m]) => NodeShape(vs) = NodeShape(ws)
           /\ vs[CLOCKS] = ws[CLOCKS] /\ vs[WORKERS] = ws[WORKERS]
                => NodeThreads(vs) = NodeThreads(ws)
           /\ (\A m \in {LOOPS, RATES, WORKERS} : vs[m] = ws[m])
                => SystemShape(vs) = SystemShape(ws)
<1>1. CLOCKS \in Counters
  BY DEF Counters
<1>2. ASSUME \A m \in Counters \cup {NAMES} : vs[m] = ws[m] PROVE NodeShape(vs) = NodeShape(ws)
  BY <1>1, <1>2, SMTT(60) DEF NodeShape
<1>3. ASSUME \A m \in {LOOPS, RATES, WORKERS} : vs[m] = ws[m]
      PROVE  SystemShape(vs) = SystemShape(ws)
  BY <1>3 DEF SystemShape, Workers
<1>4. ASSUME vs[CLOCKS] = ws[CLOCKS], vs[WORKERS] = ws[WORKERS]
      PROVE  NodeThreads(vs) = NodeThreads(ws)
  BY <1>4 DEF NodeThreads, Workers
<1> QED
  BY <1>2, <1>3, <1>4

\* The system check is the agreement.
LEMMA SystemAgrees == \A vs : Agree("sys", vs) <=> SystemShape(vs) = "none"
BY DEF Agree, SystemShape
-----------------------------------------------------------------------------
(* What was published during a report *)

\* The client is not dropped under a report.
LEMMA IdleStep == IdleInv /\ Moves => IdleInv'
BY DEF IdleInv, Moves, Still, Remap, Compare

\* A value without a defect is the directory's, and the read was not misled.
LEMMA AdvanceFound ==
    ASSUME TypeOK, SeenInv, LoadedInv, NEW v, Advance(v), Defect(Head(plan), v) = "none"
    PROVE  /\ Head(plan) \in DOMAIN directory /\ Defect(Head(plan), directory[Head(plan)]) = "none"
           /\ v = Assemble(directory[Head(plan)], loaded)
           /\ ReadOf(Kept(Head(plan), v), Head(plan), directory, seen)
           /\ UNCHANGED <<quiet, lasting>>
           /\ mark' = IF Head(plan) = LOOPS THEN Marked ELSE mark
           /\ seen' = IF family = "node" /\ Head(plan) = NAMES THEN {directory} ELSE seen
<1> DEFINE n == Head(plan)
<1>1. v \notin ReadErrors
  BY DEF Defect, ReadErrors, Missing, Exhausted, Undecodable, Value
<1>2. /\ pc = "read" /\ v = Assemble(Lookup(directory, n), loaded) /\ UNCHANGED <<quiet, lasting>>
      /\ mark' = IF n = LOOPS THEN Marked ELSE mark
      /\ seen' = IF family = "node" /\ n = NAMES THEN {directory} ELSE seen
  BY <1>1 DEF Advance
<1> HIDE DEF n
<1>3. n \in DOMAIN directory
  BY <1>1, <1>2, AssembleIs DEF ReadErrors, n
<1>4. /\ Defect(n, v) = Defect(n, directory[n])
      /\ directory[n].tag # "Simple" => v = directory[n]
      /\ directory[n].tag = "Simple" => ReadOf(v, n, directory, seen)
  BY <1>2, <1>3, AssembleIs DEF n
<1>5. ReadOf(Kept(n, v), n, directory, seen)
  <2>1. CASE directory[n].tag # "Simple"
    BY <1>4, <2>1 DEF ReadOf
  <2>2. CASE directory[n].tag = "Simple"
    <3>1. Defect(n, directory[n]) = "none"
      BY <1>4 DEF n
    <3>2. Kept(n, v) = v
      BY <1>3, <2>2, <3>1, CounterIsKept DEF TypeOK
    <3> QED
      BY <1>4, <2>2, <3>2
  <2> QED
    BY <2>1, <2>2
<1> QED
  BY <1>2, <1>3, <1>4, <1>5 DEF Lookup, n

\* After a read the report is reading, with names left, or done.
LEMMA AdvanceControl ==
    ASSUME TypeOK, NEW v, Advance(v)
    PROVE  \/ pc' = "read" /\ plan' = Tail(plan) /\ plan' # <<>>
           \/ pc' = "done" /\ values' = NoValues
BY TakeCases DEF Advance, Continue, Done

\* The history of the publications is kept.
LEMMA SeenStep ==
    ASSUME TypeOK, SeenInv, Moves
    PROVE  SeenInv'
<1>1. CASE Still
  BY <1>1 DEF Still, SeenInv
<1>2. CASE Remap
  BY <1>2 DEF Remap, SeenInv
<1>3. CASE Compare
  BY <1>3 DEF Compare, historyVars, SeenInv
<1>4. ASSUME NEW f \in Families, Report(f) PROVE SeenInv'
  <2>1. /\ seen' = {directory} /\ directory' = directory /\ lasting' = DOMAIN directory
        /\ values' = values /\ pc = "idle" /\ family' = f
    BY <1>4 DEF Report
  <2>2. pc' = "list" => f # "sys"
    BY <1>4 DEF Report
  <2> QED
    BY <2>1, <2>2 DEF SeenInv, TypeOK
<1>5. CASE List
  <2>1. UNCHANGED <<directory, family, seen, lasting, quiet>> /\ pc = "list"
    BY <1>5 DEF List, historyVars
  <2>2. (pc' = "done" /\ values' = NoValues) \/ pc' = "read"
    BY <1>5 DEF List, Continue, Done
  <2> QED
    BY <2>1, <2>2 DEF SeenInv
<1>6. CASE GiveUp
  BY <1>6 DEF GiveUp, Done, SeenInv
<1>7. CASE Return
  BY <1>7 DEF Return, SeenInv
<1>8. CASE Publish \/ Work
  <2>0. Change
    BY <1>8 DEF Publish, Work
  <2>1. UNCHANGED <<pc, values, family>> /\ directory' \in Directories
    BY <2>0 DEF Change
  <2>2. pc # "idle" =>
            /\ quiet' = FALSE /\ seen' = seen \cup {directory'}
            /\ lasting' = lasting \cap DOMAIN directory'
    BY <2>0 DEF Change
  <2> QED
    BY <2>1, <2>2 DEF SeenInv, TypeOK
<1>9. ASSUME NEW v, Advance(v) PROVE SeenInv'
  <2>1. /\ directory' = directory /\ seen' \in {seen, {directory}} /\ pc = "read"
        /\ lasting' \subseteq lasting /\ (quiet' => quiet)
    BY <1>9 DEF Advance
  <2>2. directory \in seen /\ seen \subseteq Directories /\ lasting \subseteq DOMAIN directory
        /\ (quiet => seen = {directory})
    BY <2>1 DEF SeenInv
  <2>3. /\ directory' \in seen' /\ seen' \subseteq Directories
        /\ lasting' \subseteq DOMAIN directory' /\ (quiet' => seen' = {directory'})
    <3>1. CASE seen' = seen
      BY <2>1, <2>2, <3>1, Zenon
    <3>2. CASE seen' = {directory}
      BY <2>1, <2>2, <3>2, Zenon
    <3> QED
      BY <2>1, <3>1, <3>2
  <2>4. pc' = "read" \/ (pc' = "done" /\ values' = NoValues)
    BY <1>9, AdvanceControl
  <2>5. pc' # "read" => values' = NoValues
    BY <2>4
  <2>6. pc' # "list"
    BY <2>4
  <2> QED
    BY <2>3, <2>5, <2>6 DEF SeenInv
<1>10. CASE LoadCell
  BY <1>10 DEF LoadCell, historyVars, SeenInv
<1> QED
  BY <1>1, <1>2, <1>3, <1>4, <1>5, <1>6, <1>7, <1>8, <1>9, <1>10 DEF Moves

\* The cells loaded stay those of this layout, until another is published.
LEMMA LoadedStep ==
    ASSUME TypeOK, SeenInv, LoadedInv, Moves
    PROVE  LoadedInv'
<1>1. ASSUME loaded' = NoCells PROVE LoadedInv'
  BY <1>1 DEF LoadedInv, NoCells
<1>2. ASSUME loaded' = loaded, pc # "read" PROVE LoadedInv'
  BY <1>1, <1>2 DEF LoadedInv
<1>3. ASSUME UNCHANGED <<loaded, pc, plan, directory, quiet, seen>> PROVE LoadedInv'
  BY <1>3 DEF LoadedInv
<1>4. CASE Still
  BY <1>3, <1>4 DEF Still
<1>5. CASE Remap
  BY <1>2, <1>5 DEF Remap
<1>6. CASE Compare
  BY <1>3, <1>6 DEF Compare, historyVars
<1>7. ASSUME NEW f \in Families, Report(f) PROVE LoadedInv'
  BY <1>2, <1>7 DEF Report
<1>8. CASE List
  BY <1>2, <1>8 DEF List
<1>9. CASE GiveUp
  BY <1>1, <1>2, <1>9 DEF GiveUp
<1>10. CASE Return
  BY <1>2, <1>10 DEF Return
<1>11. CASE Publish
  BY <1>1, <1>11 DEF Publish
<1>12. CASE Work
  <2>1. CASE pc # "read"
    BY <1>2, <1>12, <2>1 DEF Work
  <2>2. CASE pc = "read"
    <3>1. /\ UNCHANGED <<loaded, pc, plan>> /\ quiet' = FALSE /\ seen' = seen \cup {directory'}
          /\ SameLayout(directory, directory')
      BY <1>12, <2>2 DEF Work, Change
    <3>2. DOMAIN directory' = DOMAIN directory
      BY <3>1 DEF SameLayout
    <3>3. \A e \in seen : SameLayout(directory, e) => SameLayout(directory', e)
      BY <3>1, LayoutsAgree
    <3> QED
      BY <2>2, <3>1, <3>2, <3>3 DEF LoadedInv
  <2> QED
    BY <2>1, <2>2
<1>13. CASE LoadCell
  <2> DEFINE n == Head(plan)
             v == Lookup(directory, n)
  <2>1. PICK p \in Positions(v) \ DOMAIN loaded :
            loaded' = [q \in DOMAIN loaded \cup {p} |->
                            IF q = p THEN v.rows[p[1]][p[2]] ELSE loaded[q]]
    BY <1>13 DEF LoadCell
  <2>2. pc = "read" /\ UNCHANGED <<pc, plan, directory, quiet, seen>>
    BY <1>13 DEF LoadCell, historyVars
  <2>3. directory \in Directories /\ directory \in seen
    BY <2>2 DEF TypeOK, SeenInv
  <2>4. /\ n \in DOMAIN directory /\ v = directory[n] /\ v.tag = "Simple"
        /\ p[1] \in DOMAIN v.rows /\ p[2] \in DOMAIN v.rows[p[1]]
    BY <2>1 DEF Positions, Lookup, Missing, Value
  <2>5. v.rows[p[1]][p[2]] \in Nat
    <3>1. v.rows \in Seq(Seq(Nat))
      BY <2>3, <2>4, MetricIsNoError
    <3>2. v.rows[p[1]] \in Seq(Nat)
      BY <2>4, <3>1
    <3> QED
      BY <2>4, <3>2
  <2> HIDE DEF v
  <2>6. \A q \in DOMAIN loaded' :
            q # p => q \in DOMAIN loaded /\ loaded'[q] = loaded[q]
    BY <2>1
  <2>7. loaded'[p] = v.rows[p[1]][p[2]]
    BY <2>1
  <2> HIDE DEF n
  <2>8. ASSUME NEW q \in DOMAIN loaded'
        PROVE  /\ n \in DOMAIN directory /\ loaded'[q] \in Nat
               /\ quiet => loaded'[q] = directory[n].rows[q[1]][q[2]]
               /\ \E e \in seen : SameLayout(directory, e) /\ loaded'[q] = e[n].rows[q[1]][q[2]]
    <3>1. CASE q = p
      BY <2>3, <2>4, <2>5, <2>7, <3>1, LayoutsAgree
    <3>2. CASE q # p
      BY <2>6, <2>8, <3>2 DEF LoadedInv, n
    <3> QED
      BY <3>1, <3>2
  <2> QED
    BY <2>2, <2>8 DEF LoadedInv, n
<1>14. ASSUME NEW v, Advance(v) PROVE LoadedInv'
  BY <1>1, <1>14 DEF Advance
<1> QED
  BY <1>4, <1>5, <1>6, <1>7, <1>8, <1>9, <1>10, <1>11, <1>12, <1>13, <1>14 DEF Moves

-----------------------------------------------------------------------------
(* A report on its way *)

\* What is read stays read: more may be published meanwhile.
LEMMA ReadFromMore ==
    ASSUME NEW vs, NEW ds, NEW es, ReadFrom(vs, ds), ds \subseteq es
    PROVE  ReadFrom(vs, es)
<1>1. ASSUME NEW v, NEW n, NEW d, ReadOf(v, n, d, ds) PROVE ReadOf(v, n, d, es)
  BY <1>1 DEF ReadOf
<1> QED
  BY <1>1 DEF ReadFrom

\* A value kept was read from this directory.
LEMMA ReadFromWith ==
    ASSUME NEW vs, NEW ds, ReadFrom(vs, ds), NEW d \in ds, NEW n \in DOMAIN d,
           Defect(n, d[n]) = "none", NEW v, ReadOf(Kept(n, v), n, d, ds)
    PROVE  ReadFrom(With(vs, n, v), ds)
<1> DEFINE ws == With(vs, n, v)
<1>1. DOMAIN ws = DOMAIN vs \cup {n} /\ ws[n] = Kept(n, v)
      /\ \A m \in DOMAIN vs \ {n} : ws[m] = vs[m]
  BY DEF With
<1> HIDE DEF ws
<1>2. ReadFrom(ws, ds)
  BY <1>1 DEF ReadFrom
<1> QED
  BY <1>2 DEF ws

\* The fixed plans.
LEMMA FixedPlans ==
    /\ NodePlan \in Seq(Counters \cup {NAMES, WORKERS}) /\ Len(NodePlan) = 6
    /\ NodePlan[1] = NAMES /\ NodePlan[2] = CLOCKS /\ NodePlan[3] = VECTORS
    /\ NodePlan[4] = CALLS /\ NodePlan[5] = SUSPENDS /\ NodePlan[6] = WORKERS
    /\ SystemPlan \in Seq({WORKERS, LOOPS, RATES, CLEARED, HEARTBEAT, BOOTTIME})
    /\ Len(SystemPlan) = 6
    /\ SystemPlan[1] = WORKERS /\ SystemPlan[2] = LOOPS /\ SystemPlan[3] = RATES
    /\ SystemPlan[4] = CLEARED /\ SystemPlan[5] = HEARTBEAT /\ SystemPlan[6] = BOOTTIME
BY DEF NodePlan, SystemPlan, Counters

\* A fixed plan begins with nothing read.
LEMMA PlanBegins ==
    ASSUME NEW S, NEW p \in Seq(S), plan' = p, values' = NoValues
    PROVE  At(p, 1)'
<1>1. SubSeq(p, 1, Len(p)) = p
  BY SubSeqFull
<1>2. DOMAIN NoValues = {} /\ {p[i] : i \in 1 .. 1 - 1} = {}
  BY DEF NoValues
<1> QED
  BY <1>1, <1>2 DEF At

\* Nothing is read from anywhere.
LEMMA NothingRead == \A ds : ReadFrom(NoValues, ds)
BY DEF ReadFrom, NoValues

\* The read of a fixed plan's k-th name.
LEMMA PlanGoesOn ==
    ASSUME NEW S, NEW p \in Seq(S), NEW k \in 1 .. Len(p), At(p, k), NEW v
    PROVE  /\ Head(plan) = p[k]
           /\ Tail(plan) = SubSeq(p, k + 1, Len(p))
           /\ Tail(plan) = <<>> <=> k = Len(p)
           /\ DOMAIN With(values, p[k], v) = {p[i] : i \in 1 .. k}
<1>1. plan = SubSeq(p, k, Len(p)) /\ DOMAIN values = {p[i] : i \in 1 .. k - 1}
  BY DEF At
<1>2. DOMAIN With(values, p[k], v) = {p[i] : i \in 1 .. k - 1} \cup {p[k]}
  BY <1>1 DEF With
<1>3. {p[i] : i \in 1 .. k - 1} \cup {p[k]} = {p[i] : i \in 1 .. k}
  <2>1. \A i \in 1 .. k : i = k \/ i \in 1 .. k - 1
    OBVIOUS
  <2>2. k \in 1 .. k /\ \A i \in 1 .. k - 1 : i \in 1 .. k
    OBVIOUS
  <2> QED
    BY <2>1, <2>2
<1> QED
  BY <1>1, <1>2, <1>3, NextFixed
\* A value that is kept: what the report holds then.
LEMMA AdvanceKept ==
    ASSUME TypeOK, SeenInv, LoadedInv, ReadInv, NEW v, Advance(v),
           Defect(Head(plan), v) = "none", NEW vs, vs = With(values, Head(plan), v)
    PROVE  /\ ReadFrom(vs, seen') /\ ReadFrom(vs, Directories)
           /\ DOMAIN vs = DOMAIN values \cup {Head(plan)} /\ vs[Head(plan)] = Kept(Head(plan), v)
           /\ \A m \in DOMAIN values \ {Head(plan)} : vs[m] = values[m]
<1>1. /\ Head(plan) \in DOMAIN directory /\ Defect(Head(plan), directory[Head(plan)]) = "none"
      /\ ReadOf(Kept(Head(plan), v), Head(plan), directory, seen)
      /\ seen' = IF family = "node" /\ Head(plan) = NAMES THEN {directory} ELSE seen
  BY AdvanceFound
<1>2. directory \in seen /\ seen \subseteq Directories /\ ReadFrom(values, seen)
  BY DEF Advance, SeenInv, ReadInv
<1>3. ReadFrom(vs, seen)
  BY <1>1, <1>2, ReadFromWith
<1>4. ReadFrom(vs, Directories)
  BY <1>2, <1>3, ReadFromMore
<1>5. ReadFrom(vs, seen')
  <2>1. CASE seen' = seen
    BY <1>3, <2>1
  <2>2. CASE family = "node" /\ Head(plan) = NAMES /\ seen' = {directory}
    <3>1. PICK k \in 1 .. 6 : At(NodePlan, k)
      BY <2>2 DEF Advance, ReadInv
    <3>2. Head(plan) = NodePlan[k]
      BY <3>1, FixedPlans, PlanGoesOn
    <3>3. k = 1
      BY <2>2, <3>2, FixedPlans, NamesDiffer DEF Counters
    <3>4. DOMAIN values = {}
      BY <3>1, <3>3 DEF At
    <3>5. ReadFrom(values, {directory})
      BY <3>4 DEF ReadFrom
    <3>6. directory[NAMES].tag # "Simple"
      <4>1. directory[NAMES] \notin ReadErrors
        BY <1>1, <2>2, MetricIsNoError DEF TypeOK
      <4>2. directory[NAMES].tag \in Types(NAMES)
        BY <1>1, <2>2, <4>1 DEF Defect
      <4>3. NAMES[1] = "node"
        BY DEF NAMES
      <4> QED
        BY <4>2, <4>3, NamesDiffer DEF Types
    <3>7. ReadOf(Kept(Head(plan), v), Head(plan), directory, {directory})
      BY <1>1, <2>2, <3>6 DEF ReadOf
    <3> QED
      BY <1>1, <2>2, <3>5, <3>7, ReadFromWith
  <2> QED
    BY <1>1, <2>1, <2>2
<1> QED
  BY <1>4, <1>5 DEF With

\* The report of the nodes goes on along its plan, and ends with matching shapes.
LEMMA AdvanceNode ==
    ASSUME TypeOK, SeenInv, LoadedInv, ReadInv, family = "node", NEW v, Advance(v),
           Defect(Head(plan), v) = "none",
           NEW vs, vs = With(values, Head(plan), v), Mismatch(Head(plan), vs) = "none"
    PROVE  /\ Tail(plan) # <<>> /\ plan' = Tail(plan) /\ values' = vs =>
                (\E k \in 1 .. 6 : At(NodePlan, k) /\ (k = 6 => NodeShape(values) = "none"))'
           /\ Tail(plan) = <<>> =>
                Agree("node", vs) /\ DOMAIN vs = Counters \cup {NAMES, WORKERS}
<1>1. PICK k \in 1 .. 6 : At(NodePlan, k) /\ (k = 6 => NodeShape(values) = "none")
  BY DEF Advance, ReadInv
<1>2. k \in 1 .. Len(NodePlan)
  BY FixedPlans
<1>3. /\ Head(plan) = NodePlan[k] /\ Tail(plan) = SubSeq(NodePlan, k + 1, Len(NodePlan))
      /\ Tail(plan) = <<>> <=> k = Len(NodePlan)
      /\ DOMAIN vs = {NodePlan[i] : i \in 1 .. k}
  BY <1>1, <1>2, FixedPlans, PlanGoesOn
<1>4. /\ ReadFrom(vs, Directories) /\ \A m \in DOMAIN values \ {Head(plan)} : vs[m] = values[m]
      /\ DOMAIN vs = DOMAIN values \cup {Head(plan)}
  BY AdvanceKept
<1>5. ASSUME Tail(plan) # <<>>, plan' = Tail(plan), values' = vs
      PROVE  (\E j \in 1 .. 6 : At(NodePlan, j) /\ (j = 6 => NodeShape(values) = "none"))'
  <2>1. k + 1 \in 1 .. 6
    BY <1>3, <1>5, FixedPlans
  <2>2. At(NodePlan, k + 1)'
    <3>1. k + 1 - 1 = k
      OBVIOUS
    <3> QED
      BY <1>3, <1>5, <3>1 DEF At
  <2>3. k + 1 = 6 => NodeShape(vs) = "none"
    <3>1. k + 1 = 6 => Head(plan) = SUSPENDS
      BY <1>3, FixedPlans
    <3>2. SUSPENDS # WORKERS
      BY NamesDiffer DEF Counters
    <3> QED
      BY <3>1, <3>2 DEF Mismatch
  <2>4. (k + 1 = 6 => NodeShape(values) = "none")'
    BY <1>5, <2>3
  <2> QED
    BY <2>1, <2>2, <2>4
<1>6. ASSUME Tail(plan) = <<>>
      PROVE  Agree("node", vs) /\ DOMAIN vs = Counters \cup {NAMES, WORKERS}
  <2>1. k = 6 /\ Head(plan) = WORKERS
    BY <1>3, <1>6, FixedPlans
  <2>2. NodeShape(values) = "none" /\ NodeThreads(vs) = "none"
    BY <1>1, <2>1, NamesDiffer DEF Mismatch, Counters
  <2>3. DOMAIN vs = {NodePlan[i] : i \in 1 .. 6}
    BY <1>3, <2>1
  <2>4. {NodePlan[i] : i \in 1 .. 6} = Counters \cup {NAMES, WORKERS}
    BY FixedPlans DEF Counters
  <2>5. \A m \in Counters \cup {NAMES} : m \in DOMAIN values \ {WORKERS}
    BY <1>4, <2>1, <2>3, <2>4, NamesDiffer
  <2>6. \A m \in Counters \cup {NAMES} : vs[m] = values[m]
    BY <1>4, <2>1, <2>5
  <2>7. NodeShape(vs) = "none"
    BY <2>2, <2>6, ChecksKeep
  <2> QED
    BY <1>4, <2>2, <2>3, <2>4, <2>7, NodeAgrees
<1> QED
  BY <1>5, <1>6

\* The report of the system likewise; it keeps the loops' counts as they were
\* when it read them.
LEMMA AdvanceSystem ==
    ASSUME TypeOK, SeenInv, LoadedInv, ReadInv, LoopInv, stage = "connected", family = "sys",
           NEW v, Advance(v), Defect(Head(plan), v) = "none",
           NEW vs, vs = With(values, Head(plan), v), Mismatch(Head(plan), vs) = "none"
    PROVE  /\ Tail(plan) # <<>> /\ plan' = Tail(plan) /\ values' = vs =>
                (\E k \in 1 .. 6 :
                    /\ At(SystemPlan, k)
                    /\ k > 3 => SystemShape(values) = "none"
                    /\ k > 2 => Counted(values[LOOPS].rows[1], mark))'
           /\ Tail(plan) = <<>> =>
                /\ Agree("sys", vs)
                /\ DOMAIN vs = {WORKERS, LOOPS, RATES, CLEARED, HEARTBEAT, BOOTTIME}
                /\ Counted(vs[LOOPS].rows[1], mark')
<1>1. PICK k \in 1 .. 6 :
        /\ At(SystemPlan, k)
        /\ k > 3 => SystemShape(values) = "none"
        /\ k > 2 => Counted(values[LOOPS].rows[1], mark)
  BY DEF Advance, ReadInv
<1>2. k \in 1 .. Len(SystemPlan)
  BY FixedPlans
<1>3. /\ Head(plan) = SystemPlan[k] /\ Tail(plan) = SubSeq(SystemPlan, k + 1, Len(SystemPlan))
      /\ Tail(plan) = <<>> <=> k = Len(SystemPlan)
      /\ DOMAIN vs = {SystemPlan[i] : i \in 1 .. k}
  BY <1>1, <1>2, FixedPlans, PlanGoesOn, ZenonT(40)
<1>4. /\ ReadFrom(vs, Directories) /\ \A m \in DOMAIN values \ {Head(plan)} : vs[m] = values[m]
      /\ DOMAIN vs = DOMAIN values \cup {Head(plan)} /\ vs[Head(plan)] = Kept(Head(plan), v)
  BY AdvanceKept
<1>5. k = 2 <=> Head(plan) = LOOPS
  BY <1>3, FixedPlans, NamesDiffer
<1>6. k > 2 => LOOPS \in DOMAIN values \ {Head(plan)}
  <2> SUFFICES ASSUME k > 2 PROVE LOOPS \in DOMAIN values \ {Head(plan)}
    OBVIOUS
  <2>1. 2 \in 1 .. k /\ LOOPS = SystemPlan[2]
    BY FixedPlans
  <2>2. LOOPS \in DOMAIN vs
    BY <1>3, <2>1
  <2> QED
    BY <1>4, <1>5, <2>2
<1>7. k > 1 => Counted(vs[LOOPS].rows[1], mark')
  <2>1. CASE k = 2
    <3>1. /\ LOOPS \in DOMAIN directory /\ Defect(LOOPS, directory[LOOPS]) = "none"
          /\ v = Assemble(directory[LOOPS], loaded) /\ mark' = Marked /\ pc = "read"
      BY <1>5, <2>1, AdvanceFound DEF Advance
    <3>2. vs[LOOPS] = v /\ LOOPS \in DOMAIN vs
      BY <1>4, <1>5, <2>1, NamesDiffer DEF Kept
    <3>3. directory[LOOPS].tag = "Simple" /\ Len(directory[LOOPS].rows) = 1
      <4>1. directory[LOOPS] \notin ReadErrors
        BY <3>1, MetricIsNoError DEF TypeOK
      <4>2. directory[LOOPS].tag \in Types(LOOPS) /\ RowDefect(directory[LOOPS]) = "none"
        BY <3>1, <4>1, NamesDiffer DEF Defect
      <4> QED
        BY <4>2, NamesDiffer DEF Types, RowDefect
    <3>4. looped.total = directory[LOOPS].rows[1]
      BY <3>1, <3>3 DEF LoopInv, Loops
    <3>5. vs[LOOPS].rows[1] \in Seq(Nat) /\ 1 \in DOMAIN directory[LOOPS].rows
      <4>1. vs[LOOPS].rows \in Seq(Seq(Nat)) /\ Len(vs[LOOPS].rows) = 1
        BY <1>4, <3>2, KeptShape, NamesDiffer
      <4>2. directory[LOOPS].rows \in Seq(Seq(Nat))
        BY <3>1, <3>3, MetricIsNoError DEF TypeOK
      <4> QED
        BY <3>3, <4>1, <4>2
    <3>6. v.rows[1] = [c \in DOMAIN directory[LOOPS].rows[1] |->
                IF <<1, c>> \in DOMAIN loaded THEN loaded[<<1, c>>] ELSE directory[LOOPS].rows[1][c]]
      BY <3>1, <3>3, <3>5 DEF Assemble, Value
    <3>7. ASSUME NEW c \in DOMAIN looped.total PROVE v.rows[1][c] = Marked[c].total
      <4>1. CASE <<1, c>> \in DOMAIN loaded
        <5>1. mark[c].total = loaded[<<1, c>>]
          BY <1>5, <2>1, <3>1, <4>1 DEF LoopInv, MarkedInv
        <5> QED
          BY <3>4, <3>6, <4>1, <5>1 DEF Marked
      <4>2. CASE <<1, c>> \notin DOMAIN loaded
        BY <3>4, <3>6, <4>2 DEF Marked
      <4> QED
        BY <4>1, <4>2
    <3>8. DOMAIN v.rows[1] = DOMAIN looped.total /\ DOMAIN Marked = DOMAIN looped.total
      BY <3>4, <3>6 DEF Marked
    <3> QED
      BY <3>1, <3>2, <3>5, <3>7, <3>8 DEF Counted
  <2>2. CASE k > 2
    <3>1. mark' = mark
      BY <1>5, <2>2, AdvanceFound
    <3> QED
      BY <1>1, <1>4, <1>6, <2>2, <3>1
  <2> QED
    BY <2>1, <2>2
<1>8. k > 2 => SystemShape(vs) = "none"
  <2>1. k = 3 => SystemShape(vs) = "none"
    BY <1>3, FixedPlans DEF Mismatch
  <2>2. ASSUME k > 3 PROVE SystemShape(vs) = "none"
    <3>1. 1 \in 1 .. k /\ 2 \in 1 .. k /\ 3 \in 1 .. k
      BY <2>2
    <3>2. {LOOPS, RATES, WORKERS} \subseteq DOMAIN vs
      BY <1>3, <3>1, FixedPlans
    <3>3. Head(plan) \notin {LOOPS, RATES, WORKERS}
      BY <1>3, <2>2, FixedPlans, NamesDiffer
    <3>4. \A m \in {LOOPS, RATES, WORKERS} : vs[m] = values[m]
      BY <1>4, <3>2, <3>3
    <3> QED
      BY <1>1, <2>2, <3>4, ChecksKeep
  <2> QED
    BY <2>1, <2>2
<1>9. ASSUME Tail(plan) # <<>>, plan' = Tail(plan), values' = vs
      PROVE  (\E j \in 1 .. 6 :
                    /\ At(SystemPlan, j)
                    /\ j > 3 => SystemShape(values) = "none"
                    /\ j > 2 => Counted(values[LOOPS].rows[1], mark))'
  <2>1. k + 1 \in 1 .. 6
    BY <1>3, <1>9, FixedPlans
  <2>2. At(SystemPlan, k + 1)'
    <3>1. k + 1 - 1 = k
      OBVIOUS
    <3> QED
      BY <1>3, <1>9, <3>1 DEF At
  <2>3. (k + 1 > 3 => SystemShape(values) = "none")'
    BY <1>8, <1>9
  <2>4. (k + 1 > 2 => Counted(values[LOOPS].rows[1], mark))'
    BY <1>7, <1>9
  <2> QED
    BY <2>1, <2>2, <2>3, <2>4
<1>10. ASSUME Tail(plan) = <<>>
       PROVE  /\ Agree("sys", vs)
              /\ DOMAIN vs = {WORKERS, LOOPS, RATES, CLEARED, HEARTBEAT, BOOTTIME}
              /\ Counted(vs[LOOPS].rows[1], mark')
  <2>1. k = 6
    BY <1>3, <1>10, FixedPlans
  <2>2. DOMAIN vs = {WORKERS, LOOPS, RATES, CLEARED, HEARTBEAT, BOOTTIME}
    <3>1. {SystemPlan[i] : i \in 1 .. 6}
            = {WORKERS, LOOPS, RATES, CLEARED, HEARTBEAT, BOOTTIME}
      BY FixedPlans
    <3> QED
      BY <1>3, <2>1, <3>1
  <2> QED
    BY <1>7, <1>8, <2>1, <2>2, SystemAgrees
<1> QED
  BY <1>9, <1>10
\* Reports on their way and reports that succeeded stay as they should be.
LEMMA ReadStep ==
    ASSUME TypeOK, SeenInv, LoadedInv, ReadInv, DoneInv, LoopInv, Moves
    PROVE  ReadInv' /\ DoneInv'
<1>1. ASSUME UNCHANGED <<pc, family, plan, values, result, mark>>, seen \subseteq seen'
      PROVE  ReadInv' /\ DoneInv'
  <2>1. ASSUME pc = "read" PROVE ReadFrom(values', seen')
    BY <1>1, <2>1, ReadFromMore DEF ReadInv
  <2>2. ASSUME pc = "done", result.tag = "Ok" PROVE ReadFrom(result'.values, seen')
    BY <1>1, <2>2, ReadFromMore DEF DoneInv
  <2>3. \A p, k : At(p, k)' <=> At(p, k)
    BY <1>1 DEF At
  <2>4. ReadInv'
    BY <1>1, <2>1, <2>3 DEF ReadInv
  <2>5. DoneInv'
    BY <1>1, <2>2 DEF DoneInv
  <2> QED
    BY <2>4, <2>5
<1>2. CASE Still
  BY <1>1, <1>2 DEF Still
<1>3. CASE Remap
  BY <1>3 DEF Remap, ReadInv, DoneInv
<1>4. CASE Compare
  BY <1>1, <1>4 DEF Compare, historyVars
<1>5. ASSUME NEW f \in Families, Report(f) PROVE ReadInv' /\ DoneInv'
  <2>1. pc' # "done" /\ values' = NoValues /\ family' = f
    BY <1>5 DEF Report, SeenInv
  <2>2. CASE pc' = "read"
    <3>1. f = "sys" /\ plan' = SystemPlan
      BY <1>5, <2>2 DEF Report, Plans
    <3>2. At(SystemPlan, 1)'
      BY <2>1, <3>1, FixedPlans, PlanBegins
    <3>3. plan' \in Seq(Elements(plan'))
      BY <3>1, FixedPlans, OwnElements
    <3>4. ReadFrom(values', seen')
      BY <2>1, NothingRead
    <3>5. (\E k \in 1 .. 6 :
            /\ At(SystemPlan, k)
            /\ k > 3 => SystemShape(values) = "none"
            /\ k > 2 => Counted(values[LOOPS].rows[1], mark))'
      <4> WITNESS 1 \in 1 .. 6
      <4> QED
        BY <3>2
    <3> QED
      BY <2>1, <3>1, <3>3, <3>4, <3>5 DEF ReadInv, DoneInv
  <2> QED
    BY <2>1, <2>2 DEF ReadInv, DoneInv
<1>6. CASE List
  <2>1. UNCHANGED <<family, seen, directory>> /\ pc = "list" /\ family # "sys"
    BY <1>6 DEF List, historyVars, SeenInv
  <2>2. CASE Done("None", NoValues)
    BY <2>2 DEF Done, Outcome, ReadInv, DoneInv
  <2>3. ASSUME NEW p \in Plans(family, DOMAIN directory), Continue(NoValues, p)
        PROVE  ReadInv' /\ DoneInv'
    <3>1. p \in Seq(Elements(p)) /\ (family = "node" => p = NodePlan)
      BY PlanCovers DEF TypeOK, Plans
    <3>2. CASE p = <<>>
      <4>1. pc' = "done" /\ result'.values = NoValues
        BY <2>3, <3>2, ContinueTypes
      <4>2. family # "node"
        <5>1. Len(NodePlan) = 6 /\ Len(<<>>) = 0
          BY FixedPlans
        <5> QED
          BY <3>1, <3>2, <5>1
      <4>3. Agree(family, NoValues)
        BY <2>1, <4>2 DEF Agree
      <4> QED
        BY <2>1, <4>1, <4>2, <4>3, NothingRead DEF ReadInv, DoneInv
    <3>3. CASE p # <<>>
      <4>1. pc' = "read" /\ plan' = p /\ values' = NoValues
        BY <2>3, <3>3, ContinueTypes
      <4>2. ReadFrom(values', seen')
        BY <4>1, NothingRead
      <4>3. family = "node" => At(NodePlan, 1)'
        BY <3>1, <4>1, FixedPlans, PlanBegins
      <4>4. family = "node" => (\E k \in 1 .. 6 :
                At(NodePlan, k) /\ (k = 6 => NodeShape(values) = "none"))'
        BY <4>3
      <4> QED
        BY <2>1, <3>1, <4>1, <4>2, <4>4 DEF ReadInv, DoneInv
    <3> QED
      BY <3>2, <3>3
  <2> QED
    BY <1>6, <2>2, <2>3 DEF List
<1>7. CASE GiveUp
  <2>1. PICK t \in {"RetryExhausted", "Undecodable"} : Done(t, NoValues)
    BY <1>7 DEF GiveUp
  <2> QED
    BY <2>1 DEF Done, Outcome, ReadInv, DoneInv
<1>8. CASE Return
  BY <1>8 DEF Return, ReadInv, DoneInv
<1>9. CASE Publish \/ Work
  <2>0. Change
    BY <1>9 DEF Publish, Work
  <2>1. CASE pc = "idle"
    BY <2>0, <2>1 DEF Change, ReadInv, DoneInv
  <2>2. CASE pc # "idle"
    BY <1>1, <2>0, <2>2 DEF Change
  <2> QED
    BY <2>1, <2>2
<1>10. ASSUME stage = "connected", NEW v, Advance(v) PROVE ReadInv' /\ DoneInv'
  <2> DEFINE n == Head(plan)
             vs == With(values, n, v)
  <2>1. pc = "read" /\ Take(n, v) /\ UNCHANGED <<family, directory>>
        /\ (family # "node" => UNCHANGED seen)
    BY <1>10 DEF Advance
  <2>2. /\ plan \in Seq(Elements(plan)) /\ ReadFrom(values, seen)
        /\ Tail(plan) \in Seq(Elements(Tail(plan)))
    BY <2>1, NextName DEF ReadInv, TypeOK
  <2>3. CASE family = "err" /\ v = Missing /\ Continue(values, Tail(plan))
    <3>1. CASE Tail(plan) = <<>>
      <4>1. pc' = "done" /\ result'.values = values
        BY <2>3, <3>1, ContinueTypes
      <4>2. Agree(family, values)
        BY <2>3 DEF Agree
      <4> QED
        BY <2>1, <2>2, <2>3, <4>1, <4>2 DEF ReadInv, DoneInv
    <3>2. CASE Tail(plan) # <<>>
      <4>1. pc' = "read" /\ plan' = Tail(plan) /\ values' = values
        BY <2>3, <3>2, ContinueTypes
      <4> QED
        BY <2>1, <2>2, <2>3, <4>1 DEF ReadInv, DoneInv
    <3> QED
      BY <3>1, <3>2
  <2>4. ASSUME NEW t, t # "Ok", Done(t, NoValues) PROVE ReadInv' /\ DoneInv'
    BY <2>4 DEF Done, Outcome, ReadInv, DoneInv
  <2>5. CASE Defect(n, v) # "none" /\ Done(Defect(n, v), NoValues)
    <3>1. Defect(n, v) # "Ok"
      BY DefectTags DEF ErrorTags, ShapeTags
    <3> QED
      BY <2>4, <2>5, <3>1
  <2>6. CASE Mismatch(n, vs) # "none" /\ Done(Mismatch(n, vs), NoValues)
    <3>1. Mismatch(n, vs) # "Ok"
      BY MismatchTags DEF ShapeTags
    <3> QED
      BY <2>4, <2>6, <3>1
  <2>7. CASE Defect(n, v) = "none" /\ Mismatch(n, vs) = "none" /\ Continue(vs, Tail(plan))
    <3>1. ReadFrom(vs, seen')
      BY <1>10, <2>7, AdvanceKept
    <3>2. CASE Tail(plan) = <<>>
      <4>1. pc' = "done" /\ result'.values = vs
        BY <2>7, <3>2, ContinueTypes
      <4>2. CASE family = "node"
        <5>1. Agree("node", vs) /\ DOMAIN vs = Counters \cup {NAMES, WORKERS}
          BY <1>10, <2>7, <3>2, <4>2, AdvanceNode
        <5> QED
          BY <2>1, <3>1, <4>1, <4>2, <5>1 DEF ReadInv, DoneInv
      <4>3. CASE family = "sys"
        <5>1. Agree("sys", vs) /\ LOOPS \in DOMAIN vs /\ Counted(vs[LOOPS].rows[1], mark')
          BY <1>10, <2>7, <3>2, <4>3, AdvanceSystem
        <5> QED
          BY <2>1, <3>1, <4>1, <4>3, <5>1 DEF ReadInv, DoneInv
      <4>4. CASE family \notin {"node", "sys"}
        <5>1. Agree(family, vs)
          BY <4>4 DEF Agree
        <5> QED
          BY <2>1, <3>1, <4>1, <4>4, <5>1 DEF ReadInv, DoneInv
      <4> QED
        BY <4>2, <4>3, <4>4
    <3>3. CASE Tail(plan) # <<>>
      <4>1. pc' = "read" /\ plan' = Tail(plan) /\ values' = vs
        BY <2>7, <3>3, ContinueTypes
      <4>2. family = "node" => (\E k \in 1 .. 6 :
                At(NodePlan, k) /\ (k = 6 => NodeShape(values) = "none"))'
        BY <1>10, <2>7, <3>3, <4>1, AdvanceNode
      <4>3. family = "sys" => (\E k \in 1 .. 6 :
                /\ At(SystemPlan, k)
                /\ k > 3 => SystemShape(values) = "none"
                /\ k > 2 => Counted(values[LOOPS].rows[1], mark))'
        BY <1>10, <2>7, <3>3, <4>1, AdvanceSystem
      <4> QED
        BY <2>1, <2>2, <3>1, <4>1, <4>2, <4>3 DEF ReadInv, DoneInv
    <3> QED
      BY <3>2, <3>3
  <2> HIDE DEF n, vs
  <2> QED
    BY <2>1, <2>3, <2>5, <2>6, <2>7, TakeCases DEF n, vs
<1>11. CASE LoadCell
  <2>1. /\ UNCHANGED <<pc, family, plan, values, result, seen>> /\ pc = "read"
        /\ mark' = IF Head(plan) = LOOPS THEN Marked ELSE mark
    BY <1>11 DEF LoadCell, historyVars
  <2>2. CASE Head(plan) # LOOPS
    BY <1>1, <2>1, <2>2
  <2>3. CASE Head(plan) = LOOPS
    <3>1. ASSUME family = "sys"
          PROVE  (\E k \in 1 .. 6 :
                    /\ At(SystemPlan, k)
                    /\ k > 3 => SystemShape(values) = "none"
                    /\ k > 2 => Counted(values[LOOPS].rows[1], mark))'
      <4>1. PICK k \in 1 .. 6 : At(SystemPlan, k)
        BY <2>1, <3>1 DEF ReadInv
      <4>2. Head(plan) = SystemPlan[k]
        BY <4>1, FixedPlans, PlanGoesOn
      <4>3. k = 2
        BY <2>3, <4>2, FixedPlans, NamesDiffer
      <4>4. At(SystemPlan, 2)'
        BY <2>1, <4>1, <4>3 DEF At
      <4> WITNESS 2 \in 1 .. 6
      <4> QED
        BY <4>4
    <3>2. \A p, k : At(p, k)' <=> At(p, k)
      BY <2>1 DEF At
    <3>3. ReadInv'
      BY <2>1, <3>1, <3>2 DEF ReadInv
    <3> QED
      BY <2>1, <3>3 DEF DoneInv
  <2> QED
    BY <2>2, <2>3
<1> QED
  BY <1>2, <1>3, <1>4, <1>5, <1>6, <1>7, <1>8, <1>9, <1>10, <1>11 DEF Moves
-----------------------------------------------------------------------------
(* Aliases *)

\* The aliases of a directory, as they are listed and as they are meant.
LEMMA AliasesAre ==
    ASSUME NEW d \in Directories, NEW n \in DOMAIN d
    PROVE  /\ IsAlias(n) <=> n \in Subject("err", d)
           /\ n[1] = "err" /\ Len(n) > 2 <=> IsAlias(n)
           /\ Absent("err", DOMAIN d) => ~IsAlias(n)
<1>1. Len(n) \in Nat
  BY DirectoriesAssumption
<1> QED
  BY <1>1 DEF IsAlias, Subject, Absent

\* The report of the errors never loses an alias that lasts.
LEMMA AliasStep ==
    ASSUME TypeOK, SeenInv, LoadedInv, ReadInv, AliasInv, ErrorsComplete, Moves
    PROVE  AliasInv' /\ ErrorsComplete'
<1>1. ASSUME UNCHANGED <<pc, family, plan, values, result>>,
             pc # "idle" => lasting' \subseteq lasting
      PROVE  AliasInv' /\ ErrorsComplete'
  <2>1. Elements(plan)' = Elements(plan)
    BY <1>1 DEF Elements
  <2> QED
    BY <1>1, <2>1 DEF AliasInv, ErrorsComplete
<1>2. CASE Still
  BY <1>1, <1>2 DEF Still
<1>3. CASE Remap
  BY <1>3 DEF Remap, AliasInv, ErrorsComplete
<1>4. CASE Compare
  BY <1>1, <1>4 DEF Compare, historyVars
<1>5. ASSUME NEW f \in Families, Report(f) PROVE AliasInv' /\ ErrorsComplete'
  BY <1>5 DEF Report, AliasInv, ErrorsComplete
<1>6. CASE List
  <2>1. UNCHANGED <<family, directory, lasting>> /\ pc = "list" /\ lasting \subseteq DOMAIN directory
    BY <1>6 DEF List, historyVars, SeenInv
  <2>2. CASE Absent(family, DOMAIN directory)
    <3>1. Done("None", NoValues)
      BY <1>6, <2>2 DEF List
    <3>2. pc' = "done" /\ result'.tag = "None"
      BY <3>1 DEF Done, Outcome
    <3>3. family = "err" => \A n \in lasting : ~(n[1] = "err" /\ Len(n) > 2)
      BY <2>1, <2>2, AliasesAre DEF TypeOK
    <3> QED
      BY <2>1, <3>2, <3>3 DEF AliasInv, ErrorsComplete
  <2>3. ASSUME NEW p \in Plans(family, DOMAIN directory), Continue(NoValues, p)
        PROVE  AliasInv' /\ ErrorsComplete'
    <3>1. family = "err" => Elements(p) = Subject("err", directory)
      BY PlanCovers DEF TypeOK
    <3>2. family = "err" => \A n \in lasting : IsAlias(n) => n \in Elements(p)
      BY <2>1, <3>1, AliasesAre DEF TypeOK
    <3>3. CASE p = <<>>
      <4>1. pc' = "done" /\ result'.tag = "Ok"
        BY <2>3, <3>3, ContinueTypes
      <4>2. Elements(p) = {}
        BY <3>3 DEF Elements
      <4>3. family = "err" => \A n \in lasting : ~(n[1] = "err" /\ Len(n) > 2)
        BY <2>1, <3>2, <4>2, AliasesAre DEF TypeOK
      <4> QED
        BY <2>1, <4>1, <4>3 DEF AliasInv, ErrorsComplete
    <3>4. CASE p # <<>>
      <4>1. pc' = "read" /\ plan' = p
        BY <2>3, <3>4, ContinueTypes
      <4>2. Elements(plan)' = Elements(p)
        BY <4>1 DEF Elements
      <4> QED
        BY <2>1, <3>2, <4>1, <4>2 DEF AliasInv, ErrorsComplete
    <3> QED
      BY <3>3, <3>4
  <2> QED
    BY <1>6, <2>2, <2>3 DEF List
<1>7. CASE GiveUp
  <2>1. PICK t \in {"RetryExhausted", "Undecodable"} : Done(t, NoValues)
    BY <1>7 DEF GiveUp
  <2> QED
    BY <2>1 DEF Done, Outcome, AliasInv, ErrorsComplete
<1>8. CASE Return
  BY <1>8 DEF Return, AliasInv, ErrorsComplete
<1>9. CASE Publish \/ Work
  <2>1. Change
    BY <1>9 DEF Publish, Work
  <2> QED
    BY <1>1, <2>1 DEF Change
<1>10. ASSUME NEW v, Advance(v) PROVE AliasInv' /\ ErrorsComplete'
  <2> DEFINE n == Head(plan)
             vs == With(values, n, v)
  <2>1. pc = "read" /\ Take(n, v) /\ UNCHANGED <<family, directory>> /\ lasting' \subseteq lasting
    BY <1>10 DEF Advance
  <2> SUFFICES ASSUME family = "err" PROVE AliasInv' /\ ErrorsComplete'
    BY <2>1 DEF AliasInv, ErrorsComplete
  <2>2. lasting \subseteq DOMAIN directory
    BY <2>1 DEF SeenInv
  <2>3. Elements(plan) = {n} \cup Elements(Tail(plan))
    BY <2>1, NextName DEF ReadInv, TypeOK
  <2>4. \A m \in lasting : IsAlias(m) => m \in DOMAIN values \cup {n} \cup Elements(Tail(plan))
    BY <2>1, <2>3 DEF AliasInv
  <2>5. v = Missing => n \notin lasting'
    <3>1. CASE v = Assemble(Lookup(directory, n), loaded)
      <4>1. n \in DOMAIN directory => v # Missing
        BY <2>1, <3>1, AssembleIs DEF ReadErrors
      <4> QED
        BY <2>1, <2>2, <4>1
    <3>2. CASE lasting' = lasting \ {n}
      BY <3>2
    <3> QED
      BY <1>10, <3>1, <3>2 DEF Advance
  <2>6. ASSUME NEW ws, Continue(ws, Tail(plan)),
               \A m \in lasting' : IsAlias(m) => m \in DOMAIN ws \cup Elements(Tail(plan))
        PROVE  AliasInv' /\ ErrorsComplete'
    <3>1. CASE Tail(plan) = <<>>
      <4>1. pc' = "done" /\ result'.tag = "Ok" /\ result'.values = ws
        BY <2>6, <3>1, ContinueTypes
      <4>2. Elements(Tail(plan)) = {}
        BY <3>1 DEF Elements
      <4>3. \A m \in lasting' : m[1] = "err" /\ Len(m) > 2 => m \in DOMAIN ws
        BY <2>1, <2>2, <2>6, <4>2, AliasesAre DEF TypeOK
      <4> QED
        BY <4>1, <4>3 DEF AliasInv, ErrorsComplete
    <3>2. CASE Tail(plan) # <<>>
      <4>1. pc' = "read" /\ plan' = Tail(plan) /\ values' = ws
        BY <2>6, <3>2, ContinueTypes
      <4>2. Elements(plan)' = Elements(Tail(plan))
        BY <4>1 DEF Elements
      <4> QED
        BY <2>6, <4>1, <4>2 DEF AliasInv, ErrorsComplete
    <3> QED
      BY <3>1, <3>2
  <2>7. CASE v = Missing /\ Continue(values, Tail(plan))
    <3>1. \A m \in lasting' : IsAlias(m) => m \in DOMAIN values \cup Elements(Tail(plan))
      BY <2>1, <2>4, <2>5, <2>7
    <3> QED
      BY <2>6, <2>7, <3>1
  <2>8. ASSUME NEW t, t \notin {"Ok", "None", "MetricNotFound"}, Done(t, NoValues)
        PROVE  AliasInv' /\ ErrorsComplete'
    BY <2>8 DEF Done, Outcome, AliasInv, ErrorsComplete
  <2>9. CASE v # Missing /\ Defect(n, v) # "none" /\ Done(Defect(n, v), NoValues)
    <3>1. Defect(n, v) # "MetricNotFound"
      <4>1. CASE v = Assemble(Lookup(directory, n), loaded)
        <5>1. n \in DOMAIN directory /\ Defect(n, v) = Defect(n, Lookup(directory, n))
          BY <2>1, <2>9, <4>1, AssembleIs DEF Lookup
        <5> QED
          BY <5>1, MissingIsGone DEF TypeOK
      <4>2. CASE v \in ReadErrors
        <5>1. v \in {Exhausted, Undecodable}
          BY <2>9, <4>2 DEF ReadErrors
        <5>2. Defect(n, v) = v.tag
          BY <4>2 DEF Defect
        <5> QED
          BY <5>1, <5>2 DEF Exhausted, Undecodable, Value
      <4> QED
        BY <1>10, <2>9, <4>1, <4>2 DEF Advance
    <3>2. Defect(n, v) \notin {"Ok", "None"}
      BY DefectTags DEF ErrorTags, ShapeTags
    <3> QED
      BY <2>8, <2>9, <3>1, <3>2
  <2>10. CASE Mismatch(n, vs) # "none" /\ Done(Mismatch(n, vs), NoValues)
    <3>1. Mismatch(n, vs) \notin {"Ok", "None", "MetricNotFound"}
      BY MismatchTags DEF ShapeTags
    <3> QED
      BY <2>8, <2>10, <3>1
  <2>11. CASE Continue(vs, Tail(plan))
    <3>1. DOMAIN vs = DOMAIN values \cup {n}
      BY DEF With
    <3>2. \A m \in lasting' : IsAlias(m) => m \in DOMAIN vs \cup Elements(Tail(plan))
      BY <2>1, <2>4, <3>1
    <3> QED
      BY <2>6, <2>11, <3>2
  <2> HIDE DEF n, vs
  <2> QED
    BY <2>1, <2>7, <2>9, <2>10, <2>11, TakeCases DEF n, vs
<1>11. CASE LoadCell
  BY <1>1, <1>11 DEF LoadCell, historyVars
<1> QED
  BY <1>2, <1>3, <1>4, <1>5, <1>6, <1>7, <1>8, <1>9, <1>10, <1>11 DEF Moves
-----------------------------------------------------------------------------
(* Reports nothing overlaps *)

\* What directory d says of family f.
Defects(f, d) == {Defect(n, Lookup(d, n)) : n \in Subject(f, d)} \ {"none"}
Says(f, d) == [n \in Subject(f, d) |-> Kept(n, Lookup(d, n))]

\* QuietReportsAnswer, of one outcome.
Answers(f, d, tag, vs) ==
    CASE tag = "None" -> Absent(f, DOMAIN d)
      [] tag = "Ok" -> /\ ~Absent(f, DOMAIN d) /\ Defects(f, d) = {}
                       /\ Agree(f, Says(f, d)) /\ vs = Says(f, d)
      [] OTHER -> /\ ~Absent(f, DOMAIN d)
                  /\ IF Defects(f, d) = {} THEN ~Agree(f, Says(f, d))
                     ELSE tag \in Defects(f, d) \cup ShapeTags

\* QuietReportsAnswer, in terms of the answers a directory allows.
LEMMA AnswersIs ==
    ASSUME TypeOK
    PROVE  QuietReportsAnswer <=>
            (pc = "done" /\ quiet => Answers(family, directory, result.tag, result.values))
<1>1. Absent(family, DOMAIN directory) <=>
        \/ family = "node" /\ NAMES \notin DOMAIN directory
        \/ family = "err" /\ \A n \in DOMAIN directory : n[1] = "err" => Len(n) < 2
  <2>1. \A n \in DOMAIN directory : Len(n) < 2 <=> Len(n) = 1
    <3> TAKE n \in DOMAIN directory
    <3> DEFINE l == Len(n)
    <3>1. l \in Nat /\ l # 0
      BY DirectoriesAssumption DEF TypeOK
    <3> HIDE DEF l
    <3>2. l < 2 <=> l = 1
      BY <3>1
    <3> QED
      BY <3>2 DEF l
  <2> QED
    BY <2>1 DEF Absent
<1> QED
  BY <1>1, Zenon DEF QuietReportsAnswer, Answers, Defects, Says

\* What is read from one directory alone is its own,
LEMMA ReadAlone ==
    ASSUME NEW d \in Directories, NEW n \in DOMAIN d, Defect(n, d[n]) = "none",
           NEW v, ReadOf(v, n, d, {d})
    PROVE  v = Kept(n, d[n])
<1>1. CASE d[n].tag # "Simple"
  BY <1>1 DEF ReadOf
<1>2. CASE d[n].tag = "Simple"
  <2> DEFINE w == d[n]
  <2>1. w = Value("Simple", w.rows) /\ w.rows \in Seq(Seq(Nat))
    BY <1>2, MetricIsNoError
  <2>2. /\ v = Value("Simple", v.rows) /\ v.rows \in Seq(Seq(Nat)) /\ DOMAIN v.rows = DOMAIN w.rows
        /\ \A r \in DOMAIN v.rows :
            /\ DOMAIN v.rows[r] = DOMAIN w.rows[r]
            /\ \A c \in DOMAIN v.rows[r] : v.rows[r][c] = w.rows[r][c]
    BY <1>2 DEF ReadOf
  <2>3. Kept(n, w) = w
    BY <1>2, CounterIsKept
  <2> HIDE DEF w
  <2>4. \A r \in DOMAIN v.rows : v.rows[r] = w.rows[r]
    <3> TAKE r \in DOMAIN v.rows
    <3>1. v.rows[r] \in Seq(Nat) /\ w.rows[r] \in Seq(Nat)
      BY <2>1, <2>2
    <3>2. v.rows[r] = [c \in DOMAIN v.rows[r] |-> v.rows[r][c]]
          /\ w.rows[r] = [c \in DOMAIN w.rows[r] |-> w.rows[r][c]]
      BY <3>1
    <3> QED
      BY <2>2, <3>2
  <2>5. v.rows = [r \in DOMAIN v.rows |-> v.rows[r]] /\ w.rows = [r \in DOMAIN w.rows |-> w.rows[r]]
    BY <2>1, <2>2
  <2>6. v.rows = w.rows
    BY <2>2, <2>4, <2>5
  <2> QED
    BY <2>1, <2>2, <2>3, <2>6 DEF w
<1> QED
  BY <1>1, <1>2

\* and its own value may be read from it, among others.
LEMMA OwnRead ==
    ASSUME NEW ds, NEW d \in Directories, d \in ds, NEW n \in DOMAIN d, Defect(n, d[n]) = "none"
    PROVE  ReadOf(Kept(n, d[n]), n, d, ds)
<1>1. CASE d[n].tag # "Simple"
  BY <1>1 DEF ReadOf
<1>2. CASE d[n].tag = "Simple"
  <2>1. d[n] = Value("Simple", d[n].rows) /\ d[n].rows \in Seq(Seq(Nat))
    BY <1>2, MetricIsNoError
  <2>2. Kept(n, d[n]) = d[n]
    BY <1>2, CounterIsKept
  <2>3. SameLayout(d, d)
    BY LayoutsAgree
  <2> QED
    BY <1>2, <2>1, <2>2, <2>3 DEF ReadOf
<1> QED
  BY <1>1, <1>2

\* What was read from one directory alone is what it says.
LEMMA ReadsSay ==
    ASSUME NEW d \in Directories, NEW f, NEW vs, ReadFrom(vs, {d}), NEW n \in DOMAIN vs,
           n \in Subject(f, d)
    PROVE  Defect(n, Lookup(d, n)) = "none" /\ vs[n] = Says(f, d)[n]
<1>1. n \in DOMAIN d /\ Defect(n, d[n]) = "none" /\ vs[n] = Kept(n, d[n])
  BY ReadAlone DEF ReadFrom
<1>2. Lookup(d, n) = d[n]
  BY <1>1 DEF Lookup
<1> QED
  BY <1>1, <1>2 DEF Says

\* The four ways to answer.
LEMMA AnswerNone ==
    ASSUME NEW d, NEW f, NEW vs, Absent(f, DOMAIN d)
    PROVE  Answers(f, d, "None", vs)
BY DEF Answers

\* Values read of one directory that agree are its answer;
LEMMA AnswerOk ==
    ASSUME NEW d \in Directories, NEW f, ~Absent(f, DOMAIN d),
           NEW vs, vs = [n \in DOMAIN vs |-> vs[n]],
           ReadFrom(vs, {d}), DOMAIN vs = Subject(f, d), Agree(f, vs)
    PROVE  Answers(f, d, "Ok", vs)
<1>1. \A n \in Subject(f, d) : Defect(n, Lookup(d, n)) = "none" /\ vs[n] = Says(f, d)[n]
  BY ReadsSay
<1>2. Defects(f, d) = {}
  BY <1>1 DEF Defects
<1>3. vs = Says(f, d)
  BY <1>1 DEF Says
<1> QED
  BY <1>2, <1>3 DEF Answers

\* so is the defect of a value the report has to read,
LEMMA AnswerDefect ==
    ASSUME NEW d, NEW f, ~Absent(f, DOMAIN d), NEW n \in Subject(f, d), NEW vs,
           Defect(n, Lookup(d, n)) # "none"
    PROVE  Answers(f, d, Defect(n, Lookup(d, n)), vs)
<1> DEFINE t == Defect(n, Lookup(d, n))
<1>1. t \notin {"None", "Ok"}
  BY DefectTags DEF ErrorTags, ShapeTags
<1>2. t \in Defects(f, d)
  BY DEF Defects
<1> HIDE DEF t
<1>3. Answers(f, d, t, vs)
  BY <1>1, <1>2 DEF Answers
<1> QED
  BY <1>3 DEF t

\* and a shape error of a directory whose values do not agree.
LEMMA AnswerMismatch ==
    ASSUME NEW d, NEW f, ~Absent(f, DOMAIN d), NEW t \in ShapeTags, NEW vs,
           Defects(f, d) = {} => ~Agree(f, Says(f, d))
    PROVE  Answers(f, d, t, vs)
BY DEF Answers, ShapeTags
\* A mismatch within one directory is one of its values, if these have no defect.
LEMMA MismatchSays ==
    ASSUME TypeOK, SeenInv, ReadInv, pc = "read", quiet, NEW vs, NEW v,
           vs = With(values, Head(plan), v),
           ReadFrom(vs, {directory}), DOMAIN vs \subseteq Subject(family, directory),
           Mismatch(Head(plan), vs) # "none", Defects(family, directory) = {}
    PROVE  ~Agree(family, Says(family, directory))
<1> DEFINE ws == Says(family, directory)
<1>1. DOMAIN ws = Subject(family, directory)
  BY DEF Says
<1>2. \A n \in DOMAIN vs : vs[n] = ws[n]
  BY ReadsSay DEF TypeOK
<1>3. ReadFrom(ws, Directories)
  <2>0. directory \in Directories
    BY DEF TypeOK
  <2> SUFFICES ASSUME NEW n \in Subject(family, directory)
               PROVE  /\ n \in DOMAIN directory /\ Defect(n, directory[n]) = "none"
                      /\ ReadOf(ws[n], n, directory, Directories)
    BY <1>1, <2>0 DEF ReadFrom
  <2>1. Defect(n, Lookup(directory, n)) = "none"
    BY DEF Defects
  <2>2. n \in DOMAIN directory /\ Lookup(directory, n) = directory[n]
    BY <2>0, <2>1, FoundIsThere
  <2>3. ws[n] = Kept(n, directory[n])
    BY <2>2 DEF Says
  <2> HIDE DEF ws
  <2> QED
    BY <2>0, <2>1, <2>2, <2>3, OwnRead
<1> HIDE DEF ws
<1>4. CASE family = "node"
  <2>1. PICK k \in 1 .. 6 : At(NodePlan, k)
    BY <1>4 DEF ReadInv
  <2>2. k \in 1 .. Len(NodePlan)
    BY FixedPlans
  <2>3. Head(plan) = NodePlan[k] /\ DOMAIN vs = {NodePlan[i] : i \in 1 .. k}
    BY <2>1, <2>2, FixedPlans, PlanGoesOn
  <2>4. Counters \cup {NAMES, WORKERS} \subseteq DOMAIN ws
    BY <1>1, <1>4 DEF Subject
  <2>5. Head(plan) \in {SUSPENDS, WORKERS}
    BY <1>4 DEF Mismatch
  <2>6. k \in {5, 6}
    BY <2>3, <2>5, FixedPlans, NamesDiffer DEF Counters
  <2>7. Counters \cup {NAMES} \subseteq DOMAIN vs
    <3>1. 1 \in 1 .. k /\ 2 \in 1 .. k /\ 3 \in 1 .. k /\ 4 \in 1 .. k /\ 5 \in 1 .. k
      BY <2>6
    <3>2. {NAMES, CLOCKS, VECTORS, CALLS, SUSPENDS} \subseteq DOMAIN vs
      BY <2>3, <3>1, FixedPlans
    <3> QED
      BY <3>2 DEF Counters
  <2>8. NodeShape(ws) = NodeShape(vs)
    BY <1>2, <2>7, ChecksKeep
  <2>9. CASE Head(plan) = SUSPENDS
    <3>1. SUSPENDS # WORKERS
      BY NamesDiffer DEF Counters
    <3>2. NodeShape(vs) # "none"
      BY <1>4, <2>9, <3>1 DEF Mismatch
    <3> QED
      BY <1>3, <1>4, <2>4, <2>8, <3>2, NodeAgrees DEF ws
  <2>10. CASE Head(plan) = WORKERS
    <3>1. SUSPENDS # WORKERS
      BY NamesDiffer DEF Counters
    <3>2. NodeThreads(vs) # "none"
      BY <1>4, <2>10, <3>1 DEF Mismatch
    <3>3. WORKERS \in DOMAIN vs /\ CLOCKS \in DOMAIN vs
      BY <2>7, <2>10 DEF With, Counters
    <3>4. NodeThreads(ws) = NodeThreads(vs)
      BY <1>2, <3>3, ChecksKeep
    <3> QED
      BY <1>3, <1>4, <2>4, <3>2, <3>4, NodeAgrees DEF ws
  <2> QED
    BY <2>5, <2>9, <2>10
<1>5. CASE family = "sys"
  <2>1. PICK k \in 1 .. 6 : At(SystemPlan, k)
    BY <1>5 DEF ReadInv
  <2>2. k \in 1 .. Len(SystemPlan)
    BY FixedPlans
  <2>3. Head(plan) = SystemPlan[k] /\ DOMAIN vs = {SystemPlan[i] : i \in 1 .. k}
    BY <2>1, <2>2, FixedPlans, PlanGoesOn
  <2>4. Head(plan) = RATES /\ SystemShape(vs) # "none"
    BY <1>5 DEF Mismatch
  <2>5. k = 3
    BY <2>3, <2>4, FixedPlans, NamesDiffer
  <2>6. {LOOPS, RATES, WORKERS} \subseteq DOMAIN vs
    <3>1. 1 \in 1 .. k /\ 2 \in 1 .. k /\ 3 \in 1 .. k
      BY <2>5
    <3> QED
      BY <2>3, <3>1, FixedPlans
  <2>7. SystemShape(ws) = SystemShape(vs)
    BY <1>2, <2>6, ChecksKeep
  <2> QED
    BY <1>5, <2>4, <2>7, SystemAgrees DEF ws
<1>6. CASE family \notin {"node", "sys"}
  BY <1>6 DEF Mismatch
<1> QED
  BY <1>4, <1>5, <1>6

\* A report nothing overlaps answers from its directory.
LEMMA QuietStep ==
    ASSUME TypeOK, TypeOK', SeenInv, LoadedInv, ReadInv, QuietInv, QuietReportsAnswer, Moves, DoneInv'
    PROVE  QuietInv' /\ QuietReportsAnswer'
<1> DEFINE Q == pc = "done" /\ quiet => Answers(family, directory, result.tag, result.values)
<1>q. QuietReportsAnswer <=> Q
  BY AnswersIs
<1>p. QuietReportsAnswer' <=>
        (pc' = "done" /\ quiet' => Answers(family', directory', result'.tag, result'.values))
  <2>1. TypeOK' => (QuietReportsAnswer' <=> Q')
    BY AnswersIs, PTL
  <2>2. Q' <=> (pc' = "done" /\ quiet' =>
                    Answers(family', directory', result'.tag, result'.values))
    OBVIOUS
  <2> QED
    BY <2>1, <2>2
<1> SUFFICES /\ QuietInv'
             /\ pc' = "done" /\ quiet' => Answers(family', directory', result'.tag, result'.values)
  BY <1>p
<1> DEFINE Goal == /\ QuietInv'
                   /\ pc' = "done" /\ quiet' =>
                        Answers(family', directory', result'.tag, result'.values)
<1>v. ASSUME pc' = "idle" \/ pc' = "list" \/ quiet' = FALSE PROVE Goal
  BY <1>v DEF QuietInv
<1>1. ASSUME UNCHANGED <<pc, family, plan, values, result, directory, quiet>> PROVE Goal
  <2>1. Elements(plan)' = Elements(plan)
    BY <1>1 DEF Elements
  <2>2. Subject(family, directory)' = Subject(family, directory)
    BY <1>1 DEF Subject
  <2>3. QuietInv'
    BY <1>1, <2>1, <2>2 DEF QuietInv
  <2> QED
    BY <1>1, <1>q, <2>3
<1>2. CASE Still
  BY <1>1, <1>2 DEF Still
<1>3. CASE Remap
  BY <1>3, <1>v DEF Remap
<1>4. CASE Compare
  BY <1>1, <1>4 DEF Compare, historyVars
<1>5. ASSUME NEW f \in Families, Report(f) PROVE Goal
  <2>1. CASE pc' = "list"
    BY <1>v, <2>1
  <2>2. CASE pc' = "read"
    <3>1. /\ family' = f /\ f = "sys" /\ plan' \in Plans(f, {}) /\ directory' = directory
          /\ values' = NoValues
      BY <1>5, <2>2 DEF Report, SeenInv
    <3>2. plan' \in Plans("sys", DOMAIN directory)
      BY <3>1 DEF Plans
    <3>3. Elements(plan') = Subject("sys", directory)
      BY <3>2, PlanCovers DEF Families, TypeOK
    <3>4. ~Absent("sys", DOMAIN directory) /\ DOMAIN NoValues = {}
      BY DEF Absent, NoValues
    <3> QED
      BY <2>2, <3>1, <3>3, <3>4 DEF QuietInv
  <2> QED
    BY <1>5, <2>1, <2>2 DEF Report
<1>6. CASE List
  <2>1. UNCHANGED <<family, directory, seen>> /\ pc = "list" /\ family # "sys"
    BY <1>6 DEF List, historyVars, SeenInv
  <2>2. CASE Absent(family, DOMAIN directory)
    <3>1. Done("None", NoValues)
      BY <1>6, <2>2 DEF List
    <3>2. pc' = "done" /\ result'.tag = "None"
      BY <3>1 DEF Done, Outcome
    <3> QED
      BY <2>1, <2>2, <3>2, AnswerNone DEF QuietInv
  <2>3. ASSUME ~Absent(family, DOMAIN directory),
               NEW p \in Plans(family, DOMAIN directory), Continue(NoValues, p)
        PROVE  Goal
    <3>1. Elements(p) = Subject(family, directory)
      BY PlanCovers DEF TypeOK
    <3>2. DOMAIN NoValues = {} /\ NoValues = [n \in DOMAIN NoValues |-> NoValues[n]]
      BY DEF NoValues
    <3>3. CASE p = <<>>
      <4>1. pc' = "done" /\ result'.tag = "Ok" /\ result'.values = NoValues
        BY <2>3, <3>3, ContinueTypes
      <4>2. Subject(family, directory) = {}
        BY <3>1, <3>3 DEF Elements
      <4>3. Agree(family, NoValues)
        BY <2>1, <4>1 DEF DoneInv
      <4>4. Answers(family, directory, "Ok", NoValues)
        BY <2>3, <3>2, <4>2, <4>3, NothingRead, AnswerOk DEF TypeOK
      <4> QED
        BY <2>1, <4>1, <4>4 DEF QuietInv
    <3>4. CASE p # <<>>
      <4>1. pc' = "read" /\ plan' = p /\ values' = NoValues
        BY <2>3, <3>4, ContinueTypes
      <4>2. Elements(plan)' = Elements(p)
        BY <4>1 DEF Elements
      <4>3. Subject(family, directory)' = Subject(family, directory)
        BY <2>1 DEF Subject
      <4> QED
        BY <2>1, <2>3, <3>1, <3>2, <4>1, <4>2, <4>3 DEF QuietInv
    <3> QED
      BY <3>3, <3>4
  <2> QED
    BY <1>6, <2>2, <2>3 DEF List
<1>7. CASE GiveUp
  BY <1>v, <1>7 DEF GiveUp
<1>8. CASE Return
  BY <1>v, <1>8 DEF Return
<1>9. CASE Publish \/ Work
  <2>0. Change
    BY <1>9 DEF Publish, Work
  <2>1. CASE pc = "idle"
    BY <2>0, <2>1, <1>v DEF Change
  <2>2. CASE pc # "idle"
    BY <2>0, <2>2, <1>v DEF Change
  <2> QED
    BY <2>1, <2>2
<1>10. ASSUME NEW v, Advance(v) PROVE Goal
  <2> DEFINE n == Head(plan)
             vs == With(values, n, v)
  <2>1. pc = "read" /\ Take(n, v) /\ UNCHANGED <<family, directory>>
        /\ seen' \in {seen, {directory}}
    BY <1>10 DEF Advance
  <2>2. CASE quiet' = FALSE
    BY <1>v, <2>2
  <2>3. CASE quiet' # FALSE
    <3>0. v = Assemble(Lookup(directory, n), loaded) /\ quiet' = quiet
      BY <1>10, <2>3 DEF Advance
    <3>2. quiet
      BY <2>3, <3>0 DEF TypeOK
    <3>1. v = Lookup(directory, n) /\ quiet' = quiet
      BY <2>1, <3>0, <3>2, AssembleIs
    <3>3. /\ ~Absent(family, DOMAIN directory) /\ seen = {directory}
          /\ DOMAIN values \cup Elements(plan) = Subject(family, directory)
      BY <2>1, <3>2 DEF QuietInv, SeenInv
    <3>4. Elements(plan) = {n} \cup Elements(Tail(plan)) /\ n \in Elements(plan)
      BY <2>1, NextName DEF ReadInv, TypeOK
    <3>5. n \in Subject(family, directory)
      BY <3>3, <3>4
    <3>6. CASE family = "err" /\ v = Missing
      <4>1. n \in DOMAIN directory
        BY <3>5, <3>6 DEF Subject
      <4> QED
        BY <3>1, <3>6, <4>1, MissingIsGone DEF TypeOK
    <3>7. CASE Defect(n, v) # "none" /\ Done(Defect(n, v), NoValues)
      <4>1. pc' = "done" /\ result'.tag = Defect(n, v)
        BY <3>7 DEF Done, Outcome
      <4>2. Answers(family, directory, Defect(n, v), result'.values)
        BY <3>1, <3>3, <3>5, <3>7, AnswerDefect
      <4> QED
        BY <2>1, <4>1, <4>2 DEF QuietInv
    <3>8. DOMAIN vs = DOMAIN values \cup {n} /\ vs = [m \in DOMAIN vs |-> vs[m]]
      BY DEF With
    <3>9. DOMAIN vs \subseteq Subject(family, directory)
      BY <3>3, <3>5, <3>8
    <3>10. Defect(n, v) = "none" => ReadFrom(vs, {directory})
      BY <1>10, <2>1, <3>3, AdvanceKept
    <3>11. CASE /\ Defect(n, v) = "none" /\ Mismatch(n, vs) # "none"
                /\ Done(Mismatch(n, vs), NoValues)
      <4>1. pc' = "done" /\ result'.tag = Mismatch(n, vs)
        BY <3>11 DEF Done, Outcome
      <4>2. Mismatch(n, vs) \in ShapeTags
        BY <3>11, MismatchTags
      <4>3. Defects(family, directory) = {} => ~Agree(family, Says(family, directory))
        BY <2>1, <3>2, <3>9, <3>10, <3>11, MismatchSays
      <4>4. Answers(family, directory, Mismatch(n, vs), result'.values)
        BY <3>3, <4>2, <4>3, AnswerMismatch
      <4> QED
        BY <2>1, <4>1, <4>4 DEF QuietInv
    <3>12. CASE Defect(n, v) = "none" /\ Continue(vs, Tail(plan))
      <4>1. CASE Tail(plan) = <<>>
        <5>1. pc' = "done" /\ result'.tag = "Ok" /\ result'.values = vs
          BY <3>12, <4>1, ContinueTypes
        <5>2. Elements(Tail(plan)) = {}
          BY <4>1 DEF Elements
        <5>3. DOMAIN vs = Subject(family, directory)
          BY <3>3, <3>4, <3>8, <5>2
        <5>4. Agree(family, vs)
          BY <2>1, <5>1 DEF DoneInv
        <5> HIDE DEF vs
        <5>5. Answers(family, directory, "Ok", vs)
          BY <3>3, <3>8, <3>10, <3>12, <5>3, <5>4, AnswerOk DEF TypeOK
        <5> QED
          BY <2>1, <5>1, <5>5 DEF QuietInv
      <4>2. CASE Tail(plan) # <<>>
        <5>1. pc' = "read" /\ plan' = Tail(plan) /\ values' = vs
          BY <3>12, <4>2, ContinueTypes
        <5>2. Elements(plan)' = Elements(Tail(plan))
          BY <5>1 DEF Elements
        <5>3. Subject(family, directory)' = Subject(family, directory)
          BY <2>1 DEF Subject
        <5>4. DOMAIN vs \cup Elements(Tail(plan)) = Subject(family, directory)
          BY <3>3, <3>4, <3>8
        <5> QED
          BY <2>1, <3>3, <5>1, <5>2, <5>3, <5>4 DEF QuietInv
      <4> QED
        BY <4>1, <4>2
    <3> HIDE DEF n, vs, Goal
    <3> QED
      BY <2>1, <3>6, <3>7, <3>11, <3>12, TakeCases DEF n, vs
  <2> QED
    BY <2>2, <2>3
<1>11. CASE LoadCell
  BY <1>1, <1>11 DEF LoadCell, historyVars
<1> QED
  BY <1>2, <1>3, <1>4, <1>5, <1>6, <1>7, <1>8, <1>9, <1>10, <1>11 DEF Moves
-----------------------------------------------------------------------------
(* Samples of the main loops *)

\* The counts of a directory are a vector of numbers.
LEMMA LoopsAre == \A d \in Directories : Loops(d) \in Seq(Nat)
<1> TAKE d \in Directories
<1>1. CASE LOOPS \in DOMAIN d /\ d[LOOPS].tag = "Simple" /\ Len(d[LOOPS].rows) = 1
  <2>1. d[LOOPS].rows \in Seq(Seq(Nat))
    BY <1>1, DirectoriesAssumption
  <2>2. d[LOOPS].rows[1] \in Seq(Nat)
    BY <1>1, <2>1
  <2> QED
    BY <1>1, <2>2 DEF Loops
<1>2. CASE ~(LOOPS \in DOMAIN d /\ d[LOOPS].tag = "Simple" /\ Len(d[LOOPS].rows) = 1)
  BY <1>2 DEF Loops
<1> QED
  BY <1>1, <1>2

\* What has passed stays passed, in this run and in the next.
LEMMA PastGoesOn ==
    ASSUME NEW a \in Ran, NEW b \in Ran, a.breaks <= b.breaks, NEW on, NEW onn,
           onn /\ a.breaks = b.breaks => on /\ GrownTo(a, b),
           NEW m \in Seq(Mark), PastOf(m, a, on)
    PROVE  PastOf(m, b, onn)
<1> SUFFICES ASSUME NEW c \in DOMAIN m
             PROVE  /\ m[c].breaks <= b.breaks
                    /\ onn /\ m[c].breaks = b.breaks =>
                        c \in DOMAIN b.total /\ m[c].total <= b.total[c]
  BY DEF PastOf
<1>1. m[c] \in Mark /\ a.breaks \in Nat /\ b.breaks \in Nat
  BY DEF Ran
<1>2. m[c].breaks \in Nat /\ m[c].total \in Nat
  BY <1>1 DEF Mark
<1>3. m[c].breaks <= a.breaks /\ m[c].breaks <= b.breaks
  BY <1>1, <1>2 DEF PastOf
<1>4. ASSUME onn, m[c].breaks = b.breaks PROVE c \in DOMAIN b.total /\ m[c].total <= b.total[c]
  <2>1. a.breaks = b.breaks /\ on /\ GrownTo(a, b)
    BY <1>1, <1>3, <1>4
  <2>2. c \in DOMAIN a.total /\ m[c].total <= a.total[c]
    BY <1>4, <2>1 DEF PastOf
  <2>3. c \in DOMAIN b.total /\ a.total[c] <= b.total[c]
    BY <2>1, <2>2 DEF GrownTo
  <2>4. a.total[c] \in Nat /\ b.total[c] \in Nat
    BY <2>2, <2>3 DEF Ran
  <2> QED
    BY <1>2, <2>2, <2>3, <2>4
<1> QED
  BY <1>3, <1>4

\* A publication continues the run of the counters or begins another.
LEMMA LoopedGrows ==
    ASSUME looped \in Ran, NEW before \in Seq(Nat), NEW after \in Seq(Nat),
           looped.total = before, NEW on, on = LoopedOn(before, after)
    PROVE  /\ on \in Ran /\ on.total = after /\ on.breaks >= looped.breaks
           /\ on.breaks = looped.breaks => GrownTo(looped, on)
<1>0. looped.breaks \in Nat
  BY DEF Ran
<1>1. CASE Len(before) = Len(after) /\ \A i \in DOMAIN after : after[i] >= before[i]
  <2> DEFINE t == [i \in DOMAIN after |-> looped.total[i] + (after[i] - before[i])]
  <2>1. on = [looped EXCEPT !.total = t]
    BY <1>1 DEF LoopedOn
  <2>2. DOMAIN before = DOMAIN after /\ Len(after) \in Nat /\ DOMAIN after = 1 .. Len(after)
    BY <1>1
  <2>3. \A i \in DOMAIN after : t[i] = after[i]
    <3> TAKE i \in DOMAIN after
    <3>1. before[i] \in Nat /\ after[i] \in Nat
      BY <2>2
    <3> QED
      BY <3>1
  <2>4. t = after
    <3>1. after = [i \in DOMAIN after |-> after[i]]
      OBVIOUS
    <3> QED
      BY <2>3, <3>1
  <2> HIDE DEF t
  <2>5. on.total = after /\ on.breaks = looped.breaks /\ on \in Ran
    BY <2>1, <2>4 DEF Ran
  <2>6. \A i \in DOMAIN after : before[i] <= after[i]
    BY <1>1, <2>2
  <2> QED
    BY <1>0, <2>2, <2>5, <2>6 DEF GrownTo
<1>2. CASE ~(Len(before) = Len(after) /\ \A i \in DOMAIN after : after[i] >= before[i])
  <2>1. on = [breaks |-> looped.breaks + 1, total |-> after]
    BY <1>2 DEF LoopedOn
  <2> QED
    BY <1>0, <2>1 DEF Ran
<1> QED
  BY <1>1, <1>2

\* The samples kept, and a mark that stays, are of the runs before and of this one.
LEMMA RunGoesOn ==
    ASSUME LoopInv, looped' \in Ran, looped.breaks <= looped'.breaks,
           stage' = "connected" /\ looped.breaks = looped'.breaks =>
                stage = "connected" /\ GrownTo(looped, looped'),
           stage' = "connected" => looped'.total = Loops(directory'),
           UNCHANGED <<mark, samples>>, sampled \in Nat, sampled' \in Nat, sampled <= sampled',
           MarkedInv'
    PROVE  LoopInv'
<1>1. \A m \in Seq(Mark) : PastOf(m, looped, stage = "connected")
                            => PastOf(m, looped', stage' = "connected")
  <2> TAKE m \in Seq(Mark)
  <2>1. looped \in Ran
    BY DEF LoopInv
  <2> QED
    BY <2>1, PastGoesOn
<1>2. Past(mark)'
  BY <1>1 DEF LoopInv, Past
<1>3. \A i \in DOMAIN samples :
        /\ Counted(samples[i].counts, samples[i].mark) /\ samples[i].at <= sampled'
        /\ PastOf(samples[i].mark, looped', stage' = "connected")
        /\ Before(samples[i].mark, mark)
  <2> TAKE i \in DOMAIN samples
  <2>1. samples[i] \in Sample
    BY DEF LoopInv
  <2>2. samples[i].mark \in Seq(Mark) /\ samples[i].at \in Nat
    BY <2>1 DEF Sample
  <2>3. /\ Counted(samples[i].counts, samples[i].mark) /\ samples[i].at <= sampled
        /\ PastOf(samples[i].mark, looped, stage = "connected")
        /\ Before(samples[i].mark, mark)
    BY DEF LoopInv, Past
  <2>4. samples[i].at <= sampled'
    BY <2>2, <2>3
  <2> QED
    BY <1>1, <2>2, <2>3, <2>4
<1>4. /\ mark' = mark /\ samples' = samples /\ mark \in Seq(Mark) /\ samples \in Seq(Sample)
      /\ \A i, j \in DOMAIN samples : i <= j =>
            /\ samples[i].at <= samples[j].at
            /\ Before(samples[i].mark, samples[j].mark)
  BY DEF LoopInv
<1> QED
  BY <1>2, <1>3, <1>4 DEF LoopInv, Past

\* A mark that is made is of this run, after all there was of it before.
LEMMA MarkGoesOn ==
    ASSUME LoopInv, stage = "connected", stage' = "connected", pc = "read", Head(plan) = LOOPS,
           UNCHANGED <<looped, directory, samples, sampled>>, mark' = Marked, MarkedInv'
    PROVE  LoopInv'
<1>1. /\ looped \in Ran /\ looped.breaks \in Nat /\ looped.total \in Seq(Nat) /\ mark \in Seq(Mark)
      /\ PastOf(mark, looped, TRUE)
  BY DEF LoopInv, Ran, Past
<1>2. /\ DOMAIN Marked = DOMAIN looped.total
      /\ \A c \in DOMAIN Marked :
            \/ c \in DOMAIN mark /\ Marked[c] = mark[c]
            \/ Marked[c].breaks = looped.breaks /\ Marked[c].total = looped.total[c]
      /\ \A c \in DOMAIN Marked : Marked[c] \in Mark
  <2>1. \A c \in DOMAIN looped.total : <<1, c>> \in DOMAIN loaded => c \in DOMAIN mark
    BY DEF LoopInv, MarkedInv
  <2>2. \A c \in DOMAIN looped.total : looped.total[c] \in Nat
    BY <1>1
  <2>3. \A c \in DOMAIN mark : mark[c] \in Mark
    BY <1>1
  <2> QED
    BY <1>1, <2>1, <2>2, <2>3 DEF Marked, Mark
<1>3. Marked \in Seq(Mark)
  <2>1. DOMAIN looped.total = 1 .. Len(looped.total) /\ Len(looped.total) \in Nat
    BY <1>1
  <2>2. Marked = [c \in 1 .. Len(looped.total) |-> Marked[c]]
    BY <2>1 DEF Marked
  <2>3. Marked \in [1 .. Len(looped.total) -> Mark]
    BY <1>2, <2>1, <2>2, Zenon
  <2> QED
    BY <2>1, <2>3, SeqDef
<1>4. PastOf(Marked, looped, TRUE)
  <2> SUFFICES ASSUME NEW c \in DOMAIN Marked
               PROVE  /\ Marked[c].breaks <= looped.breaks
                      /\ Marked[c].breaks = looped.breaks =>
                            c \in DOMAIN looped.total /\ Marked[c].total <= looped.total[c]
    BY DEF PastOf
  <2>1. c \in DOMAIN looped.total /\ looped.total[c] \in Nat
    BY <1>1, <1>2
  <2>2. CASE c \in DOMAIN mark /\ Marked[c] = mark[c]
    BY <1>1, <2>1, <2>2 DEF PastOf
  <2>3. CASE Marked[c].breaks = looped.breaks /\ Marked[c].total = looped.total[c]
    BY <1>1, <2>1, <2>3
  <2> QED
    BY <1>2, <2>2, <2>3
<1>5. \A i \in DOMAIN samples : Before(samples[i].mark, Marked)
  <2> TAKE i \in DOMAIN samples
  <2> DEFINE m == samples[i].mark
  <2>1. PastOf(m, looped, TRUE) /\ Before(m, mark)
    BY DEF LoopInv, Past
  <2> HIDE DEF m
  <2> SUFFICES ASSUME NEW c \in DOMAIN m \cap DOMAIN Marked, m[c].breaks = Marked[c].breaks
               PROVE  m[c].total <= Marked[c].total
    BY DEF Before, m
  <2>2. CASE c \in DOMAIN mark /\ Marked[c] = mark[c]
    BY <2>1, <2>2 DEF Before
  <2>3. CASE Marked[c].breaks = looped.breaks /\ Marked[c].total = looped.total[c]
    BY <2>1, <2>3 DEF PastOf
  <2> QED
    BY <1>2, <2>2, <2>3
<1>6. /\ samples \in Seq(Sample) /\ looped.total = Loops(directory)
      /\ \A i \in DOMAIN samples :
            /\ Counted(samples[i].counts, samples[i].mark) /\ samples[i].at <= sampled
            /\ PastOf(samples[i].mark, looped, TRUE)
      /\ \A i, j \in DOMAIN samples : i <= j =>
            /\ samples[i].at <= samples[j].at
            /\ Before(samples[i].mark, samples[j].mark)
  BY DEF LoopInv, Past
<1> QED
  BY <1>1, <1>3, <1>4, <1>5, <1>6 DEF LoopInv, Past

\* Work has the same loops, with other counts.
LEMMA SameLoops ==
    ASSUME NEW d \in Directories, NEW e \in Directories, SameLayout(d, e)
    PROVE  DOMAIN Loops(d) = DOMAIN Loops(e)
<1>1. CASE LOOPS \in DOMAIN d /\ d[LOOPS].tag = "Simple"
  <2>1. /\ LOOPS \in DOMAIN e /\ e[LOOPS].tag = "Simple"
        /\ DOMAIN d[LOOPS].rows = DOMAIN e[LOOPS].rows
        /\ \A r \in DOMAIN d[LOOPS].rows : DOMAIN d[LOOPS].rows[r] = DOMAIN e[LOOPS].rows[r]
    BY <1>1 DEF SameLayout
  <2>2. d[LOOPS].rows \in Seq(Seq(Nat)) /\ e[LOOPS].rows \in Seq(Seq(Nat))
    BY <1>1, <2>1, MetricIsNoError
  <2> DEFINE a == Len(d[LOOPS].rows)
             b == Len(e[LOOPS].rows)
  <2>3. a \in Nat /\ b \in Nat /\ DOMAIN d[LOOPS].rows = 1 .. a /\ DOMAIN e[LOOPS].rows = 1 .. b
    BY <2>2, LenProperties
  <2> HIDE DEF a, b
  <2>4. a = b
    <3>1. 1 .. a = 1 .. b => a = b
      BY <2>3
    <3> QED
      BY <2>1, <2>3, <3>1
  <2>5. a = 1 => 1 \in DOMAIN d[LOOPS].rows
    BY <2>3
  <2> QED
    BY <1>1, <2>1, <2>4, <2>5 DEF Loops, a, b
<1>2. CASE ~(LOOPS \in DOMAIN d /\ d[LOOPS].tag = "Simple")
  <2>1. ~(LOOPS \in DOMAIN e /\ e[LOOPS].tag = "Simple")
    BY <1>2 DEF SameLayout
  <2> QED
    BY <1>2, <2>1 DEF Loops
<1> QED
  BY <1>1, <1>2

\* The cell loaded of the loops' counts is the one marked.
LEMMA LoadedIsMarked ==
    ASSUME TypeOK, LoopInv, stage = "connected", LoadCell
    PROVE  MarkedInv'
<1> SUFFICES ASSUME Head(plan) = LOOPS, NEW c \in DOMAIN looped.total, <<1, c>> \in DOMAIN loaded'
             PROVE  c \in DOMAIN Marked /\ Marked[c].total = loaded'[<<1, c>>]
  BY DEF LoadCell, historyVars, MarkedInv
<1> DEFINE v == Lookup(directory, LOOPS)
<1>1. PICK p : /\ p \notin DOMAIN loaded
               /\ loaded' = [q \in DOMAIN loaded \cup {p} |->
                                IF q = p THEN v.rows[p[1]][p[2]] ELSE loaded[q]]
  BY DEF LoadCell
<1>2. c \in DOMAIN Marked
  BY DEF Marked
<1>3. CASE <<1, c>> \in DOMAIN loaded
  <2>1. Marked[c].total = loaded[<<1, c>>]
    BY <1>3 DEF LoadCell, LoopInv, MarkedInv, Marked
  <2> QED
    BY <1>1, <1>2, <1>3, <2>1
<1>4. CASE <<1, c>> \notin DOMAIN loaded
  <2>1. Marked[c].total = looped.total[c]
    BY <1>4 DEF Marked
  <2>2. p = <<1, c>>
    BY <1>1, <1>4
  <2>3. loaded'[<<1, c>>] = v.rows[1][c]
    BY <1>1, <2>2
  <2>4. c \in DOMAIN Loops(directory) /\ looped.total = Loops(directory)
    BY DEF LoopInv
  <2>5. Loops(directory) = v.rows[1]
    <3>1. DOMAIN <<>> = {}
      OBVIOUS
    <3> QED
      BY <2>4, <3>1 DEF Loops, Lookup
  <2> QED
    BY <1>2, <2>1, <2>3, <2>4, <2>5
<1> QED
  BY <1>3, <1>4

\* Samples stay in the order of the loops' history.
LEMMA LoopStep ==
    ASSUME TypeOK, LoadedInv, DoneInv, LoopInv, Moves
    PROVE  LoopInv'
<1>t. /\ looped \in Ran /\ looped.breaks \in Nat /\ sampled \in Nat
  BY DEF LoopInv, Ran, TypeOK
<1>n. loaded' = NoCells => MarkedInv'
  BY DEF MarkedInv, NoCells
<1>m. pc' # "read" => MarkedInv'
  BY DEF MarkedInv
<1>u. UNCHANGED <<pc, plan, loaded, mark, looped>> => MarkedInv'
  BY DEF LoopInv, MarkedInv
<1>1. ASSUME UNCHANGED <<mark, samples, looped, directory>>, sampled' \in Nat, sampled <= sampled',
             stage' = "connected" => stage = "connected", MarkedInv'
      PROVE  LoopInv'
  <2>1. GrownTo(looped, looped)
    <3>1. \A i \in DOMAIN looped.total : looped.total[i] \in Nat
      BY <1>t DEF Ran
    <3> QED
      BY <3>1 DEF GrownTo
  <2>2. stage = "connected" => looped.total = Loops(directory)
    BY DEF LoopInv
  <2>3. looped' = looped /\ directory' = directory /\ looped.breaks <= looped.breaks
    BY <1>1, <1>t
  <2> QED
    BY <1>1, <1>t, <2>1, <2>2, <2>3, RunGoesOn
<1>2. CASE Still
  BY <1>1, <1>2, <1>t, <1>u DEF Still
<1>3. CASE Remap
  <2>1. UNCHANGED <<mark, samples, sampled>> /\ directory' \in Directories /\ MarkedInv'
    BY <1>3, <1>m DEF Remap
  <2>2. CASE /\ stage' = "connected"
             /\ looped' = [breaks |-> looped.breaks + 1, total |-> Loops(directory')]
    <3>1. /\ looped' \in Ran /\ looped'.breaks = looped.breaks + 1
          /\ looped'.total = Loops(directory')
      BY <1>t, <2>1, <2>2, LoopsAre DEF Ran
    <3>2. looped.breaks <= looped'.breaks /\ looped.breaks # looped'.breaks
      BY <1>t, <3>1
    <3> QED
      BY <1>t, <2>1, <3>1, <3>2, RunGoesOn
  <2>3. CASE stage' # "connected" /\ looped' = [looped EXCEPT !.total = <<>>]
    <3>1. looped' \in Ran /\ looped'.breaks = looped.breaks
      <4>1. <<>> \in Seq(Nat)
        OBVIOUS
      <4>2. [looped EXCEPT !.total = <<>>] \in Ran
        BY <1>t, <4>1 DEF Ran
      <4> QED
        BY <1>t, <2>3, <4>2 DEF Ran
    <3> QED
      BY <1>t, <2>1, <2>3, <3>1, RunGoesOn
  <2> QED
    BY <1>3, <2>2, <2>3 DEF Remap
<1>4. CASE Compare /\ UNCHANGED stage
  BY <1>1, <1>4, <1>t, <1>u DEF Compare, historyVars
<1>5. ASSUME stage = "connected", NEW f \in Families, Report(f) PROVE LoopInv'
  <2>1. UNCHANGED <<mark, samples, looped, directory, loaded>> /\ pc = "idle"
    BY <1>5 DEF Report
  <2>2. sampled' \in Nat /\ sampled <= sampled'
    BY <1>5, <1>t, BoundsAssumption DEF Report, TypeOK
  <2>3. MarkedInv'
    BY <1>n, <2>1 DEF LoadedInv
  <2> QED
    BY <1>1, <1>5, <2>1, <2>2, <2>3
<1>6. CASE stage = "connected" /\ List
  <2>1. UNCHANGED <<mark, samples, looped, directory, sampled, loaded>> /\ pc = "list"
    BY <1>6 DEF List, historyVars
  <2>2. MarkedInv'
    BY <1>n, <2>1 DEF LoadedInv
  <2> QED
    BY <1>1, <1>6, <1>t, <2>1, <2>2
<1>7. CASE stage = "connected" /\ GiveUp
  <2>1. UNCHANGED <<mark, samples, looped, directory, sampled>> /\ pc' = "done"
    BY <1>7 DEF GiveUp, Done
  <2> QED
    BY <1>1, <1>7, <1>t, <1>m, <2>1
<1>8. CASE stage = "connected" /\ stage' = "connected" /\ Return
  <2>1. UNCHANGED <<mark, looped, directory, sampled>> /\ pc' = "idle"
    BY <1>8 DEF Return
  <2>2. CASE samples' = samples
    BY <1>1, <1>8, <1>t, <1>m, <2>1, <2>2
  <2>3. CASE family = "sys" /\ result.tag = "Ok"
    <3> DEFINE e == [counts |-> result.values[LOOPS].rows[1], at |-> sampled, mark |-> mark]
    <3>1. samples' = Append(samples, e)
      BY <1>8, <2>3 DEF Return
    <3>2. Counted(result.values[LOOPS].rows[1], mark)
      BY <1>8, <2>3 DEF Return, DoneInv
    <3>3. /\ e \in Sample /\ Counted(e.counts, e.mark) /\ e.mark = mark /\ e.at = sampled
          /\ mark \in Seq(Mark) /\ samples \in Seq(Sample)
      BY <1>t, <3>2 DEF Sample, Counted, LoopInv
    <3> HIDE DEF e
    <3>4. samples' \in Seq(Sample)
      BY <3>1, <3>3
    <3> DEFINE l == Len(samples) + 1
    <3>5. /\ DOMAIN samples' = 1 .. l /\ samples'[l] = e /\ l \in Nat
          /\ DOMAIN samples = 1 .. l - 1 /\ \A i \in 1 .. l - 1 : samples'[i] = samples[i]
      BY <3>1, <3>3
    <3> HIDE DEF l
    <3>6. Before(mark, mark)
      <4>1. \A c \in DOMAIN mark : mark[c] \in Mark
        BY <3>3
      <4> QED
        BY <4>1 DEF Before, Mark
    <3>7. \A i \in DOMAIN samples' :
            /\ Counted(samples'[i].counts, samples'[i].mark) /\ samples'[i].at <= sampled
            /\ PastOf(samples'[i].mark, looped, TRUE) /\ Before(samples'[i].mark, mark)
      <4> TAKE i \in DOMAIN samples'
      <4>1. CASE i = l
        <5>1. PastOf(mark, looped, TRUE)
          BY <1>8 DEF LoopInv, Past
        <5>2. sampled <= sampled
          BY <1>t
        <5> QED
          BY <3>3, <3>5, <3>6, <4>1, <5>1, <5>2
      <4>2. CASE i # l
        <5>1. i \in 1 .. l - 1
          BY <3>5, <4>2
        <5> QED
          BY <1>8, <3>5, <5>1 DEF LoopInv, Past
      <4> QED
        BY <4>1, <4>2
    <3>8. \A i, j \in DOMAIN samples' : i <= j =>
            /\ samples'[i].at <= samples'[j].at
            /\ Before(samples'[i].mark, samples'[j].mark)
      <4> TAKE i, j \in DOMAIN samples'
      <4>1. CASE j = l
        BY <3>3, <3>5, <3>7, <4>1
      <4>2. CASE j # l /\ i <= j
        <5>1. i \in 1 .. l - 1 /\ j \in 1 .. l - 1
          BY <3>5, <4>2
        <5> QED
          BY <3>5, <4>2, <5>1 DEF LoopInv
      <4> QED
        BY <4>1, <4>2
    <3>9. stage' = "connected" /\ MarkedInv'
      BY <1>8, <1>m, <2>1
    <3>10. looped.total = Loops(directory) /\ PastOf(mark, looped, TRUE)
      BY <1>8 DEF LoopInv, Past
    <3> QED
      BY <1>t, <2>1, <3>3, <3>4, <3>7, <3>8, <3>9, <3>10 DEF LoopInv, Past
  <2> QED
    BY <1>8, <2>2, <2>3 DEF Return
<1>9. CASE stage = "connected" /\ stage' = "connected" /\ (Publish \/ Work)
  <2>0. Change
    BY <1>9 DEF Publish, Work
  <2>1. /\ UNCHANGED <<pc, plan, mark, samples, sampled>> /\ directory' \in Directories
        /\ looped' = LoopedOn(Loops(directory), Loops(directory'))
    BY <2>0 DEF Change
  <2>2. Loops(directory) \in Seq(Nat) /\ Loops(directory') \in Seq(Nat)
    BY <2>1, LoopsAre DEF TypeOK
  <2>3. looped.total = Loops(directory)
    BY <1>9 DEF LoopInv
  <2>4. /\ looped' \in Ran /\ looped'.total = Loops(directory') /\ looped.breaks <= looped'.breaks
        /\ looped.breaks = looped'.breaks => GrownTo(looped, looped')
    <3>1. /\ looped' \in Ran /\ looped'.total = Loops(directory') /\ looped'.breaks >= looped.breaks
          /\ looped'.breaks = looped.breaks => GrownTo(looped, looped')
      BY <1>t, <2>1, <2>2, <2>3, LoopedGrows
    <3>2. looped'.breaks \in Nat
      BY <3>1 DEF Ran
    <3> QED
      BY <1>t, <3>1, <3>2
  <2>5. MarkedInv'
    <3>1. CASE Publish
      BY <1>n, <3>1 DEF Publish
    <3>2. CASE Work
      <4>1. DOMAIN looped'.total = DOMAIN looped.total
        BY <2>1, <2>3, <2>4, <3>2, SameLoops DEF Work, TypeOK
      <4>2. loaded' = loaded
        BY <3>2 DEF Work
      <4> QED
        BY <2>1, <4>1, <4>2 DEF LoopInv, MarkedInv
    <3> QED
      BY <1>9, <3>1, <3>2
  <2> QED
    BY <1>9, <1>t, <2>1, <2>4, <2>5, RunGoesOn
<1>10. CASE stage = "connected" /\ stage' = "connected" /\ LoadCell
  <2>1. /\ UNCHANGED <<samples, looped, directory, sampled>> /\ pc = "read" /\ MarkedInv'
        /\ mark' = IF Head(plan) = LOOPS THEN Marked ELSE mark
    BY <1>10, LoadedIsMarked DEF LoadCell, historyVars
  <2>2. CASE Head(plan) = LOOPS
    BY <1>10, <2>1, <2>2, MarkGoesOn
  <2>3. CASE Head(plan) # LOOPS
    BY <1>1, <1>10, <1>t, <2>1, <2>3
  <2> QED
    BY <2>2, <2>3
<1>11. ASSUME stage = "connected", stage' = "connected", NEW v, Advance(v) PROVE LoopInv'
  <2>1. /\ UNCHANGED <<samples, looped, directory, sampled>> /\ pc = "read" /\ MarkedInv'
        /\ mark' = mark \/ (mark' = Marked /\ Head(plan) = LOOPS)
    BY <1>11, <1>n DEF Advance
  <2>2. CASE mark' = mark
    BY <1>1, <1>11, <1>t, <2>1, <2>2
  <2>3. CASE mark' = Marked /\ Head(plan) = LOOPS
    BY <1>11, <2>1, <2>3, MarkGoesOn
  <2> QED
    BY <2>1, <2>2, <2>3
<1> QED
  BY <1>2, <1>3, <1>4, <1>5, <1>6, <1>7, <1>8, <1>9, <1>10, <1>11 DEF Moves

\* The rate asked for stays that of its samples.
LEMMA RateStep ==
    ASSUME LoopInv, RateInv, Moves
    PROVE  RateInv'
<1>1. ASSUME rate' = rate, samples' = samples PROVE RateInv'
  BY <1>1 DEF RateInv
<1>2. CASE Still \/ Remap
  BY <1>1, <1>2 DEF Still, Remap
<1>3. CASE Compare
  <2>1. PICK i, j \in DOMAIN samples :
            rate' = [self |-> i, earlier |-> j,
                     answer |-> main_loop_rates_per_second(samples[i], samples[j])]
    BY <1>3 DEF Compare
  <2>2. samples' = samples
    BY <1>3 DEF Compare
  <2> QED
    BY <2>1, <2>2 DEF RateInv
<1>4. ASSUME NEW f \in Families, Report(f) PROVE RateInv'
  BY <1>1, <1>4 DEF Report
<1>5. CASE List \/ GiveUp \/ LoadCell
  BY <1>1, <1>5 DEF List, GiveUp, LoadCell
<1>6. CASE Return
  <2>1. rate' = rate
    BY <1>6 DEF Return
  <2>2. \A i \in DOMAIN samples : i \in DOMAIN samples' /\ samples'[i] = samples[i]
    BY <1>6 DEF Return, LoopInv
  <2> QED
    BY <2>1, <2>2 DEF RateInv
<1>7. CASE Publish \/ Work
  BY <1>1, <1>7 DEF Publish, Work, Change
<1>8. ASSUME NEW v, Advance(v) PROVE RateInv'
  BY <1>1, <1>8 DEF Advance
<1> QED
  BY <1>2, <1>3, <1>4, <1>5, <1>6, <1>7, <1>8 DEF Moves
-----------------------------------------------------------------------------
(* The invariant and what follows from it *)

\* A session that has not begun satisfies the invariant,
LEMMA SessionInitially == SessionInit => SessionIInv
<1> SUFFICES ASSUME SessionInit PROVE SessionIInv
  OBVIOUS
<1> USE DEF SessionInit
<1>1. /\ directory \in Directories /\ pc = "idle" /\ family = "sys" /\ plan = <<>>
      /\ values = NoValues /\ result = Outcome("none", NoValues) /\ now = 0 /\ sampled = 0
      /\ samples = <<>> /\ rate = Unasked /\ publications = 0 /\ misses = 0 /\ quiet = TRUE
      /\ looped = [breaks |-> 0, total |-> Loops(directory)] /\ mark = <<>> /\ loaded = NoCells
      /\ stage = "idle" /\ publisher = "gone"
  BY DEF Init, HandoffInit
<1>2. TypeOK
  <2>1. 0 \in 0 .. MaxPublications /\ 0 \in 0 .. MaxMisses /\ 0 \in 0 .. MaxTicks /\ 0 \in 0 .. 0
    BY BoundsAssumption
  <2>2. DOMAIN <<>> = {}
    OBVIOUS
  <2>3. \A i \in DOMAIN samples : samples[i].at \in 0 .. now
    BY <1>1, <2>2
  <2>4. result.tag = "none" /\ result.values = NoValues
    BY <1>1 DEF Outcome
  <2> QED
    BY <1>1, <2>1, <2>3, <2>4 DEF TypeOK, Families
<1>3. HandoffIInv
  BY HandoffBounds DEF HandoffInit, HandoffIInv, HandoffTypeOK, OpenInv, SizeInv, Stages,
                       Failures
<1>4. SessionTypeOK
  BY <1>1, <1>2, <1>3 DEF SessionTypeOK, HandoffIInv
<1>5. IdleInv /\ SeenInv /\ LoadedInv /\ ReadInv /\ AliasInv /\ QuietInv /\ DoneInv
      /\ ErrorsComplete /\ QuietReportsAnswer /\ RateInv
  BY <1>1 DEF IdleInv, SeenInv, LoadedInv, NoCells, ReadInv, AliasInv, QuietInv, DoneInv, ErrorsComplete,
              QuietReportsAnswer, RateInv
<1>6. LoopInv
  <2>1. looped \in Ran
    BY <1>1, LoopsAre DEF Ran
  <2>2. samples \in Seq(Sample) /\ DOMAIN samples = {} /\ mark \in Seq(Mark) /\ DOMAIN mark = {}
    BY <1>1
  <2>3. Past(mark) /\ MarkedInv
    BY <1>1, <2>2 DEF Past, PastOf, MarkedInv
  <2> QED
    BY <1>1, <2>1, <2>2, <2>3 DEF LoopInv
<1> QED
  BY <1>3, <1>4, <1>5, <1>6 DEF SessionIInv

\* every step keeps it,
LEMMA SessionInductive == SessionIInv /\ [SessionNext]_sessionVars => SessionIInv'
<1> SUFFICES ASSUME SessionIInv, [SessionNext]_sessionVars PROVE SessionIInv'
  OBVIOUS
<1>0. /\ TypeOK /\ HandoffIInv /\ IdleInv /\ SeenInv /\ LoadedInv /\ ReadInv /\ AliasInv /\ QuietInv
      /\ DoneInv /\ ErrorsComplete /\ QuietReportsAnswer /\ LoopInv /\ RateInv
      /\ publisher \in {"running", "gone", "torn"}
  BY DEF SessionIInv, SessionTypeOK
<1>1. Moves
  BY <1>0, SessionMoves
<1>2. TypeOK' /\ IdleInv' /\ SeenInv' /\ LoadedInv'
  BY <1>0, <1>1, TypeStep, IdleStep, SeenStep, LoadedStep
<1>3. ReadInv' /\ DoneInv'
  BY <1>0, <1>1, ReadStep
<1>4. AliasInv' /\ ErrorsComplete'
  BY <1>0, <1>1, AliasStep
<1>5. QuietInv' /\ QuietReportsAnswer'
  BY <1>0, <1>1, <1>2, <1>3, QuietStep
<1>6. LoopInv' /\ RateInv'
  BY <1>0, <1>1, LoopStep, RateStep
<1>7. HandoffIInv'
  <2>1. [HandoffNext]_handoffVars
    BY SessionHandoff DEF sessionVars
  <2> QED
    BY <1>0, <2>1, HandoffStepHolds
<1>8. publisher' \in {"running", "gone", "torn"}
  BY <1>0 DEF SessionNext, Begin, ReportStep, ReadTorn, CompareStep, PublishStep, Connected,
              HandoffStep, HandStep, ExitStep, DropStep, sessionVars
<1> QED
  BY <1>2, <1>3, <1>4, <1>5, <1>6, <1>7, <1>8 DEF SessionIInv, SessionTypeOK, HandoffIInv

\* and every state has it.
LEMMA SessionInvariance == SessionSpec => []SessionIInv
BY SessionInitially, SessionInductive, PTL DEF SessionSpec

\* Every state of a session is well typed.
THEOREM SessionTypeCorrect == SessionSpec => []SessionTypeOK
<1>1. SessionIInv => SessionTypeOK
  BY DEF SessionIInv
<1> QED
  BY <1>1, SessionInvariance, PTL

\* client.rs: the descriptors and the mapping are given back on every path, with
\* reports, publications and restarts of the daemon in between.
THEOREM SessionHoldsNothing == SessionSpec => []NothingHeld
<1>1. SessionIInv => NothingHeld
  BY DEF SessionIInv, HandoffIInv, HandoffTypeOK, OpenInv, NothingHeld, Socket
<1> QED
  BY <1>1, SessionInvariance, PTL

\* node.rs and system.rs: a report that succeeds has matching shapes, whatever was
\* published between its reads: no lookup in it indexes a row out of bounds.
THEOREM ReportsAgree == SessionSpec => []ShapesAgree
<1>1. SessionIInv => ShapesAgree
  BY DEF SessionIInv, DoneInv, ShapesAgree
<1> QED
  BY <1>1, SessionInvariance, PTL

\* node_error.rs: an alias that vanishes does not fail the report of the errors,
\* and one that lasts is in it.
THEOREM LastingErrorsReported == SessionSpec => []ErrorsComplete
<1>1. SessionIInv => ErrorsComplete
  BY DEF SessionIInv
<1> QED
  BY <1>1, SessionInvariance, PTL

\* A report that no publication overlaps says what the directory says, for any
\* directory: values, errors and absence.
THEOREM QuietReports == SessionSpec => []QuietReportsAnswer
<1>1. SessionIInv => QuietReportsAnswer
  BY DEF SessionIInv
<1> QED
  BY <1>1, SessionInvariance, PTL

\* system.rs: the difference of two samples of one run of the counters is what each
\* loop ran between the two loads of its count, and there is no difference of samples
\* out of order.
THEOREM RatesAreTrue == SessionSpec => []RatesAreWhatTheLoopsRan
<1>1. ASSUME SessionIInv PROVE RatesAreWhatTheLoopsRan
  <2> SUFFICES ASSUME rate # Unasked,
                      DOMAIN samples[rate.self].mark = DOMAIN samples[rate.earlier].mark,
                      \A c \in DOMAIN samples[rate.self].mark :
                        samples[rate.self].mark[c].breaks = samples[rate.earlier].mark[c].breaks
               PROVE  rate.answer =
                        IF samples[rate.self].at <= samples[rate.earlier].at THEN NoRate
                        ELSE [elapsed |-> samples[rate.self].at - samples[rate.earlier].at,
                              deltas |-> [c \in DOMAIN samples[rate.self].counts |->
                                            samples[rate.self].mark[c].total
                                                - samples[rate.earlier].mark[c].total]]
    BY DEF RatesAreWhatTheLoopsRan
  <2> DEFINE i == rate.self
             j == rate.earlier
             self == samples[i]
             earlier == samples[j]
  <2>1. /\ i \in DOMAIN samples /\ j \in DOMAIN samples
        /\ rate.answer = main_loop_rates_per_second(self, earlier)
    BY <1>1 DEF SessionIInv, RateInv
  <2>2. samples \in Seq(Sample)
    BY <1>1 DEF SessionIInv, LoopInv
  <2>3. self \in Sample /\ earlier \in Sample /\ i \in Nat /\ j \in Nat
    BY <2>1, <2>2
  <2>4. Counted(self.counts, self.mark) /\ Counted(earlier.counts, earlier.mark)
    BY <1>1, <2>1 DEF SessionIInv, LoopInv
  <2>5. i <= j => self.at <= earlier.at
    BY <1>1, <2>1 DEF SessionIInv, LoopInv
  <2>6. j <= i => Before(earlier.mark, self.mark)
    BY <1>1, <2>1 DEF SessionIInv, LoopInv
  <2>a. /\ DOMAIN self.mark = DOMAIN earlier.mark
        /\ \A c \in DOMAIN self.mark : self.mark[c].breaks = earlier.mark[c].breaks
    OBVIOUS
  <2> HIDE DEF i, j, self, earlier
  <2>7. CASE self.at <= earlier.at
    <3>1. main_loop_rates_per_second(self, earlier) = NoRate
      BY <2>7 DEF main_loop_rates_per_second
    <3> QED
      BY <2>1, <2>7, <3>1 DEF i, j, self, earlier
  <2>8. CASE ~(self.at <= earlier.at)
    <3>1. Before(earlier.mark, self.mark)
      BY <2>3, <2>5, <2>6, <2>8
    <3>2. self.counts \in Seq(Nat) /\ earlier.counts \in Seq(Nat)
      BY <2>3 DEF Sample
    <3>3. /\ DOMAIN earlier.counts = DOMAIN self.counts
          /\ \A k \in DOMAIN self.counts :
                /\ earlier.counts[k] <= self.counts[k]
                /\ earlier.counts[k] = earlier.mark[k].total
                /\ self.counts[k] = self.mark[k].total
      BY <2>4, <2>a, <3>1 DEF Before, Counted
    <3>4. Len(self.counts) = Len(earlier.counts)
      <4> DEFINE a == Len(self.counts)
                 b == Len(earlier.counts)
      <4>1. a \in Nat /\ b \in Nat /\ DOMAIN self.counts = 1 .. a /\ DOMAIN earlier.counts = 1 .. b
        BY <3>2, LenProperties
      <4> HIDE DEF a, b
      <4>2. 1 .. a = 1 .. b => a = b
        BY <4>1
      <4> QED
        BY <3>3, <4>1, <4>2 DEF a, b
    <3>5. ~\E k \in DOMAIN self.counts : self.counts[k] < earlier.counts[k]
      <4> SUFFICES ASSUME NEW k \in DOMAIN self.counts PROVE ~(self.counts[k] < earlier.counts[k])
        OBVIOUS
      <4>1. self.counts[k] \in Nat /\ earlier.counts[k] \in Nat
        BY <3>2, <3>3
      <4> QED
        BY <3>3, <4>1
    <3>6. main_loop_rates_per_second(self, earlier) =
            [elapsed |-> self.at - earlier.at,
             deltas |-> [k \in DOMAIN self.counts |-> self.counts[k] - earlier.counts[k]]]
      BY <2>8, <3>4, <3>5 DEF main_loop_rates_per_second
    <3>7. [k \in DOMAIN self.counts |-> self.counts[k] - earlier.counts[k]]
            = [k \in DOMAIN self.counts |-> self.mark[k].total - earlier.mark[k].total]
      BY <3>3
    <3> QED
      BY <2>1, <2>8, <3>6, <3>7 DEF i, j, self, earlier
  <2> QED
    BY <2>7, <2>8
<1> QED
  BY <1>1, SessionInvariance, PTL

\* A counter that was kept has the shape it had in a directory published
\* meanwhile, and cells of directories with that layout.
LEMMA CounterRead ==
    ASSUME TypeOK, SeenInv, DoneInv, pc = "done", result.tag = "Ok", family = "node",
           NEW c \in Counters
    PROVE  \E d \in seen : /\ c \in DOMAIN d /\ d[c].tag = "Simple"
                           /\ ReadOf(result.values[c], c, d, seen)
<1>1. c \in DOMAIN result.values /\ ReadFrom(result.values, seen) /\ seen \subseteq Directories
  BY DEF DoneInv, SeenInv
<1>2. PICK d \in seen : /\ c \in DOMAIN d /\ Defect(c, d[c]) = "none"
                        /\ ReadOf(result.values[c], c, d, seen)
  BY <1>1 DEF ReadFrom
<1>3. d[c] \notin ReadErrors
  BY <1>1, <1>2, MetricIsNoError
<1>4. d[c].tag \in Types(c)
  BY <1>2, <1>3 DEF Defect
<1>5. d[c].tag = "Simple"
  BY <1>4, NamesDiffer DEF Types
<1> QED
  BY <1>2, <1>5

\* node.rs: every cell of the counters reported for a node is one this node had
\* since its name was read, though cells are loaded one by one amid the workers'
\* counting, unless a counter had that column for another node meanwhile.
THEOREM NodesKeep == SessionSpec => []NodesKeepTheirCounters
<1>1. ASSUME SessionIInv PROVE NodesKeepTheirCounters
  <2> DEFINE vs == result.values
             names(d, s, n) == s \in DOMAIN Lookup(d, NAMES).rows /\ d[NAMES].rows[s] = n
             has(d, s) == \E c \in Counters \cap DOMAIN d : \E r \in DOMAIN d[c].rows :
                                d[c].tag = "Simple" /\ s \in DOMAIN d[c].rows[r]
  <2> SUFFICES ASSUME pc = "done", family = "node", result.tag = "Ok",
                      NEW n \in Elements(vs[NAMES].rows), node(vs, n) # NoUsage,
                      \A d \in seen : \A s \in Slots(vs, n) : has(d, s) => names(d, s, n),
                      NEW c \in Counters, NEW r \in DOMAIN node(vs, n)[c]
               PROVE  \E d \in seen : \E s \in DOMAIN Lookup(d, NAMES).rows :
                        /\ names(d, s, n) /\ c \in DOMAIN d
                        /\ DOMAIN node(vs, n)[c] = DOMAIN d[c].rows
                        /\ node(vs, n)[c][r] = d[c].rows[r][s]
    BY DEF NodesKeepTheirCounters
  <2>1. TypeOK /\ SeenInv /\ DoneInv /\ Agree("node", vs)
    BY <1>1 DEF SessionIInv, SessionTypeOK, DoneInv
  <2>2. PICK slot \in Slots(vs, n) : node(vs, n) = [b \in Counters |-> ColumnOf(vs[b], slot)]
    <3> DEFINE slot == CHOOSE i \in Slots(vs, n) : TRUE
    <3>1. slot \in Slots(vs, n)
      BY DEF Slots, Elements
    <3>2. node(vs, n) = [b \in Counters |-> ColumnOf(vs[b], slot)]
      BY DEF node
    <3> HIDE DEF slot
    <3> QED
      BY <3>1, <3>2
  <2>3. /\ node(vs, n)[c] = [q \in DOMAIN vs[c].rows |-> vs[c].rows[q][slot]]
        /\ r \in DOMAIN vs[c].rows /\ DOMAIN node(vs, n)[c] = DOMAIN vs[c].rows
        /\ node(vs, n)[c][r] = vs[c].rows[r][slot]
    BY <2>2 DEF ColumnOf
  <2>4. slot \in DOMAIN vs[c].rows[r]
    BY <2>1, <2>2, <2>3 DEF Agree, Slots
  <2>5. PICK d \in seen : c \in DOMAIN d /\ d[c].tag = "Simple" /\ ReadOf(vs[c], c, d, seen)
    BY <2>1, CounterRead
  <2>6. /\ DOMAIN vs[c].rows = DOMAIN d[c].rows /\ DOMAIN vs[c].rows[r] = DOMAIN d[c].rows[r]
        /\ \E e \in seen : SameLayout(d, e) /\ vs[c].rows[r][slot] = e[c].rows[r][slot]
    BY <2>3, <2>4, <2>5 DEF ReadOf
  <2>7. PICK e \in seen : SameLayout(d, e) /\ vs[c].rows[r][slot] = e[c].rows[r][slot]
    BY <2>6
  <2>8. /\ c \in DOMAIN e /\ e[c].tag = "Simple" /\ DOMAIN e[c].rows = DOMAIN d[c].rows
        /\ DOMAIN e[c].rows[r] = DOMAIN d[c].rows[r]
    BY <2>3, <2>5, <2>6, <2>7 DEF SameLayout
  <2>9. has(e, slot)
    BY <2>3, <2>4, <2>6, <2>8
  <2>10. names(e, slot, n)
    BY <2>2, <2>9
  <2> QED
    BY <2>3, <2>6, <2>7, <2>8, <2>10
<1> QED
  BY <1>1, SessionInvariance, PTL
=============================================================================
