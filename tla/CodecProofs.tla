---------------------------- MODULE CodecProofs ----------------------------
(***************************************************************************)
(* Proofs about the wire format and the message table: lemmas about bytes,      *)
(* integers and flattened sequences, then the invariants of the two decoders.  *)
(***************************************************************************)
EXTENDS WireCodec, MessageTable, SequenceTheorems, Induction, TLAPS

LOCAL INSTANCE SequencesExt

-----------------------------------------------------------------------------
(* Integers as bytes *)

\* Every radix is a multiple of eight.
LEMMA RadixIs == Radix \in Nat /\ Radix >= 8 /\ Radix % 2 = 0 /\ Radix % 4 = 0 /\ Radix % 8 = 0
BY RadixAssumption

\* The powers that integers of up to eight bytes need.
LEMMA Powers ==
    /\ Power \in [0 .. 8 -> Nat \ {0}]
    /\ Power[0] = 1 /\ \A k \in 1 .. 8 : Power[k] = Radix * Power[k - 1]
<1> DEFINE body(k, f) == IF k = 0 THEN 1 ELSE Radix * f[k - 1]
           Is(f) == f = [k \in 0 .. 8 |-> body(k, f)]
           F == [k \in Nat |-> [x \in Nat |-> Radix * x]]
<1>1. F \in [Nat -> [Nat -> Nat]]
  BY RadixIs
<1>2. PICK g \in [0 .. 8 -> Nat] : g[0] = 1 /\ \A k \in 1 .. 8 : g[k] = F[k][g[k - 1]]
  <2>1. 8 \in Nat /\ 1 \in Nat
    OBVIOUS
  <2> HIDE DEF F
  <2>2. \E g : Recurs(g, Nat, 1, F, 8)
    BY <1>1, <2>1, Recursion, Zenon
  <2> QED
    BY <2>2 DEF Recurs
<1>3. Is(g)
  <2> DEFINE f == [k \in 0 .. 8 |-> body(k, g)]
  <2>1. ASSUME NEW k \in 0 .. 8 PROVE g[k] = f[k]
    <3>1. CASE k = 0
      BY <1>2, <3>1
    <3>2. CASE k \in 1 .. 8
      <4>1. k - 1 \in 0 .. 8 /\ k \in Nat /\ k # 0
        BY <3>2
      <4>2. g[k] = Radix * g[k - 1]
        BY <1>2, <3>2, <4>1
      <4> QED
        BY <4>1, <4>2
    <3> QED
      BY <3>1, <3>2
  <2> QED
    BY <2>1
<1>4. Power = CHOOSE f : Is(f)
  BY DEF Power
<1>5. Is(Power)
  <2> HIDE DEF Is
  <2> QED
    BY <1>3, <1>4, Zenon
<1>6. Power[0] = 1 /\ \A k \in 1 .. 8 : Power[k] = Radix * Power[k - 1]
  <2>1. \A k \in 0 .. 8 : Power[k] = body(k, Power)
    <3> HIDE DEF body
    <3> QED
      BY <1>5
  <2> QED
    BY <2>1
<1>7. DOMAIN Power = 0 .. 8
  BY <1>5
<1>8. /\ Power[1] = Radix * Power[0] /\ Power[2] = Radix * Power[1] /\ Power[3] = Radix * Power[2]
      /\ Power[4] = Radix * Power[3] /\ Power[5] = Radix * Power[4] /\ Power[6] = Radix * Power[5]
      /\ Power[7] = Radix * Power[6] /\ Power[8] = Radix * Power[7]
  BY <1>6
<1>9. \A p \in Nat \ {0} : Radix * p \in Nat \ {0}
  BY RadixIs
<1>10. \A k \in 0 .. 8 : Power[k] \in Nat \ {0}
  <2>1. Power[0] \in Nat \ {0} /\ Power[1] \in Nat \ {0} /\ Power[2] \in Nat \ {0}
    BY <1>6, <1>8, <1>9
  <2>2. Power[3] \in Nat \ {0} /\ Power[4] \in Nat \ {0} /\ Power[5] \in Nat \ {0}
    BY <2>1, <1>8, <1>9
  <2>3. Power[6] \in Nat \ {0} /\ Power[7] \in Nat \ {0} /\ Power[8] \in Nat \ {0}
    BY <2>2, <1>8, <1>9
  <2> QED
    BY <2>1, <2>2, <2>3
<1> QED
  BY <1>5, <1>6, <1>7, <1>10

\* Dividing twice is dividing by the product.
LEMMA DivDiv ==
    ASSUME NEW n \in Nat, NEW a \in Nat \ {0}, NEW b \in Nat \ {0}
    PROVE  n \div (b * a) = (n \div a) \div b
BY SMTT(30)

\* A quotient and a remainder, and what they are of.
LEMMA DivMod ==
    ASSUME NEW n \in Nat, NEW b \in Nat \ {0}
    PROVE  /\ n \div b \in Nat /\ n % b \in 0 .. b - 1
           /\ n = (b * (n \div b)) + (n % b)
           /\ \A q \in Nat, r \in 0 .. b - 1 : n = b * q + r => q = n \div b /\ r = n % b
OBVIOUS

\* from_be_bytes, byte by byte.
LEMMA FromBeIs ==
    ASSUME NEW s \in Seq(Byte)
    PROVE  \E v \in [0 .. Len(s) -> Nat] :
             /\ FromBe(s) = v[Len(s)]
             /\ v[0] = 0 /\ \A i \in 1 .. Len(s) : v[i] = Radix * v[i - 1] + s[i]
<1> DEFINE body(i, v) == IF i = 0 THEN 0 ELSE Radix * v[i - 1] + s[i]
           Is(v) == v = [i \in 0 .. Len(s) |-> body(i, v)]
           F == [k \in Nat |-> [x \in Nat |-> IF k \in 1 .. Len(s) THEN Radix * x + s[k] ELSE x]]
<1>1. \A i \in 1 .. Len(s) : s[i] \in Nat
  BY RadixIs DEF Byte
<1>2. F \in [Nat -> [Nat -> Nat]]
  BY <1>1, RadixIs
<1>3. PICK g \in [0 .. Len(s) -> Nat] :
        g[0] = 0 /\ \A k \in 1 .. Len(s) : g[k] = F[k][g[k - 1]]
  <2>1. Len(s) \in Nat /\ 0 \in Nat
    OBVIOUS
  <2> HIDE DEF F
  <2>2. \E g : Recurs(g, Nat, 0, F, Len(s))
    BY <1>2, <2>1, Recursion, Zenon
  <2> QED
    BY <2>2 DEF Recurs
<1>4. Is(g)
  <2> DEFINE f == [i \in 0 .. Len(s) |-> body(i, g)]
  <2>1. ASSUME NEW i \in 0 .. Len(s) PROVE g[i] = f[i]
    <3>1. CASE i = 0
      BY <1>3, <3>1
    <3>2. CASE i \in 1 .. Len(s)
      <4>1. i - 1 \in 0 .. Len(s) /\ i \in Nat /\ i # 0 /\ g[i - 1] \in Nat
        BY <3>2
      <4>2. g[i] = Radix * g[i - 1] + s[i]
        BY <1>3, <3>2, <4>1
      <4> QED
        BY <4>1, <4>2
    <3> QED
      BY <3>1, <3>2
  <2> QED
    BY <2>1
<1> DEFINE v == CHOOSE f : Is(f)
<1>5. FromBe(s) = v[Len(s)]
  BY DEF FromBe
<1>6. Is(v)
  <2> HIDE DEF Is
  <2> QED
    BY <1>4, Zenon
<1> HIDE DEF v
<1>7. v[0] = 0 /\ \A i \in 1 .. Len(s) : v[i] = Radix * v[i - 1] + s[i]
  <2>1. \A i \in 0 .. Len(s) : v[i] = body(i, v)
    <3> HIDE DEF body
    <3> QED
      BY <1>6
  <2> QED
    BY <2>1
<1>8. DOMAIN v = 0 .. Len(s)
  BY <1>6
<1> DEFINE Typed == {n \in Nat : n <= Len(s) => v[n] \in Nat}
<1>9. 0 \in Typed
  BY <1>7
<1>10. ASSUME NEW n \in Nat, n \in Typed PROVE n + 1 \in Typed
  <2> SUFFICES ASSUME n + 1 <= Len(s) PROVE v[n + 1] \in Nat
    OBVIOUS
  <2>1. v[n] \in Nat /\ s[n + 1] \in Nat
    BY <1>1, <1>10
  <2>2. v[n + 1] = Radix * v[n] + s[n + 1]
    <3>1. n + 1 \in 1 .. Len(s) /\ (n + 1) - 1 = n
      OBVIOUS
    <3> QED
      BY <1>7, <3>1
  <2> QED
    BY <2>1, <2>2, RadixIs, SMTT(60)
<1>11. Nat \subseteq Typed
  BY <1>9, <1>10, SetInduction
<1>12. v \in [0 .. Len(s) -> Nat]
  <2>1. \A i \in 0 .. Len(s) : v[i] \in Nat
    BY <1>11
  <2> QED
    BY <1>6, <2>1
<1> QED
  BY <1>5, <1>7, <1>12

\* An integer without its k lowest bytes is the one without k - 1 without its
\* lowest byte.
LEMMA Shifted ==
    ASSUME NEW n \in Nat, NEW k \in 1 .. 8
    PROVE  /\ n \div Power[k - 1] \in Nat
           /\ n \div Power[k] = (n \div Power[k - 1]) \div Radix
<1>1. Power[k - 1] \in Nat \ {0} /\ Power[k] = Radix * Power[k - 1] /\ Radix \in Nat \ {0}
  BY Powers, RadixIs
<1>2. n \div (Radix * Power[k - 1]) = (n \div Power[k - 1]) \div Radix
  BY <1>1, DivDiv
<1> QED
  BY <1>1, <1>2, DivMod

\* to_be_bytes and to_le_bytes make bytes.
LEMMA ToBytes ==
    ASSUME NEW n \in Nat, NEW w \in 0 .. 8
    PROVE  /\ ToBe(n, w) \in Seq(Byte) /\ Len(ToBe(n, w)) = w
           /\ ToLe(n, w) \in Seq(Byte) /\ Len(ToLe(n, w)) = w
           /\ \A i \in 1 .. w : /\ ToBe(n, w)[i] = (n \div Power[w - i]) % Radix
                                /\ ToLe(n, w)[i] = (n \div Power[i - 1]) % Radix
<1>1. \A k \in 0 .. 7 : (n \div Power[k]) % Radix \in Byte
  <2> SUFFICES ASSUME NEW k \in 0 .. 7 PROVE (n \div Power[k]) % Radix \in Byte
    OBVIOUS
  <2>1. k + 1 \in 1 .. 8 /\ (k + 1) - 1 = k
    OBVIOUS
  <2>2. n \div Power[k] \in Nat
    BY <2>1, Shifted
  <2> DEFINE m == n \div Power[k]
  <2>3. Radix \in Nat \ {0}
    BY RadixIs
  <2> HIDE DEF m
  <2>4. m % Radix \in 0 .. Radix - 1
    BY <2>2, <2>3, DivMod DEF m
  <2> QED
    BY <2>4 DEF m, Byte
<1>2. \A i \in 1 .. w : w - i \in 0 .. 7 /\ i - 1 \in 0 .. 7
  OBVIOUS
<1>3. /\ \A i \in 1 .. w : (n \div Power[w - i]) % Radix \in Byte
      /\ \A i \in 1 .. w : (n \div Power[i - 1]) % Radix \in Byte
  BY <1>1, <1>2
<1>4. ToBe(n, w) \in Seq(Byte) /\ Len(ToBe(n, w)) = w
  BY <1>3 DEF ToBe
<1>5. ToLe(n, w) \in Seq(Byte) /\ Len(ToLe(n, w)) = w
  BY <1>3 DEF ToLe
<1> QED
  BY <1>4, <1>5 DEF ToBe, ToLe

\* from_be_bytes makes an integer,
LEMMA FromBeType ==
    ASSUME NEW s \in Seq(Byte)
    PROVE  FromBe(s) \in Nat
<1>1. PICK v \in [0 .. Len(s) -> Nat] : FromBe(s) = v[Len(s)]
  BY FromBeIs
<1>2. Len(s) \in 0 .. Len(s)
  OBVIOUS
<1> QED
  BY <1>1, <1>2

\* undoes to_be_bytes of an integer that fits,
LEMMA FromBeToBe ==
    ASSUME NEW w \in 0 .. 8, NEW n \in 0 .. Power[w] - 1
    PROVE  FromBe(ToBe(n, w)) = n
<1> DEFINE s == ToBe(n, w)
<1>1. n \in Nat /\ n < Power[w] /\ Power[w] \in Nat \ {0}
  BY Powers
<1>2. s \in Seq(Byte) /\ Len(s) = w /\ \A i \in 1 .. w : s[i] = (n \div Power[w - i]) % Radix
  BY <1>1, ToBytes
<1> HIDE DEF s
<1>3. PICK v \in [0 .. w -> Nat] :
        /\ FromBe(s) = v[w]
        /\ v[0] = 0 /\ \A i \in 1 .. w : v[i] = Radix * v[i - 1] + s[i]
  BY <1>2, FromBeIs
<1> DEFINE Upper == {i \in Nat : i <= w => v[i] = n \div Power[w - i]}
<1>4. 0 \in Upper
  <2>1. n \div Power[w] = 0
    BY <1>1, DivMod
  <2> QED
    BY <1>3, <2>1
<1>5. ASSUME NEW i \in Nat, i \in Upper PROVE i + 1 \in Upper
  <2> SUFFICES ASSUME i + 1 <= w PROVE v[i + 1] = n \div Power[w - (i + 1)]
    OBVIOUS
  <2> DEFINE m == n \div Power[w - (i + 1)]
  <2>1. w - i \in 1 .. 8 /\ (w - i) - 1 = w - (i + 1) /\ i + 1 \in 1 .. w /\ (i + 1) - 1 = i
    OBVIOUS
  <2>2. m \in Nat /\ n \div Power[w - i] = m \div Radix
    BY <1>1, <2>1, Shifted
  <2>3. v[i] = n \div Power[w - i]
    BY <1>5
  <2>4. v[i + 1] = Radix * v[i] + s[i + 1] /\ s[i + 1] = m % Radix
    BY <1>2, <1>3, <2>1
  <2> HIDE DEF m
  <2>5. v[i + 1] = m
    <3>1. Radix \in Nat \ {0}
      BY RadixIs
    <3>2. m = (Radix * (m \div Radix)) + (m % Radix)
      BY <2>2, <3>1, DivMod
    <3> QED
      BY <2>2, <2>3, <2>4, <3>2
  <2> QED
    BY <2>5 DEF m
<1>6. v[w] = n \div Power[w - w]
  <2>1. Nat \subseteq Upper
    BY <1>4, <1>5, SetInduction
  <2> QED
    BY <2>1
<1>7. n \div Power[w - w] = n
  <2>1. w - w = 0 /\ Power[0] = 1
    BY Powers
  <2> QED
    BY <1>1, <2>1
<1> QED
  BY <1>3, <1>6, <1>7 DEF s

\* and is undone by it.
LEMMA ToBeFromBe ==
    ASSUME NEW s \in Seq(Byte), Len(s) \in 0 .. 8
    PROVE  ToBe(FromBe(s), Len(s)) = s
<1> DEFINE w == Len(s)
           n == FromBe(s)
<1>1. PICK v \in [0 .. w -> Nat] :
        /\ n = v[w]
        /\ v[0] = 0 /\ \A i \in 1 .. w : v[i] = Radix * v[i - 1] + s[i]
  BY FromBeIs
<1>2. n \in Nat /\ w \in 0 .. 8
  BY FromBeType
<1> HIDE DEF n
<1> DEFINE Upper == {i \in Nat : i <= w => n \div Power[i] = v[w - i]}
<1>3. 0 \in Upper
  <2>1. Power[0] = 1 /\ w - 0 = w
    BY Powers
  <2> QED
    BY <1>1, <1>2, <2>1
<1>4. \A i \in 1 .. w : s[i] \in 0 .. Radix - 1
  BY ElementOfSeq DEF Byte
<1>5. \A i \in 1 .. w : v[i] \div Radix = v[i - 1] /\ v[i] % Radix = s[i]
  <2> SUFFICES ASSUME NEW i \in 1 .. w PROVE v[i] \div Radix = v[i - 1] /\ v[i] % Radix = s[i]
    OBVIOUS
  <2>1. /\ v[i] = Radix * v[i - 1] + s[i] /\ s[i] \in 0 .. Radix - 1
        /\ v[i] \in Nat /\ v[i - 1] \in Nat
    BY <1>1, <1>4, SMTT(60)
  <2>2. Radix \in Nat \ {0}
    BY RadixIs
  <2>3. \A q \in Nat, r \in 0 .. Radix - 1 :
          v[i] = Radix * q + r => q = v[i] \div Radix /\ r = v[i] % Radix
    BY <2>1, <2>2, DivMod
  <2> QED
    BY <2>1, <2>3
<1>6. ASSUME NEW i \in Nat, i \in Upper PROVE i + 1 \in Upper
  <2> SUFFICES ASSUME i + 1 <= w PROVE n \div Power[i + 1] = v[w - (i + 1)]
    OBVIOUS
  <2>1. i + 1 \in 1 .. 8 /\ (i + 1) - 1 = i /\ w - i \in 1 .. w /\ (w - i) - 1 = w - (i + 1)
    <3> HIDE DEF w
    <3> QED
      BY <1>2
  <2>2. n \div Power[i + 1] = (n \div Power[i]) \div Radix
    BY <1>2, <2>1, Shifted, ZenonT(60)
  <2>3. n \div Power[i] = v[w - i]
    BY <1>6
  <2> QED
    BY <1>5, <2>1, <2>2, <2>3
<1>7. ASSUME NEW i \in 1 .. w PROVE ToBe(n, w)[i] = s[i]
  <2>1. Nat \subseteq Upper
    BY <1>3, <1>6, SetInduction
  <2>2. w - i \in Nat /\ w - i <= w /\ w - (w - i) = i
    OBVIOUS
  <2>3. n \div Power[w - i] = v[i]
    BY <2>1, <2>2
  <2>4. ToBe(n, w)[i] = (n \div Power[w - i]) % Radix
    BY <1>2, ToBytes
  <2> QED
    BY <1>5, <2>3, <2>4
<1>8. ToBe(n, w) \in Seq(Byte) /\ Len(ToBe(n, w)) = w
  BY <1>2, ToBytes
<1>9. ToBe(n, w) = s
  <2> DEFINE t == ToBe(n, w)
  <2> HIDE DEF t
  <2>1. t \in Seq(Byte) /\ Len(t) = Len(s) /\ \A i \in 1 .. Len(t) : t[i] = s[i]
    BY <1>7, <1>8 DEF t
  <2>2. t = s
    BY <2>1, SeqEqual
  <2> QED
    BY <2>2 DEF t
<1> QED
  BY <1>9 DEF n

\* from_le_bytes undoes to_le_bytes of an integer that fits.
LEMMA FromLeToLe ==
    ASSUME NEW w \in 0 .. 8, NEW n \in 0 .. Power[w] - 1
    PROVE  FromLe(ToLe(n, w)) = n
<1> DEFINE s == ToLe(n, w)
           r == [i \in DOMAIN s |-> s[Len(s) + 1 - i]]
           t == ToBe(n, w)
<1>1. n \in Nat
  BY Powers
<1>2. s \in Seq(Byte) /\ Len(s) = w /\ DOMAIN s = 1 .. w
      /\ \A i \in 1 .. w : s[i] = (n \div Power[i - 1]) % Radix
  <2>1. s \in Seq(Byte) /\ Len(s) = w /\ \A i \in 1 .. w : s[i] = (n \div Power[i - 1]) % Radix
    BY <1>1, ToBytes
  <2> HIDE DEF s
  <2> QED
    BY <2>1, LenProperties
<1>3. t \in Seq(Byte) /\ Len(t) = w /\ \A i \in 1 .. w : t[i] = (n \div Power[w - i]) % Radix
  BY <1>1, ToBytes
<1> HIDE DEF s, t
<1>4. ASSUME NEW i \in 1 .. w PROVE r[i] = t[i]
  <2>1. w + 1 - i \in 1 .. w /\ (w + 1 - i) - 1 = w - i
    OBVIOUS
  <2>2. r[i] = s[w + 1 - i]
    BY <1>2
  <2> QED
    BY <1>2, <1>3, <2>1, <2>2
<1>5. r = t
  <2>1. r = [i \in 1 .. w |-> r[i]] /\ t = [i \in 1 .. w |-> t[i]]
    BY <1>2, <1>3
  <2> HIDE DEF r
  <2> QED
    BY <1>4, <2>1
<1>6. FromLe(s) = FromBe(t)
  BY <1>5 DEF FromLe
<1> QED
  BY <1>6, FromBeToBe DEF s, t

-----------------------------------------------------------------------------
(* Flattened sequences *)

\* FlattenSeq, sequence by sequence.
LEMMA FlattenIs ==
    ASSUME NEW B, NEW s \in Seq(Seq(B))
    PROVE  \E f \in [0 .. Len(s) -> Seq(B)] :
             /\ FlattenSeq(s) = f[Len(s)]
             /\ f[0] = <<>> /\ \A i \in 1 .. Len(s) : f[i] = f[i - 1] \o s[i]
<1> DEFINE body(i, f) == IF i = 1 THEN s[i] ELSE f[i - 1] \o s[i]
           Is(f) == f = [i \in 1 .. Len(s) |-> body(i, f)]
           T == Seq(B)
           F == [k \in Nat |-> [x \in T |-> IF k \in 1 .. Len(s) THEN x \o s[k] ELSE x]]
<1>1. /\ \A i \in 1 .. Len(s) : s[i] \in T
      /\ \A x \in T, y \in T : x \o y \in T
      /\ \A x \in T : <<>> \o x = x
      /\ <<>> \in T
  OBVIOUS
<1>2. Len(s) \in Nat
  OBVIOUS
<1> HIDE DEF T
<1>3. F \in [Nat -> [T -> T]]
  BY <1>1
<1>4. PICK g : /\ g \in [0 .. Len(s) -> T] /\ g[0] = <<>>
               /\ \A k \in 1 .. Len(s) : g[k] = F[k][g[k - 1]]
  <2> HIDE DEF F
  <2>1. \E g : Recurs(g, T, <<>>, F, Len(s))
    BY <1>1, <1>2, <1>3, Recursion, Zenon
  <2> QED
    BY <2>1 DEF Recurs
<1>5. \A k \in 1 .. Len(s) : g[k] = g[k - 1] \o s[k]
  <2> SUFFICES ASSUME NEW k \in 1 .. Len(s) PROVE g[k] = g[k - 1] \o s[k]
    OBVIOUS
  <2>1. k - 1 \in 0 .. Len(s) /\ k \in Nat
    OBVIOUS
  <2>2. g[k - 1] \in T
    BY <1>4, <2>1
  <2> QED
    BY <1>4, <2>1, <2>2
<1> DEFINE h == [i \in 1 .. Len(s) |-> g[i]]
<1>6. Is(h)
  <2> DEFINE f == [i \in 1 .. Len(s) |-> body(i, h)]
  <2>1. ASSUME NEW i \in 1 .. Len(s) PROVE h[i] = f[i]
    <3>1. CASE i = 1
      <4>0. 1 \in 1 .. Len(s) /\ 1 - 1 = 0
        BY <3>1
      <4>1. g[1] = <<>> \o s[1]
        BY <1>4, <1>5, <4>0, ZenonT(60)
      <4>2. g[1] = s[1]
        BY <1>1, <3>1, <4>1
      <4> QED
        BY <3>1, <4>2
    <3>2. CASE i # 1
      <4>1. i - 1 \in 1 .. Len(s) /\ h[i - 1] = g[i - 1]
        BY <3>2
      <4> QED
        BY <1>5, <3>2, <4>1
    <3> QED
      BY <3>1, <3>2
  <2> QED
    BY <2>1
<1> DEFINE v == CHOOSE f : Is(f)
<1>7. Is(v)
  <2> HIDE DEF Is, h
  <2> QED
    BY <1>6, Zenon
<1>8. FlattenSeq(s) = IF Len(s) = 0 THEN s ELSE v[Len(s)]
  BY DEF FlattenSeq
<1> HIDE DEF v
<1>9. \A i \in 1 .. Len(s) : v[i] = IF i = 1 THEN s[i] ELSE v[i - 1] \o s[i]
  <2>1. \A i \in 1 .. Len(s) : v[i] = body(i, v)
    <3> HIDE DEF body
    <3> QED
      BY <1>7
  <2> QED
    BY <2>1
<1> DEFINE Same == {i \in Nat : i \in 1 .. Len(s) => v[i] = g[i]}
<1>10. 0 \in Same
  OBVIOUS
<1>11. ASSUME NEW i \in Nat, i \in Same PROVE i + 1 \in Same
  <2> SUFFICES ASSUME i + 1 <= Len(s) PROVE v[i + 1] = g[i + 1]
    OBVIOUS
  <2>1. i + 1 \in 1 .. Len(s) /\ (i + 1) - 1 = i
    OBVIOUS
  <2>2. g[i + 1] = g[i] \o s[i + 1]
    BY <1>5, <2>1
  <2>3. CASE i = 0
    <3>1. i + 1 = 1 /\ 1 \in 1 .. Len(s)
      BY <2>1, <2>3
    <3>2. v[1] = s[1] /\ s[1] \in T
      BY <1>1, <1>9, <3>1
    <3>3. g[1] = <<>> \o s[1]
      BY <1>4, <2>2, <2>3, <3>1
    <3> QED
      BY <1>1, <3>1, <3>2, <3>3
  <2>4. CASE i # 0
    <3>1. v[i] = g[i] /\ i + 1 # 1
      BY <1>11, <2>1, <2>4
    <3> QED
      BY <1>9, <2>1, <2>2, <3>1
  <2> QED
    BY <2>3, <2>4
<1>12. FlattenSeq(s) = g[Len(s)]
  <2>1. CASE Len(s) = 0
    <3>1. s = <<>>
      BY <2>1
    <3> QED
      BY <1>4, <1>8, <2>1, <3>1
  <2>2. CASE Len(s) # 0
    <3>1. Nat \subseteq Same
      BY <1>10, <1>11, SetInduction
    <3>2. Len(s) \in Same /\ Len(s) \in 1 .. Len(s)
      BY <1>2, <2>2, <3>1
    <3> QED
      BY <1>8, <2>2, <3>2
  <2> QED
    BY <2>1, <2>2
<1> QED
  BY <1>4, <1>5, <1>12 DEF T

\* What is flattened is a sequence of the elements.
LEMMA FlattenType ==
    ASSUME NEW B, NEW s \in Seq(Seq(B))
    PROVE  FlattenSeq(s) \in Seq(B)
<1>1. PICK f \in [0 .. Len(s) -> Seq(B)] : FlattenSeq(s) = f[Len(s)]
  BY FlattenIs
<1>2. Len(s) \in 0 .. Len(s)
  OBVIOUS
<1> QED
  BY <1>1, <1>2

\* Nothing is flattened to nothing,
LEMMA FlattenEmpty == FlattenSeq(<<>>) = <<>>
BY DEF FlattenSeq

\* and one more sequence goes behind what was flattened before.
LEMMA FlattenAppend ==
    ASSUME NEW B, NEW s \in Seq(Seq(B)), NEW x \in Seq(B)
    PROVE  FlattenSeq(Append(s, x)) = FlattenSeq(s) \o x
<1> DEFINE t == Append(s, x)
<1>1. /\ t \in Seq(Seq(B)) /\ Len(t) = Len(s) + 1 /\ t[Len(s) + 1] = x
      /\ \A i \in 1 .. Len(s) : t[i] = s[i]
  OBVIOUS
<1> HIDE DEF t
<1>2. PICK f \in [0 .. Len(s) -> Seq(B)] :
        /\ FlattenSeq(s) = f[Len(s)]
        /\ f[0] = <<>> /\ \A i \in 1 .. Len(s) : f[i] = f[i - 1] \o s[i]
  BY FlattenIs
<1>3. PICK g \in [0 .. Len(t) -> Seq(B)] :
        /\ FlattenSeq(t) = g[Len(t)]
        /\ g[0] = <<>> /\ \A i \in 1 .. Len(t) : g[i] = g[i - 1] \o t[i]
  BY <1>1, FlattenIs
<1>0. Len(s) \in Nat
  OBVIOUS
<1> DEFINE Same == {i \in Nat : i <= Len(s) => g[i] = f[i]}
<1>4. 0 \in Same
  BY <1>2, <1>3
<1>5. ASSUME NEW i \in Nat, i \in Same PROVE i + 1 \in Same
  <2> SUFFICES ASSUME i + 1 <= Len(s) PROVE g[i + 1] = f[i + 1]
    OBVIOUS
  <2>1. i + 1 \in 1 .. Len(s) /\ i + 1 \in 1 .. Len(t) /\ (i + 1) - 1 = i
    BY <1>1
  <2>2. g[i + 1] = g[i] \o t[i + 1] /\ f[i + 1] = f[i] \o s[i + 1]
    BY <1>2, <1>3, <2>1
  <2>3. t[i + 1] = s[i + 1]
    BY <1>1, <2>1
  <2>4. g[i] = f[i]
    BY <1>5, <1>0
  <2> QED
    BY <2>2, <2>3, <2>4
<1>6. g[Len(s)] = f[Len(s)]
  <2>1. Nat \subseteq Same
    BY <1>4, <1>5, SetInduction
  <2>2. Len(s) \in Same /\ Len(s) <= Len(s)
    <3> HIDE DEF Same
    <3> QED
      BY <1>0, <2>1
  <2> QED
    BY <2>2
<1>7. g[Len(s) + 1] = g[Len(s)] \o t[Len(s) + 1]
  <2>1. Len(s) + 1 \in 1 .. Len(t) /\ (Len(s) + 1) - 1 = Len(s)
    BY <1>1
  <2> QED
    BY <1>3, <2>1
<1> QED
  BY <1>1, <1>2, <1>3, <1>6, <1>7 DEF t

\* What the first k sequences are flattened to is what the whole begins with;
\* the next one follows.
LEMMA FlattenPrefix ==
    ASSUME NEW B, NEW s \in Seq(Seq(B)), NEW k \in 0 .. Len(s)
    PROVE  \E r \in Seq(B) : FlattenSeq(s) = FlattenSeq(SubSeq(s, 1, k)) \o r
<1> DEFINE Begins(j) == \E r \in Seq(B) : FlattenSeq(s) = FlattenSeq(SubSeq(s, 1, j)) \o r
           Lasts == {n \in Nat : n <= Len(s) => Begins(Len(s) - n)}
<1>1. 0 \in Lasts
  <2>1. SubSeq(s, 1, Len(s)) = s /\ Len(s) - 0 = Len(s)
    BY SubSeqFull
  <2>2. FlattenSeq(s) = FlattenSeq(s) \o <<>> /\ <<>> \in Seq(B)
    BY FlattenType, ConcatEmptySeq
  <2> QED
    BY <2>1, <2>2
<1>2. ASSUME NEW n \in Nat, n \in Lasts PROVE n + 1 \in Lasts
  <2> SUFFICES ASSUME n + 1 <= Len(s) PROVE Begins(Len(s) - (n + 1))
    <3> HIDE DEF Begins
    <3> QED
      OBVIOUS
  <2> DEFINE j == Len(s) - n
             t == SubSeq(s, 1, j - 1)
  <2>1. j \in 1 .. Len(s) /\ j - 1 = Len(s) - (n + 1)
    OBVIOUS
  <2>2. PICK r \in Seq(B) : FlattenSeq(s) = FlattenSeq(SubSeq(s, 1, j)) \o r
    BY <1>2
  <2> HIDE DEF j
  <2>3. t \in Seq(Seq(B)) /\ s[j] \in Seq(B)
    BY <2>1
  <2>4. SubSeq(s, 1, j) = Append(t, s[j])
    BY <2>1
  <2> HIDE DEF t
  <2>5. FlattenSeq(SubSeq(s, 1, j)) = FlattenSeq(t) \o s[j]
    BY <2>3, <2>4, FlattenAppend
  <2>6. FlattenSeq(t) \in Seq(B)
    BY <2>3, FlattenType
  <2>7. FlattenSeq(s) = FlattenSeq(t) \o (s[j] \o r) /\ s[j] \o r \in Seq(B)
    <3>0. \A x, y, z \in Seq(B) : (x \o y) \o z = x \o (y \o z)
      BY ConcatAssociative, SMTT(60)
    <3>1. (FlattenSeq(t) \o s[j]) \o r = FlattenSeq(t) \o (s[j] \o r)
      BY <2>3, <2>6, <3>0
    <3>2. s[j] \o r \in Seq(B)
      BY <2>3, ConcatProperties
    <3> QED
      BY <2>2, <2>5, <3>1, <3>2
  <2> QED
    BY <2>1, <2>7 DEF t
<1>3. Begins(k)
  <2> HIDE DEF Begins
  <2>1. Nat \subseteq Lasts
    BY <1>1, <1>2, SetInduction
  <2>2. Len(s) - k \in Nat /\ Len(s) - k <= Len(s) /\ Len(s) - (Len(s) - k) = k
    OBVIOUS
  <2> QED
    BY <2>1, <2>2
<1> QED
  BY <1>3

-----------------------------------------------------------------------------
(* Integers of the message table *)

\* Where the forms of an integer begin, and what fits them.
LEMMA Borders ==
    /\ TwoFrom \in Nat /\ 2 * TwoFrom = Radix /\ FourFrom \in Nat /\ NineFrom \in Nat
    /\ 4 * (FourFrom - TwoFrom) = Power[2] /\ 8 * (NineFrom - FourFrom) = Power[4]
    /\ Power[1] = Radix /\ Power[2] \in Nat /\ Power[4] \in Nat
<1>1. /\ Power[1] = Radix /\ Power[2] = Radix * Radix
      /\ Power[4] = Radix * (Radix * (Radix * Radix))
  <2>1. /\ Power[0] = 1 /\ Power[1] = Radix * Power[0] /\ Power[2] = Radix * Power[1]
        /\ Power[3] = Radix * Power[2] /\ Power[4] = Radix * Power[3]
    BY Powers
  <2> QED
    BY <2>1, RadixIs
<1>2. CASE Radix = 8
  BY <1>1, <1>2 DEF TwoFrom, FourFrom, NineFrom
<1>3. CASE Radix = 16
  BY <1>1, <1>3 DEF TwoFrom, FourFrom, NineFrom
<1>4. CASE Radix = 32
  BY <1>1, <1>4 DEF TwoFrom, FourFrom, NineFrom
<1>5. CASE Radix = 64
  BY <1>1, <1>5 DEF TwoFrom, FourFrom, NineFrom
<1>6. CASE Radix = 128
  BY <1>1, <1>6 DEF TwoFrom, FourFrom, NineFrom
<1>7. CASE Radix = 256
  BY <1>1, <1>7 DEF TwoFrom, FourFrom, NineFrom
<1> QED
  BY <1>2, <1>3, <1>4, <1>5, <1>6, <1>7, RadixAssumption

\* The low bits of a byte are the low bits of the integer.
LEMMA LowBits ==
    ASSUME NEW n \in Nat
    PROVE  (n % Radix) % 2 = n % 2 /\ (n % Radix) % 4 = n % 4 /\ (n % Radix) % 8 = n % 8
BY RadixAssumption

\* The first byte of an integer is its lowest.
LEMMA FirstByte ==
    ASSUME NEW n \in Nat, NEW w \in 1 .. 8
    PROVE  ToLe(n, w)[1] = n % Radix
<1>1. ToLe(n, w)[1] = (n \div Power[1 - 1]) % Radix
  <2>1. 1 \in 1 .. w /\ w \in 0 .. 8
    OBVIOUS
  <2> QED
    BY <2>1, ToBytes
<1>2. Power[1 - 1] = 1
  BY Powers
<1> QED
  BY <1>1, <1>2

\* What is behind the first byte.
LEMMA TailOfByte ==
    ASSUME NEW B, NEW b \in B, NEW y \in Seq(B)
    PROVE  /\ <<b>> \o y \in Seq(B) /\ Len(<<b>> \o y) = Len(y) + 1
           /\ (<<b>> \o y)[1] = b /\ Tail(<<b>> \o y) = y
<1> DEFINE z == <<b>>
           x == z \o y
           t == Tail(x)
<1>1. z \in Seq(B) /\ Len(z) = 1 /\ z[1] = b
  OBVIOUS
<1> HIDE DEF z
<1>2. /\ x \in Seq(B) /\ Len(x) = 1 + Len(y)
      /\ \A i \in 1 .. 1 + Len(y) : x[i] = IF i <= 1 THEN z[i] ELSE y[i - 1]
  <2>1. /\ x \in Seq(B) /\ Len(x) = Len(z) + Len(y)
        /\ \A i \in 1 .. Len(z) + Len(y) : x[i] = IF i <= Len(z) THEN z[i] ELSE y[i - Len(z)]
    BY <1>1, ConcatProperties
  <2> HIDE DEF x
  <2> QED
    BY <1>1, <2>1
<1> HIDE DEF x
<1>3. Len(y) \in Nat /\ x[1] = b
  BY <1>1, <1>2
<1>4. x # <<>>
  BY <1>2, <1>3
<1>5. t \in Seq(B) /\ Len(t) = Len(x) - 1 /\ \A i \in 1 .. Len(t) : t[i] = x[i + 1]
  BY <1>2, <1>4, HeadTailProperties
<1> HIDE DEF t
<1>6. Len(t) = Len(y)
  BY <1>2, <1>3, <1>5
<1>7. ASSUME NEW i \in 1 .. Len(t) PROVE t[i] = y[i]
  <2>1. i + 1 \in 1 .. 1 + Len(y) /\ ~(i + 1 <= 1) /\ (i + 1) - 1 = i
    BY <1>3, <1>6
  <2> QED
    BY <1>2, <1>5, <2>1
<1>8. t = y
  BY <1>5, <1>6, <1>7, SeqEqual
<1>9. Len(x) = Len(y) + 1
  BY <1>2, <1>3
<1> QED
  BY <1>2, <1>3, <1>8, <1>9 DEF t, x, z

\* read_integer: the first byte tells how many there are, and they are read
\* as the integer they were made from.
LEMMA FormRead ==
    ASSUME NEW n \in 0 .. Power[8] - 1, NEW x \in Forms(n)
    PROVE  /\ x \in Seq(Byte) /\ Len(x) >= 1
           /\ Width(x[1]) = Len(x) /\ IntegerOf(x) = n
<1>0. n \in Nat
  BY Powers
<1>1. CASE n < TwoFrom /\ x = ToLe(2 * n + 1, 1)
  <2> DEFINE m == 2 * n + 1
  <2>1. m \in Nat /\ m < Radix /\ m % 2 = 1 /\ m \div 2 = n
    BY <1>0, <1>1, Borders
  <2> HIDE DEF m
  <2>2. x \in Seq(Byte) /\ Len(x) = 1 /\ x[1] = m % Radix
    <3>1. x = ToLe(m, 1)
      BY <1>1 DEF m
    <3>2. 1 \in 0 .. 8 /\ 1 \in 1 .. 8
      OBVIOUS
    <3>3. ToLe(m, 1) \in Seq(Byte) /\ Len(ToLe(m, 1)) = 1
      BY <2>1, <3>2, ToBytes
    <3>4. ToLe(m, 1)[1] = m % Radix
      BY <2>1, <3>2, FirstByte
    <3> QED
      BY <3>1, <3>3, <3>4
  <2>3. x[1] = m
    BY <2>1, <2>2, RadixIs
  <2>4. Width(x[1]) = 1
    BY <2>1, <2>3 DEF Width
  <2>5. IntegerOf(x) = n
    BY <2>1, <2>2, <2>3 DEF IntegerOf
  <2> QED
    BY <2>2, <2>4, <2>5
<1>2. CASE n >= TwoFrom /\ n < FourFrom /\ x = ToLe(4 * (n - TwoFrom) + 2, 2)
  <2> DEFINE m == 4 * (n - TwoFrom) + 2
  <2>1. m \in 0 .. Power[2] - 1 /\ m \in Nat /\ m % 4 = 2 /\ m % 2 = 0 /\ TwoFrom + m \div 4 = n
    BY <1>0, <1>2, Borders
  <2> HIDE DEF m
  <2>2. x \in Seq(Byte) /\ Len(x) = 2 /\ x[1] = m % Radix
    <3>1. x = ToLe(m, 2)
      BY <1>2 DEF m
    <3>2. 2 \in 0 .. 8 /\ 2 \in 1 .. 8
      OBVIOUS
    <3>3. ToLe(m, 2) \in Seq(Byte) /\ Len(ToLe(m, 2)) = 2
      BY <2>1, <3>2, ToBytes
    <3>4. ToLe(m, 2)[1] = m % Radix
      BY <2>1, <3>2, FirstByte
    <3> QED
      BY <3>1, <3>3, <3>4
  <2>3. x[1] % 2 = 0 /\ x[1] % 4 = 2
    BY <2>1, <2>2, LowBits
  <2>4. Width(x[1]) = 2
    <3>1. x[1] % 2 # 1 /\ x[1] % 8 # 4
      <4>1. x[1] \in Nat
        BY <2>1, <2>2, RadixIs
      <4>2. \A b \in Nat : b % 4 = 2 => b % 8 # 4
        OBVIOUS
      <4> QED
        BY <2>3, <4>1, <4>2
    <3> QED
      BY <2>3, <3>1 DEF Width
  <2>5. FromLe(x) = m
    BY <1>2, <2>1, FromLeToLe DEF m
  <2>6. IntegerOf(x) = n
    BY <2>1, <2>2, <2>5 DEF IntegerOf
  <2> QED
    BY <2>2, <2>4, <2>6
<1>3. CASE n >= FourFrom /\ n < NineFrom /\ x = ToLe(8 * (n - FourFrom) + 4, 4)
  <2> DEFINE m == 8 * (n - FourFrom) + 4
  <2>1. /\ m \in 0 .. Power[4] - 1 /\ m \in Nat /\ m % 8 = 4 /\ m % 4 = 0 /\ m % 2 = 0
        /\ FourFrom + m \div 8 = n
    BY <1>0, <1>3, Borders
  <2> HIDE DEF m
  <2>2. x \in Seq(Byte) /\ Len(x) = 4 /\ x[1] = m % Radix
    <3>1. x = ToLe(m, 4)
      BY <1>3 DEF m
    <3>2. 4 \in 0 .. 8 /\ 4 \in 1 .. 8
      OBVIOUS
    <3>3. ToLe(m, 4) \in Seq(Byte) /\ Len(ToLe(m, 4)) = 4
      BY <2>1, <3>2, ToBytes
    <3>4. ToLe(m, 4)[1] = m % Radix
      BY <2>1, <3>2, FirstByte
    <3> QED
      BY <3>1, <3>3, <3>4
  <2>3. x[1] % 2 = 0 /\ x[1] % 4 = 0 /\ x[1] % 8 = 4
    BY <2>1, <2>2, LowBits
  <2>4. Width(x[1]) = 4
    BY <2>3 DEF Width
  <2>5. FromLe(x) = m
    BY <1>3, <2>1, FromLeToLe DEF m
  <2>6. IntegerOf(x) = n
    BY <2>1, <2>2, <2>5 DEF IntegerOf
  <2> QED
    BY <2>2, <2>4, <2>6
<1>4. CASE x = <<0>> \o ToLe(n, 8)
  <2> DEFINE y == ToLe(n, 8)
  <2>1. y \in Seq(Byte) /\ Len(y) = 8
    BY <1>0, ToBytes
  <2>2. <<0>> \in Seq(Byte)
    BY RadixIs DEF Byte
  <2>3. FromLe(y) = n
    BY FromLeToLe
  <2> HIDE DEF y
  <2>4. x \in Seq(Byte) /\ Len(x) = 9 /\ x[1] = 0 /\ Tail(x) = y
    <3>1. x = <<0>> \o y /\ 0 \in Byte
      BY <1>4, RadixIs DEF y, Byte
    <3>2. x \in Seq(Byte) /\ Len(x) = Len(y) + 1 /\ x[1] = 0 /\ Tail(x) = y
      BY <2>1, <3>1, TailOfByte, ZenonT(60)
    <3> QED
      BY <2>1, <3>2
  <2>5. Width(x[1]) = 9
    BY <2>4 DEF Width
  <2>6. IntegerOf(x) = n
    <3>1. IntegerOf(x) = FromLe(Tail(x))
      BY <2>4 DEF IntegerOf
    <3> QED
      BY <2>3, <2>4, <3>1
  <2> QED
    BY <2>4, <2>5, <2>6
<1> QED
  BY <1>1, <1>2, <1>3, <1>4 DEF Forms

-----------------------------------------------------------------------------
(* Encodings of a table *)

\* enc[k] is the table's encoding up to its entry k.
EncodingOf(enc, t) ==
    /\ enc \in [0 .. Len(t) -> Seq(Byte)]
    /\ enc[0] = ToBe(Len(t), 4)
    /\ \A k \in 1 .. Len(t) : \E e \in EntryForms(t[k]) : enc[k] = enc[k - 1] \o e

\* A published table: ids and lengths are integers of 64 bits.
LEMMA TableIs ==
    ASSUME NEW t \in Tables
    PROVE  /\ t \in Seq([id : 0 .. Power[8] - 1, name : Seq(Byte)])
           /\ Len(t) \in 0 .. Power[4] - 1 /\ DOMAIN t = 1 .. Len(t)
           /\ \A k \in 1 .. Len(t) :
                /\ t[k] = Entry(t[k].id, t[k].name)
                /\ t[k].id \in 0 .. Power[8] - 1 /\ t[k].name \in Seq(Byte)
                /\ Len(t[k].name) \in 0 .. Power[8] - 1
<1>1. t \in Seq([id : 0 .. Power[8] - 1, name : Seq(Byte)])
  BY TablesAssumption
<1>2. Len(t) \in Nat /\ DOMAIN t = 1 .. Len(t) /\ Len(t) < Power[4]
      /\ \A k \in 1 .. Len(t) : t[k] \in [id : 0 .. Power[8] - 1, name : Seq(Byte)]
  <2>1. Len(t) < Power[4]
    BY TablesAssumption
  <2> DEFINE E == [id : 0 .. Power[8] - 1, name : Seq(Byte)]
  <2>2. t \in Seq(E)
    BY <1>1
  <2> HIDE DEF E
  <2>3. Len(t) \in Nat /\ DOMAIN t = 1 .. Len(t) /\ \A k \in 1 .. Len(t) : t[k] \in E
    BY <2>2
  <2> QED
    BY <2>1, <2>3 DEF E
<1>3. \A k \in 1 .. Len(t) :
        /\ t[k] = Entry(t[k].id, t[k].name)
        /\ t[k].id \in 0 .. Power[8] - 1 /\ t[k].name \in Seq(Byte)
  BY <1>2 DEF Entry
<1>4. ASSUME NEW k \in 1 .. Len(t)
      PROVE  Len(t[k].name) \in Nat /\ Len(t[k].name) < Power[8]
  <2>1. k \in DOMAIN t
    BY <1>2
  <2>2. Len(t[k].name) < Power[8]
    BY <2>1, TablesAssumption
  <2>3. t[k].name \in Seq(Byte)
    BY <1>3
  <2> QED
    BY <2>2, <2>3
<1>5. Power[4] \in Nat /\ Power[8] \in Nat
  BY Powers
<1> QED
  BY <1>1, <1>2, <1>3, <1>4, <1>5

\* Every s with every e behind it.
Joined(S, E) == {s \o e : s \in S, e \in E}

\* The members of the two definitions are made of their parts.
LEMMA JoinedIs ==
    ASSUME NEW S, NEW E, NEW x \in Joined(S, E)
    PROVE  \E s \in S, e \in E : x = s \o e
BY DEF Joined

\* An entry is an id, a length and a name.
LEMMA EntryFormIs ==
    ASSUME NEW t \in Tables, NEW k \in 1 .. Len(t), NEW e \in EntryForms(t[k])
    PROVE  /\ e \in Seq(Byte)
           /\ \E i \in Forms(t[k].id), l \in Forms(Len(t[k].name)) : e = i \o (l \o t[k].name)
<1> DEFINE I == Forms(t[k].id)
           L == Forms(Len(t[k].name))
           z == t[k].name
<1>1. e \in Joined(I, NameForms(z))
  BY DEF EntryForms, Joined
<1>2. PICK i \in I, l \in L : e = i \o (l \o z)
  <2>1. PICK i \in I, n \in NameForms(z) : e = i \o n
    <3> HIDE DEF I, z
    <3> QED
      BY <1>1, JoinedIs
  <2>2. PICK l \in L : n = l \o z
    BY DEF NameForms
  <2> QED
    BY <2>1, <2>2
<1> HIDE DEF I, L, z
<1>3. i \in Seq(Byte) /\ l \in Seq(Byte) /\ z \in Seq(Byte)
  BY TableIs, FormRead DEF I, L, z
<1>4. l \o z \in Seq(Byte)
  BY <1>3, ConcatProperties
<1>5. e \in Seq(Byte)
  BY <1>2, <1>3, <1>4, ConcatProperties
<1> QED
  BY <1>2, <1>5 DEF I, L, z

\* Every encoding of a table is made of an encoding of each entry.
LEMMA EncodingParts ==
    ASSUME NEW t \in Tables, NEW s \in Encodings(t)
    PROVE  \E enc : EncodingOf(enc, t) /\ enc[Len(t)] = s
<1> DEFINE T == SUBSET Seq(Byte)
           Next(k, S) == Joined(S, EntryForms(t[k]))
           body(k, f) == IF k = 0 THEN {ToBe(Len(t), 4)} ELSE Next(k, f[k - 1])
           Is(f) == f = [k \in 0 .. Len(t) |-> body(k, f)]
           F == [k \in Nat |-> [S \in T |-> IF k \in 1 .. Len(t) THEN Next(k, S) ELSE S]]
<1>1. ToBe(Len(t), 4) \in Seq(Byte)
  BY TableIs, ToBytes
<1>2. ASSUME NEW k \in 1 .. Len(t), NEW u \in Seq(Byte), NEW e \in EntryForms(t[k])
      PROVE  u \o e \in Seq(Byte)
  BY EntryFormIs, ConcatProperties
<1>3. ASSUME NEW k \in 1 .. Len(t), NEW S \in T PROVE Next(k, S) \in T
  <2>1. \A u \in S : u \in Seq(Byte)
    OBVIOUS
  <2>2. ASSUME NEW x \in Next(k, S) PROVE x \in Seq(Byte)
    <3>1. PICK u \in S, e \in EntryForms(t[k]) : x = u \o e
      BY <2>2, JoinedIs
    <3> QED
      BY <1>2, <2>1, <3>1
  <2> QED
    BY <2>2
<1>4. Len(t) \in Nat /\ {ToBe(Len(t), 4)} \in T
  BY <1>1, TableIs
<1> HIDE DEF T, Next
<1>5. F \in [Nat -> [T -> T]]
  BY <1>3
<1>6. PICK g : /\ g \in [0 .. Len(t) -> T] /\ g[0] = {ToBe(Len(t), 4)}
               /\ \A k \in 1 .. Len(t) : g[k] = F[k][g[k - 1]]
  <2> HIDE DEF F
  <2>1. \E g : Recurs(g, T, {ToBe(Len(t), 4)}, F, Len(t))
    BY <1>4, <1>5, Recursion, Zenon
  <2> QED
    BY <2>1 DEF Recurs
<1>7. Is(g)
  <2> DEFINE f == [k \in 0 .. Len(t) |-> body(k, g)]
  <2>1. ASSUME NEW k \in 0 .. Len(t) PROVE g[k] = f[k]
    <3>1. CASE k = 0
      BY <1>6, <3>1
    <3>2. CASE k \in 1 .. Len(t)
      <4>1. k - 1 \in 0 .. Len(t) /\ k \in Nat /\ k # 0
        BY <3>2
      <4>2. g[k - 1] \in T
        BY <1>6, <4>1
      <4>3. g[k] = Next(k, g[k - 1])
        BY <1>6, <3>2, <4>1, <4>2
      <4> QED
        BY <4>1, <4>3
    <3> QED
      BY <1>4, <3>1, <3>2
  <2> QED
    BY <1>6, <2>1
<1> DEFINE more == CHOOSE f : Is(f)
<1>8. Encodings(t) = more[Len(t)]
  BY DEF Encodings, Next, Joined
<1>9. Is(more)
  <2> HIDE DEF Is
  <2> QED
    BY <1>7, Zenon
<1> HIDE DEF more
<1>10. more[0] = {ToBe(Len(t), 4)} /\ \A k \in 1 .. Len(t) : more[k] = Next(k, more[k - 1])
  <2>1. \A k \in 0 .. Len(t) : more[k] = body(k, more)
    <3> HIDE DEF body
    <3> QED
      BY <1>9
  <2> QED
    BY <1>4, <2>1
<1> DEFINE Step(enc, k) == \E e \in EntryForms(t[k]) : enc[k] = enc[k - 1] \o e
           Parts(enc, m) == /\ enc \in [0 .. m -> Seq(Byte)] /\ enc[0] = ToBe(Len(t), 4)
                            /\ \A k \in 1 .. m : Step(enc, k)
           Made == {m \in Nat : m <= Len(t) =>
                      \A u \in more[m] : \E enc : Parts(enc, m) /\ enc[m] = u}
<1>11. 0 \in Made
  <2> SUFFICES ASSUME NEW u \in more[0] PROVE \E enc : Parts(enc, 0) /\ enc[0] = u
    OBVIOUS
  <2> DEFINE enc == [k \in 0 .. 0 |-> ToBe(Len(t), 4)]
  <2>1. enc \in [0 .. 0 -> Seq(Byte)] /\ enc[0] = ToBe(Len(t), 4) /\ u = ToBe(Len(t), 4)
    BY <1>1, <1>10
  <2> HIDE DEF enc, Step
  <2> QED
    BY <2>1
<1>12. ASSUME NEW m \in Nat, m \in Made PROVE m + 1 \in Made
  <2> SUFFICES ASSUME m + 1 <= Len(t), NEW u \in more[m + 1]
               PROVE  \E enc : Parts(enc, m + 1) /\ enc[m + 1] = u
    <3> HIDE DEF Parts
    <3> QED
      OBVIOUS
  <2>1. m + 1 \in 1 .. Len(t) /\ (m + 1) - 1 = m /\ m <= Len(t)
    BY <1>4
  <2>2. u \in Next(m + 1, more[m])
    BY <1>10, <2>1
  <2>3. PICK w \in more[m], e \in EntryForms(t[m + 1]) : u = w \o e
    BY <2>2, JoinedIs DEF Next
  <2>4. PICK enc : Parts(enc, m) /\ enc[m] = w
    <3> HIDE DEF Parts
    <3> QED
      BY <1>12, <2>1, <2>3
  <2>5. u \in Seq(Byte)
    <3>1. w \in Seq(Byte)
      BY <2>4
    <3> QED
      BY <1>2, <2>1, <2>3, <3>1
  <2> DEFINE next == [k \in 0 .. m + 1 |-> IF k = m + 1 THEN u ELSE enc[k]]
  <2>6. next \in [0 .. m + 1 -> Seq(Byte)] /\ next[m + 1] = u
        /\ \A k \in 0 .. m : next[k] = enc[k]
    BY <2>4, <2>5
  <2> HIDE DEF next
  <2>7. next[0] = ToBe(Len(t), 4)
    <3>1. enc[0] = ToBe(Len(t), 4)
      BY <2>4
    <3>2. next[0] = enc[0]
      BY <2>6
    <3> QED
      BY <3>1, <3>2
  <2>8. Step(next, m + 1)
    <3>1. next[m] = enc[m] /\ enc[m] = w
      BY <2>4, <2>6
    <3>2. next[m + 1] = next[m] \o e
      BY <2>3, <2>6, <3>1
    <3>3. next[m + 1] = next[(m + 1) - 1] \o e
      BY <2>1, <3>2
    <3> QED
      BY <3>3
  <2>9. ASSUME NEW k \in 1 .. m PROVE Step(next, k)
    <3>1. next[k] = enc[k] /\ next[k - 1] = enc[k - 1]
      BY <2>6
    <3>2. Step(enc, k)
      <4> HIDE DEF Step
      <4> QED
        BY <2>4
    <3> QED
      BY <3>1, <3>2
  <2>10. Parts(next, m + 1)
    <3> HIDE DEF Step
    <3> QED
      BY <2>6, <2>7, <2>8, <2>9
  <2> QED
    <3> HIDE DEF Parts
    <3> QED
      BY <2>6, <2>10
<1>13. \E enc : Parts(enc, Len(t)) /\ enc[Len(t)] = s
  <2> HIDE DEF Parts
  <2>1. Nat \subseteq Made
    BY <1>11, <1>12, SetInduction
  <2> QED
    BY <1>4, <1>8, <2>1
<1> QED
  BY <1>13 DEF EncodingOf

-----------------------------------------------------------------------------
(* The import of a table *)

\* What is left of s, where e was encoded, after o bytes; c: its end is missing.
Rest(s, e, o, c) ==
    /\ s \in Seq(Byte) /\ o \in Nat
    /\ \A j \in 1 .. Len(s) : o + j <= Len(e) => s[j] = e[o + j]
    /\ c <=> o + Len(s) < Len(e)

\* The bytes of x are next in e.
IsNext(e, o, x) ==
    /\ x \in Seq(Byte) /\ o + Len(x) <= Len(e)
    /\ \A j \in 1 .. Len(x) : e[o + j] = x[j]

\* take: if the bytes are there they are those that were written; if not, the
\* end is missing.
LEMMA TakePart ==
    ASSUME NEW e \in Seq(Byte), NEW s, NEW o, NEW c, Rest(s, e, o, c), NEW x, IsNext(e, o, x)
    PROVE  /\ Has(s, Len(x)) =>
                SubSeq(s, 1, Len(x)) = x /\ Rest(Behind(s, Len(x)), e, o + Len(x), c)
           /\ ~Has(s, Len(x)) => c
<1>1. s \in Seq(Byte) /\ o \in Nat /\ x \in Seq(Byte) /\ Len(s) \in Nat /\ Len(x) \in Nat
      /\ Len(e) \in Nat /\ o + Len(x) <= Len(e)
  BY DEF Rest, IsNext
<1>2. ASSUME Has(s, Len(x)) PROVE SubSeq(s, 1, Len(x)) = x
  <2> DEFINE y == SubSeq(s, 1, Len(x))
  <2>1. Len(x) <= Len(s)
    BY <1>1, <1>2 DEF Has
  <2>2. y \in Seq(Byte) /\ Len(y) = Len(x) /\ \A j \in 1 .. Len(x) : y[j] = s[j]
    BY <1>1, <2>1
  <2> HIDE DEF y
  <2>3. ASSUME NEW j \in 1 .. Len(y) PROVE y[j] = x[j]
    <3>1. j \in 1 .. Len(x) /\ j \in 1 .. Len(s) /\ o + j <= Len(e)
      BY <1>1, <2>1, <2>2
    <3> QED
      BY <2>2, <3>1 DEF Rest, IsNext
  <2>4. y = x
    BY <1>1, <2>2, <2>3, SeqEqual
  <2> QED
    BY <2>4 DEF y
<1>3. ASSUME Has(s, Len(x)) PROVE Rest(Behind(s, Len(x)), e, o + Len(x), c)
  <2> DEFINE y == SubSeq(s, Len(x) + 1, Len(s))
  <2>1. Len(x) <= Len(s)
    BY <1>1, <1>3 DEF Has
  <2>2. /\ y \in Seq(Byte) /\ Len(y) = Len(s) - Len(x)
        /\ \A j \in 1 .. Len(s) - Len(x) : y[j] = s[Len(x) + j]
    BY <1>1, <2>1
  <2> HIDE DEF y
  <2>3. ASSUME NEW j \in 1 .. Len(y), (o + Len(x)) + j <= Len(e) PROVE y[j] = e[(o + Len(x)) + j]
    <3>1. j \in 1 .. Len(s) - Len(x) /\ Len(x) + j \in 1 .. Len(s)
          /\ o + (Len(x) + j) = (o + Len(x)) + j
      BY <1>1, <2>1, <2>2
    <3>2. s[Len(x) + j] = e[o + (Len(x) + j)]
      BY <2>3, <3>1 DEF Rest
    <3> QED
      BY <2>2, <3>1, <3>2
  <2>4. c <=> (o + Len(x)) + Len(y) < Len(e)
    <3>1. (o + Len(x)) + Len(y) = o + Len(s)
      BY <1>1, <2>2
    <3> QED
      BY <3>1 DEF Rest
  <2>5. Rest(y, e, o + Len(x), c)
    BY <1>1, <2>2, <2>3, <2>4 DEF Rest
  <2> QED
    BY <2>5 DEF y, Behind
<1>4. ASSUME ~Has(s, Len(x)) PROVE c
  BY <1>1, <1>4 DEF Has, Rest
<1> QED
  BY <1>2, <1>3, <1>4

\* read_integer of an integer that is next.
LEMMA TakeInteger ==
    ASSUME NEW e \in Seq(Byte), NEW s, NEW o, NEW c, Rest(s, e, o, c),
           NEW n \in 0 .. Power[8] - 1, NEW x \in Forms(n), IsNext(e, o, x)
    PROVE  /\ IntegerFits(s) =>
                /\ FirstInteger(s) = n
                /\ AfterInteger(s) = Behind(s, Len(x))
                /\ Rest(AfterInteger(s), e, o + Len(x), c)
           /\ ~IntegerFits(s) => c
<1>1. x \in Seq(Byte) /\ Len(x) >= 1 /\ Width(x[1]) = Len(x) /\ IntegerOf(x) = n
  BY FormRead
<1>2. s \in Seq(Byte) /\ o \in Nat /\ Len(s) \in Nat /\ Len(x) \in Nat /\ Len(e) \in Nat
      /\ o + Len(x) <= Len(e)
  BY <1>1 DEF Rest, IsNext
<1>3. Has(s, 1) => s[1] = x[1]
  <2> SUFFICES ASSUME Has(s, 1) PROVE s[1] = x[1]
    OBVIOUS
  <2>1. 1 \in 1 .. Len(s) /\ 1 \in 1 .. Len(x) /\ o + 1 <= Len(e)
    BY <1>1, <1>2 DEF Has
  <2> QED
    BY <2>1 DEF Rest, IsNext
<1>4. IntegerFits(s) <=> Has(s, Len(x))
  <2>1. Has(s, Len(x)) => Has(s, 1)
    BY <1>1, <1>2 DEF Has
  <2> QED
    BY <1>1, <1>3, <2>1 DEF IntegerFits
<1>5. ASSUME IntegerFits(s)
      PROVE  FirstInteger(s) = n /\ AfterInteger(s) = Behind(s, Len(x))
             /\ Rest(AfterInteger(s), e, o + Len(x), c)
  <2>1. Has(s, 1) /\ Has(s, Len(x)) /\ Width(s[1]) = Len(x)
    BY <1>1, <1>3, <1>4, <1>5 DEF IntegerFits
  <2>2. SubSeq(s, 1, Len(x)) = x /\ Rest(Behind(s, Len(x)), e, o + Len(x), c)
    BY <2>1, TakePart
  <2>3. FirstInteger(s) = n
    BY <1>1, <2>1, <2>2 DEF FirstInteger
  <2>4. AfterInteger(s) = Behind(s, Len(x))
    BY <2>1 DEF AfterInteger
  <2> QED
    BY <2>2, <2>3, <2>4
<1>6. ~IntegerFits(s) => c
  BY <1>4, TakePart
<1> QED
  BY <1>5, <1>6

\* The encoding up to an entry is what the whole one begins with.
LEMMA EncodingBegins ==
    ASSUME NEW t \in Tables, NEW enc, EncodingOf(enc, t), NEW k \in 0 .. Len(t)
    PROVE  /\ enc[k] \in Seq(Byte) /\ enc[Len(t)] \in Seq(Byte)
           /\ Len(enc[k]) <= Len(enc[Len(t)])
           /\ \A j \in 1 .. Len(enc[k]) : enc[Len(t)][j] = enc[k][j]
<1> DEFINE Begins(m) == /\ Len(enc[k]) <= Len(enc[m])
                        /\ \A j \in 1 .. Len(enc[k]) : enc[m][j] = enc[k][j]
           Good == {m \in Nat : m \in k .. Len(t) => Begins(m)}
<1>1. Len(t) \in Nat /\ \A m \in 0 .. Len(t) : enc[m] \in Seq(Byte) /\ Len(enc[m]) \in Nat
  <2>1. Len(t) \in Nat
    <3>1. Len(t) \in 0 .. Power[4] - 1
      BY TableIs
    <3> QED
      BY <3>1
  <2>2. \A m \in 0 .. Len(t) : enc[m] \in Seq(Byte)
    BY DEF EncodingOf
  <2> QED
    BY <2>1, <2>2
<1>2. 0 \in Good
  BY <1>1
<1>3. ASSUME NEW m \in Nat, m \in Good PROVE m + 1 \in Good
  <2> SUFFICES ASSUME m + 1 \in k .. Len(t) PROVE Begins(m + 1)
    <3> HIDE DEF Begins
    <3> QED
      OBVIOUS
  <2>1. CASE m + 1 = k
    BY <1>1, <2>1
  <2>2. CASE m + 1 # k
    <3>1. m \in k .. Len(t) /\ m + 1 \in 1 .. Len(t) /\ (m + 1) - 1 = m /\ m \in 0 .. Len(t)
      BY <1>1, <2>2
    <3>2. Begins(m)
      <4> HIDE DEF Begins
      <4> QED
        BY <1>3, <3>1
    <3>3. PICK e \in EntryForms(t[m + 1]) : enc[m + 1] = enc[m] \o e
      BY <3>1 DEF EncodingOf
    <3>4. e \in Seq(Byte)
      BY <3>1, EntryFormIs
    <3> DEFINE a == enc[m]
               b == enc[m + 1]
    <3>5. a \in Seq(Byte) /\ b = a \o e /\ Len(a) \in Nat
      BY <1>1, <3>1, <3>3
    <3> HIDE DEF a, b
    <3>6. Len(b) = Len(a) + Len(e) /\ \A j \in 1 .. Len(a) : b[j] = a[j]
      BY <3>4, <3>5
    <3>7. Len(e) \in Nat /\ Len(enc[k]) \in Nat
      BY <1>1, <3>4
    <3>8. Len(enc[k]) <= Len(a) /\ \A j \in 1 .. Len(enc[k]) : a[j] = enc[k][j]
      BY <3>2 DEF a
    <3>9. Len(enc[k]) <= Len(b) /\ \A j \in 1 .. Len(enc[k]) : b[j] = enc[k][j]
      BY <3>5, <3>6, <3>7, <3>8
    <3> QED
      BY <3>9 DEF b
  <2> QED
    BY <2>1, <2>2
<1>4. Begins(Len(t))
  <2> HIDE DEF Begins
  <2>1. Nat \subseteq Good
    BY <1>2, <1>3, SetInduction
  <2> QED
    BY <1>1, <2>1
<1> QED
  BY <1>1, <1>4

\* Two sequences, one behind the other.
LEMMA Follows ==
    ASSUME NEW B, NEW x \in Seq(B), NEW y \in Seq(B)
    PROVE  /\ x \o y \in Seq(B) /\ Len(x \o y) = Len(x) + Len(y)
           /\ Len(x) \in Nat /\ Len(y) \in Nat
           /\ \A j \in 1 .. Len(x) : (x \o y)[j] = x[j]
           /\ \A j \in 1 .. Len(y) : (x \o y)[Len(x) + j] = y[j]
OBVIOUS

\* Of three, it is the same which two are joined first.
LEMMA Grouped ==
    ASSUME NEW B, NEW x \in Seq(B), NEW y \in Seq(B), NEW z \in Seq(B)
    PROVE  (x \o y) \o z = x \o (y \o z)
BY ConcatAssociative

\* The first bytes of e are those of b.
Begins(e, b) == Len(b) <= Len(e) /\ \A j \in 1 .. Len(b) : e[j] = b[j]

\* The parts of an entry follow each other.
LEMMA PartsFollow ==
    ASSUME NEW a \in Seq(Byte), NEW i \in Seq(Byte), NEW l \in Seq(Byte), NEW z \in Seq(Byte),
           NEW e \in Seq(Byte), Begins(e, a \o (i \o (l \o z)))
    PROVE  /\ IsNext(e, Len(a), i) /\ IsNext(e, Len(a) + Len(i), l)
           /\ IsNext(e, (Len(a) + Len(i)) + Len(l), z)
           /\ Len(a \o (i \o (l \o z))) = ((Len(a) + Len(i)) + Len(l)) + Len(z)
<1> DEFINE y == l \o z
           x == i \o y
           b == a \o x
<1>0. Len(a) \in Nat /\ Len(i) \in Nat /\ Len(l) \in Nat /\ Len(z) \in Nat /\ Len(e) \in Nat
  OBVIOUS
<1>1. /\ y \in Seq(Byte) /\ Len(y) = Len(l) + Len(z)
      /\ (\A j \in 1 .. Len(l) : y[j] = l[j]) /\ \A j \in 1 .. Len(z) : y[Len(l) + j] = z[j]
  OBVIOUS
<1> HIDE DEF y
<1>2. /\ x \in Seq(Byte) /\ Len(x) = Len(i) + Len(y)
      /\ (\A j \in 1 .. Len(i) : x[j] = i[j]) /\ \A j \in 1 .. Len(y) : x[Len(i) + j] = y[j]
  <2>1. y \in Seq(Byte)
    BY <1>1
  <2> QED
    BY <2>1, Follows
<1>3. b = a \o x /\ Len(b) <= Len(e) /\ \A j \in 1 .. Len(b) : e[j] = b[j]
  BY DEF y, Begins
<1> HIDE DEF x, b
<1>4. Len(b) = Len(a) + Len(x) /\ \A j \in 1 .. Len(x) : b[Len(a) + j] = x[j]
  <2>1. x \in Seq(Byte)
    BY <1>2
  <2>2. Len(a \o x) = Len(a) + Len(x) /\ \A j \in 1 .. Len(x) : (a \o x)[Len(a) + j] = x[j]
    BY <2>1, Follows
  <2> QED
    BY <2>2, <1>3
<1>5. Len(b) = ((Len(a) + Len(i)) + Len(l)) + Len(z)
  BY <1>0, <1>1, <1>2, <1>4
<1>6. IsNext(e, Len(a), i)
  <2>1. ASSUME NEW j \in 1 .. Len(i) PROVE e[Len(a) + j] = i[j]
    <3>1. j \in 1 .. Len(x) /\ Len(a) + j \in 1 .. Len(b)
      BY <1>0, <1>1, <1>2, <1>4
    <3> QED
      BY <1>2, <1>3, <1>4, <3>1
  <2> QED
    BY <1>0, <1>3, <1>5, <2>1 DEF IsNext
<1>7. IsNext(e, Len(a) + Len(i), l)
  <2>1. ASSUME NEW j \in 1 .. Len(l) PROVE e[(Len(a) + Len(i)) + j] = l[j]
    <3>1. /\ j \in 1 .. Len(y) /\ Len(i) + j \in 1 .. Len(x)
          /\ Len(a) + (Len(i) + j) \in 1 .. Len(b)
          /\ Len(a) + (Len(i) + j) = (Len(a) + Len(i)) + j
      BY <1>0, <1>1, <1>2, <1>4
    <3>2. e[Len(a) + (Len(i) + j)] = x[Len(i) + j]
      BY <1>3, <1>4, <3>1
    <3>3. x[Len(i) + j] = l[j]
      BY <1>1, <1>2, <3>1
    <3> QED
      BY <3>1, <3>2, <3>3
  <2> QED
    BY <1>0, <1>3, <1>5, <2>1 DEF IsNext
<1>8. IsNext(e, (Len(a) + Len(i)) + Len(l), z)
  <2>1. ASSUME NEW j \in 1 .. Len(z) PROVE e[((Len(a) + Len(i)) + Len(l)) + j] = z[j]
    <3>1. /\ Len(l) + j \in 1 .. Len(y) /\ Len(i) + (Len(l) + j) \in 1 .. Len(x)
          /\ Len(a) + (Len(i) + (Len(l) + j)) \in 1 .. Len(b)
          /\ Len(a) + (Len(i) + (Len(l) + j)) = ((Len(a) + Len(i)) + Len(l)) + j
      BY <1>0, <1>1, <1>2, <1>4
    <3>2. e[Len(a) + (Len(i) + (Len(l) + j))] = x[Len(i) + (Len(l) + j)]
      BY <1>3, <1>4, <3>1
    <3>3. x[Len(i) + (Len(l) + j)] = y[Len(l) + j] /\ y[Len(l) + j] = z[j]
      BY <1>1, <1>2, <3>1
    <3> QED
      BY <3>1, <3>2, <3>3
  <2> QED
    BY <1>0, <1>3, <1>5, <2>1 DEF IsNext
<1> QED
  BY <1>5, <1>6, <1>7, <1>8 DEF b, x, y

\* While a table is imported, the bytes not taken are those of an encoding of
\* it behind what was read, up to where the region ends; the entries read are
\* its first ones, and the counter counts the others.
TableInv ==
    /\ TableTypeOK
    /\ tphase = "idle" => entries = <<>> /\ count = 0
    /\ tphase = "count" =>
        /\ entries = <<>> /\ count = 0 /\ table \in Tables
        /\ \E enc : EncodingOf(enc, table) /\ Rest(input, enc[Len(table)], 0, cut)
    /\ tphase = "entries" =>
        /\ table \in Tables /\ Len(entries) + count = Len(table)
        /\ \A i \in 1 .. Len(entries) :
            entries[i] = table[i] /\ table[i].id < Power[2] /\ Utf8(table[i].name)
        /\ \E enc : /\ EncodingOf(enc, table)
                    /\ Rest(input, enc[Len(table)], Len(enc[Len(entries)]), cut)
    /\ tphase = "ok" => table \in Tables /\ ~cut /\ Importable(table) /\ entries = table
    /\ tphase = "error" => cut \/ ~Importable(table)

\* Before a table is imported,
LEMMA TableInvInit ==
    ASSUME TableIdle
    PROVE  TableInv
<1>1. TableTypeOK
  <2>1. \A E : <<>> \in Seq(E)
    OBVIOUS
  <2>2. /\ tphase = "idle" /\ input = <<>> /\ count = 0 /\ entries = <<>> /\ cut = FALSE
    BY DEF TableIdle
  <2> QED
    BY <2>1, <2>2 DEF TableTypeOK
<1> QED
  BY <1>1 DEF TableIdle, TableInv

\* Client::connect: nothing is read yet.
LEMMA ImportKeeps ==
    ASSUME TableInv, NEW t \in Tables, Import(t)
    PROVE  TableInv'
<1>1. PICK s \in Encodings(t) :
        \/ input' \in {s \o r : r \in Rests} /\ cut' = FALSE
        \/ input' \in {SubSeq(s, 1, n) : n \in 0 .. Len(s) - 1} /\ cut' = TRUE
  BY DEF Import
<1>2. PICK enc : EncodingOf(enc, t) /\ enc[Len(t)] = s
  BY EncodingParts
<1>3. s \in Seq(Byte)
  <2>1. Len(t) \in 0 .. Len(t)
    <3>1. Len(t) \in 0 .. Power[4] - 1
      BY TableIs
    <3> QED
      BY <3>1
  <2> QED
    BY <1>2, <2>1 DEF EncodingOf
<1>4. Rest(input', s, 0, cut')
  <2>1. CASE input' \in {s \o r : r \in Rests} /\ cut' = FALSE
    <3>1. PICK r \in Rests : input' = s \o r
      BY <2>1
    <3>2. r \in Seq(Byte)
      BY TablesAssumption
    <3> DEFINE x == input'
    <3>3. x = s \o r
      BY <3>1
    <3> HIDE DEF x
    <3>4. /\ x \in Seq(Byte) /\ Len(x) = Len(s) + Len(r) /\ Len(s) \in Nat /\ Len(r) \in Nat
          /\ \A j \in 1 .. Len(s) : x[j] = s[j]
      BY <1>3, <3>2, <3>3, Follows
    <3>5. Rest(x, s, 0, FALSE)
      BY <3>4 DEF Rest
    <3> QED
      BY <2>1, <3>5 DEF x
  <2>2. CASE input' \in {SubSeq(s, 1, n) : n \in 0 .. Len(s) - 1} /\ cut' = TRUE
    <3>1. PICK n \in 0 .. Len(s) - 1 : input' = SubSeq(s, 1, n)
      BY <2>2
    <3> DEFINE x == input'
    <3>2. x = SubSeq(s, 1, n)
      BY <3>1
    <3> HIDE DEF x
    <3>3. x \in Seq(Byte) /\ Len(x) = n /\ Len(s) \in Nat /\ \A j \in 1 .. n : x[j] = s[j]
      BY <1>3, <3>2
    <3>4. Rest(x, s, 0, TRUE)
      BY <3>3 DEF Rest
    <3> QED
      BY <2>2, <3>4 DEF x
  <2> QED
    BY <1>1, <2>1, <2>2
<1>5. tphase' = "count" /\ table' = t /\ count' = 0 /\ entries' = <<>> /\ cut' \in BOOLEAN
  BY <1>1 DEF Import, TableInv
<1>6. TableTypeOK'
  <2>1. input' \in Seq(Byte)
    BY <1>4 DEF Rest
  <2> QED
    BY <1>5, <2>1 DEF TableTypeOK
<1>7. EncodingOf(enc, table') /\ Rest(input', enc[Len(table')], 0, cut')
  BY <1>2, <1>4, <1>5
<1> QED
  BY <1>5, <1>6, <1>7 DEF TableInv

\* The count is the table's.
LEMMA ReadCountKeeps ==
    ASSUME TableInv, ReadCount
    PROVE  TableInv'
<1> DEFINE n == Len(table)
           x == ToBe(n, 4)
<1>1. tphase = "count" /\ entries = <<>> /\ count = 0 /\ table \in Tables /\ input \in Seq(Byte)
      /\ cut \in BOOLEAN
  BY DEF ReadCount, TableInv, TableTypeOK
<1>2. PICK enc : EncodingOf(enc, table) /\ Rest(input, enc[n], 0, cut)
  BY <1>1 DEF TableInv
<1>3. n \in 0 .. Power[4] - 1 /\ n \in Nat /\ 4 \in 0 .. 8
  <2>1. n \in 0 .. Power[4] - 1
    BY <1>1, TableIs
  <2> QED
    BY <2>1
<1>4. x \in Seq(Byte) /\ Len(x) = 4 /\ FromBe(x) = n
  BY <1>3, ToBytes, FromBeToBe
<1>5. enc[0] = x
  BY <1>2 DEF EncodingOf
<1>6. 0 \in 0 .. n
  BY <1>3
<1>7. /\ enc[0] \in Seq(Byte) /\ enc[n] \in Seq(Byte) /\ Len(enc[0]) <= Len(enc[n])
      /\ \A j \in 1 .. Len(enc[0]) : enc[n][j] = enc[0][j]
  BY <1>1, <1>2, <1>6, EncodingBegins
<1> HIDE DEF x, n
<1>8. IsNext(enc[n], 0, x)
  <2>1. \A j \in 1 .. 4 : 0 + j = j
    OBVIOUS
  <2>2. \A j \in 1 .. 4 : enc[n][0 + j] = x[j]
    BY <1>4, <1>5, <1>7, <2>1
  <2>3. 0 + Len(x) <= Len(enc[n])
    BY <1>4, <1>5, <1>7
  <2> QED
    BY <1>4, <2>2, <2>3 DEF IsNext
<1>9. /\ Has(input, 4) => SubSeq(input, 1, 4) = x /\ Rest(Behind(input, 4), enc[n], 4, cut)
      /\ ~Has(input, 4) => cut
  <2>1. /\ Has(input, Len(x)) =>
            SubSeq(input, 1, Len(x)) = x /\ Rest(Behind(input, Len(x)), enc[n], 0 + Len(x), cut)
        /\ ~Has(input, Len(x)) => cut
    BY <1>2, <1>7, <1>8, TakePart
  <2>2. 0 + Len(x) = 4
    BY <1>4
  <2> QED
    BY <1>4, <2>1, <2>2
<1>10. CASE ~Has(input, 4)
  <2>1. Refuse
    BY <1>10 DEF ReadCount
  <2>2. tphase' = "error" /\ cut' = cut /\ cut
        /\ input' = input /\ count' = count /\ entries' = entries
    BY <1>9, <1>10, <2>1 DEF Refuse
  <2> QED
    BY <2>2 DEF TableInv, TableTypeOK
<1>11. CASE Has(input, 4)
  <2>1. /\ count' = n /\ input' = Behind(input, 4) /\ tphase' = "entries"
        /\ entries' = <<>> /\ table' = table /\ cut' = cut
    BY <1>1, <1>4, <1>9, <1>11 DEF ReadCount
  <2>2. Rest(input', enc[n], 4, cut')
    BY <1>9, <1>11, <2>1
  <2>3. TableTypeOK'
    <3>1. input' \in Seq(Byte)
      BY <2>2 DEF Rest
    <3> QED
      BY <1>1, <1>3, <2>1, <3>1 DEF TableTypeOK
  <2>4. Len(entries') = 0 /\ enc[Len(entries')] = x
    BY <1>5, <2>1
  <2>5. EncodingOf(enc, table') /\ Rest(input', enc[Len(table')], Len(enc[Len(entries')]), cut')
    BY <1>2, <1>4, <2>1, <2>2, <2>4 DEF n
  <2>6. Len(entries') + count' = Len(table')
    BY <1>3, <2>1, <2>4 DEF n
  <2> QED
    BY <1>1, <2>1, <2>3, <2>4, <2>5, <2>6 DEF TableInv
<1> QED
  BY <1>10, <1>11

\* An entry is the next of the table.
LEMMA ReadEntryKeeps ==
    ASSUME TableInv, ReadEntry
    PROVE  TableInv'
<1> DEFINE t == table
           m == Len(entries)
           e == t[m + 1]
<1>1. /\ tphase = "entries" /\ count \in Nat /\ count > 0 /\ table \in Tables
      /\ m + count = Len(t) /\ input \in Seq(Byte) /\ cut \in BOOLEAN
      /\ entries \in Seq([id : 0 .. Power[2] - 1, name : Seq(Byte)])
      /\ \A i \in 1 .. m : entries[i] = t[i] /\ t[i].id < Power[2] /\ Utf8(t[i].name)
  BY DEF ReadEntry, TableInv, TableTypeOK
<1>2. PICK enc : EncodingOf(enc, t) /\ Rest(input, enc[Len(t)], Len(enc[m]), cut)
  BY <1>1 DEF TableInv
<1>3. m \in Nat /\ Len(t) \in Nat /\ m + 1 \in 1 .. Len(t) /\ (m + 1) - 1 = m
      /\ m \in 0 .. Len(t) /\ m + 1 \in 0 .. Len(t)
  <2>1. m \in Nat
    BY <1>1
  <2>2. m + count = Len(t) /\ count \in Nat /\ count > 0
    BY <1>1
  <2> HIDE DEF m, t
  <2> QED
    BY <2>1, <2>2
<1>4. /\ e = Entry(e.id, e.name) /\ e.id \in 0 .. Power[8] - 1 /\ e.name \in Seq(Byte)
      /\ Len(e.name) \in 0 .. Power[8] - 1 /\ DOMAIN t = 1 .. Len(t)
  <2> HIDE DEF m
  <2> QED
    BY <1>1, <1>3, TableIs
<1> DEFINE E == enc[Len(t)]
           a == enc[m]
           b == enc[m + 1]
           z == e.name
<1>5. /\ a \in Seq(Byte) /\ b \in Seq(Byte) /\ E \in Seq(Byte) /\ Len(b) <= Len(E)
      /\ \A j \in 1 .. Len(b) : E[j] = b[j]
  <2> HIDE DEF m
  <2> QED
    BY <1>1, <1>2, <1>3, EncodingBegins, SMTT(60)
<1>6. PICK f \in EntryForms(e) : b = a \o f
  <2> HIDE DEF m
  <2>1. \E f \in EntryForms(t[m + 1]) : enc[m + 1] = enc[(m + 1) - 1] \o f
    BY <1>2, <1>3 DEF EncodingOf
  <2> QED
    BY <1>3, <2>1
<1>7. PICK i \in Forms(e.id), l \in Forms(Len(z)) : f = i \o (l \o z)
  <2> HIDE DEF m
  <2> QED
    BY <1>1, <1>3, EntryFormIs
<1>8. i \in Seq(Byte) /\ l \in Seq(Byte) /\ z \in Seq(Byte)
  BY <1>4, FormRead
<1> DEFINE o == Len(a)
           p == o + Len(i)
           q == p + Len(l)
<1>9. IsNext(E, o, i) /\ IsNext(E, p, l) /\ IsNext(E, q, z) /\ Len(b) = q + Len(z)
  <2> HIDE DEF E, a, b, z
  <2> QED
    <3>1. b = a \o (i \o (l \o z))
      BY <1>6, <1>7
    <3>2. Begins(E, b)
      BY <1>5 DEF Begins
    <3>3. /\ IsNext(E, Len(a), i) /\ IsNext(E, Len(a) + Len(i), l)
          /\ IsNext(E, (Len(a) + Len(i)) + Len(l), z)
          /\ Len(b) = ((Len(a) + Len(i)) + Len(l)) + Len(z)
      BY <1>5, <1>8, <3>1, <3>2, PartsFollow
    <3> QED
      BY <3>3
<1> DEFINE named == AfterInteger(input)
           n == FirstInteger(named)
           text == AfterInteger(named)
           Good == /\ IntegerFits(input) /\ FirstInteger(input) < Power[2]
                   /\ IntegerFits(named) /\ Has(text, n) /\ Utf8(SubSeq(text, 1, n))
<1>10. IF Good
       THEN /\ entries' = Append(entries, Entry(FirstInteger(input), SubSeq(text, 1, n)))
            /\ input' = Behind(text, n) /\ count' = count - 1
            /\ UNCHANGED <<tphase, table, cut>>
       ELSE Refuse
  BY DEF ReadEntry
<1>11. Rest(input, E, o, cut)
  BY <1>2
<1> HIDE DEF E, a, b, o, p, q
<1>12. /\ IntegerFits(input) => FirstInteger(input) = e.id /\ Rest(named, E, p, cut)
       /\ ~IntegerFits(input) => cut
  BY <1>4, <1>5, <1>9, <1>11, TakeInteger DEF p
<1> HIDE DEF named
<1>13. ASSUME IntegerFits(input)
       PROVE  /\ IntegerFits(named) => n = Len(z) /\ Rest(text, E, q, cut)
              /\ ~IntegerFits(named) => cut
  BY <1>4, <1>5, <1>9, <1>12, <1>13, TakeInteger DEF q
<1> HIDE DEF n, text
<1>14. ASSUME IntegerFits(input), IntegerFits(named)
       PROVE  /\ Has(text, n) => SubSeq(text, 1, n) = z /\ Rest(Behind(text, n), E, q + Len(z), cut)
              /\ ~Has(text, n) => cut
  BY <1>5, <1>9, <1>13, <1>14, TakePart
<1>15. CASE ~Good
  <2>1. Refuse
    BY <1>10, <1>15
  <2>2. cut \/ ~(e.id < Power[2]) \/ ~Utf8(e.name)
    BY <1>12, <1>13, <1>14, <1>15
  <2>3. cut \/ ~Importable(t)
    <3> HIDE DEF m
    <3> QED
      BY <1>3, <1>4, <2>2 DEF Importable
  <2>4. /\ tphase' = "error" /\ cut' = cut /\ table' = table
        /\ input' = input /\ count' = count /\ entries' = entries
    BY <2>1 DEF Refuse
  <2>5. (cut \/ ~Importable(table))'
    BY <2>3, <2>4
  <2> QED
    BY <2>4, <2>5 DEF TableInv, TableTypeOK
<1>16. CASE Good
  <2>1. e.id < Power[2] /\ Utf8(e.name) /\ SubSeq(text, 1, n) = z /\ FirstInteger(input) = e.id
        /\ Rest(Behind(text, n), E, Len(b), cut)
    BY <1>9, <1>12, <1>13, <1>14, <1>16
  <2>2. /\ entries' = Append(entries, e) /\ input' = Behind(text, n) /\ count' = count - 1
        /\ tphase' = "entries" /\ table' = table /\ cut' = cut
    <3>1. Entry(FirstInteger(input), SubSeq(text, 1, n)) = e
      BY <1>4, <2>1
    <3> QED
      BY <1>1, <1>10, <1>16, <3>1
  <2> DEFINE S == [id : 0 .. Power[2] - 1, name : Seq(Byte)]
  <2>3. e \in S
    <3>1. e.id \in 0 .. Power[2] - 1
      <4>1. Power[2] \in Nat /\ e.id \in Nat
        BY <1>4, Powers
      <4> QED
        BY <2>1, <4>1
    <3> QED
      BY <1>4, <3>1 DEF Entry
  <2> HIDE DEF S, e
  <2>4. /\ entries' \in Seq(S) /\ Len(entries') = m + 1 /\ entries'[m + 1] = e
        /\ \A k \in 1 .. m : entries'[k] = entries[k]
    <3>1. entries \in Seq(S)
      BY <1>1 DEF S
    <3> QED
      BY <2>2, <2>3, <3>1, AppendProperties
  <2> HIDE DEF m
  <2>5. Rest(input', enc[Len(table')], Len(enc[Len(entries')]), cut')
    BY <2>1, <2>2, <2>4 DEF E, b
  <2>6. TableTypeOK'
    <3>1. input' \in Seq(Byte)
      BY <2>5 DEF Rest
    <3>2. count' \in Nat
      BY <1>1, <2>2
    <3> QED
      BY <1>1, <2>2, <2>4, <3>1, <3>2 DEF TableTypeOK, S
  <2>7. Len(entries') + count' = Len(table')
    <3>1. (m + 1) + (count - 1) = m + count
      BY <1>1, <1>3
    <3> QED
      BY <1>1, <2>2, <2>4, <3>1
  <2>8. ASSUME NEW k \in 1 .. Len(entries')
        PROVE  entries'[k] = t[k] /\ t[k].id < Power[2] /\ Utf8(t[k].name)
    <3>1. CASE k = m + 1
      BY <2>1, <2>4, <3>1 DEF e
    <3>2. CASE k \in 1 .. m
      BY <1>1, <2>4, <3>2 DEF m
    <3>3. k = m + 1 \/ k \in 1 .. m
      BY <1>3, <2>4
    <3> QED
      BY <3>1, <3>2, <3>3
  <2>9. EncodingOf(enc, table')
    BY <1>2, <2>2
  <2> QED
    BY <1>1, <2>2, <2>5, <2>6, <2>7, <2>8, <2>9 DEF TableInv
<1> QED
  BY <1>15, <1>16

\* All entries are read.
LEMMA TableEndsKeeps ==
    ASSUME TableInv, TableEnds
    PROVE  TableInv'
<1>1. /\ tphase = "entries" /\ count = 0 /\ table \in Tables /\ Len(entries) + count = Len(table)
      /\ entries \in Seq([id : 0 .. Power[2] - 1, name : Seq(Byte)])
      /\ \A i \in 1 .. Len(entries) :
            entries[i] = table[i] /\ table[i].id < Power[2] /\ Utf8(table[i].name)
      /\ TableTypeOK
  BY DEF TableEnds, TableInv, TableTypeOK
<1>2. PICK enc : EncodingOf(enc, table) /\ Rest(input, enc[Len(table)], Len(enc[Len(entries)]), cut)
  BY <1>1 DEF TableInv
<1>3. Len(entries) \in Nat /\ Len(entries) = Len(table)
  <2>1. Len(entries) \in Nat
    BY <1>1
  <2> QED
    BY <1>1, <2>1
<1>4. ~cut
  <2>1. enc[Len(table)] \in Seq(Byte)
    <3>1. Len(table) \in 0 .. Len(table)
      BY <1>3
    <3> QED
      BY <1>2, <3>1 DEF EncodingOf
  <2> DEFINE E == enc[Len(table)]
  <2>2. Rest(input, E, Len(E), cut)
    BY <1>2, <1>3
  <2> HIDE DEF E
  <2>3. Len(E) \in Nat /\ Len(input) \in Nat
    BY <2>1, <2>2 DEF E, Rest
  <2> QED
    BY <2>2, <2>3 DEF Rest
<1>5. Importable(table)
  <2>1. DOMAIN table = 1 .. Len(table)
    BY <1>1, TableIs
  <2> QED
    BY <1>1, <1>3, <2>1 DEF Importable
<1>6. entries = table
  <2> DEFINE S == [id : 0 .. Power[2] - 1, name : Seq(Byte)]
             T == [id : 0 .. Power[8] - 1, name : Seq(Byte)]
  <2>1. entries \in Seq(S) /\ table \in Seq(T)
    BY <1>1, TableIs
  <2> HIDE DEF S, T
  <2> QED
    BY <1>1, <1>3, <2>1, SeqEqual
<1>7. /\ tphase' = "ok" /\ table' = table /\ entries' = entries /\ cut' = cut
      /\ input' = input /\ count' = count
  BY DEF TableEnds
<1>8. (table \in Tables /\ ~cut /\ Importable(table) /\ entries = table)'
  BY <1>1, <1>4, <1>5, <1>6, <1>7
<1>9. TableTypeOK'
  BY <1>1, <1>7 DEF TableTypeOK
<1> QED
  BY <1>7, <1>8, <1>9 DEF TableInv

\* Nothing else changes a table's import.
LEMMA TableStutters ==
    ASSUME TableInv, UNCHANGED tableVars
    PROVE  TableInv'
<1>1. /\ tphase' = tphase /\ table' = table /\ input' = input /\ cut' = cut
      /\ count' = count /\ entries' = entries
  BY DEF tableVars
<1>2. TableTypeOK'
  BY <1>1 DEF TableInv, TableTypeOK
<1>3. \A t : Importable(t)' <=> Importable(t)
  BY DEF Importable
<1> QED
  BY <1>1, <1>2, <1>3, SMTT(60) DEF TableInv

\* collect(): the last of the entries with a name counts.
LEMMA LastEntryCounts ==
    ASSUME NEW k \in 1 .. Len(entries), Len(entries) \in Nat, DOMAIN entries = 1 .. Len(entries),
           \A j \in 1 .. Len(entries) : j > k => entries[j].name # entries[k].name
    PROVE  message_id(entries[k].name) = <<entries[k].id>>
<1> DEFINE name == entries[k].name
           I == {i \in 1 .. Len(entries) : entries[i].name = name}
<1>1. k \in I /\ \A y \in I : k >= y
  <2>1. ASSUME NEW y \in I PROVE k >= y
    <3>1. y \in 1 .. Len(entries) /\ entries[y].name = name
      OBVIOUS
    <3>2. y \in Int /\ k \in Int /\ ~(y > k)
      BY <3>1
    <3> QED
      BY <3>2
  <2> QED
    BY <2>1
<1>2. \A x \in I : (\A y \in I : x >= y) => x = k
  <2>1. \A x \in I : x \in Int
    OBVIOUS
  <2> HIDE DEF I
  <2> QED
    BY <1>1, <2>1
<1>3. Max(I) = k
  <2> HIDE DEF I
  <2> QED
    BY <1>1, <1>2 DEF Max
<1>4. message_id(name) = LET j == IF I # {} THEN Max(I) ELSE 0
                         IN  IF j = 0 THEN <<>> ELSE <<entries[j].id>>
  BY DEF message_id, SelectLastInSeq
<1>5. I # {} /\ k # 0
  BY <1>1
<1> HIDE DEF I
<1> QED
  BY <1>3, <1>4, <1>5

\* deserialize_message_table, by the invariant.
LEMMA TableIsImported ==
    ASSUME TableInv
    PROVE  TablesAreImported
<1>1. ASSUME tphase = "ok", NEW k \in DOMAIN table,
             \A j \in DOMAIN table : j > k => table[j].name # table[k].name
      PROVE  message_id(table[k].name) = <<table[k].id>>
  <2>1. table \in Tables /\ entries = table
    BY <1>1 DEF TableInv
  <2>2. Len(table) \in 0 .. Power[4] - 1 /\ DOMAIN table = 1 .. Len(table)
    BY <2>1, TableIs
  <2>3. Len(table) \in Nat
    BY <2>2
  <2> QED
    BY <1>1, <2>1, <2>2, <2>3, LastEntryCounts
<1> QED
  BY <1>1 DEF TableInv, TablesAreImported

-----------------------------------------------------------------------------
(* Fields of a message *)

\* The fields messages are made of: an array has a name of its own, no client_index.
IsField(f) ==
    /\ f = Field(f.name, f.type)
    /\ \/ f.type \in {U16, U32, U64, Bool, Text}
       \/ f.type \in {FixedString, ApiVersions} /\ ~IsOpaque(f.name)

\* What the types of the fields are.
LEMMA FieldIs ==
    ASSUME NEW f, IsField(f)
    PROVE  /\ f.type.width \in {1, 2, 4, 8} /\ f.type.count \in Nat \ {0}
           /\ f.type.kind \in {"int", "bool", "text", "array"}
           /\ f.type.kind # "array" => f.type.count = 1
           /\ f.type.kind = "array" => ~IsOpaque(f.name)
           /\ f.type.kind \in {"bool", "text"} => f.type.width = 1
           /\ f.type = Text <=> f.type.kind = "text"
           /\ f.type = FixedString => f.type.kind = "array"
<1>1. NameBytes \in Nat \ {0}
  BY SamplesAssumption
<1> QED
  BY <1>1 DEF IsField, U16, U32, U64, Bool, Text, FixedString, ApiVersions, Integer, Array

\* Names and types make fields.
LEMMA FieldsAre ==
    /\ \A n : /\ IsField(Field(n, U16)) /\ IsField(Field(n, U32)) /\ IsField(Field(n, U64))
              /\ IsField(Field(n, Bool)) /\ IsField(Field(n, Text))
    /\ \A n : n # "client_index" =>
                IsField(Field(n, FixedString)) /\ IsField(Field(n, ApiVersions))
<1>1. \A n, t : Field(n, t).name = n /\ Field(n, t).type = t
  BY DEF Field
<1> QED
  BY <1>1 DEF IsField, IsOpaque

\* Every message is a sequence of such fields.
LEMMA SchemaIs ==
    ASSUME NEW d \in Definitions
    PROVE  /\ Len(d) \in Nat /\ DOMAIN d = 1 .. Len(d)
           /\ \A i \in 1 .. Len(d) : IsField(d[i])
<1> DEFINE Good(e) == /\ Len(e) \in Nat /\ DOMAIN e = 1 .. Len(e)
                      /\ \A i \in 1 .. Len(e) : IsField(e[i])
<1>1. Good(ControlPing) /\ Good(MemclntDeleteReply) /\ Good(MemclntKeepaliveReply)
  BY FieldsAre DEF ControlPing, MemclntDeleteReply, MemclntKeepaliveReply
<1>2. Good(ControlPingReply)
  BY FieldsAre DEF ControlPingReply
<1>3. Good(MemclntCreateV2)
  BY FieldsAre DEF MemclntCreateV2
<1>4. Good(MemclntCreateV2Reply)
  BY FieldsAre DEF MemclntCreateV2Reply
<1>5. Good(MemclntDelete)
  BY FieldsAre DEF MemclntDelete
<1>6. Good(ShowVersionReply)
  BY FieldsAre DEF ShowVersionReply
<1>7. Good(AppNamespaceAddDel)
  BY FieldsAre DEF AppNamespaceAddDel, InterfaceIndex
<1>8. Good(AppNamespaceAddDelReply)
  BY FieldsAre DEF AppNamespaceAddDelReply
<1> HIDE DEF Good
<1>9. Good(d)
  BY <1>1, <1>2, <1>3, <1>4, <1>5, <1>6, <1>7, <1>8 DEF Definitions
<1> QED
  BY <1>9 DEF Good

\* The byte order of a token is turned, and turned back.
LEMMA OrderedIs ==
    ASSUME NEW b \in Seq(Byte), NEW o \in BOOLEAN
    PROVE  /\ Ordered(b, o) \in Seq(Byte) /\ Len(Ordered(b, o)) = Len(b)
           /\ Ordered(Ordered(b, o), o) = b /\ Ordered(b, FALSE) = b
<1> DEFINE r == Reverse(b)
           q == Reverse(r)
<1>0. Len(b) \in Nat
  OBVIOUS
<1>1. r \in Seq(Byte) /\ Len(r) = Len(b) /\ \A i \in 1 .. Len(b) : r[i] = b[(Len(b) - i) + 1]
  <2>1. \A i \in 1 .. Len(b) : (Len(b) - i) + 1 \in 1 .. Len(b)
    BY <1>0
  <2>2. \A i \in 1 .. Len(b) : b[(Len(b) - i) + 1] \in Byte
    BY <2>1
  <2>3. r = [i \in 1 .. Len(b) |-> b[(Len(b) - i) + 1]]
    BY DEF Reverse
  <2> HIDE DEF r
  <2> QED
    BY <1>0, <2>2, <2>3
<1> HIDE DEF r
<1>2. q \in Seq(Byte) /\ Len(q) = Len(b) /\ \A i \in 1 .. Len(b) : q[i] = r[(Len(b) - i) + 1]
  <2>1. \A i \in 1 .. Len(b) : (Len(b) - i) + 1 \in 1 .. Len(b)
    BY <1>0
  <2>2. \A i \in 1 .. Len(b) : r[(Len(b) - i) + 1] \in Byte
    BY <1>1, <2>1
  <2>3. q = [i \in 1 .. Len(b) |-> r[(Len(b) - i) + 1]]
    BY <1>1 DEF Reverse
  <2> HIDE DEF q
  <2> QED
    BY <1>0, <2>2, <2>3
<1> HIDE DEF q
<1>3. q = b
  <2>1. ASSUME NEW i \in 1 .. Len(b) PROVE q[i] = b[i]
    <3>1. (Len(b) - i) + 1 \in 1 .. Len(b) /\ (Len(b) - ((Len(b) - i) + 1)) + 1 = i
      BY <1>0
    <3> QED
      BY <1>1, <1>2, <3>1
  <2> QED
    BY <1>2, <2>1, SeqEqual
<1>4. CASE o = TRUE
  <2>1. Ordered(b, o) = r /\ Ordered(r, o) = q /\ Ordered(b, FALSE) = b
    BY <1>4 DEF Ordered, r, q
  <2> QED
    BY <1>1, <1>3, <2>1
<1>5. CASE o = FALSE
  <2>1. Ordered(b, o) = b
    BY <1>5 DEF Ordered
  <2> QED
    BY <1>5, <2>1
<1> QED
  BY <1>4, <1>5

\* Elements of one width.
LEMMA FlattenWidth ==
    ASSUME NEW B, NEW s \in Seq(Seq(B)), NEW w \in {1, 2, 4, 8},
           \A i \in 1 .. Len(s) : Len(s[i]) = w
    PROVE  Len(FlattenSeq(s)) = w * Len(s)
<1>0. Len(s) \in Nat
  OBVIOUS
<1>1. PICK f \in [0 .. Len(s) -> Seq(B)] :
             /\ FlattenSeq(s) = f[Len(s)]
             /\ f[0] = <<>> /\ \A i \in 1 .. Len(s) : f[i] = f[i - 1] \o s[i]
  BY FlattenIs
<1> DEFINE Good == {n \in Nat : n <= Len(s) => Len(f[n]) = w * n}
<1>2. 0 \in Good
  BY <1>1
<1>3. ASSUME NEW n \in Nat, n \in Good PROVE n + 1 \in Good
  <2> SUFFICES ASSUME n + 1 <= Len(s) PROVE Len(f[n + 1]) = w * (n + 1)
    OBVIOUS
  <2>1. n + 1 \in 1 .. Len(s) /\ (n + 1) - 1 = n /\ n \in 0 .. Len(s)
    BY <1>0
  <2>2. Len(f[n]) = w * n /\ f[n] \in Seq(B) /\ s[n + 1] \in Seq(B) /\ Len(s[n + 1]) = w
    <3>1. n <= Len(s)
      BY <1>0
    <3>2. Len(f[n]) = w * n
      BY <1>3, <3>1
    <3>3. f[n] \in Seq(B)
      BY <1>1, <2>1
    <3>4. s[n + 1] \in Seq(B) /\ Len(s[n + 1]) = w
      BY <2>1
    <3> QED
      BY <3>2, <3>3, <3>4
  <2>3. f[n + 1] = f[n] \o s[n + 1]
    BY <1>1, <2>1
  <2> DEFINE x == f[n]
             y == s[n + 1]
  <2> HIDE DEF x, y
  <2>4. Len(x \o y) = Len(x) + Len(y)
    <3>1. x \in Seq(B) /\ y \in Seq(B)
      BY <2>2 DEF x, y
    <3> QED
      BY <3>1, Follows
  <2>5. Len(f[n + 1]) = w * n + w
    BY <2>2, <2>3, <2>4 DEF x, y
  <2> QED
    BY <2>5
<1>4. Nat \subseteq Good
  BY <1>2, <1>3, SetInduction
<1> HIDE DEF Good
<1>5. Len(s) \in Good
  BY <1>0, <1>4
<1> QED
  BY <1>0, <1>1, <1>5 DEF Good

\* A value that can be written into a field.
Fits(f, v) == v \in Seq(Seq(Byte)) /\ (f.type.kind # "array" => Len(v) = 1)

\* One sequence is flattened to itself.
LEMMA FlattenOne ==
    ASSUME NEW B, NEW x \in Seq(B)
    PROVE  FlattenSeq(<<x>>) = x
<1>1. <<>> \in Seq(Seq(B)) /\ Append(<<>>, x) = <<x>>
  OBVIOUS
<1>2. FlattenSeq(Append(<<>>, x)) = FlattenSeq(<<>>) \o x
  BY <1>1, FlattenAppend
<1>3. <<>> \o x = x
  BY ConcatEmptySeq
<1> QED
  BY <1>1, <1>2, <1>3, FlattenEmpty

\* serialize_field: an array is its elements, one behind the other.
LEMMA FieldBytes ==
    ASSUME NEW f, IsField(f), NEW v, Fits(f, v)
    PROVE  /\ SerializeField(f, v) \in Seq(Byte)
           /\ f.type.kind = "int" => SerializeField(f, v) = Ordered(v[1], IsOpaque(f.name))
           /\ f.type.kind = "bool" => SerializeField(f, v) = v[1]
           /\ f.type.kind = "text" => SerializeField(f, v) = ToBe(Len(v[1]), 4) \o v[1]
           /\ f.type.kind = "array" => SerializeField(f, v) = FlattenSeq(v)
<1>1. /\ f.type.kind \in {"int", "bool", "text", "array"}
      /\ f.type.kind = "array" => ~IsOpaque(f.name)
  BY FieldIs
<1>2. v \in Seq(Seq(Byte)) /\ IsOpaque(f.name) \in BOOLEAN
  BY DEF Fits, IsOpaque
<1>3. CASE f.type.kind = "array"
  <2>1. [i \in DOMAIN v |-> Ordered(v[i], IsOpaque(f.name))] = v
    BY <1>1, <1>2, <1>3 DEF Ordered
  <2>2. SerializeField(f, v) = FlattenSeq(v)
    BY <1>3, <2>1 DEF SerializeField
  <2> QED
    BY <1>2, <1>3, <2>2, FlattenType
<1>4. CASE f.type.kind # "array"
  <2>1. Len(v) = 1 /\ DOMAIN v = 1 .. 1 /\ v[1] \in Seq(Byte)
    BY <1>2, <1>4 DEF Fits
  <2> DEFINE b == v[1]
  <2> HIDE DEF b
  <2>2. b \in Seq(Byte) /\ Len(b) \in Nat
    BY <2>1 DEF b
  <2>3. CASE f.type.kind = "int"
    <3> DEFINE x == Ordered(b, IsOpaque(f.name))
    <3>1. [i \in DOMAIN v |-> Ordered(v[i], IsOpaque(f.name))] = <<x>>
      BY <2>1 DEF b
    <3>2. x \in Seq(Byte)
      BY <1>2, <2>2, OrderedIs
    <3> HIDE DEF x
    <3>3. SerializeField(f, v) = FlattenSeq(<<x>>)
      BY <2>3, <3>1 DEF SerializeField
    <3>4. SerializeField(f, v) = x
      BY <3>2, <3>3, FlattenOne
    <3> QED
      BY <2>3, <3>2, <3>4 DEF x, b
  <2>4. CASE f.type.kind = "bool"
    <3>1. SerializeField(f, v) = b
      BY <2>4 DEF SerializeField, b
    <3> QED
      BY <2>2, <2>4, <3>1 DEF b
  <2>5. CASE f.type.kind = "text"
    <3>1. SerializeField(f, v) = ToBe(Len(b), 4) \o b
      BY <2>5 DEF SerializeField, b
    <3>2. ToBe(Len(b), 4) \in Seq(Byte)
      BY <2>2, ToBytes
    <3>3. SerializeField(f, v) \in Seq(Byte)
      BY <2>2, <3>1, <3>2, Follows
    <3> QED
      BY <2>5, <3>1, <3>3 DEF b
  <2> QED
    BY <1>1, <1>4, <2>3, <2>4, <2>5
<1> QED
  BY <1>3, <1>4

\* serialized_len measures what is written.
LEMMA FieldMeasured ==
    ASSUME NEW f, IsField(f), NEW v, IsValue(f.type, v)
    PROVE  /\ Fits(f, v) /\ SerializeField(f, v) \in Seq(Byte)
           /\ Len(SerializeField(f, v)) = FieldLength(f, v) /\ FieldLength(f, v) \in Nat
<1>1. /\ f.type.kind \in {"int", "bool", "text", "array"} /\ f.type.width \in {1, 2, 4, 8}
      /\ f.type.kind # "array" => f.type.count = 1
      /\ f.type.kind \in {"bool", "text"} => f.type.width = 1
      /\ f.type.count \in Nat
  BY FieldIs
<1>2. v \in Seq(Seq(Byte)) /\ Len(v) = f.type.count /\ DOMAIN v = 1 .. Len(v)
  BY DEF IsValue
<1>3. Fits(f, v)
  BY <1>1, <1>2 DEF Fits
<1>4. SerializeField(f, v) \in Seq(Byte)
  BY <1>3, FieldBytes
<1>5. CASE f.type.kind = "array"
  <2>1. \A i \in 1 .. Len(v) : Len(v[i]) = f.type.width
    BY <1>2, <1>5 DEF IsValue
  <2>2. Len(FlattenSeq(v)) = f.type.width * Len(v)
    BY <1>1, <1>2, <2>1, FlattenWidth
  <2>3. FieldLength(f, v) = f.type.width * f.type.count
    BY <1>5 DEF FieldLength
  <2>4. f.type.width * f.type.count \in Nat
    BY <1>1
  <2> QED
    BY <1>2, <1>3, <1>4, <1>5, <2>2, <2>3, <2>4, FieldBytes
<1>6. CASE f.type.kind # "array"
  <2>1. Len(v) = 1 /\ 1 \in DOMAIN v
    BY <1>1, <1>2, <1>6
  <2> DEFINE b == v[1]
  <2>2. b \in Seq(Byte)
    BY <1>2, <2>1
  <2>3. CASE f.type.kind = "text"
    <3>1. Len(b) \in Nat /\ FieldLength(f, v) = 4 + Len(b)
      BY <2>2, <2>3 DEF FieldLength
    <3>2. SerializeField(f, v) = ToBe(Len(b), 4) \o b
      BY <1>3, <2>3, FieldBytes
    <3> HIDE DEF b
    <3>3. ToBe(Len(b), 4) \in Seq(Byte) /\ Len(ToBe(Len(b), 4)) = 4
      BY <3>1, ToBytes
    <3>4. Len(SerializeField(f, v)) = 4 + Len(b)
      <4> DEFINE x == ToBe(Len(b), 4)
      <4> HIDE DEF x
      <4>1. x \in Seq(Byte) /\ Len(x) = 4 /\ b \in Seq(Byte)
        BY <2>2, <3>3 DEF x, b
      <4>2. Len(x \o b) = Len(x) + Len(b)
        BY <4>1, Follows
      <4> QED
        BY <3>2, <4>1, <4>2 DEF x
    <3> QED
      BY <1>3, <1>4, <3>1, <3>4
  <2>4. CASE f.type.kind = "bool"
    <3>1. b \in {<<0>>, <<1>>}
      BY <2>1, <2>4 DEF IsValue
    <3>2. Len(b) = 1 /\ FieldLength(f, v) = 1
      BY <1>1, <2>4, <3>1 DEF FieldLength
    <3> QED
      <4>1. SerializeField(f, v) = b
        BY <1>3, <2>4, FieldBytes
      <4> HIDE DEF b
      <4> QED
        BY <1>3, <1>4, <3>2, <4>1
  <2>5. CASE f.type.kind = "int"
    <3>1. Len(b) = f.type.width
      BY <2>1, <2>5 DEF IsValue
    <3>2. FieldLength(f, v) = f.type.width
      BY <1>1, <2>5 DEF FieldLength
    <3>3. SerializeField(f, v) = Ordered(b, IsOpaque(f.name))
      BY <1>3, <2>5, FieldBytes
    <3> HIDE DEF b
    <3>4. Len(Ordered(b, IsOpaque(f.name))) = Len(b)
      BY <2>2, OrderedIs DEF IsOpaque
    <3> QED
      BY <1>1, <1>3, <1>4, <3>1, <3>2, <3>3, <3>4
  <2> QED
    BY <1>1, <1>6, <2>3, <2>4, <2>5
<1> QED
  BY <1>5, <1>6

-----------------------------------------------------------------------------
(* Messages *)

\* The bytes of the fields that have values, and that they can be written.
Parts(schema, vals) == [i \in 1 .. Len(vals) |-> SerializeField(schema[i], vals[i])]
Encoded(schema, vals) == FlattenSeq(Parts(schema, vals))
AllFit(schema, vals) ==
    /\ vals \in Seq(Seq(Seq(Byte))) /\ Len(vals) <= Len(schema)
    /\ \A i \in 1 .. Len(vals) : Fits(schema[i], vals[i])

\* Fields are written as bytes,
LEMMA PartsAre ==
    ASSUME NEW d \in Definitions, NEW vals, AllFit(d, vals)
    PROVE  /\ Len(vals) \in Nat
           /\ Parts(d, vals) \in Seq(Seq(Byte)) /\ Len(Parts(d, vals)) = Len(vals)
           /\ \A i \in 1 .. Len(vals) : Parts(d, vals)[i] = SerializeField(d[i], vals[i])
           /\ Encoded(d, vals) \in Seq(Byte)
<1> DEFINE s == Parts(d, vals)
<1>1. Len(vals) \in Nat /\ Len(vals) <= Len(d)
  BY DEF AllFit
<1>2. ASSUME NEW i \in 1 .. Len(vals) PROVE SerializeField(d[i], vals[i]) \in Seq(Byte)
  <2>1. i \in 1 .. Len(d)
    BY <1>1, SchemaIs
  <2>2. IsField(d[i])
    BY <2>1, SchemaIs
  <2>3. Fits(d[i], vals[i])
    BY DEF AllFit
  <2> QED
    BY <2>2, <2>3, FieldBytes
<1>3. /\ s \in Seq(Seq(Byte)) /\ Len(s) = Len(vals)
      /\ \A i \in 1 .. Len(vals) : s[i] = SerializeField(d[i], vals[i])
  BY <1>1, <1>2 DEF Parts
<1> HIDE DEF s
<1>4. FlattenSeq(s) \in Seq(Byte)
  <2>1. s \in Seq(Seq(Byte))
    BY <1>3
  <2> QED
    BY <2>1, FlattenType
<1> QED
  BY <1>1, <1>3, <1>4 DEF s, Encoded

\* the next behind those before it.
LEMMA EncodedAppend ==
    ASSUME NEW d \in Definitions, NEW vals, AllFit(d, vals), Len(vals) < Len(d),
           NEW v, Fits(d[Len(vals) + 1], v)
    PROVE  /\ AllFit(d, Append(vals, v))
           /\ Encoded(d, Append(vals, v)) =
                Encoded(d, vals) \o SerializeField(d[Len(vals) + 1], v)
<1> DEFINE n == Len(vals)
           w == Append(vals, v)
           x == SerializeField(d[n + 1], v)
           s == Parts(d, vals)
           t == Parts(d, w)
<1>1. n \in Nat /\ vals \in Seq(Seq(Seq(Byte))) /\ v \in Seq(Seq(Byte)) /\ Len(d) \in Nat
  BY PartsAre, SchemaIs DEF AllFit, Fits
<1>2. /\ w \in Seq(Seq(Seq(Byte))) /\ Len(w) = n + 1 /\ w[n + 1] = v
      /\ \A i \in 1 .. n : w[i] = vals[i]
  BY <1>1, AppendProperties
<1> HIDE DEF w, n
<1>3. AllFit(d, w)
  <2>1. ASSUME NEW i \in 1 .. n + 1 PROVE Fits(d[i], w[i])
    <3>1. CASE i = n + 1
      BY <1>2, <3>1 DEF n
    <3>2. CASE i \in 1 .. n
      BY <1>2, <3>2 DEF AllFit, n
    <3>3. i = n + 1 \/ i \in 1 .. n
      BY <1>1
    <3> QED
      BY <3>1, <3>2, <3>3
  <2>2. n + 1 <= Len(d)
    BY <1>1 DEF n
  <2> QED
    BY <1>2, <2>1, <2>2 DEF AllFit
<1>4. /\ s \in Seq(Seq(Byte)) /\ Len(s) = n
      /\ \A i \in 1 .. n : s[i] = SerializeField(d[i], vals[i])
  BY PartsAre DEF n
<1>5. /\ t \in Seq(Seq(Byte)) /\ Len(t) = n + 1
      /\ \A i \in 1 .. n + 1 : t[i] = SerializeField(d[i], w[i])
  <2>1. /\ t \in Seq(Seq(Byte)) /\ Len(t) = Len(w)
        /\ \A i \in 1 .. Len(w) : t[i] = SerializeField(d[i], w[i])
    BY <1>3, PartsAre
  <2> HIDE DEF t
  <2> QED
    BY <1>2, <2>1
<1>6. x \in Seq(Byte)
  <2>1. n + 1 \in 1 .. Len(d)
    BY <1>1 DEF n
  <2>2. IsField(d[n + 1])
    BY <2>1, SchemaIs
  <2> QED
    BY <2>2, FieldBytes DEF n
<1>7. t[n + 1] = x /\ \A i \in 1 .. n : t[i] = s[i]
  <2>1. n + 1 \in 1 .. n + 1 /\ \A i \in 1 .. n : i \in 1 .. n + 1
    BY <1>1
  <2> QED
    BY <1>2, <1>4, <1>5, <2>1
<1> HIDE DEF s, t, x
<1>8. t = Append(s, x)
  <2> DEFINE u == Append(s, x)
  <2>1. /\ u \in Seq(Seq(Byte)) /\ Len(u) = n + 1 /\ u[n + 1] = x
        /\ \A i \in 1 .. n : u[i] = s[i]
    BY <1>4, <1>6, AppendProperties
  <2> HIDE DEF u
  <2>2. ASSUME NEW i \in 1 .. n + 1 PROVE t[i] = u[i]
    <3>1. i = n + 1 \/ i \in 1 .. n
      BY <1>1
    <3> QED
      BY <1>7, <2>1, <3>1
  <2>3. t = u
    BY <1>5, <2>1, <2>2, SeqEqual
  <2> QED
    BY <2>3 DEF u
<1>9. FlattenSeq(t) = FlattenSeq(s) \o x
  <2>1. s \in Seq(Seq(Byte))
    BY <1>4
  <2> QED
    BY <1>6, <1>8, <2>1, FlattenAppend
<1> QED
  BY <1>3, <1>9 DEF Encoded, s, t, x, w, n

\* A sample's message.
LEMMA SampleIs ==
    ASSUME NEW m \in Samples
    PROVE  /\ m.schema \in Definitions /\ Len(m.schema) \in Nat
           /\ m.values \in Seq(Seq(Seq(Byte))) /\ Len(m.values) = Len(m.schema)
           /\ DOMAIN m.schema = 1 .. Len(m.schema)
           /\ \A i \in 1 .. Len(m.schema) :
                /\ IsField(m.schema[i]) /\ IsValue(m.schema[i].type, m.values[i])
                /\ Fits(m.schema[i], m.values[i])
           /\ AllFit(m.schema, m.values)
           /\ serialize(m.schema, m.values) = Encoded(m.schema, m.values)
           /\ serialize(m.schema, m.values) \in Seq(Byte)
<1> DEFINE d == m.schema
           v == m.values
<1>1. /\ d \in Definitions /\ v \in Seq(Seq(Seq(Byte))) /\ Len(v) = Len(d)
      /\ \A i \in DOMAIN d : IsValue(d[i].type, v[i])
  BY SamplesAssumption
<1> HIDE DEF d, v
<1>2. Len(d) \in Nat /\ DOMAIN d = 1 .. Len(d) /\ \A i \in 1 .. Len(d) : IsField(d[i])
  BY <1>1, SchemaIs
<1>3. \A i \in 1 .. Len(d) : IsValue(d[i].type, v[i]) /\ Fits(d[i], v[i])
  BY <1>1, <1>2, FieldMeasured
<1>4. AllFit(d, v)
  BY <1>1, <1>2, <1>3 DEF AllFit
<1>5. serialize(d, v) = Encoded(d, v)
  BY <1>1, <1>2 DEF serialize, Encoded, Parts
<1>6. Encoded(d, v) \in Seq(Byte)
  BY <1>1, <1>4, PartsAre
<1> QED
  BY <1>1, <1>2, <1>3, <1>4, <1>5, <1>6 DEF d, v

\* serialized_len is what serialize writes: the buffer is filled to its end.
LEMMA MessageMeasured ==
    ASSUME NEW m \in Samples
    PROVE  Buffered(m.schema, m.values) = serialize(m.schema, m.values)
<1> DEFINE d == m.schema
           v == m.values
           s == Parts(d, v)
           L(i) == FieldLength(d[i], v[i])
           bytes == serialize(d, v)
<1>1. /\ d \in Definitions /\ Len(d) \in Nat /\ Len(v) = Len(d) /\ AllFit(d, v)
      /\ bytes = Encoded(d, v) /\ bytes \in Seq(Byte)
      /\ \A i \in 1 .. Len(d) : IsField(d[i]) /\ IsValue(d[i].type, v[i])
  BY SampleIs
<1> HIDE DEF d, v, bytes
<1>2. /\ s \in Seq(Seq(Byte)) /\ Len(s) = Len(d)
      /\ \A i \in 1 .. Len(d) : s[i] = SerializeField(d[i], v[i])
  BY <1>1, PartsAre
<1>3. \A i \in 1 .. Len(d) : L(i) \in Nat /\ Len(s[i]) = L(i)
  BY <1>1, <1>2, FieldMeasured
<1> HIDE DEF s, L
<1>4. PICK f \in [0 .. Len(d) -> Seq(Byte)] :
             /\ FlattenSeq(s) = f[Len(d)]
             /\ f[0] = <<>> /\ \A i \in 1 .. Len(d) : f[i] = f[i - 1] \o s[i]
  <2>1. s \in Seq(Seq(Byte))
    BY <1>2
  <2>2. \E f \in [0 .. Len(s) -> Seq(Byte)] :
             /\ FlattenSeq(s) = f[Len(s)]
             /\ f[0] = <<>> /\ \A i \in 1 .. Len(s) : f[i] = f[i - 1] \o s[i]
    BY <2>1, FlattenIs
  <2> QED
    BY <1>2, <2>2
<1> DEFINE body(i, g) == IF i = 0 THEN 0 ELSE g[i - 1] + L(i)
           Is(g) == g = [i \in 0 .. Len(d) |-> body(i, g)]
           g == [i \in 0 .. Len(d) |-> Len(f[i])]
<1>5. ASSUME NEW i \in 1 .. Len(d) PROVE Len(f[i]) = Len(f[i - 1]) + L(i)
  <2>1. i - 1 \in 0 .. Len(d) /\ f[i] = f[i - 1] \o s[i] /\ Len(s[i]) = L(i)
    <3>1. i - 1 \in 0 .. Len(d)
      BY <1>1
    <3>2. f[i] = f[i - 1] \o s[i]
      BY <1>4
    <3>3. Len(s[i]) = L(i)
      BY <1>3
    <3> QED
      BY <3>1, <3>2, <3>3
  <2> DEFINE x == f[i - 1]
             y == s[i]
  <2>2. x \in Seq(Byte) /\ y \in Seq(Byte)
    <3>1. f[i - 1] \in Seq(Byte)
      BY <2>1
    <3>2. s[i] \in Seq(Byte)
      BY <1>2
    <3> QED
      BY <3>1, <3>2
  <2> HIDE DEF x, y
  <2>3. Len(x \o y) = Len(x) + Len(y)
    BY <2>2, Follows
  <2> QED
    BY <2>1, <2>3 DEF x, y
<1>6. Is(g)
  <2> DEFINE h == [i \in 0 .. Len(d) |-> body(i, g)]
  <2>1. ASSUME NEW i \in 0 .. Len(d) PROVE g[i] = h[i]
    <3>1. CASE i = 0
      BY <1>4, <3>1
    <3>2. CASE i \in 1 .. Len(d)
      <4>1. i - 1 \in 0 .. Len(d) /\ i # 0
        BY <1>1, <3>2
      <4>2. g[i] = g[i - 1] + L(i)
        BY <1>5, <3>2, <4>1
      <4> QED
        BY <4>1, <4>2
    <3> QED
      BY <1>1, <3>1, <3>2
  <2> QED
    BY <2>1
<1> DEFINE total == CHOOSE h : Is(h)
<1>7. serialized_len(d, v) = total[Len(d)]
  BY DEF serialized_len, L
<1>8. Is(total)
  <2> HIDE DEF Is, g
  <2> QED
    BY <1>6, Zenon
<1> HIDE DEF total, g
<1>9. total[0] = 0 /\ \A i \in 1 .. Len(d) : total[i] = total[i - 1] + L(i)
  <2>1. \A i \in 0 .. Len(d) : total[i] = body(i, total)
    <3> HIDE DEF body
    <3> QED
      BY <1>8
  <2> QED
    BY <1>1, <2>1
<1> DEFINE Good == {i \in Nat : i <= Len(d) => total[i] = Len(f[i])}
<1>10. 0 \in Good
  BY <1>4, <1>9
<1>11. ASSUME NEW i \in Nat, i \in Good PROVE i + 1 \in Good
  <2> SUFFICES ASSUME i + 1 <= Len(d) PROVE total[i + 1] = Len(f[i + 1])
    OBVIOUS
  <2>1. i + 1 \in 1 .. Len(d) /\ (i + 1) - 1 = i /\ i <= Len(d)
    BY <1>1
  <2>2. total[i] = Len(f[i])
    BY <1>11, <2>1
  <2> QED
    BY <1>5, <1>9, <2>1, <2>2
<1>12. total[Len(d)] = Len(f[Len(d)])
  <2>1. Nat \subseteq Good
    BY <1>10, <1>11, SetInduction
  <2> HIDE DEF Good
  <2>2. Len(d) \in Good
    BY <1>1, <2>1
  <2> QED
    BY <1>1, <2>2 DEF Good
<1>13. serialized_len(d, v) = Len(bytes)
  BY <1>1, <1>4, <1>7, <1>12 DEF Encoded, s
<1>14. Len(bytes) \in Nat /\ bytes = [i \in 1 .. Len(bytes) |-> bytes[i]]
  BY <1>1
<1>15. Buffered(d, v) = [i \in 1 .. Len(bytes) |-> IF i <= Len(bytes) THEN bytes[i] ELSE 0]
  BY <1>13, <1>14 DEF Buffered, bytes
<1>16. Buffered(d, v) = bytes
  BY <1>14, <1>15
<1> QED
  BY <1>16 DEF bytes, d, v

\* Of three sequences, the second is next behind the first.
LEMMA MiddleIsNext ==
    ASSUME NEW a \in Seq(Byte), NEW x \in Seq(Byte), NEW r \in Seq(Byte)
    PROVE  IsNext((a \o x) \o r, Len(a), x)
<1> DEFINE y == a \o x
           e == y \o r
<1>1. /\ y \in Seq(Byte) /\ Len(y) = Len(a) + Len(x) /\ Len(a) \in Nat /\ Len(x) \in Nat
      /\ \A j \in 1 .. Len(x) : y[Len(a) + j] = x[j]
  BY Follows
<1> HIDE DEF y
<1>2. Len(e) = Len(y) + Len(r) /\ Len(r) \in Nat /\ \A j \in 1 .. Len(y) : e[j] = y[j]
  <2>1. y \in Seq(Byte)
    BY <1>1
  <2> QED
    BY <2>1, Follows
<1> HIDE DEF e
<1>3. ASSUME NEW j \in 1 .. Len(x) PROVE e[Len(a) + j] = x[j]
  <2>1. Len(a) + j \in 1 .. Len(y)
    BY <1>1
  <2> QED
    BY <1>1, <1>2, <2>1
<1>4. IsNext(e, Len(a), x)
  BY <1>1, <1>2, <1>3 DEF IsNext
<1> QED
  BY <1>4 DEF e, y

\* What is next in a part is next in the whole.
LEMMA NextWithin ==
    ASSUME NEW e \in Seq(Byte), NEW o \in Nat, NEW y, IsNext(e, o, y),
           NEW p \in Nat, NEW x, IsNext(y, p, x)
    PROVE  IsNext(e, o + p, x)
<1>1. /\ y \in Seq(Byte) /\ x \in Seq(Byte) /\ Len(y) \in Nat /\ Len(x) \in Nat /\ Len(e) \in Nat
      /\ o + Len(y) <= Len(e) /\ p + Len(x) <= Len(y)
  BY DEF IsNext
<1>2. ASSUME NEW j \in 1 .. Len(x) PROVE e[(o + p) + j] = x[j]
  <2>1. p + j \in 1 .. Len(y) /\ o + (p + j) = (o + p) + j
    BY <1>1
  <2>2. e[o + (p + j)] = y[p + j] /\ y[p + j] = x[j]
    BY <2>1 DEF IsNext
  <2> QED
    BY <2>1, <2>2
<1> QED
  BY <1>1, <1>2 DEF IsNext

\* In a flattened sequence each one is next behind those before it.
LEMMA FlattenNext ==
    ASSUME NEW s \in Seq(Seq(Byte)), NEW k \in 0 .. Len(s) - 1
    PROVE  /\ SubSeq(s, 1, k) \in Seq(Seq(Byte)) /\ Len(SubSeq(s, 1, k)) = k
           /\ SubSeq(s, 1, k + 1) = Append(SubSeq(s, 1, k), s[k + 1])
           /\ IsNext(FlattenSeq(s), Len(FlattenSeq(SubSeq(s, 1, k))), s[k + 1])
<1> DEFINE t == SubSeq(s, 1, k)
           x == s[k + 1]
<1>1. Len(s) \in Nat /\ k + 1 \in 0 .. Len(s) /\ k + 1 \in 1 .. Len(s)
  OBVIOUS
<1>2. t \in Seq(Seq(Byte)) /\ Len(t) = k /\ x \in Seq(Byte)
  BY <1>1
<1>3. SubSeq(s, 1, k + 1) = Append(t, x)
  BY <1>1
<1>4. PICK r \in Seq(Byte) : FlattenSeq(s) = FlattenSeq(SubSeq(s, 1, k + 1)) \o r
  BY <1>1, FlattenPrefix
<1> HIDE DEF t, x
<1>5. FlattenSeq(SubSeq(s, 1, k + 1)) = FlattenSeq(t) \o x /\ FlattenSeq(t) \in Seq(Byte)
  BY <1>2, <1>3, FlattenAppend, FlattenType
<1>6. IsNext(FlattenSeq(s), Len(FlattenSeq(t)), x)
  BY <1>2, <1>4, <1>5, MiddleIsNext
<1> QED
  BY <1>2, <1>3, <1>6 DEF t, x

\* A message has its fields one behind the other.
LEMMA FieldIsNext ==
    ASSUME NEW m \in Samples, NEW k \in 0 .. Len(m.schema) - 1
    PROVE  IsNext(serialize(m.schema, m.values), Len(Encoded(m.schema, SubSeq(m.values, 1, k))),
                  SerializeField(m.schema[k + 1], m.values[k + 1]))
<1> DEFINE d == m.schema
           v == m.values
           u == SubSeq(v, 1, k)
           s == Parts(d, v)
<1>1. /\ d \in Definitions /\ Len(d) \in Nat /\ v \in Seq(Seq(Seq(Byte))) /\ Len(v) = Len(d)
      /\ AllFit(d, v) /\ serialize(d, v) = Encoded(d, v)
  BY SampleIs
<1>0. k \in 0 .. Len(d) - 1
  OBVIOUS
<1> HIDE DEF d, v
<1>2. /\ s \in Seq(Seq(Byte)) /\ Len(s) = Len(d)
      /\ \A i \in 1 .. Len(d) : s[i] = SerializeField(d[i], v[i])
  BY <1>1, PartsAre
<1>3. /\ Len(u) = k /\ \A i \in 1 .. k : u[i] = v[i]
  BY <1>0, <1>1
<1>4. Parts(d, u) = SubSeq(s, 1, k)
  <2> DEFINE p == Parts(d, u)
             q == SubSeq(s, 1, k)
  <2>1. p = [i \in 1 .. k |-> SerializeField(d[i], v[i])]
    BY <1>3 DEF Parts
  <2> HIDE DEF s
  <2>2. q = [i \in 1 .. k |-> s[i]]
    <3>1. q \in Seq(Seq(Byte)) /\ Len(q) = k /\ \A i \in 1 .. k : q[i] = s[i]
      BY <1>0, <1>1, <1>2, SMTT(60)
    <3> HIDE DEF q
    <3> QED
      BY <3>1
  <2>3. \A i \in 1 .. k : s[i] = SerializeField(d[i], v[i])
    <3>1. \A i \in 1 .. k : i \in 1 .. Len(d)
      BY <1>0, <1>1
    <3> QED
      BY <1>2, <3>1
  <2> HIDE DEF p, q
  <2>4. p = q
    BY <2>1, <2>2, <2>3
  <2> QED
    BY <2>4 DEF p, q
<1>5. IsNext(FlattenSeq(s), Len(FlattenSeq(SubSeq(s, 1, k))), s[k + 1])
  <2> HIDE DEF s
  <2>1. s \in Seq(Seq(Byte)) /\ k \in 0 .. Len(s) - 1
    BY <1>0, <1>2
  <2> QED
    BY <2>1, FlattenNext
<1>6. s[k + 1] = SerializeField(d[k + 1], v[k + 1])
  <2>1. k + 1 \in 1 .. Len(d)
    BY <1>0, <1>1
  <2> QED
    BY <1>2, <2>1
<1>7. serialize(d, v) = FlattenSeq(s) /\ Encoded(d, u) = FlattenSeq(SubSeq(s, 1, k))
  BY <1>1, <1>4 DEF Encoded
<1> HIDE DEF s, u
<1>8. IsNext(serialize(d, v), Len(Encoded(d, u)), SerializeField(d[k + 1], v[k + 1]))
  BY <1>5, <1>6, <1>7
<1> QED
  BY <1>8 DEF d, v, u

-----------------------------------------------------------------------------
(* The cursor *)

\* The byte b is read from c: a byte that is true is read as one.
Reads(b, c) == b = c \/ (b = 1 /\ c # 0)

\* The first o bytes of w are those of the values got, as far as they are told apart.
CursorAt(d, w, o, got) ==
    /\ AllFit(d, got) /\ o = Len(Encoded(d, got)) /\ o <= Len(w)
    /\ \A i \in 1 .. o : Reads(Encoded(d, got)[i], w[i])

\* Bytes x behind those of a.
LEMMA ReadsOn ==
    ASSUME NEW w \in Seq(Byte), NEW a \in Seq(Byte), NEW x \in Seq(Byte),
           \A i \in 1 .. Len(a) : Reads(a[i], w[i]),
           \A j \in 1 .. Len(x) : Reads(x[j], w[Len(a) + j])
    PROVE  /\ Len(a \o x) = Len(a) + Len(x)
           /\ \A i \in 1 .. Len(a) + Len(x) : Reads((a \o x)[i], w[i])
<1> DEFINE y == a \o x
<1>1. /\ Len(y) = Len(a) + Len(x) /\ Len(a) \in Nat /\ Len(x) \in Nat
      /\ (\A j \in 1 .. Len(a) : y[j] = a[j]) /\ \A j \in 1 .. Len(x) : y[Len(a) + j] = x[j]
  BY Follows
<1> HIDE DEF y
<1>2. ASSUME NEW i \in 1 .. Len(a) + Len(x) PROVE Reads(y[i], w[i])
  <2>1. CASE i <= Len(a)
    <3>1. i \in 1 .. Len(a)
      BY <1>1, <2>1
    <3> QED
      BY <1>1, <3>1
  <2>2. CASE ~(i <= Len(a))
    <3>1. i - Len(a) \in 1 .. Len(x) /\ Len(a) + (i - Len(a)) = i
      BY <1>1, <2>2
    <3>2. Reads(x[i - Len(a)], w[Len(a) + (i - Len(a))])
      BY <3>1
    <3>3. y[Len(a) + (i - Len(a))] = x[i - Len(a)]
      BY <1>1, <3>1
    <3> QED
      BY <3>1, <3>2, <3>3
  <2> QED
    BY <2>1, <2>2
<1> QED
  BY <1>1, <1>2 DEF y

\* A field is read.
LEMMA FieldRead ==
    ASSUME NEW d \in Definitions, NEW w \in Seq(Byte), NEW o, NEW got, CursorAt(d, w, o, got),
           Len(got) < Len(d), NEW v, Fits(d[Len(got) + 1], v),
           NEW x, x = SerializeField(d[Len(got) + 1], v), o + Len(x) <= Len(w),
           \A j \in 1 .. Len(x) : Reads(x[j], w[o + j])
    PROVE  CursorAt(d, w, o + Len(x), Append(got, v))
<1> DEFINE a == Encoded(d, got)
           g == Append(got, v)
<1>1. AllFit(d, got) /\ o = Len(a) /\ \A i \in 1 .. Len(a) : Reads(a[i], w[i])
  BY DEF CursorAt
<1>2. AllFit(d, g) /\ Encoded(d, g) = a \o x
  BY <1>1, EncodedAppend
<1>3. a \in Seq(Byte)
  BY <1>1, PartsAre
<1>4. x \in Seq(Byte)
  <2>1. Len(got) \in Nat /\ Len(d) \in Nat
    BY <1>1, PartsAre, SchemaIs
  <2>2. Len(got) + 1 \in 1 .. Len(d)
    BY <2>1
  <2>3. IsField(d[Len(got) + 1])
    BY <2>2, SchemaIs
  <2> QED
    BY <2>3, FieldBytes
<1> HIDE DEF a, g
<1>5. /\ Len(a \o x) = Len(a) + Len(x)
      /\ \A i \in 1 .. Len(a) + Len(x) : Reads((a \o x)[i], w[i])
  BY <1>1, <1>3, <1>4, ReadsOn
<1>6. CursorAt(d, w, o + Len(x), g)
  BY <1>1, <1>2, <1>5 DEF CursorAt
<1> QED
  BY <1>6 DEF g

\* An array begins.
LEMMA ArrayBegins ==
    ASSUME NEW d \in Definitions, NEW w \in Seq(Byte), NEW o, NEW got, CursorAt(d, w, o, got),
           Len(got) < Len(d), d[Len(got) + 1].type.kind = "array"
    PROVE  CursorAt(d, w, o, Append(got, <<>>))
<1> DEFINE f == d[Len(got) + 1]
<1>1. AllFit(d, got) /\ o = Len(Encoded(d, got)) /\ o <= Len(w)
  BY DEF CursorAt
<1>2. Len(got) \in Nat /\ Len(d) \in Nat /\ Len(w) \in Nat /\ Encoded(d, got) \in Seq(Byte)
  BY <1>1, PartsAre, SchemaIs
<1>3. IsField(f)
  <2>1. Len(got) + 1 \in 1 .. Len(d)
    BY <1>2
  <2> QED
    BY <2>1, SchemaIs
<1>4. Fits(f, <<>>)
  BY DEF Fits
<1>5. SerializeField(f, <<>>) = <<>>
  BY <1>3, <1>4, FieldBytes, FlattenEmpty
<1>6. CursorAt(d, w, o + Len(<<>>), Append(got, <<>>))
  <2>1. Len(<<>>) = 0 /\ o + Len(<<>>) <= Len(w)
    BY <1>1, <1>2
  <2>2. \A j \in 1 .. Len(<<>>) : Reads((<<>>)[j], w[o + j])
    BY <2>1
  <2> HIDE DEF f
  <2> QED
    BY <1>4, <1>5, <2>1, <2>2, FieldRead DEF f
<1>7. o + Len(<<>>) = o
  BY <1>1, <1>2
<1> QED
  BY <1>6, <1>7

\* An element of an array is read.
LEMMA ElementRead ==
    ASSUME NEW d \in Definitions, NEW w \in Seq(Byte), NEW o, NEW got, NEW p \in Seq(Seq(Byte)),
           AllFit(d, got), CursorAt(d, w, o, Append(got, p)),
           Len(got) < Len(d), d[Len(got) + 1].type.kind = "array",
           NEW x \in Seq(Byte), o + Len(x) <= Len(w),
           \A j \in 1 .. Len(x) : Reads(x[j], w[o + j])
    PROVE  CursorAt(d, w, o + Len(x), Append(got, Append(p, x)))
<1> DEFINE f == d[Len(got) + 1]
           q == Append(p, x)
           a == Encoded(d, got)
           b == Encoded(d, Append(got, p))
           c == Encoded(d, Append(got, q))
<1>1. Len(got) \in Nat /\ Len(d) \in Nat /\ a \in Seq(Byte)
  BY PartsAre, SchemaIs
<1>2. IsField(f)
  <2>1. Len(got) + 1 \in 1 .. Len(d)
    BY <1>1
  <2> QED
    BY <2>1, SchemaIs
<1>3. q \in Seq(Seq(Byte))
  BY AppendProperties
<1>4. Fits(f, p) /\ Fits(f, q)
  BY <1>3 DEF Fits
<1>5. SerializeField(f, p) = FlattenSeq(p) /\ SerializeField(f, q) = FlattenSeq(q)
  BY <1>2, <1>4, FieldBytes
<1>6. FlattenSeq(q) = FlattenSeq(p) \o x /\ FlattenSeq(p) \in Seq(Byte)
  BY FlattenAppend, FlattenType
<1>7. b = a \o FlattenSeq(p) /\ c = a \o FlattenSeq(q) /\ AllFit(d, Append(got, q))
  BY <1>4, <1>5, EncodedAppend, ZenonT(60)
<1>8. o = Len(b) /\ \A i \in 1 .. Len(b) : Reads(b[i], w[i])
  BY DEF CursorAt
<1> DEFINE y == FlattenSeq(p)
           z == FlattenSeq(q)
<1> HIDE DEF a, b, c, f, y, z, q
<1>9. c = b \o x /\ b \in Seq(Byte)
  <2>1. y \in Seq(Byte) /\ b = a \o y /\ c = a \o z /\ z = y \o x
    BY <1>6, <1>7 DEF y, z
  <2>2. (a \o y) \o x = a \o (y \o x)
    <3>1. a \in Seq(Byte) /\ y \in Seq(Byte) /\ x \in Seq(Byte)
      BY <1>1, <2>1
    <3> QED
      BY <3>1, Grouped, SMTT(60)
  <2>3. a \o y \in Seq(Byte)
    BY <1>1, <2>1, Follows
  <2> QED
    BY <2>1, <2>2, <2>3
<1>10. /\ Len(b \o x) = Len(b) + Len(x)
       /\ \A i \in 1 .. Len(b) + Len(x) : Reads((b \o x)[i], w[i])
  BY <1>8, <1>9, ReadsOn
<1>11. CursorAt(d, w, o + Len(x), Append(got, q))
  BY <1>7, <1>8, <1>9, <1>10 DEF CursorAt, c
<1> QED
  BY <1>11 DEF q

-----------------------------------------------------------------------------
(* The Deserializer *)

NamesOf(d) == [i \in DOMAIN d |-> d[i].name]

\* What the visitors have got: in an array the elements too.
Got == IF phase = "array" THEN Append(out, part) ELSE out

\* The cursor is behind the bytes of what was got.
CursorInv ==
    /\ AllFit(sent.schema, out) /\ part \in Seq(Seq(Byte))
    /\ CursorAt(sent.schema, wire, offset, Got)
    /\ \A i \in 1 .. Len(out) : sent.schema[i].type = Text => Utf8(out[i][1])

\* The counters: those of the struct, or the array's and the struct's saved.
CounterInv ==
    /\ phase = "struct" =>
        /\ fields = NamesOf(sent.schema) /\ Len(out) + remaining = Len(sent.schema)
        /\ remaining \in Nat /\ part = <<>>
    /\ phase = "array" =>
        /\ Len(out) < Len(sent.schema) /\ Current.type.kind = "array"
        /\ fields = <<>> /\ Len(part) + remaining = Current.type.count /\ remaining \in Nat
        /\ saved.fields = NamesOf(sent.schema) /\ saved.opaque \in BOOLEAN
        /\ (Len(out) + saved.remaining) + 1 = Len(sent.schema) /\ saved.remaining \in Nat
    /\ phase = "ok" => Len(out) = Len(sent.schema) /\ offset = Len(wire)

\* A message that arrived as it was written: what was got was sent.
WholeInv ==
    whole =>
        /\ wire = serialize(sent.schema, sent.values)
        /\ phase # "error" /\ out = SubSeq(sent.values, 1, Len(out))
        /\ phase = "array" => part = SubSeq(sent.values[Len(out) + 1], 1, Len(part))

WireInv ==
    /\ phase \in {"idle", "struct", "array", "ok", "error"} /\ opaque \in BOOLEAN
    /\ wire \in Seq(Byte) /\ offset \in 0 .. Len(wire)
    /\ phase = "idle" => offset = 0 /\ out = <<>> /\ part = <<>>
    /\ phase # "idle" => sent \in Samples /\ WholeInv
    /\ phase \in {"struct", "array", "ok"} => CursorInv /\ CounterInv

\* Before a message arrives,
LEMMA WireInvInit ==
    ASSUME WireIdle
    PROVE  WireInv
<1>1. <<>> \in Seq(Byte) /\ Len(<<>>) = 0
  OBVIOUS
<1>2. /\ phase = "idle" /\ wire = <<>> /\ offset = 0 /\ opaque = FALSE
      /\ out = <<>> /\ part = <<>>
  BY DEF WireIdle
<1>3. wire \in Seq(Byte) /\ offset \in 0 .. Len(wire) /\ opaque \in BOOLEAN
  <2>1. wire \in Seq(Byte) /\ Len(wire) = 0
    BY <1>1, <1>2
  <2>2. opaque \in BOOLEAN
    BY <1>2, Zenon
  <2>3. offset \in 0 .. Len(wire)
    BY <1>2, <2>1
  <2> QED
    BY <2>1, <2>2, <2>3
<1> QED
  BY <1>2, <1>3 DEF WireInv

\* and while nothing changes.
LEMMA WireStutters ==
    ASSUME WireInv, UNCHANGED wireVars
    PROVE  WireInv'
BY DEF WireInv, WholeInv, CursorInv, CounterInv, Got, Current, wireVars, cursorVars, visitorVars

\* An error is not for a message that arrived as it was written.
LEMMA FailKeeps ==
    ASSUME WireInv, phase # "idle", Fail, ~whole
    PROVE  WireInv'
BY DEF WireInv, WholeInv, Fail, cursorVars

\* What the invariant says while a message is decoded.
LEMMA DecodingFacts ==
    ASSUME WireInv, phase \in {"struct", "array", "ok"}
    PROVE  /\ sent \in Samples /\ sent.schema \in Definitions
           /\ Len(sent.schema) \in Nat /\ Len(out) \in Nat /\ Len(out) <= Len(sent.schema)
           /\ out \in Seq(Seq(Seq(Byte))) /\ part \in Seq(Seq(Byte)) /\ Len(part) \in Nat
           /\ wire \in Seq(Byte) /\ Len(wire) \in Nat /\ offset \in Nat /\ offset <= Len(wire)
           /\ AllFit(sent.schema, out) /\ CursorAt(sent.schema, wire, offset, Got)
<1>1. sent \in Samples /\ wire \in Seq(Byte) /\ offset \in 0 .. Len(wire) /\ CursorInv
  BY DEF WireInv
<1>2. sent.schema \in Definitions /\ Len(sent.schema) \in Nat
  BY <1>1, SampleIs
<1>3. AllFit(sent.schema, out) /\ part \in Seq(Seq(Byte))
      /\ CursorAt(sent.schema, wire, offset, Got)
  BY <1>1 DEF CursorInv
<1>4. out \in Seq(Seq(Seq(Byte))) /\ Len(out) <= Len(sent.schema)
  BY <1>3 DEF AllFit
<1>5. Len(wire) \in Nat
  BY <1>1
<1> QED
  BY <1>1, <1>2, <1>3, <1>4, <1>5

\* The field whose turn it is.
LEMMA CurrentIs ==
    ASSUME WireInv, phase \in {"struct", "array"}, Len(out) < Len(sent.schema)
    PROVE  /\ Len(out) + 1 \in 1 .. Len(sent.schema) /\ Len(out) \in 0 .. Len(sent.schema) - 1
           /\ IsField(Current) /\ IsValue(Current.type, sent.values[Len(out) + 1])
           /\ Fits(Current, sent.values[Len(out) + 1])
<1>1. sent \in Samples /\ Len(sent.schema) \in Nat /\ Len(out) \in Nat
  BY DecodingFacts
<1>2. Len(out) + 1 \in 1 .. Len(sent.schema) /\ Len(out) \in 0 .. Len(sent.schema) - 1
  BY <1>1
<1> QED
  BY <1>1, <1>2, SampleIs DEF Current

\* read: the bytes at the cursor.
LEMMA Peeked ==
    ASSUME wire \in Seq(Byte), offset \in Nat, NEW k \in Nat, NEW n \in Nat,
           offset + (k + n) <= Len(wire)
    PROVE  /\ Peek(k, n) \in Seq(Byte) /\ Len(Peek(k, n)) = n
           /\ \A j \in 1 .. n : Peek(k, n)[j] = wire[offset + (k + j)]
<1> DEFINE a == offset + k
           y == SubSeq(wire, a + 1, a + n)
<1>1. a \in Nat /\ a + n <= Len(wire) /\ Len(wire) \in Nat
  OBVIOUS
<1> HIDE DEF a
<1>2. y \in Seq(Byte) /\ Len(y) = n /\ \A j \in 1 .. n : y[j] = wire[a + j]
  BY <1>1
<1> HIDE DEF y
<1>3. Peek(k, n) = y
  BY DEF Peek, y, a
<1>4. \A j \in 1 .. n : a + j = offset + (k + j)
  BY DEF a
<1> QED
  BY <1>2, <1>3, <1>4

\* If the bytes of x are next, they are there and are read.
LEMMA PeekNext ==
    ASSUME wire \in Seq(Byte), offset \in Nat, NEW x, IsNext(wire, offset, x)
    PROVE  Available(Len(x)) /\ Peek(0, Len(x)) = x
<1>1. x \in Seq(Byte) /\ Len(x) \in Nat /\ offset + Len(x) <= Len(wire) /\ Len(wire) \in Nat
  BY DEF IsNext
<1> DEFINE y == Peek(0, Len(x))
<1>2. /\ y \in Seq(Byte) /\ Len(y) = Len(x)
      /\ \A j \in 1 .. Len(x) : y[j] = wire[offset + (0 + j)]
  <2>1. offset + (0 + Len(x)) <= Len(wire) /\ 0 \in Nat
    BY <1>1
  <2> QED
    BY <1>1, <2>1, Peeked
<1> HIDE DEF y
<1>3. ASSUME NEW j \in 1 .. Len(x) PROVE y[j] = x[j]
  <2>1. 0 + j = j /\ wire[offset + j] = x[j]
    BY DEF IsNext
  <2> QED
    BY <1>2, <2>1
<1>4. y = x
  BY <1>1, <1>2, <1>3, SeqEqual
<1> QED
  BY <1>1, <1>4 DEF y, Available

\* next_element_seed finds the name of the field whose turn it is.
LEMMA NextOpaque ==
    ASSUME WireInv, phase = "struct", Len(out) < Len(sent.schema)
    PROVE  /\ (IsNextOpaque <=> IsOpaque(Current.name)) /\ IsNextOpaque \in BOOLEAN
           /\ remaining \in Nat \ {0} /\ Len(out) + remaining = Len(sent.schema)
<1> DEFINE d == sent.schema
<1>1. /\ fields = NamesOf(d) /\ Len(out) + remaining = Len(d) /\ remaining \in Nat
  BY DEF WireInv, CounterInv
<1>2. Len(out) \in Nat /\ Len(d) \in Nat /\ sent \in Samples
  BY DecodingFacts
<1>3. DOMAIN d = 1 .. Len(d)
  BY <1>2, SampleIs
<1>4. Len(out) < Len(d)
  OBVIOUS
<1>5. Current = d[Len(out) + 1]
  BY DEF Current
<1> HIDE DEF d
<1>6. Len(fields) = Len(d) /\ DOMAIN fields = 1 .. Len(d)
  BY <1>1, <1>2, <1>3 DEF NamesOf
<1>7. /\ Len(fields) - remaining + 1 = Len(out) + 1 /\ Len(out) + 1 \in 1 .. Len(d)
      /\ remaining # 0
  BY <1>1, <1>2, <1>4, <1>6
<1>8. fields[Len(out) + 1] = Current.name
  BY <1>1, <1>3, <1>5, <1>7 DEF NamesOf
<1>9. IsNextOpaque <=> IsOpaque(Current.name)
  BY <1>6, <1>7, <1>8 DEF IsNextOpaque
<1> QED
  BY <1>1, <1>7, <1>9 DEF d, IsNextOpaque, IsOpaque

\* The field a whole message has at the cursor is the one that was sent.
LEMMA WholeFieldNext ==
    ASSUME WireInv, phase = "struct", Len(out) < Len(sent.schema), whole
    PROVE  IsNext(wire, offset, SerializeField(Current, sent.values[Len(out) + 1]))
<1>1. sent \in Samples /\ Len(out) \in 0 .. Len(sent.schema) - 1
  BY DecodingFacts, CurrentIs
<1>2. wire = serialize(sent.schema, sent.values) /\ out = SubSeq(sent.values, 1, Len(out))
  BY DEF WireInv, WholeInv
<1>3. offset = Len(Encoded(sent.schema, out))
  <2>1. CursorAt(sent.schema, wire, offset, Got) /\ Got = out
    BY DecodingFacts DEF Got
  <2> QED
    BY <2>1 DEF CursorAt
<1> DEFINE k == Len(out)
<1>4. out = SubSeq(sent.values, 1, k) /\ k \in 0 .. Len(sent.schema) - 1
      /\ Current = sent.schema[k + 1]
  BY <1>1, <1>2 DEF Current
<1> HIDE DEF k
<1>5. IsNext(serialize(sent.schema, sent.values),
             Len(Encoded(sent.schema, SubSeq(sent.values, 1, k))),
             SerializeField(sent.schema[k + 1], sent.values[k + 1]))
  BY <1>1, <1>4, FieldIsNext
<1>6. IsNext(wire, offset, SerializeField(Current, sent.values[k + 1]))
  BY <1>2, <1>3, <1>4, <1>5
<1> QED
  BY <1>6 DEF k

\* MsgBuf::encode, and the beginning of deserialize_struct.
LEMMA DeserializeKeeps ==
    ASSUME WireInv, NEW m \in Samples, Deserialize(m)
    PROVE  WireInv'
<1> DEFINE d == m.schema
           bytes == serialize(d, m.values)
<1>1. /\ phase = "idle" /\ sent' = m /\ phase' = "struct" /\ wire' \in Arrivals(bytes)
      /\ whole' = (wire' = bytes)
      /\ remaining' = Len(d) /\ fields' = NamesOf(d)
      /\ offset' = offset /\ opaque' = opaque /\ out' = out /\ part' = part
  BY MessageMeasured DEF Deserialize, NamesOf, visitorVars
<1>2. offset = 0 /\ out = <<>> /\ part = <<>> /\ opaque \in BOOLEAN
  BY <1>1 DEF WireInv
<1>3. d \in Definitions /\ Len(d) \in Nat /\ bytes \in Seq(Byte)
  BY SampleIs
<1>4. wire' \in Seq(Byte)
  <2> HIDE DEF bytes
  <2>1. Len(bytes) \in Nat /\ \A i \in 1 .. Len(bytes) : bytes[i] \in Byte
    BY <1>3
  <2>2. \A b \in Byte : b \in Nat /\ Radix - 1 - b \in Byte /\ (b + 1) % Radix \in Byte
    BY RadixIs DEF Byte
  <2>3. 0 \in Byte /\ 1 \in Byte
    BY RadixIs DEF Byte
  <2>4. ASSUME NEW n \in 0 .. Len(bytes) PROVE SubSeq(bytes, 1, n) \in Seq(Byte)
    BY <1>3, <2>1
  <2>5. ASSUME NEW b \in {0, 1} PROVE Append(bytes, b) \in Seq(Byte)
    BY <1>3, <2>3, AppendProperties
  <2>6. ASSUME NEW i \in DOMAIN bytes
        PROVE  /\ [bytes EXCEPT ![i] = Radix - 1 - @] \in Seq(Byte)
               /\ [bytes EXCEPT ![i] = (@ + 1) % Radix] \in Seq(Byte)
    <3>1. bytes[i] \in Byte
      BY <1>3
    <3>2. Radix - 1 - bytes[i] \in Byte /\ (bytes[i] + 1) % Radix \in Byte
      BY <2>2, <3>1
    <3> QED
      BY <1>3, <3>2
  <2> QED
    BY <1>1, <2>4, <2>5, <2>6 DEF Arrivals
<1>5. CursorAt(d, wire', 0, <<>>)
  <2>1. AllFit(d, <<>>)
    BY <1>3 DEF AllFit
  <2>2. Parts(d, <<>>) = <<>>
    BY DEF Parts
  <2>3. Encoded(d, <<>>) = <<>>
    BY <2>2, FlattenEmpty DEF Encoded
  <2>4. Len(wire') \in Nat
    BY <1>4
  <2> QED
    BY <2>1, <2>3, <2>4 DEF CursorAt
<1>6. CursorInv'
  <2>1. Got' = <<>> /\ offset' = 0 /\ sent'.schema = d /\ out' = <<>> /\ part' = <<>>
    BY <1>1, <1>2 DEF Got
  <2>2. AllFit(d, <<>>)
    BY <1>5 DEF CursorAt
  <2> QED
    BY <1>5, <2>1, <2>2 DEF CursorInv
<1>7. CounterInv'
  BY <1>1, <1>2, <1>3 DEF CounterInv
<1>8. WholeInv'
  <2>1. SubSeq(m.values, 1, 0) = <<>>
    BY SampleIs
  <2> QED
    BY <1>1, <1>2, <2>1 DEF WholeInv
<1>9. offset' \in 0 .. Len(wire')
  BY <1>1, <1>2, <1>4
<1> QED
  BY <1>1, <1>2, <1>4, <1>6, <1>7, <1>8, <1>9 DEF WireInv

\* A field is decoded as a value that has these bytes; of a whole message as
\* the value that was sent.
LEMMA DecodedKeeps ==
    ASSUME WireInv, phase = "struct", Len(out) < Len(sent.schema),
           NEW v, NEW n, Decoded(v, n), Fits(Current, v), n = Len(SerializeField(Current, v)),
           offset + n <= Len(wire),
           \A j \in 1 .. n : Reads(SerializeField(Current, v)[j], wire[offset + j]),
           Current.type = Text => Utf8(v[1]),
           whole => v = sent.values[Len(out) + 1]
    PROVE  WireInv'
<1> DEFINE d == sent.schema
           x == SerializeField(Current, v)
           k == Len(out)
<1>1. /\ sent \in Samples /\ d \in Definitions /\ Len(d) \in Nat /\ k \in Nat
      /\ out \in Seq(Seq(Seq(Byte))) /\ wire \in Seq(Byte) /\ Len(wire) \in Nat /\ offset \in Nat
      /\ AllFit(d, out) /\ CursorAt(d, wire, offset, Got)
  BY DecodingFacts
<1>2. Current = d[k + 1] /\ IsField(Current) /\ k + 1 \in 1 .. Len(d) /\ Got = out
  BY CurrentIs DEF Current, Got
<1>3. CursorAt(d, wire, offset + n, Append(out, v))
  BY <1>1, <1>2, FieldRead
<1>4. v \in Seq(Seq(Byte)) /\ x \in Seq(Byte) /\ n \in Nat
  <2>1. v \in Seq(Seq(Byte))
    BY DEF Fits
  <2>2. x \in Seq(Byte)
    BY <1>2, FieldBytes
  <2> HIDE DEF x
  <2>3. Len(x) \in Nat
    BY <2>2
  <2> QED
    BY <2>1, <2>2, <2>3 DEF x
<1>5. /\ phase' = "struct" /\ sent' = sent /\ wire' = wire /\ whole' = whole /\ opaque' = opaque
      /\ out' = Append(out, v) /\ offset' = offset + n /\ remaining' = remaining - 1
      /\ fields' = fields /\ part' = part
  BY DEF Decoded
<1>6. /\ Len(out') = k + 1 /\ out'[k + 1] = v /\ \A i \in 1 .. k : out'[i] = out[i]
  BY <1>1, <1>4, <1>5, AppendProperties
<1>7. Got' = Append(out, v)
  BY <1>5 DEF Got
<1>8. CursorInv'
  <2>1. AllFit(d, out')
    BY <1>3, <1>5 DEF CursorAt
  <2>2. part' \in Seq(Seq(Byte))
    BY <1>5, DecodingFacts
  <2>3. ASSUME NEW i \in 1 .. k + 1, d[i].type = Text PROVE Utf8(out'[i][1])
    <3>1. CASE i = k + 1
      BY <1>2, <1>6, <2>3, <3>1
    <3>2. CASE i \in 1 .. k
      BY <1>6, <2>3, <3>2 DEF WireInv, CursorInv
    <3>3. i = k + 1 \/ i \in 1 .. k
      BY <1>1
    <3> QED
      BY <3>1, <3>2, <3>3
  <2> QED
    BY <1>3, <1>5, <1>6, <1>7, <2>1, <2>2, <2>3 DEF CursorInv
<1>9. CounterInv'
  <2>1. remaining \in Nat \ {0} /\ k + remaining = Len(d)
    BY NextOpaque
  <2>2. fields = NamesOf(d) /\ part = <<>>
    BY DEF WireInv, CounterInv
  <2>3. remaining - 1 \in Nat /\ (k + 1) + (remaining - 1) = Len(d)
    <3>1. k \in Nat
      BY <1>1
    <3> HIDE DEF k, d
    <3> QED
      BY <2>1, <3>1
  <2> QED
    BY <1>5, <1>6, <2>2, <2>3 DEF CounterInv
<1>10. WholeInv'
  <2> SUFFICES ASSUME whole PROVE WholeInv'
    BY <1>5 DEF WholeInv
  <2> DEFINE y == sent.values
  <2>1. wire = serialize(d, y) /\ out = SubSeq(y, 1, k)
    BY DEF WireInv, WholeInv
  <2>2. y \in Seq(Seq(Seq(Byte))) /\ Len(y) = Len(d) /\ k + 1 \in 1 .. Len(y)
    BY <1>1, <1>2, SampleIs
  <2>3. Append(out, v) = SubSeq(y, 1, k + 1)
    <3> HIDE DEF y, k
    <3>1. SubSeq(y, 1, k + 1) = Append(SubSeq(y, 1, k), y[k + 1])
      BY <1>1, <2>2, SMTT(60)
    <3> QED
      BY <2>1, <3>1 DEF y, k
  <2> QED
    BY <1>5, <1>6, <2>1, <2>3 DEF WholeInv
<1>11. wire' \in Seq(Byte) /\ offset' \in 0 .. Len(wire') /\ sent' \in Samples /\ opaque' \in BOOLEAN
  <2>1. opaque \in BOOLEAN
    BY DEF WireInv
  <2>2. offset + n \in 0 .. Len(wire)
    BY <1>1, <1>4
  <2> QED
    BY <1>1, <1>5, <2>1, <2>2
<1> QED
  BY <1>5, <1>8, <1>9, <1>10, <1>11 DEF WireInv

\* The first bytes of what is next are next.
LEMMA NextHalves ==
    ASSUME NEW e \in Seq(Byte), NEW o \in Nat, NEW a \in Seq(Byte), NEW b \in Seq(Byte),
           IsNext(e, o, a \o b)
    PROVE  IsNext(e, o, a) /\ IsNext(e, o + Len(a), b)
<1> DEFINE x == a \o b
<1>1. /\ Len(x) = Len(a) + Len(b) /\ Len(a) \in Nat /\ Len(b) \in Nat
      /\ (\A j \in 1 .. Len(a) : x[j] = a[j]) /\ \A j \in 1 .. Len(b) : x[Len(a) + j] = b[j]
  BY Follows
<1>2. o + Len(x) <= Len(e) /\ \A j \in 1 .. Len(x) : e[o + j] = x[j]
  BY DEF IsNext
<1> HIDE DEF x
<1>3. Len(e) \in Nat
  OBVIOUS
<1>4. ASSUME NEW j \in 1 .. Len(a) PROVE e[o + j] = a[j]
  <2>1. j \in 1 .. Len(x)
    BY <1>1
  <2> QED
    BY <1>1, <1>2, <2>1
<1>5. ASSUME NEW j \in 1 .. Len(b) PROVE e[(o + Len(a)) + j] = b[j]
  <2>1. Len(a) + j \in 1 .. Len(x) /\ o + (Len(a) + j) = (o + Len(a)) + j
    BY <1>1
  <2>2. e[o + (Len(a) + j)] = x[Len(a) + j]
    BY <1>2, <2>1
  <2> QED
    BY <1>1, <2>1, <2>2
<1>6. o + Len(a) <= Len(e) /\ (o + Len(a)) + Len(b) <= Len(e)
  BY <1>1, <1>2, <1>3
<1> QED
  BY <1>4, <1>5, <1>6 DEF IsNext

\* deserialize_u16, u32 and u64.
LEMMA IntegerKeeps ==
    ASSUME WireInv, phase = "struct", Len(out) < Len(sent.schema), Current.type.kind = "int",
           NEW w, w = Current.type.width,
           IF Available(w) THEN Decoded(<<Ordered(Peek(0, w), IsNextOpaque)>>, w) ELSE Fail
    PROVE  WireInv'
<1> DEFINE o == IsOpaque(Current.name)
           p == Peek(0, w)
           q == Ordered(p, o)
           v == <<q>>
           z == sent.values[Len(out) + 1]
           X == SerializeField(Current, z)
<1>1. /\ IsField(Current) /\ IsValue(Current.type, z) /\ Fits(Current, z)
      /\ wire \in Seq(Byte) /\ offset \in Nat /\ Len(wire) \in Nat /\ w \in Nat
      /\ Current.type # Text
  <2>1. IsField(Current) /\ IsValue(Current.type, z) /\ Fits(Current, z)
    BY CurrentIs
  <2>2. w \in {1, 2, 4, 8} /\ Current.type # Text
    BY <2>1, FieldIs
  <2>3. wire \in Seq(Byte) /\ offset \in Nat /\ Len(wire) \in Nat
    BY DecodingFacts
  <2> QED
    BY <2>1, <2>2, <2>3
<1>2. o \in BOOLEAN /\ IsNextOpaque = o
  BY NextOpaque DEF IsOpaque
<1>3. z \in Seq(Seq(Byte)) /\ Len(z) = 1 /\ z[1] \in Seq(Byte) /\ Len(z[1]) = w
  <2>1. z \in Seq(Seq(Byte)) /\ Len(z) = 1
    BY <1>1 DEF Fits
  <2> HIDE DEF z
  <2>2. 1 \in DOMAIN z
    BY <2>1
  <2> QED
    BY <1>1, <2>1, <2>2 DEF IsValue
<1>4. X = Ordered(z[1], o) /\ X \in Seq(Byte) /\ Len(X) = w
  <2>1. X = Ordered(z[1], o)
    BY <1>1, FieldBytes
  <2> HIDE DEF X, z, o
  <2> QED
    BY <1>2, <1>3, <2>1, OrderedIs
<1>5. whole => Available(w) /\ p = X
  <2>1. whole => IsNext(wire, offset, X)
    BY WholeFieldNext
  <2> HIDE DEF X, p
  <2>2. whole => Available(Len(X)) /\ Peek(0, Len(X)) = X
    BY <1>1, <2>1, PeekNext
  <2> QED
    BY <1>4, <2>2 DEF p
<1>6. CASE ~Available(w)
  BY <1>5, <1>6, FailKeeps
<1>7. CASE Available(w)
  <2>1. offset + w <= Len(wire)
    BY <1>7 DEF Available
  <2>2. p \in Seq(Byte) /\ Len(p) = w /\ \A j \in 1 .. w : p[j] = wire[offset + j]
    <3>1. offset + (0 + w) <= Len(wire) /\ 0 \in Nat
      BY <1>1, <2>1
    <3>2. p \in Seq(Byte) /\ Len(p) = w /\ \A j \in 1 .. w : p[j] = wire[offset + (0 + j)]
      BY <1>1, <3>1, Peeked
    <3>3. \A j \in 1 .. w : 0 + j = j
      BY <1>1
    <3> HIDE DEF p
    <3> QED
      BY <3>2, <3>3
  <2> HIDE DEF p
  <2>3. q \in Seq(Byte) /\ Ordered(q, o) = p
    BY <1>2, <2>2, OrderedIs
  <2>4. Decoded(v, w)
    BY <1>2, <1>7 DEF p
  <2> HIDE DEF q
  <2>5. v \in Seq(Seq(Byte)) /\ Len(v) = 1 /\ v[1] = q
    BY <2>3
  <2> HIDE DEF v
  <2>6. Fits(Current, v)
    BY <2>5 DEF Fits
  <2>7. SerializeField(Current, v) = p
    BY <1>1, <2>3, <2>5, <2>6, FieldBytes
  <2>8. whole => v = z
    <3> SUFFICES ASSUME whole PROVE v = z
      OBVIOUS
    <3>1. p = Ordered(z[1], o)
      BY <1>4, <1>5
    <3>2. q = z[1]
      <4> HIDE DEF z, o
      <4> QED
        BY <1>2, <1>3, <3>1, OrderedIs DEF q
    <3> HIDE DEF z
    <3> QED
      BY <1>3, <2>5, <3>2, SeqEqual
  <2>9. \A j \in 1 .. w : Reads(SerializeField(Current, v)[j], wire[offset + j])
    BY <2>2, <2>7 DEF Reads
  <2>10. w = Len(SerializeField(Current, v))
    BY <2>2, <2>7
  <2> QED
    BY <1>1, <2>1, <2>4, <2>6, <2>8, <2>9, <2>10, DecodedKeeps
<1> QED
  BY <1>6, <1>7

\* deserialize_bool: a byte that is not zero is true.
LEMMA BoolKeeps ==
    ASSUME WireInv, phase = "struct", Len(out) < Len(sent.schema), Current.type.kind = "bool",
           NEW w, w = Current.type.width,
           IF Available(w) THEN Decoded(<<<<IF Peek(0, w)[1] = 0 THEN 0 ELSE 1>>>>, w) ELSE Fail
    PROVE  WireInv'
<1> DEFINE p == Peek(0, w)
           b == IF p[1] = 0 THEN 0 ELSE 1
           q == <<b>>
           v == <<q>>
           z == sent.values[Len(out) + 1]
<1>1. /\ IsField(Current) /\ IsValue(Current.type, z) /\ Fits(Current, z)
      /\ wire \in Seq(Byte) /\ offset \in Nat /\ Len(wire) \in Nat /\ w = 1
      /\ Current.type # Text
  BY DecodingFacts, CurrentIs, FieldIs
<1>2. z \in Seq(Seq(Byte)) /\ Len(z) = 1 /\ z[1] \in {<<0>>, <<1>>}
  <2>1. z \in Seq(Seq(Byte)) /\ Len(z) = 1
    BY <1>1 DEF Fits
  <2> HIDE DEF z
  <2>2. 1 \in DOMAIN z
    BY <2>1
  <2> QED
    BY <1>1, <2>1, <2>2 DEF IsValue
<1>3. whole => Available(1) /\ Peek(0, 1) = z[1]
  <2>1. SerializeField(Current, z) = z[1] /\ Len(z[1]) = 1
    BY <1>1, <1>2, FieldBytes
  <2>2. whole => IsNext(wire, offset, z[1])
    BY <2>1, WholeFieldNext
  <2> HIDE DEF z
  <2>3. whole => Available(Len(z[1])) /\ Peek(0, Len(z[1])) = z[1]
    BY <1>1, <2>2, PeekNext
  <2> QED
    BY <2>1, <2>3
<1>4. CASE ~Available(w)
  BY <1>1, <1>3, <1>4, FailKeeps
<1>5. CASE Available(w)
  <2>1. offset + 1 <= Len(wire)
    BY <1>1, <1>5 DEF Available
  <2>2. p \in Seq(Byte) /\ Len(p) = 1 /\ p[1] = wire[offset + 1]
    <3>1. offset + (0 + 1) <= Len(wire) /\ 0 \in Nat /\ 1 \in Nat /\ 0 + 1 = 1 /\ 1 \in 1 .. 1
      BY <1>1, <2>1
    <3>2. /\ Peek(0, 1) \in Seq(Byte) /\ Len(Peek(0, 1)) = 1
          /\ \A j \in 1 .. 1 : Peek(0, 1)[j] = wire[offset + (0 + j)]
      BY <1>1, <3>1, Peeked
    <3> QED
      BY <1>1, <3>1, <3>2
  <2>3. Decoded(v, w)
    BY <1>5
  <2> HIDE DEF p
  <2>4. b \in Byte /\ Reads(b, wire[offset + 1]) /\ (p[1] \in {0, 1} => b = p[1])
    BY <2>2, RadixIs DEF Reads, Byte
  <2> HIDE DEF b
  <2>5. q \in Seq(Byte) /\ Len(q) = 1 /\ q[1] = b
    BY <2>4
  <2> HIDE DEF q
  <2>6. v \in Seq(Seq(Byte)) /\ Len(v) = 1 /\ v[1] = q
    BY <2>5
  <2> HIDE DEF v
  <2>7. Fits(Current, v)
    BY <2>6 DEF Fits
  <2>8. SerializeField(Current, v) = q
    BY <1>1, <2>6, <2>7, FieldBytes
  <2>9. whole => v = z
    <3> SUFFICES ASSUME whole PROVE v = z
      OBVIOUS
    <3>1. p = z[1]
      BY <1>1, <1>3 DEF p
    <3>2. p = <<0>> \/ p = <<1>>
      BY <1>2, <3>1
    <3>3. b = p[1]
      BY <2>4, <3>2
    <3>4. q = p
      BY <3>2, <3>3 DEF q
    <3> HIDE DEF z
    <3> QED
      BY <1>2, <2>6, <3>1, <3>4, SeqEqual
  <2>10. \A j \in 1 .. w : Reads(SerializeField(Current, v)[j], wire[offset + j])
    <3>1. \A j \in 1 .. w : j = 1
      BY <1>1
    <3> QED
      BY <2>4, <2>5, <2>8, <3>1
  <2>11. w = Len(SerializeField(Current, v))
    BY <1>1, <2>5, <2>8
  <2>12. offset + w <= Len(wire)
    BY <1>1, <2>1
  <2> QED
    BY <1>1, <2>3, <2>7, <2>9, <2>10, <2>11, <2>12, DecodedKeeps
<1> QED
  BY <1>4, <1>5

\* deserialize_str: a length, and as many bytes.
LEMMA TextKeeps ==
    ASSUME WireInv, phase = "struct", Len(out) < Len(sent.schema), Current.type.kind = "text",
           IF Available(4) /\ Available(4 + FromBe(Peek(0, 4)))
           THEN LET n == FromBe(Peek(0, 4)) IN
                IF Utf8(Peek(4, n)) THEN Decoded(<<Peek(4, n)>>, 4 + n) ELSE Fail
           ELSE Fail
    PROVE  WireInv'
<1> DEFINE p == Peek(0, 4)
           n == FromBe(p)
           q == Peek(4, n)
           v == <<q>>
           z == sent.values[Len(out) + 1]
           t == z[1]
           h == ToBe(Len(t), 4)
<1>1. /\ IsField(Current) /\ IsValue(Current.type, z) /\ Fits(Current, z)
      /\ wire \in Seq(Byte) /\ offset \in Nat /\ Len(wire) \in Nat
  BY DecodingFacts, CurrentIs
<1>2. z \in Seq(Seq(Byte)) /\ Len(z) = 1 /\ t \in Seq(Byte) /\ Utf8(t) /\ Len(t) < Power[4]
  <2>1. z \in Seq(Seq(Byte)) /\ Len(z) = 1
    BY <1>1 DEF Fits
  <2> HIDE DEF z
  <2>2. 1 \in DOMAIN z
    BY <2>1
  <2> QED
    <3>1. z[1] \in Seq(Byte)
      <4>1. \A i \in 1 .. Len(z) : z[i] \in Seq(Byte)
        BY <2>1, ElementOfSeq
      <4>2. 1 \in 1 .. Len(z)
        BY <2>1
      <4> QED
        BY <4>1, <4>2
    <3>2. Utf8(z[1]) /\ Len(z[1]) < Power[4]
      BY <1>1, <2>2 DEF IsValue
    <3> QED
      BY <2>1, <3>1, <3>2
<1> HIDE DEF t
<1>3. Len(t) \in 0 .. Power[4] - 1 /\ 4 \in 0 .. 8
  <2>1. Power[4] \in Nat
    BY Powers
  <2>2. Len(t) \in Nat
    BY <1>2
  <2> QED
    BY <1>2, <2>1, <2>2
<1>4. h \in Seq(Byte) /\ Len(h) = 4 /\ FromBe(h) = Len(t)
  <2>1. Len(t) \in Nat
    BY <1>2
  <2> QED
    BY <1>3, <2>1, ToBytes, FromBeToBe
<1>5. whole => Available(4) /\ Available(4 + n) /\ q = t
  <2> SUFFICES ASSUME whole PROVE Available(4) /\ Available(4 + n) /\ q = t
    OBVIOUS
  <2>1. IsNext(wire, offset, h \o t)
    BY <1>1, FieldBytes, WholeFieldNext DEF t
  <2> HIDE DEF h
  <2>2. IsNext(wire, offset, h) /\ IsNext(wire, offset + 4, t)
    BY <1>1, <1>2, <1>4, <2>1, NextHalves
  <2>3. Available(4) /\ p = h
    BY <1>1, <1>4, <2>2, PeekNext
  <2>4. n = Len(t)
    BY <1>4, <2>3
  <2>5. Len(t) \in Nat /\ (offset + 4) + Len(t) <= Len(wire)
        /\ \A j \in 1 .. Len(t) : wire[(offset + 4) + j] = t[j]
    BY <1>2, <2>2 DEF IsNext
  <2>6. offset + (4 + Len(t)) <= Len(wire)
    BY <1>1, <2>5
  <2> DEFINE r == Peek(4, Len(t))
  <2>7. r \in Seq(Byte) /\ Len(r) = Len(t) /\ \A j \in 1 .. Len(t) : r[j] = wire[offset + (4 + j)]
    <3>1. 4 \in Nat
      OBVIOUS
    <3> QED
      BY <1>1, <2>5, <2>6, <3>1, Peeked
  <2> HIDE DEF r, n, p
  <2>8. ASSUME NEW j \in 1 .. Len(t) PROVE r[j] = t[j]
    <3>1. offset + (4 + j) = (offset + 4) + j
      BY <1>1, <2>5
    <3> QED
      BY <2>5, <2>7, <3>1
  <2>9. r = t
    BY <1>2, <2>7, <2>8, SeqEqual
  <2> QED
    BY <2>3, <2>4, <2>6, <2>9 DEF r, Available
<1> DEFINE Good == Available(4) /\ Available(4 + n) /\ Utf8(q)
<1>6. IF Good THEN Decoded(v, 4 + n) ELSE Fail
  OBVIOUS
<1>7. CASE ~Good
  <2>1. Fail
    BY <1>6, <1>7
  <2>2. ~whole
    BY <1>2, <1>5, <1>7
  <2> QED
    BY <2>1, <2>2, FailKeeps
<1>8. CASE Good
  <2>1. Decoded(v, 4 + n) /\ Utf8(q) /\ offset + 4 <= Len(wire) /\ offset + (4 + n) <= Len(wire)
    BY <1>6, <1>8 DEF Available
  <2>2. p \in Seq(Byte) /\ Len(p) = 4 /\ \A j \in 1 .. 4 : p[j] = wire[offset + j]
    <3>1. offset + (0 + 4) <= Len(wire) /\ 0 \in Nat /\ 4 \in Nat
      BY <1>1, <2>1
    <3>2. p \in Seq(Byte) /\ Len(p) = 4 /\ \A j \in 1 .. 4 : p[j] = wire[offset + (0 + j)]
      BY <1>1, <3>1, Peeked
    <3>3. \A j \in 1 .. 4 : 0 + j = j
      OBVIOUS
    <3> HIDE DEF p
    <3> QED
      BY <3>2, <3>3
  <2> HIDE DEF p
  <2>3. n \in Nat /\ ToBe(n, 4) = p
    <3>1. p \in Seq(Byte) /\ Len(p) \in 0 .. 8
      BY <2>2
    <3>2. FromBe(p) \in Nat /\ ToBe(FromBe(p), Len(p)) = p
      BY <3>1, FromBeType, ToBeFromBe
    <3> QED
      BY <2>2, <3>2
  <2> HIDE DEF n
  <2>4. q \in Seq(Byte) /\ Len(q) = n /\ \A j \in 1 .. n : q[j] = wire[offset + (4 + j)]
    <3>1. 4 \in Nat
      OBVIOUS
    <3> QED
      BY <1>1, <2>1, <2>3, <3>1, Peeked
  <2> HIDE DEF q
  <2>5. v \in Seq(Seq(Byte)) /\ Len(v) = 1 /\ v[1] = q
    BY <2>4
  <2> HIDE DEF v
  <2>6. Fits(Current, v)
    BY <2>5 DEF Fits
  <2> DEFINE x == p \o q
  <2>7. SerializeField(Current, v) = x
    BY <1>1, <2>3, <2>4, <2>5, <2>6, FieldBytes
  <2>8. /\ Len(x) = 4 + n
        /\ (\A j \in 1 .. 4 : x[j] = p[j]) /\ \A j \in 1 .. n : x[4 + j] = q[j]
    <3>1. /\ Len(x) = Len(p) + Len(q)
          /\ (\A j \in 1 .. Len(p) : x[j] = p[j]) /\ \A j \in 1 .. Len(q) : x[Len(p) + j] = q[j]
      <4>1. p \in Seq(Byte) /\ q \in Seq(Byte)
        BY <2>2, <2>4
      <4> QED
        BY <4>1, Follows
    <3> HIDE DEF x
    <3> QED
      BY <2>2, <2>4, <3>1
  <2> HIDE DEF x
  <2>9. ASSUME NEW j \in 1 .. 4 + n PROVE x[j] = wire[offset + j]
    <3>1. CASE j \in 1 .. 4
      BY <2>2, <2>8, <3>1
    <3>2. CASE j \notin 1 .. 4
      <4>1. j - 4 \in 1 .. n /\ 4 + (j - 4) = j
        BY <2>3, <3>2
      <4>2. x[4 + (j - 4)] = q[j - 4] /\ q[j - 4] = wire[offset + (4 + (j - 4))]
        BY <2>4, <2>8, <4>1
      <4> QED
        BY <4>1, <4>2
    <3> QED
      BY <3>1, <3>2
  <2>10. whole => v = z
    <3> SUFFICES ASSUME whole PROVE v = z
      OBVIOUS
    <3>1. q = z[1]
      BY <1>5 DEF t
    <3> HIDE DEF z
    <3> QED
      BY <1>2, <2>5, <3>1, SeqEqual
  <2>11. \A j \in 1 .. 4 + n : Reads(SerializeField(Current, v)[j], wire[offset + j])
    BY <2>7, <2>9 DEF Reads
  <2>12. 4 + n = Len(SerializeField(Current, v)) /\ Utf8(v[1])
    BY <2>1, <2>5, <2>7, <2>8
  <2> QED
    BY <2>1, <2>6, <2>10, <2>11, <2>12, DecodedKeeps
<1> QED
  BY <1>7, <1>8

\* A field that is no array.
LEMMA NextFieldKeeps ==
    ASSUME WireInv, NextField
    PROVE  WireInv'
<1>1. phase = "struct" /\ Len(out) < Len(sent.schema) /\ Current.type.kind # "array"
  BY DEF NextField
<1>2. remaining # 0 /\ Current.type.kind \in {"int", "bool", "text"}
  BY <1>1, NextOpaque, CurrentIs, FieldIs
<1>3. CASE Current.type.kind = "int"
  BY <1>1, <1>2, <1>3, IntegerKeeps DEF NextField
<1>4. CASE Current.type.kind = "bool"
  BY <1>1, <1>2, <1>4, BoolKeeps DEF NextField
<1>5. CASE Current.type.kind = "text"
  BY <1>1, <1>2, <1>5, TextKeeps DEF NextField
<1> QED
  BY <1>2, <1>3, <1>4, <1>5

\* deserialize_tuple: an array begins, and the counters of the struct are saved.
LEMMA EnterArrayKeeps ==
    ASSUME WireInv, EnterArray
    PROVE  WireInv'
<1> DEFINE d == sent.schema
           z == sent.values[Len(out) + 1]
           c == Current.type.count
           X == SerializeField(Current, z)
<1>1. phase = "struct" /\ Len(out) < Len(d) /\ Current.type.kind = "array"
  BY DEF EnterArray
<1>2. /\ IsField(Current) /\ IsValue(Current.type, z)
      /\ sent \in Samples /\ d \in Definitions /\ Len(d) \in Nat /\ Len(out) \in Nat
      /\ wire \in Seq(Byte) /\ offset \in Nat /\ Len(wire) \in Nat /\ offset <= Len(wire)
      /\ AllFit(d, out) /\ CursorAt(d, wire, offset, out)
  BY <1>1, DecodingFacts, CurrentIs DEF Got
<1>3. remaining \in Nat \ {0} /\ Len(out) + remaining = Len(d) /\ IsNextOpaque \in BOOLEAN
  BY <1>1, NextOpaque
<1>4. c \in Nat /\ (whole => Available(c))
  <2>1. c \in Nat /\ Current.type.width \in {1, 2, 4, 8}
    BY <1>2, FieldIs
  <2>2. X \in Seq(Byte) /\ Len(X) = Current.type.width * c
    BY <1>1, <1>2, FieldMeasured DEF FieldLength
  <2>3. whole => IsNext(wire, offset, X)
    BY <1>1, WholeFieldNext
  <2> HIDE DEF X
  <2>4. whole => offset + Len(X) <= Len(wire)
    BY <2>3 DEF IsNext
  <2> HIDE DEF c
  <2>5. c <= Len(X) /\ Len(X) \in Nat
    BY <2>1, <2>2
  <2> QED
    BY <1>2, <2>1, <2>4, <2>5 DEF Available
<1>5. CASE ~Available(c)
  <2>1. Fail
    BY <1>5 DEF EnterArray
  <2> QED
    BY <1>1, <1>4, <1>5, <2>1, FailKeeps
<1>6. CASE Available(c)
  <2>1. /\ phase' = "array" /\ part' = <<>> /\ opaque' = IsNextOpaque
        /\ saved' = [remaining |-> remaining - 1, fields |-> fields, opaque |-> opaque]
        /\ remaining' = c /\ fields' = <<>>
        /\ sent' = sent /\ wire' = wire /\ whole' = whole /\ offset' = offset /\ out' = out
    BY <1>3, <1>6 DEF EnterArray
  <2>2. fields = NamesOf(d) /\ opaque \in BOOLEAN
    BY <1>1 DEF WireInv, CounterInv
  <2>3. CursorAt(d, wire, offset, Append(out, <<>>))
    BY <1>1, <1>2, ArrayBegins DEF Current
  <2>4. Got' = Append(out, <<>>) /\ Current' = Current
    BY <2>1 DEF Got, Current
  <2>5. CursorInv'
    <3>1. <<>> \in Seq(Seq(Byte))
      OBVIOUS
    <3>2. \A i \in 1 .. Len(out) : d[i].type = Text => Utf8(out[i][1])
      BY <1>1 DEF WireInv, CursorInv
    <3> QED
      BY <1>2, <2>1, <2>3, <2>4, <3>1, <3>2 DEF CursorInv
  <2>6. CounterInv'
    <3>1. Len(<<>>) = 0 /\ Len(<<>>) + c = c
      BY <1>4
    <3>2. remaining - 1 \in Nat /\ (Len(out) + (remaining - 1)) + 1 = Len(d)
      BY <1>2, <1>3
    <3> QED
      BY <1>1, <1>4, <2>1, <2>2, <2>4, <3>1, <3>2 DEF CounterInv
  <2>7. WholeInv'
    <3>1. SubSeq(z, 1, 0) = <<>> /\ Len(<<>>) = 0
      <4>1. z \in Seq(Seq(Byte))
        BY <1>2 DEF IsValue
      <4> HIDE DEF z
      <4> QED
        BY <4>1
    <3>2. WholeInv
      BY <1>1 DEF WireInv
    <3> QED
      BY <2>1, <3>1, <3>2 DEF WholeInv
  <2>8. wire' \in Seq(Byte) /\ offset' \in 0 .. Len(wire') /\ sent' \in Samples
        /\ opaque' \in BOOLEAN
    <3>1. offset \in 0 .. Len(wire)
      BY <1>2
    <3> QED
      BY <1>2, <1>3, <2>1, <3>1
  <2> QED
    BY <2>1, <2>5, <2>6, <2>7, <2>8 DEF WireInv
<1> QED
  BY <1>5, <1>6

\* The element a whole message has at the cursor is the one that was sent.
LEMMA WholeElementNext ==
    ASSUME WireInv, phase = "array", whole, Len(part) < Current.type.count
    PROVE  IsNext(wire, offset, sent.values[Len(out) + 1][Len(part) + 1])
<1> DEFINE d == sent.schema
           k == Len(out)
           j == Len(part)
           z == sent.values[k + 1]
           a == Encoded(d, out)
<1>1. Len(out) < Len(d) /\ Current.type.kind = "array"
  BY DEF WireInv, CounterInv
<1>2. /\ IsField(Current) /\ IsValue(Current.type, z) /\ k \in 0 .. Len(d) - 1 /\ j \in Nat
      /\ sent \in Samples /\ d \in Definitions /\ part \in Seq(Seq(Byte)) /\ AllFit(d, out)
      /\ wire \in Seq(Byte) /\ CursorAt(d, wire, offset, Append(out, part))
      /\ Current = d[k + 1]
  BY <1>1, DecodingFacts, CurrentIs DEF Got, Current
<1>3. wire = serialize(d, sent.values) /\ out = SubSeq(sent.values, 1, k) /\ part = SubSeq(z, 1, j)
  BY DEF WireInv, WholeInv
<1>4. Fits(Current, part) /\ Fits(Current, z)
  BY <1>1, <1>2 DEF Fits, IsValue
<1>5. SerializeField(Current, z) = FlattenSeq(z) /\ SerializeField(Current, part) = FlattenSeq(part)
      /\ FlattenSeq(part) \in Seq(Byte)
  BY <1>1, <1>2, <1>4, FieldBytes
<1>6. IsNext(wire, Len(a), FlattenSeq(z))
  <2>1. IsNext(serialize(d, sent.values), Len(Encoded(d, SubSeq(sent.values, 1, k))),
               SerializeField(d[k + 1], sent.values[k + 1]))
    <3> HIDE DEF k
    <3> QED
      BY <1>2, FieldIsNext
  <2>2. Encoded(d, SubSeq(sent.values, 1, k)) = a
    BY <1>3
  <2> QED
    BY <1>2, <1>3, <1>5, <2>1, <2>2
<1>7. z \in Seq(Seq(Byte)) /\ j \in 0 .. Len(z) - 1
  <2>1. z \in Seq(Seq(Byte)) /\ Len(z) = Current.type.count
    BY <1>2 DEF IsValue
  <2> HIDE DEF z
  <2>2. Len(z) \in Nat
    BY <2>1
  <2> QED
    BY <1>2, <2>1, <2>2
<1>8. IsNext(FlattenSeq(z), Len(FlattenSeq(part)), z[j + 1])
  <2>1. IsNext(FlattenSeq(z), Len(FlattenSeq(SubSeq(z, 1, j))), z[j + 1])
    <3> HIDE DEF z, j
    <3> QED
      BY <1>7, FlattenNext
  <2> QED
    BY <1>3, <2>1
<1>9. a \in Seq(Byte) /\ Encoded(d, Append(out, part)) = a \o FlattenSeq(part)
  <2>1. a \in Seq(Byte)
    BY <1>2, PartsAre
  <2>2. Fits(d[Len(out) + 1], part) /\ d \in Definitions /\ AllFit(d, out)
    BY <1>2, <1>4
  <2>3. Encoded(d, Append(out, part)) = a \o SerializeField(d[Len(out) + 1], part)
    BY <1>1, <2>2, EncodedAppend
  <2> QED
    BY <1>2, <1>5, <2>1, <2>3
<1> DEFINE y == FlattenSeq(part)
           x == FlattenSeq(z)
<1> HIDE DEF a, y, x, z
<1>10. offset = Len(a) + Len(y) /\ Len(a) \in Nat /\ Len(y) \in Nat
  <2>1. offset = Len(Encoded(d, Append(out, part)))
    BY <1>2 DEF CursorAt
  <2>2. a \in Seq(Byte) /\ y \in Seq(Byte)
    BY <1>5, <1>9 DEF y
  <2>3. Len(a \o y) = Len(a) + Len(y) /\ Len(a) \in Nat /\ Len(y) \in Nat
    BY <2>2, Follows
  <2> QED
    BY <1>9, <2>1, <2>3 DEF y
<1>11. IsNext(wire, Len(a) + Len(y), z[j + 1])
  <2>1. IsNext(wire, Len(a), x) /\ IsNext(x, Len(y), z[j + 1])
    BY <1>6, <1>8 DEF x, y
  <2> QED
    BY <1>2, <1>10, <2>1, NextWithin
<1> QED
  BY <1>10, <1>11 DEF z

\* An element is decoded: it has no name, and its bytes are those on the wire.
LEMMA NextElementKeeps ==
    ASSUME WireInv, NextElement
    PROVE  WireInv'
<1> DEFINE d == sent.schema
           w == Current.type.width
           z == sent.values[Len(out) + 1]
           x == Peek(0, w)
<1>1. phase = "array" /\ Len(part) < Current.type.count
  BY DEF NextElement
<1>2. /\ Len(out) < Len(d) /\ Current.type.kind = "array" /\ fields = <<>> /\ remaining \in Nat
      /\ Len(part) + remaining = Current.type.count
      /\ saved.fields = NamesOf(d) /\ saved.opaque \in BOOLEAN
      /\ (Len(out) + saved.remaining) + 1 = Len(d) /\ saved.remaining \in Nat
  BY <1>1 DEF WireInv, CounterInv
<1>3. /\ sent \in Samples /\ d \in Definitions /\ Len(d) \in Nat /\ Len(out) \in Nat
      /\ wire \in Seq(Byte) /\ offset \in Nat /\ Len(wire) \in Nat /\ offset <= Len(wire)
      /\ part \in Seq(Seq(Byte)) /\ Len(part) \in Nat
      /\ AllFit(d, out) /\ CursorAt(d, wire, offset, Append(out, part))
  BY <1>1, DecodingFacts DEF Got
<1>4. IsField(Current) /\ IsValue(Current.type, z) /\ Current = d[Len(out) + 1]
  BY <1>1, <1>2, CurrentIs DEF Current
<1>5. w \in {1, 2, 4, 8} /\ w # 0 /\ remaining # 0 /\ Current.type.count \in Nat
  <2>1. w \in {1, 2, 4, 8} /\ Current.type.count \in Nat
    BY <1>4, FieldIs
  <2> QED
    BY <1>1, <1>2, <1>3, <2>1, SMTT(60)
<1>6. ~IsNextOpaque
  <2>1. DOMAIN fields = {}
    BY <1>2
  <2> QED
    BY <2>1 DEF IsNextOpaque
<1>7. whole => Available(w) /\ x = z[Len(part) + 1]
  <2> SUFFICES ASSUME whole PROVE Available(w) /\ x = z[Len(part) + 1]
    OBVIOUS
  <2>1. IsNext(wire, offset, z[Len(part) + 1])
    BY <1>1, WholeElementNext
  <2>2. Len(z[Len(part) + 1]) = w
    <3>1. z \in Seq(Seq(Byte)) /\ Len(z) = Current.type.count /\ DOMAIN z = 1 .. Len(z)
      BY <1>4 DEF IsValue
    <3> HIDE DEF z
    <3>2. Len(part) + 1 \in DOMAIN z
      BY <1>1, <1>3, <1>5, <3>1
    <3> QED
      BY <1>2, <1>4, <3>2 DEF IsValue
  <2> DEFINE y == z[Len(part) + 1]
  <2> HIDE DEF y
  <2>3. Available(Len(y)) /\ Peek(0, Len(y)) = y
    BY <1>3, <2>1, PeekNext DEF y
  <2> QED
    BY <2>2, <2>3 DEF y
<1>8. CASE ~Available(w)
  <2>1. Fail
    BY <1>8 DEF NextElement
  <2> QED
    BY <1>1, <1>7, <1>8, <2>1, FailKeeps
<1>9. CASE Available(w)
  <2>1. offset + w <= Len(wire)
    BY <1>9 DEF Available
  <2>2. x \in Seq(Byte) /\ Len(x) = w /\ \A j \in 1 .. w : x[j] = wire[offset + j]
    <3>1. offset + (0 + w) <= Len(wire) /\ 0 \in Nat /\ w \in Nat
      BY <1>3, <1>5, <2>1
    <3>2. x \in Seq(Byte) /\ Len(x) = w /\ \A j \in 1 .. w : x[j] = wire[offset + (0 + j)]
      BY <1>3, <3>1, Peeked
    <3>3. \A j \in 1 .. w : 0 + j = j
      BY <3>1
    <3> HIDE DEF x
    <3> QED
      BY <3>2, <3>3
  <2>3. /\ part' = Append(part, x) /\ offset' = offset + w /\ remaining' = remaining - 1
        /\ phase' = "array" /\ sent' = sent /\ wire' = wire /\ whole' = whole /\ fields' = fields
        /\ opaque' = opaque /\ out' = out /\ saved' = saved
    BY <1>1, <1>5, <1>6, <1>9 DEF NextElement, Ordered
  <2> HIDE DEF x
  <2>4. /\ part' \in Seq(Seq(Byte)) /\ Len(part') = Len(part) + 1
        /\ Current' = Current /\ Got' = Append(out, Append(part, x))
    <3>1. part' \in Seq(Seq(Byte)) /\ Len(part') = Len(part) + 1
      BY <1>3, <2>2, <2>3, AppendProperties
    <3> QED
      BY <2>3, <3>1 DEF Current, Got
  <2>5. CursorAt(d, wire, offset + w, Append(out, Append(part, x)))
    <3>1. \A j \in 1 .. Len(x) : Reads(x[j], wire[offset + j])
      BY <2>2 DEF Reads
    <3>2. offset + Len(x) <= Len(wire) /\ x \in Seq(Byte) /\ d[Len(out) + 1].type.kind = "array"
      BY <1>2, <1>4, <2>1, <2>2
    <3>3. CursorAt(d, wire, offset + Len(x), Append(out, Append(part, x)))
      BY <1>2, <1>3, <3>1, <3>2, ElementRead
    <3> QED
      BY <2>2, <3>3
  <2>6. CursorInv'
    <3>1. \A i \in 1 .. Len(out) : d[i].type = Text => Utf8(out[i][1])
      BY <1>1 DEF WireInv, CursorInv
    <3> QED
      BY <1>3, <2>3, <2>4, <2>5, <3>1 DEF CursorInv
  <2>7. CounterInv'
    <3>1. remaining - 1 \in Nat /\ (Len(part) + 1) + (remaining - 1) = Current.type.count
      BY <1>2, <1>3, <1>5
    <3> QED
      BY <1>2, <2>3, <2>4, <3>1 DEF CounterInv
  <2>8. WholeInv'
    <3> SUFFICES ASSUME whole PROVE WholeInv'
      BY <2>3 DEF WholeInv
    <3>1. /\ wire = serialize(d, sent.values) /\ out = SubSeq(sent.values, 1, Len(out))
          /\ part = SubSeq(z, 1, Len(part))
      BY <1>1 DEF WireInv, WholeInv
    <3> DEFINE j == Len(part)
    <3>2. Append(part, x) = SubSeq(z, 1, j + 1)
      <4>1. z \in Seq(Seq(Byte)) /\ Len(z) = Current.type.count
        BY <1>4 DEF IsValue
      <4>2. x = z[j + 1] /\ part = SubSeq(z, 1, j)
        BY <1>7, <3>1
      <4>3. j \in Nat /\ j + 1 \in 1 .. Len(z)
        BY <1>1, <1>3, <1>5, <4>1
      <4> HIDE DEF z, j
      <4>4. SubSeq(z, 1, j + 1) = Append(SubSeq(z, 1, j), z[j + 1])
        BY <4>1, <4>3
      <4> QED
        BY <4>2, <4>4
    <3> QED
      BY <2>3, <2>4, <3>1, <3>2 DEF WholeInv
  <2>9. wire' \in Seq(Byte) /\ offset' \in 0 .. Len(wire') /\ sent' \in Samples
        /\ opaque' \in BOOLEAN
    <3>1. offset + w \in 0 .. Len(wire) /\ opaque \in BOOLEAN
      <4>1. opaque \in BOOLEAN
        BY DEF WireInv
      <4>2. offset + w \in 0 .. Len(wire)
        <5> HIDE DEF w
        <5> QED
          BY <1>3, <1>5, <2>1
      <4> QED
        BY <4>1, <4>2
    <3> QED
      BY <1>3, <2>3, <3>1
  <2> QED
    BY <2>3, <2>6, <2>7, <2>8, <2>9 DEF WireInv
<1> QED
  BY <1>8, <1>9

\* The end of an array: the struct goes on with the counters it had.
LEMMA LeaveArrayKeeps ==
    ASSUME WireInv, LeaveArray
    PROVE  WireInv'
<1> DEFINE d == sent.schema
           k == Len(out)
           z == sent.values[k + 1]
<1>1. phase = "array" /\ Len(part) = Current.type.count
  BY DEF LeaveArray
<1>2. /\ k < Len(d) /\ Current.type.kind = "array" /\ remaining \in Nat
      /\ Len(part) + remaining = Current.type.count
      /\ saved.fields = NamesOf(d) /\ saved.opaque \in BOOLEAN
      /\ (k + saved.remaining) + 1 = Len(d) /\ saved.remaining \in Nat
  BY <1>1 DEF WireInv, CounterInv
<1>3. /\ sent \in Samples /\ d \in Definitions /\ Len(d) \in Nat /\ k \in Nat
      /\ wire \in Seq(Byte) /\ offset \in 0 .. Len(wire) /\ out \in Seq(Seq(Seq(Byte)))
      /\ part \in Seq(Seq(Byte)) /\ Len(part) \in Nat
      /\ CursorAt(d, wire, offset, Append(out, part))
  BY <1>1, DecodingFacts DEF Got, WireInv
<1>4. /\ IsField(Current) /\ IsValue(Current.type, z) /\ Current = d[k + 1]
      /\ k + 1 \in 1 .. Len(d)
  BY <1>1, <1>2, CurrentIs DEF Current
<1>5. remaining = 0
  BY <1>1, <1>2, <1>3
<1>6. /\ phase' = "struct" /\ out' = Append(out, part) /\ part' = <<>>
      /\ remaining' = saved.remaining /\ fields' = saved.fields /\ opaque' = saved.opaque
      /\ sent' = sent /\ wire' = wire /\ whole' = whole /\ offset' = offset
  BY <1>5 DEF LeaveArray
<1>7. /\ Len(out') = k + 1 /\ out'[k + 1] = part /\ \A i \in 1 .. k : out'[i] = out[i]
  BY <1>3, <1>6, AppendProperties
<1>8. CursorInv'
  <2>1. Got' = Append(out, part)
    BY <1>6 DEF Got
  <2>2. AllFit(d, Append(out, part)) /\ <<>> \in Seq(Seq(Byte))
    BY <1>3 DEF CursorAt
  <2>3. ASSUME NEW i \in 1 .. k + 1, d[i].type = Text PROVE Utf8(out'[i][1])
    <3>1. CASE i = k + 1
      BY <1>2, <1>4, <2>3, <3>1, FieldIs
    <3>2. CASE i \in 1 .. k
      BY <1>1, <1>7, <2>3, <3>2 DEF WireInv, CursorInv
    <3>3. i = k + 1 \/ i \in 1 .. k
      BY <1>3
    <3> QED
      BY <3>1, <3>2, <3>3
  <2> QED
    BY <1>3, <1>6, <1>7, <2>1, <2>2, <2>3 DEF CursorInv
<1>9. CounterInv'
  <2>1. (k + 1) + saved.remaining = Len(d)
    <3>1. k \in Nat /\ saved.remaining \in Nat /\ (k + saved.remaining) + 1 = Len(d)
      BY <1>2, <1>3
    <3> HIDE DEF k, d
    <3> QED
      BY <3>1
  <2> QED
    BY <1>2, <1>6, <1>7, <2>1 DEF CounterInv
<1>10. WholeInv'
  <2> SUFFICES ASSUME whole PROVE WholeInv'
    BY <1>6 DEF WholeInv
  <2> DEFINE y == sent.values
  <2>1. wire = serialize(d, y) /\ out = SubSeq(y, 1, k) /\ part = SubSeq(z, 1, Len(part))
    BY <1>1 DEF WireInv, WholeInv
  <2>2. y \in Seq(Seq(Seq(Byte))) /\ Len(y) = Len(d) /\ k + 1 \in 1 .. Len(y)
    BY <1>3, <1>4, SampleIs
  <2>3. part = y[k + 1]
    <3>1. z \in Seq(Seq(Byte)) /\ Len(z) = Len(part)
      BY <1>1, <1>4 DEF IsValue
    <3> HIDE DEF z
    <3>2. SubSeq(z, 1, Len(z)) = z
      BY <3>1, SubSeqFull
    <3> QED
      BY <2>1, <3>1, <3>2 DEF z
  <2>4. Append(out, part) = SubSeq(y, 1, k + 1)
    <3> HIDE DEF y, k
    <3>1. SubSeq(y, 1, k + 1) = Append(SubSeq(y, 1, k), y[k + 1])
      BY <1>3, <2>2
    <3> QED
      BY <2>1, <2>3, <3>1
  <2> QED
    BY <1>6, <1>7, <2>1, <2>4 DEF WholeInv
<1> QED
  BY <1>2, <1>3, <1>6, <1>8, <1>9, <1>10 DEF WireInv

\* The end of the message.
LEMMA FinishKeeps ==
    ASSUME WireInv, Finish
    PROVE  WireInv'
<1> DEFINE d == sent.schema
<1>1. phase = "struct" /\ Len(out) = Len(d)
  BY DEF Finish
<1>2. /\ sent \in Samples /\ Len(d) \in Nat /\ wire \in Seq(Byte) /\ offset \in 0 .. Len(wire)
      /\ CursorAt(d, wire, offset, out)
  BY <1>1, DecodingFacts DEF Got, WireInv
<1>3. remaining = 0 /\ CursorInv /\ WholeInv /\ opaque \in BOOLEAN
  <2>1. Len(out) + remaining = Len(d) /\ remaining \in Nat /\ CursorInv /\ WholeInv
        /\ opaque \in BOOLEAN
    BY <1>1 DEF WireInv, CounterInv
  <2> QED
    BY <1>1, <1>2, <2>1
<1>4. whole => offset = Len(wire)
  <2> SUFFICES ASSUME whole PROVE offset = Len(wire)
    OBVIOUS
  <2> DEFINE y == sent.values
  <2>1. wire = serialize(d, y) /\ out = SubSeq(y, 1, Len(out))
    BY <1>3 DEF WholeInv
  <2>2. y \in Seq(Seq(Seq(Byte))) /\ Len(y) = Len(d) /\ serialize(d, y) = Encoded(d, y)
    BY <1>2, SampleIs
  <2> HIDE DEF y
  <2>3. SubSeq(y, 1, Len(y)) = y
    BY <2>2, SubSeqFull
  <2>4. out = y
    BY <1>1, <2>1, <2>2, <2>3
  <2>5. offset = Len(Encoded(d, out))
    BY <1>2 DEF CursorAt
  <2> QED
    BY <2>1, <2>2, <2>4, <2>5
<1>5. CASE offset # Len(wire)
  <2>1. Fail
    BY <1>5 DEF Finish
  <2> QED
    BY <1>1, <1>4, <1>5, <2>1, FailKeeps
<1>6. CASE offset = Len(wire)
  <2>1. /\ phase' = "ok" /\ sent' = sent /\ wire' = wire /\ whole' = whole /\ offset' = offset
        /\ opaque' = opaque /\ out' = out /\ part' = part
    BY <1>3, <1>6 DEF Finish, visitorVars
  <2>2. Got' = Got
    BY <1>1, <2>1 DEF Got
  <2>3. CursorInv'
    BY <1>3, <2>1, <2>2 DEF CursorInv
  <2>4. CounterInv'
    BY <1>1, <1>6, <2>1 DEF CounterInv
  <2>5. WholeInv'
    BY <1>3, <2>1 DEF WholeInv
  <2> QED
    BY <1>2, <1>3, <2>1, <2>3, <2>4, <2>5 DEF WireInv
<1> QED
  BY <1>5, <1>6

-----------------------------------------------------------------------------
(* What the invariant says of a message *)

\* The cursor stays inside the message and the counters count what is left.
LEMMA WireIsTyped ==
    ASSUME WireInv
    PROVE  WireTypeOK
<1>1. phase \in {"struct", "array"} => Len(out) \in Nat /\ Len(part) \in Nat
  BY DecodingFacts
<1>2. phase = "struct" => remaining = Len(sent.schema) - Len(out)
  <2>1. phase = "struct" => remaining \in Nat /\ Len(out) + remaining = Len(sent.schema)
    BY DEF WireInv, CounterInv
  <2> QED
    BY <1>1, <2>1
<1>3. phase = "array" => remaining = Current.type.count - Len(part)
  <2>1. phase = "array" => remaining \in Nat /\ Len(part) + remaining = Current.type.count
    BY DEF WireInv, CounterInv
  <2> QED
    BY <1>1, <2>1
<1> QED
  BY <1>2, <1>3 DEF WireInv, WireTypeOK

\* A whole message is decoded as it was sent.
LEMMA WholeIsDecoded ==
    ASSUME WireInv
    PROVE  WholeMessagesDecode
<1> SUFFICES ASSUME phase \in {"ok", "error"}, whole PROVE phase = "ok" /\ out = sent.values
  BY DEF WholeMessagesDecode
<1>1. sent \in Samples /\ phase = "ok" /\ out = SubSeq(sent.values, 1, Len(out))
  BY DEF WireInv, WholeInv
<1>2. Len(out) = Len(sent.schema)
  BY <1>1 DEF WireInv, CounterInv
<1> DEFINE y == sent.values
<1>3. y \in Seq(Seq(Seq(Byte))) /\ Len(y) = Len(out)
  BY <1>1, <1>2, SampleIs
<1> HIDE DEF y
<1>4. SubSeq(y, 1, Len(y)) = y
  BY <1>3, SubSeqFull
<1> QED
  BY <1>1, <1>3, <1>4 DEF y

\* What is decoded is all of what arrived.
LEMMA WireIsDecoded ==
    ASSUME WireInv
    PROVE  DecodedIsTheWire
<1> SUFFICES ASSUME phase = "ok" PROVE DecodedIsTheWire
  BY DEF DecodedIsTheWire
<1> DEFINE d == sent.schema
           bytes == serialize(d, out)
<1>1. /\ sent \in Samples /\ Len(d) \in Nat /\ AllFit(d, out) /\ d \in Definitions
      /\ CursorAt(d, wire, offset, out) /\ out \in Seq(Seq(Seq(Byte)))
  BY DecodingFacts DEF Got
<1>2. Len(out) = Len(d) /\ offset = Len(wire)
  BY DEF WireInv, CounterInv
<1>3. DOMAIN d = 1 .. Len(d)
  BY <1>1, SampleIs
<1>4. bytes = Encoded(d, out) /\ bytes \in Seq(Byte)
  <2>1. bytes = Encoded(d, out)
    BY <1>2, <1>3 DEF serialize, Encoded, Parts
  <2> QED
    BY <1>1, <2>1, PartsAre
<1> HIDE DEF bytes
<1>5. Len(bytes) = Len(wire) /\ \A i \in 1 .. Len(wire) : Reads(bytes[i], wire[i])
  BY <1>1, <1>2, <1>4 DEF CursorAt
<1>6. DOMAIN bytes = 1 .. Len(wire)
  BY <1>4, <1>5
<1>7. \A i \in DOMAIN bytes : bytes[i] = wire[i] \/ (bytes[i] = 1 /\ wire[i] # 0)
  BY <1>5, <1>6 DEF Reads
<1>8. DOMAIN out = 1 .. Len(out)
  BY <1>1
<1>9. \A i \in DOMAIN out : d[i].type = Text => Utf8(out[i][1])
  BY <1>8 DEF WireInv, CursorInv
<1> QED
  BY <1>5, <1>7, <1>9 DEF DecodedIsTheWire, bytes

\* Bytes one by one.
LEMMA FlattenBytes ==
    ASSUME NEW s \in Seq(Seq(Byte)), \A i \in 1 .. Len(s) : Len(s[i]) = 1
    PROVE  /\ FlattenSeq(s) \in Seq(Byte) /\ Len(FlattenSeq(s)) = Len(s)
           /\ \A i \in 1 .. Len(s) : FlattenSeq(s)[i] = s[i][1]
<1>0. Len(s) \in Nat /\ 1 \in {1, 2, 4, 8}
  OBVIOUS
<1>1. FlattenSeq(s) \in Seq(Byte)
  BY FlattenType
<1>2. Len(FlattenSeq(s)) = 1 * Len(s)
  BY <1>0, FlattenWidth
<1>3. ASSUME NEW i \in 1 .. Len(s) PROVE FlattenSeq(s)[i] = s[i][1]
  <2> DEFINE k == i - 1
             t == SubSeq(s, 1, k)
  <2>1. k \in 0 .. Len(s) - 1 /\ k + 1 = i
    BY <1>0
  <2> HIDE DEF k
  <2>2. t \in Seq(Seq(Byte)) /\ Len(t) = k /\ IsNext(FlattenSeq(s), Len(FlattenSeq(t)), s[k + 1])
    BY <2>1, FlattenNext
  <2>3. \A j \in 1 .. Len(t) : Len(t[j]) = 1
    BY <1>0, <2>1, <2>2
  <2> HIDE DEF t
  <2>4. Len(FlattenSeq(t)) = 1 * Len(t)
    BY <1>0, <2>2, <2>3, FlattenWidth
  <2>5. Len(FlattenSeq(t)) = k
    BY <2>1, <2>2, <2>4
  <2>6. IsNext(FlattenSeq(s), k, s[i])
    BY <2>1, <2>2, <2>5
  <2>7. 1 \in 1 .. Len(s[i])
    <3>1. Len(s[i]) = 1
      OBVIOUS
    <3> QED
      BY <3>1
  <2>8. FlattenSeq(s)[k + 1] = s[i][1]
    BY <2>6, <2>7 DEF IsNext
  <2> QED
    BY <2>1, <2>8
<1> QED
  BY <1>0, <1>1, <1>2, <1>3

\* FixedString: what as_str finds of what from_str has cut.
LEMMA NameIsCut ==
    ASSUME NEW t \in Seq(1 .. Radix - 1), NEW c \in Nat,
           c = IF Len(t) < NameBytes THEN Len(t) ELSE NameBytes - 1
    PROVE  UpToNul(from_str(t)) = SubSeq(t, 1, c)
<1> DEFINE N == NameBytes
           v == from_str(t)
           bytes == FlattenSeq(v)
<1>1. N \in Nat \ {0} /\ Len(t) \in Nat /\ c <= Len(t) /\ c < N
      /\ \A i \in 1 .. N : (i <= Len(t) /\ i <= N - 1) <=> i <= c
  <2>1. N \in Nat \ {0}
    BY SamplesAssumption
  <2>2. Len(t) \in Nat
    OBVIOUS
  <2> HIDE DEF N
  <2>3. c = IF Len(t) < N THEN Len(t) ELSE N - 1
    BY DEF N
  <2> QED
    BY <2>1, <2>2, <2>3
<1>2. \A i \in 1 .. c : t[i] \in Byte /\ t[i] # 0
  <2>1. \A i \in 1 .. c : i \in 1 .. Len(t)
    BY <1>1
  <2>2. \A i \in 1 .. Len(t) : t[i] \in 1 .. Radix - 1
    BY ElementOfSeq
  <2> QED
    BY <2>1, <2>2, RadixIs DEF Byte
<1>3. /\ v \in Seq(Seq(Byte)) /\ Len(v) = N
      /\ \A i \in 1 .. N : v[i] = IF i <= c THEN <<t[i]>> ELSE <<0>>
  <2>1. v = [i \in 1 .. N |-> IF i <= Len(t) /\ i <= N - 1 THEN <<t[i]>> ELSE <<0>>]
    BY DEF from_str
  <2> DEFINE u == [i \in 1 .. N |-> IF i <= c THEN <<t[i]>> ELSE <<0>>]
  <2>2. v = u
    BY <1>1, <2>1
  <2>3. ASSUME NEW i \in 1 .. N PROVE u[i] \in Seq(Byte)
    <3>1. CASE i <= c
      <4>1. t[i] \in Byte
        BY <1>1, <1>2, <3>1
      <4> QED
        BY <3>1, <4>1
    <3>2. CASE ~(i <= c)
      <4>1. 0 \in Byte
        BY RadixIs DEF Byte
      <4> QED
        BY <3>2, <4>1
    <3> QED
      BY <3>1, <3>2
  <2>4. u \in Seq(Seq(Byte)) /\ Len(u) = N
    BY <1>1, <2>3
  <2> QED
    BY <2>2, <2>4
<1> HIDE DEF v
<1>4. \A i \in 1 .. N : Len(v[i]) = 1 /\ v[i][1] = IF i <= c THEN t[i] ELSE 0
  BY <1>3
<1>5. /\ bytes \in Seq(Byte) /\ Len(bytes) = N
      /\ \A i \in 1 .. N : bytes[i] = IF i <= c THEN t[i] ELSE 0
  <2>1. v \in Seq(Seq(Byte)) /\ \A i \in 1 .. Len(v) : Len(v[i]) = 1
    BY <1>3, <1>4
  <2>2. /\ bytes \in Seq(Byte) /\ Len(bytes) = Len(v)
        /\ \A i \in 1 .. Len(v) : bytes[i] = v[i][1]
    BY <2>1, FlattenBytes
  <2> HIDE DEF bytes
  <2> QED
    BY <1>3, <1>4, <2>2
<1> HIDE DEF bytes
<1> DEFINE nuls == {i \in DOMAIN bytes : bytes[i] = 0}
           first == CHOOSE i \in nuls : \A j \in nuls : i <= j
<1>6. c + 1 \in nuls /\ \A j \in nuls : c + 1 <= j
  <2>1. DOMAIN bytes = 1 .. N
    BY <1>5
  <2>2. c + 1 \in 1 .. N /\ ~(c + 1 <= c)
    BY <1>1
  <2>3. ASSUME NEW j \in nuls PROVE c + 1 <= j
    <3>1. j \in 1 .. N /\ bytes[j] = 0
      BY <2>1
    <3>2. ~(j <= c)
      <4>1. j <= c => j \in 1 .. c
        BY <1>1, <3>1
      <4> QED
        BY <1>2, <1>5, <3>1, <4>1
    <3> QED
      BY <1>1, <3>1, <3>2
  <2> QED
    BY <1>5, <2>1, <2>2, <2>3
<1>7. \A j \in nuls : j \in Int
  BY <1>5
<1> HIDE DEF nuls
<1>8. first = c + 1
  <2>1. \A i \in nuls : (\A j \in nuls : i <= j) => i = c + 1
    BY <1>6, <1>7
  <2> QED
    BY <1>6, <2>1
<1> HIDE DEF first
<1>9. UpToNul(v) = SubSeq(bytes, 1, first - 1)
  <2>1. UpToNul(v) = SubSeq(bytes, 1, IF nuls = {} THEN Len(bytes) ELSE first - 1)
    BY DEF UpToNul, bytes, nuls, first
  <2> QED
    BY <1>6, <2>1
<1>10. first - 1 = c
  BY <1>8
<1>11. SubSeq(bytes, 1, c) = SubSeq(t, 1, c)
  <2> DEFINE x == SubSeq(bytes, 1, c)
             y == SubSeq(t, 1, c)
  <2>1. x \in Seq(Byte) /\ Len(x) = c /\ \A i \in 1 .. c : x[i] = bytes[i]
    BY <1>1, <1>5
  <2>2. y \in Seq(1 .. Radix - 1) /\ Len(y) = c /\ \A i \in 1 .. c : y[i] = t[i]
    <3> DEFINE B == 1 .. Radix - 1
    <3>1. t \in Seq(B)
      OBVIOUS
    <3> HIDE DEF B
    <3>2. y \in Seq(B) /\ Len(y) = c /\ \A i \in 1 .. c : y[i] = t[i]
      BY <1>1, <3>1
    <3> QED
      BY <3>2 DEF B
  <2> HIDE DEF x, y
  <2>3. ASSUME NEW i \in 1 .. c PROVE x[i] = y[i]
    <3>1. i \in 1 .. N /\ i <= c
      BY <1>1
    <3> QED
      BY <1>5, <2>1, <2>2, <3>1
  <2>4. x = y
    BY <2>1, <2>2, <2>3, SeqEqual
  <2> QED
    BY <2>4 DEF x, y
<1> QED
  BY <1>9, <1>10, <1>11 DEF v

\* A text is cut within a character, or what is left is a text.
LEMMA CutText ==
    ASSUME NEW t \in Seq(1 .. Radix - 1), Utf8(t), NEW c \in 0 .. Len(t), ~Utf8(SubSeq(t, 1, c))
    PROVE  t[c] \in Lead
<1> DEFINE u == SubSeq(t, 1, c)
<1>0. Len(t) \in Nat /\ DOMAIN t = 1 .. Len(t)
  OBVIOUS
<1>1. Len(u) = c /\ DOMAIN u = 1 .. c /\ \A i \in 1 .. c : u[i] = t[i]
  BY <1>0
<1> HIDE DEF u
<1>2. PICK i \in 1 .. c :
        ~(\/ u[i] \in Ascii
          \/ u[i] \in Lead /\ i < c /\ u[i + 1] \in Continuation
          \/ u[i] \in Continuation /\ i > 1 /\ u[i - 1] \in Lead)
  BY <1>1 DEF Utf8, u
<1>3. i \in 1 .. Len(t) /\ u[i] = t[i]
  BY <1>0, <1>1
<1>4. CASE t[i] \in Continuation /\ i > 1 /\ t[i - 1] \in Lead
  <2>1. i - 1 \in 1 .. c
    BY <1>0, <1>4
  <2> QED
    BY <1>1, <1>2, <1>3, <1>4, <2>1
<1>5. CASE t[i] \in Lead /\ i < Len(t) /\ t[i + 1] \in Continuation
  <2>1. CASE i < c
    <3>1. i + 1 \in 1 .. c
      BY <1>0, <2>1
    <3> QED
      BY <1>1, <1>2, <1>3, <1>5, <2>1, <3>1
  <2>2. CASE ~(i < c)
    <3>1. i = c
      BY <1>0, <2>2
    <3> QED
      BY <1>5, <3>1
  <2> QED
    BY <2>1, <2>2
<1> QED
  BY <1>0, <1>2, <1>3, <1>4, <1>5 DEF Utf8

\* A name arrives, or what is left of it.
LEMMA NameArrives ==
    ASSUME WireInv
    PROVE  NamesArrive
<1> SUFFICES ASSUME phase = "ok", whole, NEW i \in DOMAIN out, sent.schema[i].type = FixedString
             PROVE  LET got == as_str(out[i]) IN
                    IF Len(sent.text) < NameBytes THEN got = <<sent.text>>
                    ELSE IF got = <<>> THEN sent.text[NameBytes - 1] \in Lead
                    ELSE got[1] = SubSeq(sent.text, 1, NameBytes - 1)
  BY DEF NamesArrive
<1> DEFINE t == sent.text
           v == from_str(t)
           c == IF Len(t) < NameBytes THEN Len(t) ELSE NameBytes - 1
           u == SubSeq(t, 1, c)
<1>1. sent \in Samples /\ out = sent.values
  BY WholeIsDecoded DEF WireInv, WholeMessagesDecode
<1>2. i \in DOMAIN sent.schema
  <2>1. /\ out \in Seq(Seq(Seq(Byte))) /\ Len(out) = Len(sent.schema)
        /\ DOMAIN sent.schema = 1 .. Len(sent.schema)
    BY <1>1, SampleIs
  <2> QED
    BY <2>1
<1>3. t \in Seq(1 .. Radix - 1) /\ Utf8(t) /\ out[i] = v /\ NameBytes \in Nat \ {0}
  BY <1>1, <1>2, SamplesAssumption
<1> HIDE DEF t, v
<1>4. c \in Nat /\ c \in 0 .. Len(t) /\ Len(t) \in Nat
  BY <1>3
<1>5. UpToNul(v) = u
  BY <1>3, <1>4, NameIsCut DEF v
<1>6. as_str(out[i]) = IF Utf8(u) THEN <<u>> ELSE <<>>
  BY <1>3, <1>5 DEF as_str
<1>7. CASE Len(t) < NameBytes
  <2>1. u = t
    BY <1>3, <1>7, SubSeqFull
  <2>2. as_str(out[i]) = <<t>>
    BY <1>3, <1>6, <2>1
  <2> QED
    BY <1>7, <2>2 DEF t
<1>8. CASE ~(Len(t) < NameBytes)
  <2>1. c = NameBytes - 1
    BY <1>8
  <2> HIDE DEF c
  <2>2. CASE Utf8(u)
    <3>1. as_str(out[i]) = <<u>> /\ <<u>> # <<>> /\ (<<u>>)[1] = u
      BY <1>6, <2>2
    <3> QED
      BY <1>8, <2>1, <3>1 DEF t
  <2>3. CASE ~Utf8(u)
    <3>1. as_str(out[i]) = <<>>
      BY <1>6, <2>3
    <3>2. t[c] \in Lead
      BY <1>3, <1>4, <2>3, CutText
    <3> QED
      BY <1>8, <2>1, <3>1, <3>2 DEF t
  <2> QED
    BY <2>2, <2>3
<1> QED
  BY <1>7, <1>8
=============================================================================
