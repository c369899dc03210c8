------------------------------- MODULE Bytes -------------------------------
(***************************************************************************)
(* Bytes of Radix values, 256 in the code: integers in either byte order, and *)
(* text.  Below 3/4 of the values bytes mean in UTF-8 what they mean at 256,    *)
(* in proportion.                                                            *)
(***************************************************************************)
EXTENDS Integers, Sequences

CONSTANT Radix

ASSUME RadixAssumption == Radix \in {8, 16, 32, 64, 128, 256}

Byte == 0 .. Radix - 1

\* Integers have up to eight bytes.
Power[k \in 0 .. 8] == IF k = 0 THEN 1 ELSE Radix * Power[k - 1]

\* from_be_bytes and from_le_bytes
FromBe(s) ==
    LET v[i \in 0 .. Len(s)] == IF i = 0 THEN 0 ELSE Radix * v[i - 1] + s[i] IN v[Len(s)]
FromLe(s) == FromBe([i \in DOMAIN s |-> s[Len(s) + 1 - i]])

\* to_be_bytes of an integer of w bytes
ToBe(n, w) == [i \in 1 .. w |-> (n \div Power[w - i]) % Radix]
ToLe(n, w) == [i \in 1 .. w |-> (n \div Power[i - 1]) % Radix]

\* ASCII, a continuation, the first byte of a character of two; longer
\* characters are left out.
Ascii == 0 .. (Radix \div 2) - 1
Continuation == (Radix \div 2) .. 3 * (Radix \div 4) - 1
Lead == 3 * (Radix \div 4) .. 7 * (Radix \div 8) - 1

\* std::str::from_utf8
Utf8(s) ==
    \A i \in DOMAIN s :
        \/ s[i] \in Ascii
        \/ s[i] \in Lead /\ i < Len(s) /\ s[i + 1] \in Continuation
        \/ s[i] \in Continuation /\ i > 1 /\ s[i - 1] \in Lead
=============================================================================
