------------------------------ MODULE MCDecoding ------------------------------
(***************************************************************************)
(* Decoding with bytes of eight values, names of four bytes, a mapping of six   *)
(* cells and sixteen addresses.                                              *)
(***************************************************************************)
EXTENDS Decoding

\* Text: ASCII is 1 to 3 here, a character of two bytes <<6, 4>>.
Texts == {<<>>, <<1, 2>>, <<1, 2, 3>>, <<6, 4, 1, 2>>, <<1, 6, 5, 2>>, <<1, 2, 6, 5>>}

\* Every byte of a field differs from its neighbours.
Bits(i, w) == [k \in 1 .. w |-> (3 * i + k) % Radix]
ValueOf(f, i, t) ==
    CASE f.type = FixedString -> from_str(t)
      [] f.type = ApiVersions -> <<Bits(i, 4), Bits(i + 1, 4)>>
      [] f.type = Bool -> <<<<i % 2>>>>
      [] f.type = Text -> <<t>>
      [] OTHER -> <<Bits(i, f.type.width)>>

HasText(d) == \E i \in DOMAIN d : d[i].type \in {FixedString, Text}
Sample(d, t) ==
    [schema |-> d, values |-> [i \in DOMAIN d |-> ValueOf(d[i], i, t)], text |-> t]

MCSamples ==
    {Sample(d, t) : d \in {e \in Definitions : HasText(e)}, t \in Texts}
    \cup {Sample(d, <<>>) : d \in {e \in Definitions : ~HasText(e)}}

\* Ids at the borders of every form and of a u16; names that repeat, are empty
\* or no text.
MCTables ==
    {<<>>} \cup {<<Entry(i, <<1>>)>> : i \in {0, 3, 4, 19, 20, 63, 64, 531, 532}}
    \cup {<<Entry(1, n), Entry(i, m)>> : i \in {3, 19, 63}, n \in {<<1>>, <<>>}, m \in {<<1>>, <<6, 4>>, <<6>>}}
    \cup {<<Entry(1, <<1>>), Entry(2, <<2>>), Entry(3, <<1>>)>>}

MCRests == {<<>>, <<0>>, <<1, 3>>, <<7, 0, 7>>}

MCRegions == {[base |-> 4, size |-> 10], [base |-> 8, size |-> 7]}
=============================================================================
