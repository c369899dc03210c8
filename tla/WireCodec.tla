----------------------------- MODULE WireCodec ------------------------------
(***************************************************************************)
(* The Binary API wire format: codec.rs, value.rs and the message definitions *)
(* of hammer-binary-api-protocol.  A message is measured, written into a       *)
(* buffer of that size and decoded field by field from what arrives.  The      *)
(* Deserializer is one cursor for nested sequences, which save and restore     *)
(* its counters.                                                             *)
(*                                                                         *)
(* The codec moves the bytes of an integer and never looks at its value: an    *)
(* integer is the sequence of its bytes, the highest first.                   *)
(***************************************************************************)
EXTENDS Bytes, FiniteSets

LOCAL INSTANCE SequencesExt

CONSTANTS
    Samples,    \* the messages: records of a schema, one value per field, and the
                \* text its fixed strings were made from
    NameBytes   \* the N of FixedString<N>: 32, 64 and 256

VARIABLES
    phase,
    sent, wire,
    \* the Deserializer
    offset, remaining, fields, opaque,
    \* its visitors: fields decoded, elements of an array, and what the array's
    \* sequence() and next_element_seed() saved
    out, part, saved,
    whole           \* history: the message arrived as it was encoded

cursorVars == <<offset, remaining, fields, opaque>>
visitorVars == <<out, part, saved>>
wireVars == <<phase, sent, wire, cursorVars, visitorVars, whole>>

-----------------------------------------------------------------------------
(* Message definitions *)

Integer(w) == [kind |-> "int", width |-> w, count |-> 1]
Bool == [kind |-> "bool", width |-> 1, count |-> 1]
Array(w, n) == [kind |-> "array", width |-> w, count |-> n]
Text == [kind |-> "text", width |-> 1, count |-> 1]

\* A newtype struct is its content, a FixedString an array of bytes.
U16 == Integer(2)
U32 == Integer(4)
U64 == Integer(8)
InterfaceIndex == U32
FixedString == Array(1, NameBytes)

Field(n, t) == [name |-> n, type |-> t]

ControlPing == <<Field("id", U16), Field("client_index", U32), Field("context", U32)>>
ControlPingReply ==
    <<Field("id", U16), Field("context", U32), Field("retval", U32),
      Field("client_index", U32), Field("vpe_pid", U32)>>
ApiVersions == Array(4, 2)      \* eight in the code
MemclntCreateV2 ==
    <<Field("id", U16), Field("context", U32), Field("ctx_quota", U32),
      Field("input_queue", U64), Field("name", FixedString),
      Field("api_versions", ApiVersions), Field("keepalive", Bool)>>
MemclntCreateV2Reply ==
    <<Field("id", U16), Field("context", U32), Field("response", U32), Field("handle", U64),
      Field("index", U32), Field("message_table", U64)>>
MemclntDelete ==
    <<Field("id", U16), Field("index", U32), Field("handle", U64), Field("do_cleanup", Bool)>>
MemclntDeleteReply == <<Field("id", U16), Field("response", U32), Field("handle", U64)>>
MemclntKeepalive == ControlPing
MemclntKeepaliveReply == <<Field("id", U16), Field("context", U32), Field("retval", U32)>>
ShowVersion == ControlPing
ShowVersionReply ==
    <<Field("id", U16), Field("context", U32), Field("retval", U32),
      Field("program", FixedString), Field("version", FixedString),
      Field("build_date", FixedString), Field("build_directory", FixedString)>>
AppNamespaceAddDel ==
    <<Field("id", U16), Field("client_index", U32), Field("context", U32), Field("secret", U64),
      Field("is_add", Bool), Field("sw_if_index", InterfaceIndex), Field("ip4_fib_id", U32),
      Field("ip6_fib_id", U32), Field("namespace_id", FixedString), Field("sock_name", Text)>>
AppNamespaceAddDelReply ==
    <<Field("id", U16), Field("context", U32), Field("retval", U32), Field("appns_index", U32)>>

Definitions ==
    {ControlPing, ControlPingReply, MemclntCreateV2, MemclntCreateV2Reply, MemclntDelete,
     MemclntDeleteReply, MemclntKeepaliveReply, ShowVersionReply, AppNamespaceAddDel,
     AppNamespaceAddDelReply}

\* Block::validate: storage of variable length is the last field.
VlaIsLast(d) == \A i \in DOMAIN d : d[i].type = Text => i = Len(d)

ASSUME DefinitionsAssumption == \A d \in Definitions : VlaIsLast(d)

\* Mutant of from_str: the text may fill the whole array.
from_str_unterminated(t) ==
    [i \in 1 .. NameBytes |-> IF i <= Len(t) THEN <<t[i]>> ELSE <<0>>]

\* FixedString::from_str: cut to leave a terminator, wherever that falls.
from_str(t) ==
    [i \in 1 .. NameBytes |-> IF i <= Len(t) /\ i <= NameBytes - 1 THEN <<t[i]>> ELSE <<0>>]

\* FixedString::as_str: up to the first zero; the text if it is UTF-8.
UpToNul(v) ==
    LET bytes == FlattenSeq(v)
        nuls == {i \in DOMAIN bytes : bytes[i] = 0}
        end == IF nuls = {} THEN Len(bytes) ELSE (CHOOSE i \in nuls : \A j \in nuls : i <= j) - 1
    IN  SubSeq(bytes, 1, end)
as_str(v) == IF Utf8(UpToNul(v)) THEN <<UpToNul(v)>> ELSE <<>>

\* What a field's type says of its value: as many elements as the type has, of its
\* width; a text is UTF-8 and its length a u32, or it is not serialized.
IsValue(t, v) ==
    /\ v \in Seq(Seq(Byte)) /\ Len(v) = t.count
    /\ \A i \in DOMAIN v :
        CASE t.kind = "text" -> Utf8(v[i]) /\ Len(v[i]) < Power[4]
          [] t.kind = "bool" -> v[i] \in {<<0>>, <<1>>}
          [] OTHER -> Len(v[i]) = t.width

\* The names are texts without a zero.
ASSUME SamplesAssumption ==
    /\ NameBytes \in Nat \ {0} /\ Samples # {}
    /\ \A m \in Samples :
        /\ m.schema \in Definitions
        /\ m.values \in Seq(Seq(Seq(Byte))) /\ Len(m.values) = Len(m.schema)
        /\ m.text \in Seq(1 .. Radix - 1) /\ Utf8(m.text)
        /\ \A i \in DOMAIN m.schema :
            /\ IsValue(m.schema[i].type, m.values[i])
            /\ m.schema[i].type = FixedString => m.values[i] = from_str(m.text)

-----------------------------------------------------------------------------
(* The Serializer *)

\* client_index is a token in the byte order of the machine, here the lowest
\* byte first.
IsOpaque(name) == name = "client_index"
Ordered(bytes, token) == IF token THEN Reverse(bytes) ELSE bytes

\* serialize_field: arrays pass the byte order on to their elements.
SerializeField(f, v) ==
    CASE f.type.kind = "bool" -> v[1]
      [] f.type.kind = "text" -> ToBe(Len(v[1]), 4) \o v[1]
      [] OTHER -> FlattenSeq([i \in DOMAIN v |-> Ordered(v[i], IsOpaque(f.name))])

serialize(schema, values) ==
    FlattenSeq([i \in DOMAIN schema |-> SerializeField(schema[i], values[i])])

\* serialized_len: the same walk over the message, counting.
FieldLength(f, v) ==
    CASE f.type.kind = "text" -> 4 + Len(v[1])
      [] OTHER -> f.type.width * f.type.count
serialized_len(schema, values) ==
    LET total[i \in 0 .. Len(schema)] ==
            IF i = 0 THEN 0 ELSE total[i - 1] + FieldLength(schema[i], values[i])
    IN  total[Len(schema)]

\* MsgBuf::allocate and encode: a zeroed buffer of the measured length is written
\* from the start; write() refuses to go beyond it, and nothing is sent.
Buffered(schema, values) ==
    LET bytes == serialize(schema, values)
        n == serialized_len(schema, values)
    IN  IF Len(bytes) > n THEN <<>>
        ELSE [i \in 1 .. n |-> IF i <= Len(bytes) THEN bytes[i] ELSE 0]

-----------------------------------------------------------------------------
(* The Deserializer *)

NoSaved == [remaining |-> 0, fields |-> <<>>, opaque |-> FALSE]

WireIdle ==
    /\ phase = "idle" /\ sent = [schema |-> <<>>, values |-> <<>>, text |-> <<>>]
    /\ wire = <<>> /\ whole = FALSE
    /\ offset = 0 /\ remaining = 0 /\ fields = <<>> /\ opaque = FALSE
    /\ out = <<>> /\ part = <<>> /\ saved = NoSaved

\* The message as it was written, or cut, lengthened or with a byte changed.
Arrivals(bytes) ==
    {SubSeq(bytes, 1, n) : n \in 0 .. Len(bytes)}
    \cup {Append(bytes, b) : b \in {0, 1}}
    \cup {[bytes EXCEPT ![i] = Radix - 1 - @] : i \in DOMAIN bytes}
    \cup {[bytes EXCEPT ![i] = (@ + 1) % Radix] : i \in DOMAIN bytes}

\* MsgBuf::encode, and deserialize_struct of what arrives: sequence() of the
\* fields.
Deserialize(m) ==
    /\ phase = "idle"
    /\ sent' = m
    /\ wire' \in Arrivals(Buffered(m.schema, m.values))
    /\ whole' = (wire' = Buffered(m.schema, m.values))
    /\ phase' = "struct"
    /\ remaining' = Len(m.schema) /\ fields' = [i \in DOMAIN m.schema |-> m.schema[i].name]
    /\ UNCHANGED <<offset, opaque, visitorVars>>

Fail ==
    /\ phase' = "error"
    /\ UNCHANGED <<sent, wire, whole, cursorVars, visitorVars>>

\* read: n bytes after the first k from here, if they are there.
Available(n) == offset + n <= Len(wire)
Peek(k, n) == SubSeq(wire, offset + k + 1, offset + k + n)

\* The field whose turn it is, by the fields the visitor has got.
Current == sent.schema[Len(out) + 1]

\* next_element_seed: the byte order of the next element, by its field's name.
IsNextOpaque ==
    /\ Len(fields) - remaining + 1 \in DOMAIN fields
    /\ IsOpaque(fields[Len(fields) - remaining + 1])

\* A field of n bytes is decoded as v; the element's byte order is restored.
Decoded(v, n) ==
    /\ out' = Append(out, v) /\ offset' = offset + n
    /\ remaining' = remaining - 1
    /\ UNCHANGED <<phase, sent, wire, whole, fields, opaque, part, saved>>

\* A field that is not an array.  The visitor of a struct asks for an element
\* per field and fails if there is none.
NextField ==
    /\ phase = "struct" /\ Len(out) < Len(sent.schema) /\ Current.type.kind # "array"
    /\ IF remaining = 0 THEN Fail
       ELSE LET w == Current.type.width IN
            CASE Current.type.kind = "int" ->
                    IF Available(w) THEN Decoded(<<Ordered(Peek(0, w), IsNextOpaque)>>, w)
                    ELSE Fail
              [] Current.type.kind = "bool" ->
                    IF Available(w) THEN Decoded(<<<<IF Peek(0, w)[1] = 0 THEN 0 ELSE 1>>>>, w)
                    ELSE Fail
              [] OTHER ->
                    IF Available(4) /\ Available(4 + FromBe(Peek(0, 4)))
                    THEN LET n == FromBe(Peek(0, 4)) IN
                         IF Utf8(Peek(4, n)) THEN Decoded(<<Peek(4, n)>>, 4 + n) ELSE Fail
                    ELSE Fail

\* Mutant of EnterArray: the last bytes of a message hold no array.
EnterArrayStrict ==
    /\ phase = "struct" /\ Len(out) < Len(sent.schema) /\ Current.type.kind = "array"
    /\ IF remaining = 0 \/ ~Available(Current.type.count + 1) THEN Fail
       ELSE /\ phase' = "array" /\ part' = <<>>
            /\ saved' = [remaining |-> remaining - 1, fields |-> fields, opaque |-> opaque]
            /\ opaque' = IsNextOpaque
            /\ remaining' = Current.type.count /\ fields' = <<>>
            /\ UNCHANGED <<sent, wire, whole, offset, out>>

\* deserialize_tuple: more elements than bytes are refused.
EnterArray ==
    /\ phase = "struct" /\ Len(out) < Len(sent.schema) /\ Current.type.kind = "array"
    /\ IF remaining = 0 \/ ~Available(Current.type.count) THEN Fail
       ELSE /\ phase' = "array" /\ part' = <<>>
            /\ saved' = [remaining |-> remaining - 1, fields |-> fields, opaque |-> opaque]
            /\ opaque' = IsNextOpaque
            /\ remaining' = Current.type.count /\ fields' = <<>>
            /\ UNCHANGED <<sent, wire, whole, offset, out>>

\* An element of an array has no name; it must take bytes.
NextElement ==
    /\ phase = "array" /\ Len(part) < Current.type.count
    /\ LET w == Current.type.width IN
       IF remaining = 0 \/ ~Available(w) \/ w = 0 THEN Fail
       ELSE /\ part' = Append(part, Ordered(Peek(0, w), IsNextOpaque))
            /\ offset' = offset + w /\ remaining' = remaining - 1
            /\ UNCHANGED <<phase, sent, wire, whole, fields, opaque, out, saved>>

\* The end of sequence(): the parent's counters are restored.
LeaveArray ==
    /\ phase = "array" /\ Len(part) = Current.type.count
    /\ IF remaining # 0 THEN Fail
       ELSE /\ phase' = "struct" /\ out' = Append(out, part) /\ part' = <<>> /\ saved' = NoSaved
            /\ remaining' = saved.remaining /\ fields' = saved.fields /\ opaque' = saved.opaque
            /\ UNCHANGED <<sent, wire, whole, offset>>

\* Mutant of Finish: bytes may be left over.
FinishAnywhere ==
    /\ phase = "struct" /\ Len(out) = Len(sent.schema)
    /\ IF remaining # 0 THEN Fail
       ELSE /\ phase' = "ok" /\ fields' = <<>>
            /\ UNCHANGED <<sent, wire, whole, offset, remaining, opaque, visitorVars>>

\* The end of the struct, and of MsgBuf::decode: no bytes may be left over.
Finish ==
    /\ phase = "struct" /\ Len(out) = Len(sent.schema)
    /\ IF remaining # 0 \/ offset # Len(wire) THEN Fail
       ELSE /\ phase' = "ok" /\ fields' = <<>>
            /\ UNCHANGED <<sent, wire, whole, offset, remaining, opaque, visitorVars>>

DecodeStep == NextField \/ EnterArray \/ NextElement \/ LeaveArray \/ Finish

-----------------------------------------------------------------------------
(* Properties *)

WireTypeOK ==
    /\ phase \in {"idle", "struct", "array", "ok", "error"}
    /\ offset \in 0 .. Len(wire) /\ opaque \in BOOLEAN
    /\ phase = "struct" => remaining = Len(sent.schema) - Len(out)
    /\ phase = "array" => remaining = Current.type.count - Len(part)

\* A message that arrives as it was written is decoded, and every field has the
\* value that was sent: measuring, writing and reading agree on every field's
\* place, width and byte order.
WholeMessagesDecode ==
    phase \in {"ok", "error"} /\ whole => phase = "ok" /\ out = sent.values

\* MsgBuf::decode: what is decoded is all of what arrived and nothing else.  A
\* message that was cut or lengthened is refused; one with a changed byte is
\* the message that has this encoding, up to the bytes that are true.
DecodedIsTheWire ==
    phase = "ok" =>
        LET bytes == serialize(sent.schema, out)
            Truthy(i) == bytes[i] = 1 /\ wire[i] # 0
        IN  /\ Len(bytes) = Len(wire)
            /\ \A i \in DOMAIN bytes : bytes[i] = wire[i] \/ Truthy(i)
            /\ \A i \in DOMAIN out : sent.schema[i].type = Text => Utf8(out[i][1])

\* FixedString: a text shorter than the array arrives; a longer one arrives cut
\* short, and is no text at all only if a character was cut in two.
NamesArrive ==
    phase = "ok" /\ whole =>
        \A i \in DOMAIN out : sent.schema[i].type = FixedString =>
            LET got == as_str(out[i]) IN
            IF Len(sent.text) < NameBytes THEN got = <<sent.text>>
            ELSE IF got = <<>> THEN sent.text[NameBytes - 1] \in Lead
            ELSE got[1] = SubSeq(sent.text, 1, NameBytes - 1)
=============================================================================
