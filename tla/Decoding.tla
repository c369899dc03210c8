------------------------------- MODULE Decoding -------------------------------
(***************************************************************************)
(* What the clients make of bytes, words and addresses that come from the       *)
(* daemon through shared memory: one message, one message table, one stats      *)
(* vector or one address, from its arrival to its acceptance or refusal.       *)
(***************************************************************************)
EXTENDS WireCodec, MessageTable, StatsLayout, RegionRanges

VARIABLE job

decodingVars == <<job, wireVars, tableVars, layoutVars, rangeVars>>

DecodingInit == job = "none" /\ WireIdle /\ TableIdle /\ LayoutIdle /\ RangeIdle

\* MsgBuf::encode and decode of a message.
AMessage ==
    /\ job \in {"none", "message"} /\ job' = "message"
    /\ DecodeStep \/ \E m \in Samples : Deserialize(m)
    /\ UNCHANGED <<tableVars, layoutVars, rangeVars>>

\* The import of a message table.
ATable ==
    /\ job \in {"none", "table"} /\ job' = "table"
    /\ ImportStep \/ \E t \in Tables : Import(t)
    /\ UNCHANGED <<wireVars, layoutVars, rangeVars>>

\* A vector of the stats segment.
AVector ==
    /\ job \in {"none", "vector"} /\ job' = "vector"
    /\ LocateStep \/ \E k \in Kinds, p \in Address, b \in Bases : Locate(k, p, b)
    /\ UNCHANGED <<wireVars, tableVars, rangeVars>>

\* An address in the API region.
AnAddress ==
    /\ job = "none" /\ job' = "address"
    /\ RangeStep
    /\ UNCHANGED <<wireVars, tableVars, layoutVars>>

DecodingNext == AMessage \/ ATable \/ AVector \/ AnAddress

DecodingSpec == DecodingInit /\ [][DecodingNext]_decodingVars

\* The types of the decoders' state: cursors stay inside their input, counters
\* count what is left, ids are 16 bits wide.
DecodingTypeOK ==
    /\ job \in {"none", "message", "table", "vector", "address"}
    /\ WireTypeOK /\ TableTypeOK /\ LayoutTypeOK
    /\ verdict.tag \in {"none", "ok", "error", "panic"}
=============================================================================
