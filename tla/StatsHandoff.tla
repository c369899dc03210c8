---------------------------- MODULE StatsHandoff ----------------------------
(***************************************************************************)
(* StatsClient::connect of hammer-stats-client, client.rs: a socket is        *)
(* connected to the stats listener, which hands over a descriptor of the      *)
(* segment; the segment is mapped and its header checked.  The client's        *)
(* descriptors and its mapping are state, since every path must give them      *)
(* back.  The listener, the kernel's socket queues and the daemon are external. *)
(***************************************************************************)
EXTENDS Integers, FiniteSets

CONSTANTS
    Segments,       \* what a descriptor may refer to: records of size and version
    HeaderBytes,    \* size of the shared header: 40
    Version,        \* STAT_SEGMENT_VERSION
    ControlFds,     \* descriptors that fit the control buffer: CMSG_SPACE of one
                    \* descriptor is padded to the room of two
    MaxSent,        \* bound: descriptors in one message
    MaxConnects,    \* bound: calls of connect
    MaxTroubles     \* bound: signals, failing system calls, full queues, exits

NoSegment == [size |-> 0, version |-> 0]

ASSUME SegmentsAssumption ==
    /\ Segments \subseteq [size : Int, version : Nat] /\ Segments # {}
    /\ HeaderBytes \in Nat \ {0} /\ Version \in Nat \ {0}
ASSUME HandoffBounds ==
    /\ ControlFds \in Nat \ {0} /\ MaxSent \in Nat /\ MaxConnects \in Nat
    /\ MaxTroubles \in Nat

VARIABLES
    stage,          \* where connect is
    open,           \* the client's open descriptors
    mapped,         \* the mapped segment
    failure,        \* the error the last connect returned
    listening,      \* there is a listener: "no", "free", or "full" when its
                    \* queue of connections is
    peer,           \* the connection as the listener has it
    sent,           \* descriptors in the message on its way
    handed,         \* the segment its first descriptor refers to
    connects, troubles,
    surplus         \* history: a message with more than one descriptor was received

boundVars == <<connects, troubles>>
listenerVars == <<listening, peer, sent, handed>>
handoffVars == <<stage, open, mapped, failure, listenerVars, boundVars, surplus>>

Stages == {"idle", "socket", "connect", "receive", "fstat", "mmap", "header", "connected"}
Failures == {"none", "SocketPathTooLong", "Connect", "HandoffTimeout", "Receive",
             "AncillaryData", "Fstat", "InvalidSegmentSize", "Mapping", "InvalidMapping",
             "VersionMismatch"}

HandoffInit ==
    /\ stage = "idle" /\ open = {} /\ mapped = NoSegment /\ failure = "none"
    /\ listening \in {"no", "free"}
    /\ peer = "none" /\ sent = 0 /\ handed = NoSegment
    /\ connects = 0 /\ troubles = 0
    /\ surplus = FALSE

-----------------------------------------------------------------------------
(* The client *)

Socket == 0     \* the socket; received descriptors are numbered from 1

\* Mutant of Fail: the received descriptor is forgotten, not dropped.
FailForgetting(error) ==
    /\ stage' = "idle" /\ failure' = error
    /\ open' = open \ {Socket} /\ mapped' = NoSegment

\* connect returns an error; what it owns is dropped: the socket, the descriptor
\* it took, the mapping.
Fail(error) ==
    /\ stage' = "idle" /\ failure' = error
    /\ open' = open \ {Socket, 1} /\ mapped' = NoSegment

Trouble == troubles < MaxTroubles /\ troubles' = troubles + 1
NoTrouble == UNCHANGED troubles

\* connect_socket: socket and fcntl.
OpenSocket ==
    /\ stage = "idle" /\ connects < MaxConnects
    /\ connects' = connects + 1 /\ peer' = "none" /\ sent' = 0
    /\ \/ NoTrouble /\ stage' = "socket" /\ open' = open \cup {Socket}
          /\ failure' = "none" /\ UNCHANGED mapped
       \/ Trouble /\ Fail("Connect")
    /\ UNCHANGED <<listening, handed, surplus>>

\* socket_address: the path may be too long.
Address ==
    /\ stage = "socket"
    /\ \/ Fail("SocketPathTooLong")
       \/ stage' = "connect" /\ UNCHANGED <<open, mapped, failure>>
    /\ UNCHANGED <<listenerVars, boundVars, surplus>>

\* connect and setsockopt.  No timeout applies yet: connect waits while the
\* listener's queue is full.
ConnectSocket ==
    /\ stage = "connect" /\ listening # "full"
    /\ \/ NoTrouble /\ listening = "free"
          /\ stage' = "receive" /\ peer' = "queued" /\ UNCHANGED <<open, mapped, failure>>
       \/ NoTrouble /\ listening = "no" /\ Fail("Connect") /\ UNCHANGED peer
       \/ Trouble /\ Fail("Connect") /\ UNCHANGED peer
    /\ UNCHANGED <<listening, sent, handed, connects, surplus>>

\* A signal restarts recvmsg, and with it the timeout.
Interrupted ==
    /\ stage = "receive" /\ Trouble
    /\ UNCHANGED <<stage, open, mapped, failure, listenerVars, connects,
                   surplus>>

\* Mutant of TimedOut: the timeout is not applied to the socket.
NeverTimedOut == FALSE /\ UNCHANGED handoffVars

\* SO_RCVTIMEO passes with nothing received.
TimedOut ==
    /\ stage = "receive" /\ peer \in {"queued", "accepted"}
    /\ Fail("HandoffTimeout")
    /\ UNCHANGED <<listenerVars, boundVars, surplus>>

ReceiveFails ==
    /\ stage = "receive" /\ peer # "sent"
    /\ Trouble /\ Fail("Receive")
    /\ UNCHANGED <<listenerVars, connects, surplus>>

\* receive_segment_fd: the descriptors that fit come in one control message,
\* which counts as one and whose first descriptor is taken; the end of the
\* stream looks like a message without any.  The socket is dropped either way.
Receive ==
    /\ stage = "receive" /\ peer \in {"sent", "closed"}
    /\ LET got == IF peer = "sent" THEN {f \in 1 .. sent : f <= ControlFds} ELSE {}
           truncated == peer = "sent" /\ sent > ControlFds
       IN  /\ surplus' = (surplus \/ Cardinality(got) > 1)
           /\ IF got # {} /\ ~truncated
              THEN /\ stage' = "fstat" /\ open' = (open \ {Socket}) \cup got
                   /\ UNCHANGED failure
              ELSE /\ stage' = "idle" /\ failure' = "AncillaryData"
                   /\ open' = (open \ {Socket}) \cup (got \ {1})
    /\ peer' = "none" /\ sent' = 0
    /\ UNCHANGED <<mapped, listening, handed, boundVars>>

\* SegmentMapping::new: fstat and the size.
Fstat ==
    /\ stage = "fstat"
    /\ \/ Trouble /\ Fail("Fstat")
       \/ NoTrouble /\ handed.size <= 0 /\ Fail("InvalidSegmentSize")
       \/ NoTrouble /\ handed.size > 0 /\ stage' = "mmap" /\ UNCHANGED <<open, mapped, failure>>
    /\ UNCHANGED <<listenerVars, connects, surplus>>

Mmap ==
    /\ stage = "mmap"
    /\ \/ Trouble /\ Fail("Mapping")
       \/ NoTrouble /\ stage' = "header" /\ mapped' = handed /\ UNCHANGED <<open, failure>>
    /\ UNCHANGED <<listenerVars, connects, surplus>>

\* read_header and validate_version; connect is done with the descriptor.
CheckHeader ==
    /\ stage = "header"
    /\ \/ mapped.size < HeaderBytes /\ Fail("InvalidMapping")
       \/ mapped.size >= HeaderBytes /\ mapped.version # Version /\ Fail("VersionMismatch")
       \/ /\ mapped.size >= HeaderBytes /\ mapped.version = Version
          /\ stage' = "connected" /\ open' = open \ {1} /\ UNCHANGED <<mapped, failure>>
    /\ UNCHANGED <<listenerVars, boundVars, surplus>>

\* Mutant of DropClient: a mapping that is dropped is not unmapped.
DropClientMapped ==
    /\ stage = "connected"
    /\ stage' = "idle"
    /\ UNCHANGED <<mapped, open, failure, listenerVars, boundVars, surplus>>

\* The client is dropped, which unmaps the segment.
DropClient ==
    /\ stage = "connected"
    /\ stage' = "idle" /\ mapped' = NoSegment
    /\ UNCHANGED <<open, failure, listenerVars, boundVars, surplus>>

-----------------------------------------------------------------------------
(* The listener and the daemon *)

Accept ==
    /\ peer = "queued" /\ listening # "no"
    /\ peer' = "accepted"
    /\ UNCHANGED <<stage, open, mapped, failure, listening, sent, handed, boundVars,
                   surplus>>

\* A message with any number of descriptors, the segment's first; which segment
\* that is depends on the daemon that runs.
Hand ==
    /\ peer = "accepted" /\ listening # "no"
    /\ peer' = "sent" /\ sent' \in 0 .. MaxSent /\ handed' \in Segments
    /\ UNCHANGED <<stage, open, mapped, failure, listening, boundVars, surplus>>

\* The listener closes the connection without a message.
Close ==
    /\ peer \in {"queued", "accepted"}
    /\ peer' = "closed"
    /\ UNCHANGED <<stage, open, mapped, failure, listening, sent, handed, boundVars,
                   surplus>>

\* Other clients fill the listener's queue; it is drained.
Fill ==
    /\ listening = "free" /\ Trouble
    /\ listening' = "full"
    /\ UNCHANGED <<stage, open, mapped, failure, peer, sent, handed, connects, surplus>>

Drain ==
    /\ listening = "full"
    /\ listening' = "free"
    /\ UNCHANGED <<stage, open, mapped, failure, peer, sent, handed, boundVars, surplus>>

\* The daemon ends; its connections are closed.  A message sent before stays.
Exit ==
    /\ listening # "no" /\ Trouble
    /\ listening' = "no"
    /\ peer' = IF peer \in {"queued", "accepted"} THEN "closed" ELSE peer
    /\ UNCHANGED <<stage, open, mapped, failure, sent, handed, connects, surplus>>

\* The daemon starts again, with a segment of its own.
Start ==
    /\ listening = "no"
    /\ listening' = "free"
    /\ UNCHANGED <<stage, open, mapped, failure, peer, sent, handed, boundVars, surplus>>

HandoffNext ==
    \/ OpenSocket \/ Address \/ ConnectSocket \/ Interrupted \/ TimedOut \/ ReceiveFails
    \/ Receive \/ Fstat \/ Mmap \/ CheckHeader \/ DropClient
    \/ Accept \/ Hand \/ Close \/ Fill \/ Drain \/ Exit \/ Start

\* A connect that is under way runs, and the timeout passes; the daemon and its
\* listener owe nothing.
ConnectStep ==
    Address \/ ConnectSocket \/ TimedOut \/ Receive \/ Fstat \/ Mmap \/ CheckHeader

HandoffSpec == HandoffInit /\ [][HandoffNext]_handoffVars /\ WF_handoffVars(ConnectStep)

-----------------------------------------------------------------------------
(* Properties *)

HandoffTypeOK ==
    /\ stage \in Stages /\ failure \in Failures
    /\ open \subseteq 0 .. MaxSent /\ mapped \in Segments \cup {NoSegment}
    /\ listening \in {"no", "free", "full"}
    /\ peer \in {"none", "queued", "accepted", "sent", "closed"}
    /\ sent \in 0 .. MaxSent /\ handed \in Segments \cup {NoSegment}
    /\ stage \in {"header", "connected"} <=> mapped # NoSegment

\* A connect that has returned, whatever failed in it, holds no socket and no
\* descriptor of the segment, and only a connected client has a mapping.  What
\* stays open are further descriptors of a message that had several.
NothingHeld ==
    stage \in {"idle", "connected"} =>
        /\ Socket \notin open /\ 1 \notin open
        /\ ~surplus => open = {}
        /\ stage = "idle" => mapped = NoSegment

\* client.rs: "A listener that accepted the connection but never hands over the
\* segment must fail the connect instead of blocking it forever."  Only a full
\* queue of connections, which connect(2) waits for, can block it.
ConnectEnds ==
    stage \notin {"idle", "connected"} ~>
        (stage \in {"idle", "connected"} \/ listening = "full")
=============================================================================
