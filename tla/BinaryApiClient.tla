--------------------------- MODULE BinaryApiClient ---------------------------
(***************************************************************************)
(* One Binary API connection (hammer-binary-api-client, client.rs): connect,  *)
(* invoke and disconnect over two shared-memory queues of message addresses,  *)
(* with the messages in a heap both processes allocate from and free to.      *)
(*                                                                         *)
(* A queue operation is one step here: SvmQueue shows that the queue's       *)
(* operations implement such a FIFO.  What the client sees of a queue         *)
(* operation is its outcome: done, full or empty, the lock is busy, or done    *)
(* and then an error from the notification.                                   *)
(*                                                                         *)
(* The daemon is not part of the repository; it is modelled from what the      *)
(* client expects of it.  It may be slow, and it may stop at any time.         *)
(***************************************************************************)
EXTENDS Integers, Sequences, FiniteSets

CONSTANTS
    Buffers,          \* places of the data heap a message may be allocated at
    Free,             \* content of a buffer that is not allocated
    None,             \* no message, no buffer
    Methods,          \* the requests callers invoke; each has its own reply
    Table,            \* the methods the daemon's message table names
    OwnTable,         \* which of the client's own messages it names: "Delete" (with
                      \* its reply) and "KeepaliveReply"
    Flaws,            \* ways a message of the daemon may be malformed, and "none";
                      \* "table" is a message table the create reply got wrong
    handle_keepalives,
    InputCapacity,    \* slots of the daemon's input queue
    ResponseSize,     \* response_queue_size
    ContextModulus,   \* 2^31 in the code
    MaxCalls,         \* bound: invoke and disconnect calls
    MaxFaults,        \* bound: busy locks, notification errors, failed allocations
    MaxPings          \* bound: keepalives of the daemon

\* Every reply to a method carries a context, as all replies of the protocol do
\* but memclnt_delete's: a caller that invokes memclnt_delete by itself, in
\* place of disconnect, is left out.
ASSUME MethodsAssumption ==
    Table \subseteq Methods /\ OwnTable \subseteq {"Delete", "KeepaliveReply"}
ASSUME FlawsAssumption ==
    "none" \in Flaws /\ Flaws \subseteq {"none", "frame", "id", "body", "table"}
ASSUME CapacityAssumption ==
    /\ handle_keepalives \in BOOLEAN
    /\ InputCapacity \in Nat \ {0} /\ ResponseSize \in Nat \ {0}
    /\ ContextModulus \in Nat /\ ContextModulus > 1
    /\ MaxCalls \in Nat /\ MaxFaults \in Nat /\ MaxPings \in Nat
ASSUME NamesAssumption ==
    /\ None \notin Buffers /\ None \notin Methods

VARIABLES
    \* shared memory
    segment,        \* how far the daemon has got with the segment
    heap,           \* heap[b]: Free or the message allocated at b
    toServer,       \* the daemon's input queue: buffers
    toClient,       \* the client's input_queue: buffers
    input_queue,    \* the memory of that queue: "none", "live" or "freed"
    \* the daemon
    registered,     \* it knows this client and its input queue
    serving,        \* the request it has taken and not answered yet
    pings,
    \* the client
    pc, op, method,
    connected,      \* client_index is Some and message_ids is loaded
    context_counter,
    draft,          \* the message send_message is called with
    held,           \* the buffer receive() returned
    expired,        \* the deadline has passed
    asleep,         \* at the await in a polling loop
    result,         \* of the call that returns
    calls, faults,
    \* history
    drawn,          \* contexts drawn so far: the number of the latest request
    abandoned,      \* a call left before its reply came
    leaked          \* buffers dropped on an error path

shared == <<segment, heap, toServer, toClient, input_queue>>
server == <<registered, serving, pings>>
call == <<op, method, connected, context_counter>>
wait == <<expired, asleep>>
ghosts == <<drawn, abandoned, leaked>>
vars == <<shared, server, pc, call, draft, held, wait, result, calls, faults, ghosts>>

-----------------------------------------------------------------------------
(* Messages *)

\* A message as the properties tell them apart.  number is the request it
\* belongs to and is in no message of the code.
Types == {"CreateV2", "CreateV2Reply", "Delete", "DeleteReply", "Keepalive",
          "KeepaliveReply", "Request", "Reply"}
Messages ==
    [type : Types, method : Methods \cup {None},
     context : 0 .. ContextModulus - 1, number : 0 .. MaxCalls, ok : BOOLEAN, flaw : Flaws]

ASSUME ValuesAssumption == Free \notin Messages /\ None \notin Messages

Message(t, m, c, n) ==
    [type |-> t, method |-> m, context |-> c, number |-> n, ok |-> TRUE, flaw |-> "none"]

\* A message of the daemon, well formed or not.
Posted(t, m, c, n, ok, f) == [Message(t, m, c, n) EXCEPT !.ok = ok, !.flaw = f]

\* The id on the wire: every request and every reply type has its own.
Id(m) == <<m.type, m.method>>

\* The id a call waits for.
Expected ==
    CASE op = "connect" -> <<"CreateV2Reply", None>>
      [] op = "invoke" -> <<"Reply", method>>
      [] op = "disconnect" -> <<"DeleteReply", None>>

\* Outcomes of Client calls.  number is that of the reply an invoke returns.
Outcome(t, n) == [tag |-> t, number |-> n]

\* Mutant of NextContext: the counter is not masked.
NextContextUnmasked(c) == c + 1

\* next_context: the counter wraps and skips zero.
NextContext(c) == IF (c + 1) % ContextModulus = 0 THEN 1 ELSE (c + 1) % ContextModulus

Init ==
    /\ segment \in {"absent", "attachable", "ready", "foreign"}
    /\ heap = [b \in Buffers |-> Free]
    /\ toServer = <<>> /\ toClient = <<>> /\ input_queue = "none"
    /\ registered = FALSE /\ serving = None /\ pings = 0
    /\ pc = "new" /\ op = "connect" /\ method = None
    /\ connected = FALSE /\ context_counter = 0
    /\ draft = None /\ held = None
    /\ expired = FALSE /\ asleep = FALSE
    /\ result = None /\ calls = 0 /\ faults = 0
    /\ drawn = 0 /\ abandoned = FALSE /\ leaked = {}

-----------------------------------------------------------------------------
(* The daemon *)

\* It creates the segment, then sets user_ctx.
GrowSegment ==
    /\ \/ segment = "absent" /\ segment' \in {"attachable", "foreign"}
       \/ segment = "attachable" /\ segment' = "ready"
    /\ UNCHANGED <<heap, toServer, toClient, input_queue, server, pc, call, draft,
                   held, wait, result, calls, faults, ghosts>>

\* It takes the next request and frees its buffer.
Take ==
    /\ serving = None /\ toServer # <<>>
    /\ serving' = heap[Head(toServer)]
    /\ heap' = [heap EXCEPT ![Head(toServer)] = Free]
    /\ toServer' = Tail(toServer)
    /\ UNCHANGED <<segment, toClient, input_queue, registered, pings, pc, call, draft,
                   held, wait, result, calls, faults, ghosts>>

\* A message is allocated and put on the client's queue once there is room.
Post(b, m) ==
    /\ heap[b] = Free /\ Len(toClient) < ResponseSize
    /\ heap' = [heap EXCEPT ![b] = m]
    /\ toClient' = Append(toClient, b)

\* memclnt_create_v2: the client is registered, or refused.
AnswerCreate(b) ==
    /\ serving # None /\ serving.type = "CreateV2"
    /\ \E ok \in BOOLEAN, f \in Flaws :
        /\ Post(b, Posted("CreateV2Reply", None, 0, 0, ok, f))
        /\ registered' = ok
    /\ serving' = None
    /\ UNCHANGED <<segment, toServer, input_queue, pings, pc, call, draft,
                   held, wait, result, calls, faults, ghosts>>

\* memclnt_delete: the registration goes, and the reply is the last message on
\* the client's queue; or it is refused.
AnswerDelete(b) ==
    /\ serving # None /\ serving.type = "Delete" /\ registered
    /\ \E ok \in BOOLEAN, f \in Flaws \ {"table"} :
        /\ Post(b, Posted("DeleteReply", None, 0, 0, ok, f))
        /\ registered' = ~ok
    /\ serving' = None
    /\ UNCHANGED <<segment, toServer, input_queue, pings, pc, call, draft,
                   held, wait, result, calls, faults, ghosts>>

\* Any other request of a registered client is answered with its own context.
AnswerRequest(b) ==
    /\ serving # None /\ serving.type = "Request" /\ registered
    /\ \E f \in Flaws \ {"table"} :
        Post(b, Posted("Reply", serving.method, serving.context, serving.number, TRUE, f))
    /\ serving' = None
    /\ UNCHANGED <<segment, toServer, input_queue, registered, pings, pc, call, draft,
                   held, wait, result, calls, faults, ghosts>>

\* Nothing is answered to a client that is not registered, or to a
\* keepalive reply.
Ignore ==
    /\ serving # None
    /\ \/ serving.type = "KeepaliveReply"
       \/ serving.type \in {"Request", "Delete"} /\ ~registered
    /\ serving' = None
    /\ UNCHANGED <<shared, registered, pings, pc, call, draft, held, wait, result,
                   calls, faults, ghosts>>

\* A client that asked for them is sent keepalives.
Ping(b) ==
    /\ registered /\ handle_keepalives /\ pings < MaxPings
    /\ \E f \in Flaws \ {"table"} : Post(b, Posted("Keepalive", None, 0, 0, TRUE, f))
    /\ pings' = pings + 1
    /\ UNCHANGED <<segment, toServer, input_queue, registered, serving, pc, call, draft,
                   held, wait, result, calls, faults, ghosts>>

-----------------------------------------------------------------------------
(* Leaving a call *)

\* The call returns.  After a failed connect there is no Client.
Leave(t, n) == pc' = "returned" /\ result' = Outcome(t, n)
Fail(t) == Leave(t, 0)

\* The call returns while its reply may still be on the way.
GiveUp(t) == Fail(t) /\ abandoned' = TRUE

Fault == faults < MaxFaults /\ faults' = faults + 1

-----------------------------------------------------------------------------
(* connect: the segment and the client's queue *)

Connect ==
    /\ pc = "new"
    /\ pc' = "attach" /\ op' = "connect" /\ expired' = FALSE
    /\ UNCHANGED <<shared, server, method, connected, context_counter, draft, held,
                   asleep, result, calls, faults, ghosts>>

\* retryable(): there is no file yet, or its header has no version.
Retryable == segment = "absent"

\* ShmemHeader::validate: version, bounds and the daemon's input queue.
HeaderValid == segment = "ready"

\* SvmRegion::attach is tried until it succeeds, fails for good or time is up.
Attach ==
    /\ pc = "attach" /\ ~asleep
    /\ \/ /\ ~Retryable
          /\ pc' = "context" /\ UNCHANGED <<asleep, result>>
       \/ /\ Retryable /\ ~expired
          /\ asleep' = TRUE /\ UNCHANGED <<pc, result>>
       \/ /\ (Retryable /\ expired) \/ segment = "foreign"
          /\ Fail("Region") /\ UNCHANGED asleep
    /\ UNCHANGED <<shared, server, call, draft, held, expired, calls, faults, ghosts>>

\* user_context() is polled; the header it leads to is validated.
FindHeader ==
    /\ pc = "context" /\ ~asleep
    /\ \/ /\ HeaderValid
          /\ pc' = "allocate" /\ UNCHANGED <<asleep, result>>
       \/ /\ segment = "foreign"
          /\ Fail("Memory") /\ UNCHANGED asleep
       \/ /\ segment = "attachable" /\ ~expired
          /\ asleep' = TRUE /\ UNCHANGED <<pc, result>>
       \/ /\ segment = "attachable" /\ expired
          /\ Fail("ConnectTimeout") /\ UNCHANGED asleep
    /\ UNCHANGED <<shared, server, call, draft, held, expired, calls, faults, ghosts>>

\* allocate_client_queue, and the create request that carries its address.
AllocateClientQueue ==
    /\ pc = "allocate"
    /\ \/ /\ input_queue' = "live"
          /\ draft' = Message("CreateV2", None, 0, 0)
          /\ pc' = "send" /\ UNCHANGED <<result, faults>>
       \/ /\ Fault /\ Fail("Queue")
          /\ UNCHANGED <<input_queue, draft>>
    /\ UNCHANGED <<segment, heap, toServer, toClient, server, call, held, wait,
                   calls, ghosts>>

-----------------------------------------------------------------------------
(* invoke and disconnect: the request *)

Invoke(m) ==
    /\ pc = "idle" /\ calls < MaxCalls
    /\ calls' = calls + 1 /\ op' = "invoke" /\ method' = m
    /\ IF connected /\ m \in Table
         THEN /\ context_counter' = NextContext(context_counter)
              /\ drawn' = drawn + 1
              /\ draft' = Message("Request", m, context_counter', drawn')
              /\ pc' = "send" /\ UNCHANGED result
         ELSE /\ Fail(IF connected THEN "MessageUnavailable" ELSE "NotConnected")
              /\ UNCHANGED <<context_counter, draft, drawn>>
    /\ UNCHANGED <<shared, server, connected, held, wait, faults, abandoned, leaked>>

Disconnect ==
    /\ pc = "idle" /\ calls < MaxCalls
    /\ calls' = calls + 1 /\ op' = "disconnect" /\ method' = None
    /\ IF connected /\ "Delete" \in OwnTable
         THEN draft' = Message("Delete", None, 0, 0) /\ pc' = "send" /\ UNCHANGED result
         ELSE /\ Fail(IF connected THEN "MessageUnavailable" ELSE "NotConnected")
              /\ UNCHANGED draft
    /\ UNCHANGED <<shared, server, connected, context_counter, held, wait, faults,
                   ghosts>>

-----------------------------------------------------------------------------
(* send_message *)

\* Outcomes of add(.., Nowait), and what each did to the queue.
Added == {"Ok", "EventSignalAfterCommit"}
Refused == {"Full", "LockBusy"}
CanAdd(o) ==
    CASE o = "Full" -> Len(toServer) = InputCapacity
      [] o = "LockBusy" -> TRUE
      [] OTHER -> Len(toServer) < InputCapacity

\* Mutant of Committed: every error of add counts as not sent.
CommittedOnlyOk(o) == o = "Ok"

\* committed(): does the outcome say that the message is on the queue?
Committed(o) == o \in {"Ok", "EventSignalAfterCommit", "SignalAfterCommit"}

\* The deadline of invoke and disconnect starts once the request is sent.
StartDeadline ==
    expired' = IF draft.type \in {"Request", "Delete"} THEN FALSE ELSE expired

\* The message is allocated, encoded and added; a message that was not added
\* is freed again.  Only a reply to a keepalive is sent amid a call.
Send(b, o) ==
    /\ pc = "send" /\ heap[b] = Free /\ CanAdd(o)
    /\ IF o \in {"Ok", "Full"} THEN UNCHANGED faults ELSE Fault
    /\ toServer' = IF o \in Added THEN Append(toServer, b) ELSE toServer
    /\ heap' = [heap EXCEPT ![b] = IF Committed(o) THEN draft ELSE Free]
    /\ IF Committed(o)
         THEN pc' = "receive" /\ StartDeadline /\ UNCHANGED <<result, abandoned>>
         ELSE /\ UNCHANGED expired
              /\ IF draft.type = "KeepaliveReply" THEN GiveUp("Queue")
                 ELSE Fail("Queue") /\ UNCHANGED abandoned
    /\ draft' = None
    /\ UNCHANGED <<segment, toClient, input_queue, server, call, held, asleep,
                   calls, drawn, leaked>>

\* MsgBuf::allocate finds no memory.
SendUnallocated ==
    /\ pc = "send" /\ \A b \in Buffers : heap[b] # Free
    /\ IF draft.type = "KeepaliveReply" THEN GiveUp("Memory")
       ELSE Fail("Memory") /\ UNCHANGED abandoned
    /\ draft' = None
    /\ UNCHANGED <<shared, server, call, held, wait, calls, faults, drawn, leaked>>

-----------------------------------------------------------------------------
(* receive *)

\* Mutant of TimedOut: a disconnect that got no answer frees its queue.
TimedOutReleases ==
    /\ GiveUp(CASE op = "connect" -> "ConnectTimeout"
                [] op = "invoke" -> "ResponseTimeout"
                [] op = "disconnect" -> "DisconnectTimeout")
    /\ input_queue' = IF op = "disconnect" THEN "freed" ELSE input_queue

\* receive() gave up at the deadline: the caller returns its timeout error and
\* leaves the queue alone.
TimedOut ==
    /\ GiveUp(CASE op = "connect" -> "ConnectTimeout"
                [] op = "invoke" -> "ResponseTimeout"
                [] op = "disconnect" -> "DisconnectTimeout")
    /\ UNCHANGED input_queue

\* Mutant of SubEmpty: the deadline is not looked at.
SubEmptyForever ==
    /\ pc = "receive" /\ ~asleep /\ toClient = <<>>
    /\ asleep' = TRUE
    /\ UNCHANGED <<shared, server, pc, call, draft, held, expired, result, calls,
                   faults, ghosts>>

\* An empty queue: only now is the deadline looked at.
SubEmpty ==
    /\ pc = "receive" /\ ~asleep /\ toClient = <<>>
    /\ IF expired
         THEN TimedOut /\ UNCHANGED asleep
         ELSE asleep' = TRUE /\ UNCHANGED <<pc, result, abandoned, input_queue>>
    /\ UNCHANGED <<segment, heap, toServer, toClient, server, call, draft, held,
                   expired, calls, faults, drawn, leaked>>

\* Any other error of sub ends the call: the lock is busy, or the message was
\* taken and the notification failed, and then nobody frees it.
SubFails ==
    /\ pc = "receive" /\ ~asleep /\ Fault
    /\ \/ UNCHANGED <<toClient, leaked>>
       \/ /\ toClient # <<>>
          /\ leaked' = leaked \cup {Head(toClient)}
          /\ toClient' = Tail(toClient)
    /\ GiveUp("Queue")
    /\ UNCHANGED <<segment, heap, toServer, input_queue, server, call, draft, held,
                   wait, calls, drawn>>

\* MsgBuf::from_address and message_id: is there a message with an id?
Readable(m) == m.flaw \notin {"frame", "id"}

\* A message is taken.  An address that is no message, or a message too short
\* for an id, ends the call and is not freed.
Sub ==
    /\ pc = "receive" /\ ~asleep /\ toClient # <<>>
    /\ toClient' = Tail(toClient)
    /\ LET b == Head(toClient) IN
       IF Readable(heap[b])
       THEN /\ pc' = "message" /\ held' = b
            /\ UNCHANGED <<result, abandoned, leaked>>
       ELSE /\ GiveUp(IF heap[b].flaw = "frame" THEN "Memory" ELSE "Codec")
            /\ leaked' = leaked \cup {b} /\ UNCHANGED held
    /\ UNCHANGED <<segment, heap, toServer, input_queue, server, call, draft, wait,
                   calls, faults, drawn>>

\* What is common to the handling of a message: it is decoded and freed.
Consume(m) ==
    /\ pc = "message" /\ m = heap[held]
    /\ heap' = [heap EXCEPT ![held] = Free] /\ held' = None
    /\ UNCHANGED <<segment, toServer, toClient, server, op, method, wait, calls, faults,
                   drawn, leaked>>

\* Mutant of IsKeepalive: keepalives go to the caller of receive.
KeepaliveUnhandled(m) == FALSE

\* message_ids is empty while connecting: no keepalive is recognised then.
IsKeepalive(m) == handle_keepalives /\ connected /\ m.type = "Keepalive"

\* A keepalive is answered within receive(), which then goes on waiting, if it
\* decodes and the table names its reply.
Keepalive(m) ==
    /\ Consume(m) /\ IsKeepalive(m)
    /\ IF m.flaw = "body" \/ "KeepaliveReply" \notin OwnTable
         THEN /\ GiveUp(IF m.flaw = "body" THEN "Codec" ELSE "MessageUnavailable")
              /\ UNCHANGED draft
         ELSE /\ draft' = Message("KeepaliveReply", None, 0, 0) /\ pc' = "send"
              /\ UNCHANGED <<result, abandoned>>
    /\ UNCHANGED <<input_queue, connected, context_counter>>

\* A message of another type: invoke fails, connect and disconnect skip it.
Foreign(m) ==
    /\ Consume(m) /\ ~IsKeepalive(m) /\ Id(m) # Expected
    /\ IF op = "invoke" THEN Fail("UnexpectedMessage")
                        ELSE pc' = "receive" /\ UNCHANGED result
    /\ UNCHANGED <<draft, input_queue, connected, context_counter, abandoned>>

\* The reply does not decode.
Undecodable(m) ==
    /\ Consume(m) /\ Id(m) = Expected /\ m.flaw = "body"
    /\ Fail("Codec")
    /\ UNCHANGED <<draft, input_queue, connected, context_counter, abandoned>>

\* release_queue: the queue is destroyed and its memory freed.
ReleaseQueue == input_queue' = "freed"

\* connect gets its answer: refused, which frees the queue; without a usable
\* message table, which does not; or connected.
CreateReply(m) ==
    /\ Consume(m) /\ op = "connect" /\ Id(m) = Expected /\ m.flaw # "body"
    /\ \/ /\ ~m.ok
          /\ Fail("CreateRejected") /\ ReleaseQueue /\ UNCHANGED connected
       \/ /\ m.ok /\ m.flaw = "table"
          /\ Fail("Memory") /\ UNCHANGED <<input_queue, connected>>
       \/ /\ m.ok /\ m.flaw # "table"
          /\ Leave("Ok", 0) /\ connected' = TRUE /\ UNCHANGED input_queue
    /\ UNCHANGED <<draft, context_counter, abandoned>>

\* Mutant of Reply: the context of the reply is not compared.
ReplyAnyContext(m) ==
    /\ Consume(m) /\ op = "invoke" /\ Id(m) = Expected /\ m.flaw # "body"
    /\ Leave("Ok", m.number)
    /\ UNCHANGED <<draft, input_queue, connected, context_counter, abandoned>>

\* invoke gets a reply of its type: its own, or one for another context.  Every
\* reply of a method has one (MethodsAssumption).
Reply(m) ==
    /\ Consume(m) /\ op = "invoke" /\ Id(m) = Expected /\ m.flaw # "body"
    /\ IF m.context = context_counter
         THEN Leave("Ok", m.number) ELSE Fail("ContextMismatch")
    /\ UNCHANGED <<draft, input_queue, connected, context_counter, abandoned>>

\* disconnect gets its answer: refused, and the client stays connected, or
\* done, and release_queue frees the queue.
DeleteReply(m) ==
    /\ Consume(m) /\ op = "disconnect" /\ Id(m) = Expected /\ m.flaw # "body"
    /\ IF m.ok THEN Leave("Ok", 0) /\ connected' = FALSE /\ ReleaseQueue
               ELSE Fail("CreateRejected") /\ UNCHANGED <<connected, input_queue>>
    /\ UNCHANGED <<draft, context_counter, abandoned>>

-----------------------------------------------------------------------------
(* The async runtime, the clock and the owner of the client *)

\* The sleep is over.
Wake ==
    /\ asleep /\ asleep' = FALSE
    /\ UNCHANGED <<shared, server, pc, call, draft, held, expired, result, calls,
                   faults, ghosts>>

\* The future is dropped at its only await, the sleep.
Cancel ==
    /\ asleep /\ Fault
    /\ asleep' = FALSE /\ GiveUp("Cancelled")
    /\ UNCHANGED <<shared, server, call, draft, held, expired, calls, drawn, leaked>>

DeadlinePasses ==
    /\ pc \notin {"new", "idle", "returned", "dropped"} /\ ~expired
    /\ expired' = TRUE
    /\ UNCHANGED <<shared, server, pc, call, draft, held, asleep, result, calls,
                   faults, ghosts>>

Return ==
    /\ pc = "returned"
    /\ pc' = (IF op = "connect" /\ result.tag # "Ok" THEN "dropped" ELSE "idle")
    /\ result' = None
    /\ abandoned' = (abandoned \/ result.tag \in {"UnexpectedMessage", "ContextMismatch"})
    /\ UNCHANGED <<shared, server, call, draft, held, wait, calls, faults, drawn,
                   leaked>>

\* Drop: what is shared with the daemon is left alone.
DropClient ==
    /\ pc = "idle"
    /\ pc' = "dropped"
    /\ UNCHANGED <<shared, server, call, draft, held, wait, result, calls, faults,
                   ghosts>>

-----------------------------------------------------------------------------
Daemon ==
    \/ GrowSegment \/ Take \/ Ignore
    \/ \E b \in Buffers :
         AnswerCreate(b) \/ AnswerDelete(b) \/ AnswerRequest(b) \/ Ping(b)

Progress ==
    \/ Attach \/ FindHeader \/ AllocateClientQueue
    \/ \E b \in Buffers, o \in Added \cup Refused : Send(b, o)
    \/ SendUnallocated
    \/ SubEmpty \/ Sub
    \/ held # None /\ \E m \in {heap[held]} :
         \/ Keepalive(m) \/ Foreign(m) \/ Undecodable(m)
         \/ CreateReply(m) \/ Reply(m) \/ DeleteReply(m)
    \/ Wake \/ Return

Next ==
    \/ Daemon \/ Progress \/ DeadlinePasses
    \/ SubFails \/ Cancel \/ DropClient \/ Connect \/ Disconnect
    \/ \E m \in Methods : Invoke(m)

Spec == Init /\ [][Next]_vars

\* A future that was started is polled again and time passes; the daemon owes
\* nothing, nor is any further call.
FairSpec == Spec /\ WF_vars(Progress) /\ WF_vars(DeadlinePasses)

-----------------------------------------------------------------------------
(* Properties *)

Pcs == {"new", "attach", "context", "allocate", "send", "receive", "message",
        "idle", "returned", "dropped"}

TypeOK ==
    /\ segment \in {"absent", "attachable", "ready", "foreign"}
    /\ heap \in [Buffers -> Messages \cup {Free}]
    /\ toServer \in Seq(Buffers) /\ Len(toServer) <= InputCapacity
    /\ toClient \in Seq(Buffers) /\ Len(toClient) <= ResponseSize
    /\ input_queue \in {"none", "live", "freed"}
    /\ registered \in BOOLEAN /\ serving \in Messages \cup {None}
    /\ pings \in 0 .. MaxPings
    /\ pc \in Pcs /\ op \in {"connect", "invoke", "disconnect"}
    /\ method \in Methods \cup {None}
    /\ connected \in BOOLEAN /\ context_counter \in 0 .. ContextModulus - 1
    /\ draft \in Messages \cup {None} /\ (draft # None <=> pc = "send")
    /\ held \in Buffers \cup {None} /\ (held # None <=> pc = "message")
    /\ expired \in BOOLEAN /\ asleep \in BOOLEAN
    /\ calls \in 0 .. MaxCalls /\ faults \in 0 .. MaxFaults
    /\ drawn \in 0 .. calls /\ abandoned \in BOOLEAN /\ leaked \subseteq Buffers

\* The places a buffer is owned at.
Places(b) ==
    {<<"toServer", i>> : i \in {j \in DOMAIN toServer : toServer[j] = b}} \cup
    {<<"toClient", i>> : i \in {j \in DOMAIN toClient : toClient[j] = b}} \cup
    {<<"held", 1>> : x \in {y \in {held} : y = b}}

\* Every message that is allocated has exactly one owner, a queue or the
\* client, and a buffer that is free has none: send_message frees a message
\* exactly when the queue did not take it, every message that is received is
\* freed once, on all paths but the error paths that lose it.
BufferOwnership ==
    \A b \in Buffers :
        Cardinality(Places(b)) = IF heap[b] = Free \/ b \in leaked THEN 0 ELSE 1

\* Whoever will touch the client's queue: the client in a call or able to make
\* one, the daemon that has registered it, a create request with its address;
\* and the messages on it, whose buffers only a receive can free.
QueueInUse ==
    \/ pc \in {"send", "receive", "message"}
    \/ connected \/ registered
    \/ serving # None /\ serving.type = "CreateV2"
    \/ \E i \in DOMAIN toServer : heap[toServer[i]].type = "CreateV2"
    \/ toClient # <<>>

\* release_queue does not free the client's queue before everyone is done with
\* it and it is empty, however calls time out, are cancelled or are repeated.
QueueOutlivesUsers == QueueInUse => input_queue = "live"

\* The reply an invoke returns is the reply to its own request, or to one whose
\* context the counter has come round to again, 2^31 - 1 requests earlier.
OwnReply ==
    pc = "returned" /\ op = "invoke" /\ result.tag = "Ok" =>
        (drawn - result.number) % (ContextModulus - 1) = 0

\* An invoke meets a message that is not its reply only in a session in which
\* an earlier call left before its own reply came.  Keepalives, busy queues and
\* requests that were never sent do not disturb the pairing.
PairingKept ==
    pc = "returned" /\ result.tag \in {"UnexpectedMessage", "ContextMismatch"} =>
        abandoned

\* Every call returns, however slow the daemon is and wherever it stops: the
\* deadline ends it.  A step on the shared heap always ends here, so that this is
\* of a daemon that does not stop while it holds dlmalloc's lock.
CallsReturn == pc \notin {"new", "idle", "dropped"} ~> pc \in {"idle", "dropped"}
=============================================================================
