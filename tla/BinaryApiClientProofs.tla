----------------------- MODULE BinaryApiClientProofs -----------------------
(***************************************************************************)
(* Proofs about BinaryApiClient, for any heap, queue capacities, methods,       *)
(* context modulus and flaws, and any number of calls, faults and keepalives.   *)
(***************************************************************************)
EXTENDS BinaryApiClient, FiniteSetTheorems, TLAPS

memory == <<heap, toServer, toClient, held, leaked>>

-----------------------------------------------------------------------------
(* The inductive invariant: owners of buffers *)

OnServer(b) == \E i \in DOMAIN toServer : toServer[i] = b
OnClient(b) == \E i \in DOMAIN toClient : toClient[i] = b

\* A buffer is in at most one place, once, and in none exactly if it is free or was
\* lost; a lost one stays allocated.
OwnInv ==
    /\ \A i, j \in DOMAIN toServer : toServer[i] = toServer[j] => i = j
    /\ \A i, j \in DOMAIN toClient : toClient[i] = toClient[j] => i = j
    /\ \A b \in Buffers :
        /\ OnServer(b) => ~OnClient(b) /\ b # held /\ b \notin leaked
        /\ OnClient(b) => b # held /\ b \notin leaked
        /\ b = held => b \notin leaked
        /\ heap[b] # Free <=> OnServer(b) \/ OnClient(b) \/ b = held \/ b \in leaked

\* A call sleeps only in its three polling loops.
SleepInv == asleep => pc \in {"attach", "context", "receive"}

-----------------------------------------------------------------------------
(* The inductive invariant: the messages on their way *)

\* The two queues and the received buffer as the messages they lead to.
Requests == [i \in DOMAIN toServer |-> heap[toServer[i]]]
Replies == [i \in DOMAIN toClient |-> heap[toClient[i]]]
Received == IF held = None THEN None ELSE heap[held]

RequestTypes == {"Request", "Delete", "KeepaliveReply"}
ReplyTypes == {"Reply", "DeleteReply", "Keepalive"}

ConnectFailed == pc = "returned" => result.tag # "Ok"

\* Nothing is shared with the daemon yet, or ever.
Starting ==
    /\ op = "connect" /\ ~connected /\ ~registered /\ input_queue = "none"
    /\ pc \in {"new", "attach", "context", "allocate", "returned", "dropped"} /\ ConnectFailed
    /\ Requests = <<>> /\ serving = None /\ Replies = <<>>

\* The create request is the only message: drafted, sent or served.
Asking ==
    /\ op = "connect" /\ ~connected /\ ~registered /\ input_queue = "live"
    /\ pc \in {"send", "receive", "returned", "dropped"} /\ ConnectFailed
    /\ Replies = <<>>
    /\ \/ pc = "send" /\ draft.type = "CreateV2" /\ Requests = <<>> /\ serving = None
       \/ /\ pc # "send" /\ serving = None
          /\ Len(Requests) = 1 /\ Requests[1].type = "CreateV2"
       \/ /\ pc # "send" /\ serving # None /\ serving.type = "CreateV2"
          /\ Requests = <<>>

\* Its reply is the first message on the client's queue, and the only one of a daemon that
\* refused.
Answered ==
    /\ op = "connect" /\ ~connected /\ input_queue = "live"
    /\ pc \in {"receive", "returned", "dropped"} /\ ConnectFailed
    /\ Requests = <<>> /\ serving = None
    /\ Replies # <<>> /\ Replies[1].type = "CreateV2Reply" /\ Replies[1].method = None
    /\ registered <=> Replies[1].ok
    /\ ~registered => Len(Replies) = 1
    /\ \A i \in DOMAIN Replies : i > 1 => Replies[i].type = "Keepalive"

\* connect has its reply in hand.
Answering ==
    /\ op = "connect" /\ ~connected /\ input_queue = "live"
    /\ pc = "message"
    /\ Requests = <<>> /\ serving = None
    /\ Received.type = "CreateV2Reply" /\ Received.method = None
    /\ registered <=> Received.ok
    /\ ~registered => Replies = <<>>
    /\ \A i \in DOMAIN Replies : Replies[i].type = "Keepalive"

\* connect failed after it allocated its queue, which stays or was released.
Failed ==
    /\ op = "connect" /\ ~connected
    /\ pc \in {"returned", "dropped"} /\ ConnectFailed
    /\ \/ input_queue = "live"
       \/ input_queue = "freed" /\ Replies = <<>> /\ ~registered
    /\ Requests = <<>> /\ serving = None
    /\ \A i \in DOMAIN Replies : Replies[i].type = "Keepalive"

\* The requests of a client that has, or had, a session.
SessionRequests ==
    /\ \A i \in DOMAIN Requests : Requests[i].type \in RequestTypes
    /\ serving # None => serving.type \in RequestTypes

\* A session: a reply that says the client is gone is the daemon's last message.
InSession ==
    /\ connected /\ input_queue = "live"
    /\ pc \in {"send", "receive", "message", "idle", "returned", "dropped"}
    /\ op = "connect" => pc \in {"idle", "returned", "dropped"}
    /\ op = "connect" /\ pc = "returned" => result.tag = "Ok"
    /\ pc = "send" => draft.type \in RequestTypes
    /\ SessionRequests
    /\ \A i \in DOMAIN Replies :
        /\ Replies[i].type \in ReplyTypes
        /\ Replies[i].type = "DeleteReply" /\ Replies[i].ok => i = Len(Replies) /\ ~registered
    /\ pc = "message" =>
        /\ Received.type \in ReplyTypes
        /\ Received.type = "DeleteReply" /\ Received.ok => Replies = <<>> /\ ~registered

\* disconnect released the queue.
Closed ==
    /\ ~connected /\ ~registered /\ input_queue = "freed" /\ op # "connect"
    /\ pc \in {"idle", "returned", "dropped"}
    /\ SessionRequests
    /\ Replies = <<>>

PhaseInv == Starting \/ Asking \/ Answered \/ Answering \/ Failed \/ InSession \/ Closed

-----------------------------------------------------------------------------
(* The inductive invariant: requests and their replies *)

\* The daemon pings only a client that asked for it.
KeepaliveInv ==
    \A b \in Buffers : heap[b] # Free /\ heap[b].type = "Keepalive" => handle_keepalives

\* A message is part of a request and its reply, not of a keepalive.
Paired(m) == m \in Messages /\ m.type \notin {"Keepalive", "KeepaliveReply"}

\* The message belongs to the call that runs.
OfCall(m) ==
    \/ op = "connect" /\ m.type \in {"CreateV2", "CreateV2Reply"} /\ m.method = None
    \/ op = "disconnect" /\ m.type \in {"Delete", "DeleteReply"} /\ m.method = None
    \/ /\ op = "invoke" /\ m.type \in {"Request", "Reply"}
       /\ m.method = method /\ m.context = context_counter

Disturbed == result.tag \in {"UnexpectedMessage", "ContextMismatch"}

\* While no call left early, there is at most one message outside a keepalive, in the
\* daemon, in the heap or about to be sent, and it belongs to the call that runs.
PairInv ==
    \/ abandoned
    \/ /\ pc = "returned" => ~Disturbed
       /\ \A b, c \in Buffers : Paired(heap[b]) /\ Paired(heap[c]) => b = c
       /\ \A b \in Buffers : Paired(heap[b]) => OfCall(heap[b])
       /\ Paired(serving) => OfCall(serving) /\ \A b \in Buffers : ~Paired(heap[b])
       /\ pc = "send" /\ Paired(draft) =>
            OfCall(draft) /\ ~Paired(serving) /\ \A b \in Buffers : ~Paired(heap[b])
       /\ pc \notin {"send", "receive", "message"} =>
            ~Paired(serving) /\ \A b \in Buffers : ~Paired(heap[b])

\* A count and a context that differ by whole rounds of the context counter.
Wraps(n, c) == \E k \in Int : n - c = k * (ContextModulus - 1)

\* A request and its reply carry the context of the request they are numbered with.
Numbered(m) == m \in Messages /\ m.type \in {"Request", "Reply"} => Wraps(m.number, m.context)

NumberInv ==
    /\ Wraps(drawn, context_counter)
    /\ \A b \in Buffers : Numbered(heap[b])
    /\ Numbered(serving) /\ Numbered(draft)
    /\ pc = "returned" /\ op = "invoke" /\ result.tag = "Ok" =>
        result.number \in Int /\ Wraps(drawn, result.number)

-----------------------------------------------------------------------------
(* Types *)

\* What a message is made of: send_message's drafts,
LEMMA MessageIs ==
    ASSUME NEW t \in Types, NEW m \in Methods \cup {None}, NEW c \in 0 .. ContextModulus - 1,
           NEW n \in 0 .. MaxCalls
    PROVE  /\ Message(t, m, c, n) \in Messages
           /\ Message(t, m, c, n).type = t /\ Message(t, m, c, n).method = m
           /\ Message(t, m, c, n).context = c /\ Message(t, m, c, n).number = n
  BY FlawsAssumption DEF Message, Messages

\* and what the daemon posts.
LEMMA PostedIs ==
    ASSUME NEW t \in Types, NEW m \in Methods \cup {None}, NEW c \in 0 .. ContextModulus - 1,
           NEW n \in 0 .. MaxCalls, NEW ok \in BOOLEAN, NEW f \in Flaws
    PROVE  /\ Posted(t, m, c, n, ok, f) \in Messages
           /\ Posted(t, m, c, n, ok, f).type = t /\ Posted(t, m, c, n, ok, f).method = m
           /\ Posted(t, m, c, n, ok, f).context = c /\ Posted(t, m, c, n, ok, f).number = n
           /\ Posted(t, m, c, n, ok, f).ok = ok /\ Posted(t, m, c, n, ok, f).flaw = f
<1> DEFINE plain == Message(t, m, c, n)
           posted == [plain EXCEPT !.ok = ok, !.flaw = f]
<1>1. plain \in Messages /\ plain.type = t /\ plain.method = m /\ plain.context = c
      /\ plain.number = n
  BY FlawsAssumption DEF Message, Messages
<1> HIDE DEF plain
<1>2. posted \in Messages
  BY <1>1 DEF Messages
<1>3. posted.type = t /\ posted.method = m /\ posted.context = c /\ posted.number = n
      /\ posted.ok = ok /\ posted.flaw = f
  BY <1>1 DEF Messages
<1>4. Posted(t, m, c, n, ok, f) = posted
  BY DEF Posted, plain
<1> QED
  BY <1>2, <1>3, <1>4

\* next_context stays below the modulus: it counts up, and from the last value on
\* to one.
LEMMA NextContextIs ==
    ASSUME NEW c \in 0 .. ContextModulus - 1
    PROVE  /\ NextContext(c) = IF c + 1 = ContextModulus THEN 1 ELSE c + 1
           /\ NextContext(c) \in 0 .. ContextModulus - 1
<1>1. ContextModulus \in Nat /\ ContextModulus > 1
  BY CapacityAssumption
<1>2. CASE c + 1 = ContextModulus
  <2>1. ContextModulus % ContextModulus = 0
    BY <1>1
  <2> QED
    BY <1>1, <1>2, <2>1 DEF NextContext
<1>3. CASE c + 1 < ContextModulus
  <2>1. (c + 1) % ContextModulus = c + 1
    BY <1>1, <1>3
  <2> QED
    BY <1>1, <1>3, <2>1 DEF NextContext
<1> QED
  BY <1>1, <1>2, <1>3

\* A posted message goes to a buffer and to the end of the response queue.
LEMMA PostTypes ==
    ASSUME TypeOK, NEW b \in Buffers, NEW m \in Messages, Post(b, m)
    PROVE  /\ heap' \in [Buffers -> Messages \cup {Free}]
           /\ toClient' \in Seq(Buffers) /\ Len(toClient') <= ResponseSize
  BY CapacityAssumption DEF TypeOK, Post

\* The first context and the first request are numbers within their bounds.
LEMMA ZeroContext == 0 \in 0 .. ContextModulus - 1 /\ 0 \in 0 .. MaxCalls
  BY CapacityAssumption

\* The daemon keeps the state well formed,
LEMMA DaemonTypes == TypeOK /\ OwnInv /\ Daemon => TypeOK'
<1> SUFFICES ASSUME TypeOK, OwnInv, Daemon PROVE TypeOK'
  OBVIOUS
<1> USE DEF shared, server, call, wait, ghosts
<1>1. CASE GrowSegment
  BY <1>1 DEF GrowSegment, TypeOK
<1>2. CASE Take
  <2>1. Head(toServer) \in Buffers /\ toServer' \in Seq(Buffers) /\ Len(toServer') <= InputCapacity
    BY <1>2, CapacityAssumption DEF Take, TypeOK
  <2>2. heap[Head(toServer)] \in Messages
    BY <1>2, <2>1 DEF Take, TypeOK, OwnInv, OnServer
  <2> QED
    BY <1>2, <2>1, <2>2 DEF Take, TypeOK
<1>3. CASE Ignore
  BY <1>3 DEF Ignore, TypeOK
<1>4. ASSUME NEW b \in Buffers, AnswerCreate(b) PROVE TypeOK'
  <2> PICK ok \in BOOLEAN, f \in Flaws :
        Post(b, Posted("CreateV2Reply", None, 0, 0, ok, f)) /\ registered' = ok
    BY <1>4 DEF AnswerCreate
  <2>1. Posted("CreateV2Reply", None, 0, 0, ok, f) \in Messages
    BY PostedIs, ZeroContext DEF Types
  <2>2. /\ heap' \in [Buffers -> Messages \cup {Free}]
        /\ toClient' \in Seq(Buffers) /\ Len(toClient') <= ResponseSize
    BY <2>1, PostTypes
  <2> QED
    BY <1>4, <2>2 DEF AnswerCreate, TypeOK
<1>5. ASSUME NEW b \in Buffers, AnswerDelete(b) PROVE TypeOK'
  <2> PICK ok \in BOOLEAN, f \in Flaws :
        Post(b, Posted("DeleteReply", None, 0, 0, ok, f)) /\ registered' = ~ok
    BY <1>5 DEF AnswerDelete
  <2>1. Posted("DeleteReply", None, 0, 0, ok, f) \in Messages
    BY PostedIs, ZeroContext DEF Types
  <2>2. /\ heap' \in [Buffers -> Messages \cup {Free}]
        /\ toClient' \in Seq(Buffers) /\ Len(toClient') <= ResponseSize
    BY <2>1, PostTypes
  <2> QED
    BY <1>5, <2>2 DEF AnswerDelete, TypeOK
<1>6. ASSUME NEW b \in Buffers, AnswerRequest(b) PROVE TypeOK'
  <2> PICK f \in Flaws :
        Post(b, Posted("Reply", serving.method, serving.context, serving.number, TRUE, f))
    BY <1>6 DEF AnswerRequest
  <2>1. serving \in Messages
    BY <1>6 DEF AnswerRequest, TypeOK
  <2>2. Posted("Reply", serving.method, serving.context, serving.number, TRUE, f) \in Messages
    <3>1. serving.method \in Methods \cup {None} /\ serving.context \in 0 .. ContextModulus - 1
          /\ serving.number \in 0 .. MaxCalls /\ TRUE \in BOOLEAN
      BY <2>1 DEF Messages
    <3>2. "Reply" \in Types
      BY DEF Types
    <3>3. \A ok \in BOOLEAN :
            Posted("Reply", serving.method, serving.context, serving.number, ok, f) \in Messages
      BY <3>1, <3>2, PostedIs
    <3> QED
      BY <3>1, <3>3, Zenon
  <2>3. /\ heap' \in [Buffers -> Messages \cup {Free}]
        /\ toClient' \in Seq(Buffers) /\ Len(toClient') <= ResponseSize
    BY <2>2, PostTypes
  <2> QED
    BY <1>6, <2>3 DEF AnswerRequest, TypeOK
<1>7. ASSUME NEW b \in Buffers, Ping(b) PROVE TypeOK'
  <2> PICK f \in Flaws : Post(b, Posted("Keepalive", None, 0, 0, TRUE, f))
    BY <1>7 DEF Ping
  <2>1. Posted("Keepalive", None, 0, 0, TRUE, f) \in Messages
    <3>1. \A ok \in BOOLEAN : Posted("Keepalive", None, 0, 0, ok, f) \in Messages
      BY PostedIs, ZeroContext DEF Types
    <3> QED
      BY <3>1, Zenon
  <2>2. pings' \in 0 .. MaxPings
    BY <1>7, CapacityAssumption DEF Ping, TypeOK
  <2>3. /\ heap' \in [Buffers -> Messages \cup {Free}]
        /\ toClient' \in Seq(Buffers) /\ Len(toClient') <= ResponseSize
    BY <2>1, PostTypes
  <2> QED
    BY <1>7, <2>2, <2>3 DEF Ping, TypeOK
<1> QED
  BY <1>1, <1>2, <1>3, <1>4, <1>5, <1>6, <1>7 DEF Daemon

\* The steps of the caller, the runtime and the clock.
Client ==
    \/ Progress \/ DeadlinePasses \/ SubFails \/ Cancel \/ DropClient \/ Connect \/ Disconnect
    \/ \E m \in Methods : Invoke(m)

\* What the handling of a message does to what is not its own.
LEMMA ConsumeTypes ==
    ASSUME TypeOK, NEW m, Consume(m)
    PROVE  /\ heap' \in [Buffers -> Messages \cup {Free}] /\ held' = None /\ held \in Buffers
           /\ draft = None /\ pc = "message"
           /\ UNCHANGED <<segment, toServer, toClient, server, op, method, wait, calls, faults,
                          drawn, leaked>>
  BY DEF TypeOK, Consume

\* so does a client that has freed the message it was given,
LEMMA ConsumedTypes ==
    ASSUME TypeOK, NEW m, Consume(m),
           \/ pc' \in {"receive", "returned"} /\ draft' = None
           \/ pc' = "send" /\ draft' \in Messages,
           input_queue' \in {input_queue, "freed"}, connected' \in BOOLEAN,
           UNCHANGED context_counter, abandoned' \in BOOLEAN
    PROVE  TypeOK'
<1>1. /\ heap' \in [Buffers -> Messages \cup {Free}] /\ held' = None /\ held \in Buffers
      /\ UNCHANGED <<segment, toServer, toClient, server, op, method, wait, calls, faults,
                     drawn, leaked>>
  BY ConsumeTypes
<1>2. pc' \in Pcs /\ draft' \in Messages \cup {None} /\ (draft' # None <=> pc' = "send")
      /\ (held' # None <=> pc' = "message")
  BY <1>1, ValuesAssumption DEF Pcs
<1> QED
  BY <1>1, <1>2 DEF TypeOK, server, wait

\* and so does every other step of the client.
LEMMA ClientTypes == TypeOK /\ SleepInv /\ Client => TypeOK'
<1> SUFFICES ASSUME TypeOK, SleepInv, Client PROVE TypeOK'
  OBVIOUS
<1>a. None \notin Buffers /\ None \notin Messages
  BY NamesAssumption, ValuesAssumption
<1> USE DEF shared, server, call, wait, ghosts, Fail, Leave, GiveUp, Pcs
<1>1. CASE Connect
  BY <1>1, ZenonT(40) DEF Connect, TypeOK
<1>2. CASE Attach
  <2>1. pc' \in {"attach", "context", "returned"} /\ pc = "attach" /\ asleep' \in BOOLEAN
    BY <1>2 DEF Attach, TypeOK
  <2>2. UNCHANGED <<shared, server, call, draft, held, expired, calls, faults, ghosts>>
    BY <1>2 DEF Attach
  <2> QED
    BY <2>1, <2>2 DEF TypeOK
<1>3. CASE FindHeader
  <2>1. pc' \in {"context", "allocate", "returned"} /\ pc = "context" /\ asleep' \in BOOLEAN
    BY <1>3 DEF FindHeader, TypeOK
  <2>2. UNCHANGED <<shared, server, call, draft, held, expired, calls, faults, ghosts>>
    BY <1>3 DEF FindHeader
  <2> QED
    BY <2>1, <2>2 DEF TypeOK
<1>4. CASE AllocateClientQueue
  <2>1. Message("CreateV2", None, 0, 0) \in Messages
    BY MessageIs, ZeroContext DEF Types
  <2>2. faults' \in 0 .. MaxFaults
    BY <1>4, CapacityAssumption DEF AllocateClientQueue, Fault, TypeOK
  <2> QED
    BY <1>4, <1>a, <2>1, <2>2 DEF AllocateClientQueue, TypeOK
<1>5. ASSUME NEW m \in Methods, Invoke(m) PROVE TypeOK'
  <2>1. calls' \in 0 .. MaxCalls /\ drawn' \in 0 .. calls'
    BY <1>5, CapacityAssumption DEF Invoke, TypeOK
  <2>2. context_counter' \in 0 .. ContextModulus - 1
    BY <1>5, NextContextIs DEF Invoke, TypeOK
  <2>3. drawn' \in 0 .. MaxCalls
    BY <2>1, CapacityAssumption
  <2>4. Message("Request", m, context_counter', drawn') \in Messages
    BY <2>2, <2>3, MessageIs DEF Types
  <2>5. \/ pc' = "send" /\ draft' \in Messages
        \/ pc' = "returned" /\ UNCHANGED draft
    <3>1. CASE connected /\ m \in Table
      BY <1>5, <2>4, <3>1 DEF Invoke
    <3>2. CASE ~(connected /\ m \in Table)
      BY <1>5, <3>2 DEF Invoke
    <3> QED
      BY <3>1, <3>2
  <2> QED
    BY <1>5, <1>a, <2>1, <2>2, <2>5 DEF Invoke, TypeOK
<1>6. CASE Disconnect
  <2>1. Message("Delete", None, 0, 0) \in Messages
    BY MessageIs, ZeroContext DEF Types
  <2>2. calls' \in 0 .. MaxCalls /\ drawn \in 0 .. calls'
    BY <1>6, CapacityAssumption DEF Disconnect, TypeOK
  <2>3. \/ pc' = "send" /\ draft' \in Messages
        \/ pc' = "returned" /\ UNCHANGED draft
    <3>1. CASE connected /\ "Delete" \in OwnTable
      BY <1>6, <2>1, <3>1 DEF Disconnect
    <3>2. CASE ~(connected /\ "Delete" \in OwnTable)
      BY <1>6, <3>2 DEF Disconnect
    <3> QED
      BY <3>1, <3>2
  <2> QED
    BY <1>6, <1>a, <2>2, <2>3 DEF Disconnect, TypeOK
<1>7. ASSUME NEW b \in Buffers, NEW o \in Added \cup Refused, Send(b, o) PROVE TypeOK'
  <2>1. draft \in Messages /\ pc = "send"
    BY <1>7 DEF Send, TypeOK
  <2>2. heap' \in [Buffers -> Messages \cup {Free}]
    BY <1>7, <2>1 DEF Send, TypeOK
  <2>3. toServer' \in Seq(Buffers) /\ Len(toServer') <= InputCapacity
    BY <1>7, CapacityAssumption, SMTT(30) DEF Send, TypeOK, CanAdd, Added, Refused
  <2>4. faults' \in 0 .. MaxFaults
    BY <1>7, CapacityAssumption DEF Send, Fault, TypeOK
  <2>5. expired' \in BOOLEAN /\ abandoned' \in BOOLEAN /\ pc' \in {"receive", "returned"}
        /\ draft' = None
    BY <1>7 DEF Send, StartDeadline, TypeOK
  <2> QED
    BY <1>7, <2>1, <2>2, <2>3, <2>4, <2>5 DEF Send, TypeOK
<1>8. CASE SendUnallocated
  <2>1. pc' = "returned" /\ pc = "send" /\ draft' = None /\ abandoned' \in BOOLEAN
    BY <1>8 DEF SendUnallocated, TypeOK
  <2>2. UNCHANGED <<shared, server, call, held, wait, calls, faults, drawn, leaked>>
    BY <1>8 DEF SendUnallocated
  <2> QED
    BY <2>1, <2>2 DEF TypeOK
<1>9. CASE SubEmpty
  <2>1. pc' \in {"receive", "returned"} /\ pc = "receive" /\ abandoned' \in BOOLEAN
        /\ asleep' \in BOOLEAN /\ UNCHANGED input_queue
    <3>1. CASE expired
      BY <1>9, <3>1 DEF SubEmpty, TimedOut, TypeOK
    <3>2. CASE ~expired
      BY <1>9, <3>2 DEF SubEmpty, TypeOK
    <3> QED
      BY <3>1, <3>2
  <2>2. UNCHANGED <<segment, heap, toServer, toClient, server, call, draft, held,
                    expired, calls, faults, drawn, leaked>>
    BY <1>9 DEF SubEmpty
  <2> QED
    BY <2>1, <2>2 DEF TypeOK
<1>10. CASE SubFails
  <2>1. faults' \in 0 .. MaxFaults
    BY <1>10, CapacityAssumption DEF SubFails, Fault, TypeOK
  <2>2. toClient' \in Seq(Buffers) /\ Len(toClient') <= ResponseSize /\ leaked' \subseteq Buffers
    <3>1. \/ toClient' = toClient /\ leaked' = leaked
          \/ /\ toClient # <<>> /\ leaked' = leaked \cup {Head(toClient)}
             /\ toClient' = Tail(toClient)
      BY <1>10 DEF SubFails
    <3>2. CASE toClient # <<>>
      <4>1. Head(toClient) \in Buffers /\ Tail(toClient) \in Seq(Buffers)
            /\ Len(Tail(toClient)) <= ResponseSize
        BY <3>2, CapacityAssumption DEF TypeOK
      <4> QED
        BY <3>1, <4>1 DEF TypeOK
    <3> QED
      BY <3>1, <3>2 DEF TypeOK
  <2> QED
    BY <1>10, <2>1, <2>2 DEF SubFails, TypeOK
<1>11. CASE Sub
  <2>1. toClient' \in Seq(Buffers) /\ Len(toClient') <= ResponseSize /\ Head(toClient) \in Buffers
    BY <1>11, CapacityAssumption DEF Sub, TypeOK
  <2>2. CASE Readable(heap[Head(toClient)])
    BY <1>11, <1>a, <2>1, <2>2 DEF Sub, TypeOK
  <2>3. CASE ~Readable(heap[Head(toClient)])
    BY <1>11, <1>a, <2>1, <2>3 DEF Sub, TypeOK
  <2> QED
    BY <2>2, <2>3
<1>12. ASSUME NEW m, Keepalive(m) PROVE TypeOK'
  <2>1. Consume(m) /\ UNCHANGED <<input_queue, connected, context_counter>>
    BY <1>12 DEF Keepalive
  <2>2. Message("KeepaliveReply", None, 0, 0) \in Messages
    BY MessageIs, ZeroContext DEF Types
  <2>3. \/ pc' \in {"receive", "returned"} /\ draft' = None
        \/ pc' = "send" /\ draft' \in Messages
    BY <1>12, <2>1, <2>2, ConsumeTypes DEF Keepalive
  <2>4. abandoned' \in BOOLEAN /\ connected' \in BOOLEAN
    BY <1>12, <2>1 DEF Keepalive, TypeOK
  <2> QED
    BY <2>1, <2>3, <2>4, ConsumedTypes, input_queue' \in {input_queue, "freed"}
<1>13. ASSUME NEW m, Foreign(m) PROVE TypeOK'
  BY <1>13, ConsumeTypes, ConsumedTypes DEF Foreign, TypeOK
<1>14. ASSUME NEW m, Undecodable(m) PROVE TypeOK'
  BY <1>14, ConsumeTypes, ConsumedTypes DEF Undecodable, TypeOK
<1>15. ASSUME NEW m, CreateReply(m) PROVE TypeOK'
  BY <1>15, ConsumeTypes, ConsumedTypes DEF CreateReply, ReleaseQueue, TypeOK
<1>16. ASSUME NEW m, Reply(m) PROVE TypeOK'
  BY <1>16, ConsumeTypes, ConsumedTypes DEF Reply, TypeOK
<1>17. ASSUME NEW m, DeleteReply(m) PROVE TypeOK'
  BY <1>17, ConsumeTypes, ConsumedTypes DEF DeleteReply, ReleaseQueue, TypeOK
<1>18. CASE Wake
  <2>1. asleep' \in BOOLEAN
    BY <1>18, Zenon DEF Wake
  <2> QED
    BY <1>18, <2>1 DEF Wake, TypeOK
<1>19. CASE Cancel
  <2>1. faults' \in 0 .. MaxFaults
    BY <1>19, CapacityAssumption DEF Cancel, Fault, TypeOK
  <2>2. asleep' \in BOOLEAN /\ abandoned' \in BOOLEAN
    BY <1>19, Zenon DEF Cancel
  <2>3. pc # "message" /\ pc # "send"
    BY <1>19 DEF Cancel, SleepInv
  <2> QED
    BY <1>19, <2>1, <2>2, <2>3 DEF Cancel, TypeOK
<1>20. CASE DeadlinePasses
  BY <1>20 DEF DeadlinePasses, TypeOK
<1>21. CASE Return
  BY <1>21 DEF Return, TypeOK
<1>22. CASE DropClient
  BY <1>22 DEF DropClient, TypeOK
<1> QED
  BY <1>1, <1>2, <1>3, <1>4, <1>5, <1>6, <1>7, <1>8, <1>9, <1>10, <1>11, <1>12, <1>13, <1>14,
     <1>15, <1>16, <1>17, <1>18, <1>19, <1>20, <1>21, <1>22 DEF Client, Progress

\* A call leaves a polling loop only awake.
LEMMA SleepStep == SleepInv /\ [Next]_vars => SleepInv'
<1> SUFFICES ASSUME SleepInv, [Next]_vars PROVE SleepInv'
  OBVIOUS
<1> USE DEF wait, Fail, Leave, GiveUp, SleepInv
<1>1. CASE UNCHANGED vars
  BY <1>1 DEF vars
<1>2. CASE Daemon
  <2>1. UNCHANGED <<pc, wait>>
    BY <1>2 DEF Daemon, GrowSegment, Take, Ignore, AnswerCreate, AnswerDelete, AnswerRequest, Ping
  <2> QED
    BY <2>1
<1>3. CASE Wake \/ Cancel
  <2>1. ~asleep'
    BY <1>3, Zenon DEF Wake, Cancel
  <2> QED
    BY <2>1
<1>4. CASE Attach \/ FindHeader \/ SubEmpty
  <2>1. ~asleep /\ (asleep' => pc' \in {"attach", "context", "receive"})
    BY <1>4 DEF Attach, FindHeader, SubEmpty, TimedOut
  <2> QED
    BY <2>1
<1>5. CASE Sub \/ SubFails
  <2>1. ~asleep /\ UNCHANGED asleep
    BY <1>5 DEF Sub, SubFails
  <2> QED
    BY <2>1
<1>6. CASE Connect \/ AllocateClientQueue \/ SendUnallocated \/ Return \/ DropClient \/ Disconnect
  <2>1. pc \notin {"attach", "context", "receive"} /\ UNCHANGED asleep
    BY <1>6 DEF Connect, AllocateClientQueue, SendUnallocated, Return, DropClient, Disconnect
  <2> QED
    BY <2>1
<1>7. ASSUME NEW m, Consume(m) PROVE SleepInv'
  <2>1. pc \notin {"attach", "context", "receive"} /\ UNCHANGED asleep
    BY <1>7 DEF Consume
  <2> QED
    BY <2>1
<1>8. ASSUME NEW m, Invoke(m) PROVE SleepInv'
  <2>1. pc \notin {"attach", "context", "receive"} /\ UNCHANGED asleep
    BY <1>8 DEF Invoke
  <2> QED
    BY <2>1
<1>9. ASSUME NEW b, NEW o, Send(b, o) PROVE SleepInv'
  <2>1. pc \notin {"attach", "context", "receive"} /\ UNCHANGED asleep
    BY <1>9 DEF Send
  <2> QED
    BY <2>1
<1>10. CASE DeadlinePasses
  BY <1>10 DEF DeadlinePasses
<1> QED
  BY <1>1, <1>2, <1>3, <1>4, <1>5, <1>6, <1>7, <1>8, <1>9, <1>10
  DEF Next, Progress, Keepalive, Foreign, Undecodable, CreateReply, Reply, DeleteReply

-----------------------------------------------------------------------------
(* What the steps do to the queues and to the messages on them *)

\* The elements of a sequence at its ends.
LEMMA Ends ==
    ASSUME NEW S, NEW s \in Seq(S)
    PROVE  /\ s # <<>> => /\ Head(s) = s[1] /\ 1 \in DOMAIN s /\ Tail(s) \in Seq(S)
                          /\ Len(Tail(s)) = Len(s) - 1 /\ Len(s) > 0
                          /\ \A i \in DOMAIN Tail(s) :
                               i + 1 \in DOMAIN s /\ Tail(s)[i] = s[i + 1]
           /\ \A e \in S : /\ Append(s, e) \in Seq(S) /\ Len(Append(s, e)) = Len(s) + 1
                           /\ \A i \in DOMAIN s : Append(s, e)[i] = s[i]
                           /\ Append(s, e)[Len(s) + 1] = e
                           /\ DOMAIN Append(s, e) = DOMAIN s \cup {Len(s) + 1}
           /\ DOMAIN s = 1 .. Len(s) /\ Len(s) \in Nat
  OBVIOUS

\* A sequence that is another one with an element at its end, or without its first.
LEMMA EndsMade ==
    ASSUME NEW S, NEW s \in Seq(S), NEW t \in Seq(S)
    PROVE  /\ \A e \in S :
                /\ Len(t) = Len(s) + 1 /\ t[Len(s) + 1] = e
                /\ \A i \in 1 .. Len(s) : t[i] = s[i]
                => t = Append(s, e)
           /\ /\ s # <<>> /\ Len(t) = Len(s) - 1
              /\ \A i \in 1 .. Len(t) : t[i] = s[i + 1]
              => t = Tail(s)
  OBVIOUS

\* What an owned buffer leads to is a message.
LEMMA ViewTypes ==
    ASSUME TypeOK, OwnInv
    PROVE  /\ Requests \in Seq(Messages) /\ Len(Requests) = Len(toServer)
           /\ Replies \in Seq(Messages) /\ Len(Replies) = Len(toClient)
           /\ held # None => Received \in Messages
<1>1. \A i \in DOMAIN toServer : heap[toServer[i]] \in Messages
  BY DEF TypeOK, OwnInv, OnServer
<1>2. \A i \in DOMAIN toClient : heap[toClient[i]] \in Messages
  BY DEF TypeOK, OwnInv, OnClient
<1>3. held # None => heap[held] \in Messages
  BY DEF TypeOK, OwnInv
<1>4. /\ DOMAIN toServer = 1 .. Len(toServer) /\ Len(toServer) \in Nat
      /\ DOMAIN toClient = 1 .. Len(toClient) /\ Len(toClient) \in Nat
  BY DEF TypeOK
<1> QED
  BY <1>1, <1>2, <1>3, <1>4 DEF Requests, Replies, Received

\* A step that leaves the queues, the heap and the received buffer alone.
LEMMA MemoryKept ==
    ASSUME OwnInv, UNCHANGED memory
    PROVE  OwnInv' /\ UNCHANGED <<Requests, Replies, Received>>
<1>1. OwnInv'
  BY DEF OwnInv, OnServer, OnClient, memory
<1>2. UNCHANGED <<Requests, Replies, Received>>
  BY DEF Requests, Replies, Received, memory
<1> QED
  BY <1>1, <1>2

\* The daemon posts a message: it is the last on the client's queue.
LEMMA MemoryPost ==
    ASSUME TypeOK, OwnInv, NEW b \in Buffers, NEW m \in Messages, Post(b, m),
           UNCHANGED <<toServer, held, leaked>>
    PROVE  OwnInv' /\ Replies' = Append(Replies, m) /\ UNCHANGED <<Requests, Received>>
<1>1. /\ heap[b] = Free /\ heap' = [heap EXCEPT ![b] = m] /\ toClient' = Append(toClient, b)
      /\ toClient \in Seq(Buffers) /\ heap \in [Buffers -> Messages \cup {Free}]
      /\ toServer \in Seq(Buffers) /\ held \in Buffers \cup {None}
  BY DEF Post, TypeOK
<1>2. ~OnServer(b) /\ ~OnClient(b) /\ b # held /\ b \notin leaked
  BY <1>1 DEF OwnInv
<1>3. /\ DOMAIN toClient' = DOMAIN toClient \cup {Len(toClient) + 1}
      /\ \A i \in DOMAIN toClient : toClient'[i] = toClient[i]
      /\ toClient'[Len(toClient) + 1] = b
      /\ DOMAIN toClient = 1 .. Len(toClient) /\ Len(toClient) \in Nat
  BY <1>1, Ends
<1>4. /\ heap'[b] = m /\ m # Free
      /\ \A c \in Buffers : c # b => heap'[c] = heap[c]
  BY <1>1, ValuesAssumption
<1>5. \A c \in Buffers : OnServer(c)' <=> OnServer(c)
  BY DEF OnServer
<1>6. \A c \in Buffers : OnClient(c)' <=> OnClient(c) \/ c = b
  BY <1>3 DEF OnClient
<1>7. OwnInv'
  <2>1. \A i, j \in DOMAIN toClient' : toClient'[i] = toClient'[j] => i = j
    BY <1>2, <1>3 DEF OwnInv, OnClient
  <2>2. \A i, j \in DOMAIN toServer' : toServer'[i] = toServer'[j] => i = j
    BY DEF OwnInv
  <2>3. ASSUME NEW c \in Buffers
        PROVE  /\ OnServer(c)' => ~OnClient(c)' /\ c # held' /\ c \notin leaked'
               /\ OnClient(c)' => c # held' /\ c \notin leaked'
               /\ c = held' => c \notin leaked'
               /\ heap'[c] # Free <=>
                    OnServer(c)' \/ OnClient(c)' \/ c = held' \/ c \in leaked'
    <3>1. CASE c = b
      BY <1>2, <1>4, <1>5, <1>6, <3>1
    <3>2. CASE c # b
      BY <1>4, <1>5, <1>6, <3>2 DEF OwnInv
    <3> QED
      BY <3>1, <3>2
  <2> QED
    BY <2>1, <2>2, <2>3 DEF OwnInv
<1>8. Replies' = Append(Replies, m)
  <2>1. Replies \in Seq(Messages) /\ Len(Replies) = Len(toClient)
    BY ViewTypes
  <2>2. \A i \in DOMAIN toClient : toClient[i] \in Buffers /\ toClient[i] # b
    BY <1>1, <1>2 DEF OnClient
  <2>3. Replies' = [i \in 1 .. Len(toClient) + 1 |-> heap'[toClient'[i]]]
    BY <1>3 DEF Replies
  <2>4. \A i \in 1 .. Len(toClient) : heap'[toClient'[i]] = Replies[i]
    BY <1>3, <1>4, <2>2 DEF Replies
  <2>5. heap'[toClient'[Len(toClient) + 1]] = m
    BY <1>3, <1>4
  <2> DEFINE t == Replies'
  <2>a. \A i \in 1 .. Len(toClient) + 1 : heap'[toClient'[i]] \in Messages
    BY <1>3, <2>1, <2>4, <2>5
  <2>6. /\ t \in Seq(Messages) /\ Len(t) = Len(Replies) + 1 /\ t[Len(Replies) + 1] = m
        /\ \A i \in 1 .. Len(Replies) : t[i] = Replies[i]
    <3> HIDE DEF t
    <3>1. t = [i \in 1 .. Len(toClient) + 1 |-> heap'[toClient'[i]]]
      BY <2>3 DEF t
    <3> QED
      BY <1>3, <2>1, <2>4, <2>5, <2>a, <3>1
  <2> HIDE DEF Replies, t
  <2>7. t = Append(Replies, m)
    BY <2>1, <2>6, EndsMade
  <2> QED
    BY <2>7 DEF t
<1>9. UNCHANGED Requests
  <2>1. \A i \in DOMAIN toServer : toServer[i] \in Buffers /\ toServer[i] # b
    BY <1>1, <1>2 DEF OnServer
  <2> QED
    BY <1>4, <2>1 DEF Requests
<1>10. UNCHANGED Received
  BY <1>1, <1>2, <1>4, NamesAssumption DEF Received
<1> QED
  BY <1>7, <1>8, <1>9, <1>10

\* The client adds a message: it is the last on the daemon's queue.
LEMMA MemoryAdd ==
    ASSUME TypeOK, OwnInv, NEW b \in Buffers, NEW m \in Messages, heap[b] = Free,
           heap' = [heap EXCEPT ![b] = m], toServer' = Append(toServer, b),
           UNCHANGED <<toClient, held, leaked>>
    PROVE  OwnInv' /\ Requests' = Append(Requests, m) /\ UNCHANGED <<Replies, Received>>
<1>1. /\ toClient \in Seq(Buffers) /\ heap \in [Buffers -> Messages \cup {Free}]
      /\ toServer \in Seq(Buffers) /\ held \in Buffers \cup {None}
  BY DEF TypeOK
<1>2. ~OnServer(b) /\ ~OnClient(b) /\ b # held /\ b \notin leaked
  BY DEF OwnInv
<1>3. /\ DOMAIN toServer' = DOMAIN toServer \cup {Len(toServer) + 1}
      /\ \A i \in DOMAIN toServer : toServer'[i] = toServer[i]
      /\ toServer'[Len(toServer) + 1] = b
      /\ DOMAIN toServer = 1 .. Len(toServer) /\ Len(toServer) \in Nat
  BY <1>1, Ends
<1>4. /\ heap'[b] = m /\ m # Free
      /\ \A c \in Buffers : c # b => heap'[c] = heap[c]
  BY <1>1, ValuesAssumption
<1>5. \A c \in Buffers : OnClient(c)' <=> OnClient(c)
  BY DEF OnClient
<1>6. \A c \in Buffers : OnServer(c)' <=> OnServer(c) \/ c = b
  BY <1>3 DEF OnServer
<1>7. OwnInv'
  <2>1. \A i, j \in DOMAIN toServer' : toServer'[i] = toServer'[j] => i = j
    BY <1>2, <1>3 DEF OwnInv, OnServer
  <2>2. \A i, j \in DOMAIN toClient' : toClient'[i] = toClient'[j] => i = j
    BY DEF OwnInv
  <2>3. ASSUME NEW c \in Buffers
        PROVE  /\ OnServer(c)' => ~OnClient(c)' /\ c # held' /\ c \notin leaked'
               /\ OnClient(c)' => c # held' /\ c \notin leaked'
               /\ c = held' => c \notin leaked'
               /\ heap'[c] # Free <=>
                    OnServer(c)' \/ OnClient(c)' \/ c = held' \/ c \in leaked'
    <3>1. CASE c = b
      BY <1>2, <1>4, <1>5, <1>6, <3>1
    <3>2. CASE c # b
      BY <1>4, <1>5, <1>6, <3>2 DEF OwnInv
    <3> QED
      BY <3>1, <3>2
  <2> QED
    BY <2>1, <2>2, <2>3 DEF OwnInv
<1>8. Requests' = Append(Requests, m)
  <2>1. Requests \in Seq(Messages) /\ Len(Requests) = Len(toServer)
    BY ViewTypes
  <2>2. \A i \in DOMAIN toServer : toServer[i] \in Buffers /\ toServer[i] # b
    BY <1>1, <1>2 DEF OnServer
  <2>3. Requests' = [i \in 1 .. Len(toServer) + 1 |-> heap'[toServer'[i]]]
    BY <1>3 DEF Requests
  <2>4. \A i \in 1 .. Len(toServer) : heap'[toServer'[i]] = Requests[i]
    BY <1>3, <1>4, <2>2 DEF Requests
  <2>5. heap'[toServer'[Len(toServer) + 1]] = m
    BY <1>3, <1>4
  <2> DEFINE t == Requests'
  <2>a. \A i \in 1 .. Len(toServer) + 1 : heap'[toServer'[i]] \in Messages
    BY <1>3, <2>1, <2>4, <2>5
  <2>6. /\ t \in Seq(Messages) /\ Len(t) = Len(Requests) + 1 /\ t[Len(Requests) + 1] = m
        /\ \A i \in 1 .. Len(Requests) : t[i] = Requests[i]
    <3> HIDE DEF t
    <3>1. t = [i \in 1 .. Len(toServer) + 1 |-> heap'[toServer'[i]]]
      BY <2>3 DEF t
    <3> QED
      BY <1>3, <2>1, <2>4, <2>5, <2>a, <3>1
  <2> HIDE DEF Requests, t
  <2>7. t = Append(Requests, m)
    BY <2>1, <2>6, EndsMade
  <2> QED
    BY <2>7 DEF t
<1>9. UNCHANGED Replies
  <2>1. \A i \in DOMAIN toClient : toClient[i] \in Buffers /\ toClient[i] # b
    BY <1>1, <1>2 DEF OnClient
  <2> QED
    BY <1>4, <2>1 DEF Replies
<1>10. UNCHANGED Received
  BY <1>1, <1>2, <1>4, NamesAssumption DEF Received
<1> QED
  BY <1>7, <1>8, <1>9, <1>10

\* The daemon takes the first message of its queue and frees its buffer.
LEMMA MemoryTake ==
    ASSUME TypeOK, OwnInv, Take
    PROVE  /\ OwnInv' /\ Requests # <<>> /\ serving' = Requests[1] /\ Requests' = Tail(Requests)
           /\ UNCHANGED <<Replies, Received>>
<1> DEFINE b == Head(toServer)
<1>1. /\ toClient \in Seq(Buffers) /\ heap \in [Buffers -> Messages \cup {Free}]
      /\ toServer \in Seq(Buffers) /\ held \in Buffers \cup {None}
      /\ toServer # <<>> /\ heap' = [heap EXCEPT ![b] = Free] /\ toServer' = Tail(toServer)
      /\ serving' = heap[b] /\ UNCHANGED <<toClient, held, leaked>>
  BY DEF Take, TypeOK, ghosts
<1>2. /\ b = toServer[1] /\ 1 \in DOMAIN toServer /\ b \in Buffers
      /\ toServer' \in Seq(Buffers) /\ Len(toServer') = Len(toServer) - 1
      /\ DOMAIN toServer' = 1 .. Len(toServer) - 1
      /\ DOMAIN toServer = 1 .. Len(toServer) /\ Len(toServer) \in Nat
      /\ \A i \in DOMAIN toServer' : i + 1 \in DOMAIN toServer /\ toServer'[i] = toServer[i + 1]
  BY <1>1, Ends
<1> HIDE DEF b
<1>3. OnServer(b) /\ ~OnClient(b) /\ b # held /\ b \notin leaked
  BY <1>2 DEF OwnInv, OnServer
<1>4. heap'[b] = Free /\ \A c \in Buffers : c # b => heap'[c] = heap[c]
  BY <1>1, <1>2
<1>5. \A c \in Buffers : OnClient(c)' <=> OnClient(c)
  BY <1>1 DEF OnClient
<1>6. \A c \in Buffers : OnServer(c)' <=> OnServer(c) /\ c # b
  <2> TAKE c \in Buffers
  <2>1. ASSUME NEW i \in DOMAIN toServer', toServer'[i] = c PROVE OnServer(c) /\ c # b
    BY <1>2, <2>1 DEF OwnInv, OnServer
  <2>2. ASSUME NEW i \in DOMAIN toServer, toServer[i] = c, c # b PROVE OnServer(c)'
    <3>1. i # 1 /\ i - 1 \in DOMAIN toServer'
      BY <1>2, <2>2
    <3>2. toServer'[i - 1] = c
      BY <1>2, <2>2, <3>1
    <3> QED
      BY <3>1, <3>2 DEF OnServer
  <2> QED
    BY <2>1, <2>2 DEF OnServer
<1>7. OwnInv'
  <2>1. \A i, j \in DOMAIN toServer' : toServer'[i] = toServer'[j] => i = j
    <3> TAKE i, j \in DOMAIN toServer'
    <3>1. i + 1 \in DOMAIN toServer /\ toServer'[i] = toServer[i + 1] /\ i \in Int
          /\ j + 1 \in DOMAIN toServer /\ toServer'[j] = toServer[j + 1] /\ j \in Int
      BY <1>2
    <3>2. toServer[i + 1] = toServer[j + 1] => i + 1 = j + 1
      BY <3>1 DEF OwnInv
    <3> QED
      BY <3>1, <3>2
  <2>2. \A i, j \in DOMAIN toClient' : toClient'[i] = toClient'[j] => i = j
    BY <1>1 DEF OwnInv
  <2>3. ASSUME NEW c \in Buffers
        PROVE  /\ OnServer(c)' => ~OnClient(c)' /\ c # held' /\ c \notin leaked'
               /\ OnClient(c)' => c # held' /\ c \notin leaked'
               /\ c = held' => c \notin leaked'
               /\ heap'[c] # Free <=>
                    OnServer(c)' \/ OnClient(c)' \/ c = held' \/ c \in leaked'
    <3>1. CASE c = b
      BY <1>1, <1>3, <1>4, <1>5, <1>6, <3>1
    <3>2. CASE c # b
      BY <1>1, <1>4, <1>5, <1>6, <3>2 DEF OwnInv
    <3> QED
      BY <3>1, <3>2
  <2> QED
    BY <2>1, <2>2, <2>3 DEF OwnInv
<1>8. /\ Requests # <<>> /\ serving' = Requests[1] /\ Requests' = Tail(Requests)
  <2>1. Requests \in Seq(Messages) /\ Len(Requests) = Len(toServer)
    BY ViewTypes
  <2>2. \A i \in DOMAIN toServer' : toServer'[i] \in Buffers /\ toServer'[i] # b
    <3> TAKE i \in DOMAIN toServer'
    <3>1. i + 1 \in DOMAIN toServer /\ toServer'[i] = toServer[i + 1] /\ i + 1 # 1
      BY <1>2
    <3>2. toServer[i + 1] \in Buffers /\ toServer[i + 1] # toServer[1]
      BY <1>1, <1>2, <3>1 DEF OwnInv
    <3> QED
      BY <1>2, <3>1, <3>2
  <2>3. \A i \in 1 .. Len(toServer) - 1 : heap'[toServer'[i]] = Requests[i + 1]
    <3> TAKE i \in 1 .. Len(toServer) - 1
    <3>1. i \in DOMAIN toServer' /\ i + 1 \in DOMAIN toServer /\ toServer'[i] = toServer[i + 1]
      BY <1>2
    <3>2. heap'[toServer'[i]] = heap[toServer[i + 1]]
      BY <1>4, <2>2, <3>1
    <3> QED
      BY <3>1, <3>2 DEF Requests
  <2>4. Requests[1] = heap[b] /\ Requests # <<>>
    <3>1. Requests[1] = heap[toServer[1]]
      BY <1>2 DEF Requests
    <3> QED
      BY <1>2, <2>1, <3>1
  <2>5. Requests' = [i \in 1 .. Len(toServer) - 1 |-> heap'[toServer'[i]]]
    BY <1>2 DEF Requests
  <2> DEFINE t == Requests'
  <2>6. /\ t \in Seq(Messages) /\ Len(t) = Len(Requests) - 1
        /\ \A i \in 1 .. Len(t) : t[i] = Requests[i + 1]
    <3> HIDE DEF t
    <3>1. t = [i \in 1 .. Len(toServer) - 1 |-> heap'[toServer'[i]]]
      BY <2>5 DEF t
    <3>2. \A i \in 1 .. Len(toServer) - 1 : heap'[toServer'[i]] \in Messages
      BY <1>2, <2>1, <2>3
    <3>3. Len(toServer) - 1 \in Nat
      BY <1>2
    <3>4. t \in Seq(Messages) /\ Len(t) = Len(toServer) - 1
      BY <3>1, <3>2, <3>3
    <3>5. \A i \in 1 .. Len(toServer) - 1 : t[i] = Requests[i + 1]
      BY <2>3, <3>1
    <3> QED
      BY <2>1, <3>4, <3>5
  <2> HIDE DEF Requests, t
  <2>7. t = Tail(Requests)
    BY <2>1, <2>4, <2>6, EndsMade
  <2> QED
    BY <1>1, <2>4, <2>7 DEF t
<1>9. UNCHANGED Replies
  <2>1. \A i \in DOMAIN toClient : toClient[i] \in Buffers /\ toClient[i] # b
    BY <1>1, <1>3 DEF OnClient
  <2> QED
    BY <1>1, <1>4, <2>1 DEF Replies
<1>10. UNCHANGED Received
  BY <1>1, <1>2, <1>3, <1>4, NamesAssumption DEF Received
<1> QED
  BY <1>7, <1>8, <1>9, <1>10

\* The client takes the first message of its queue, and holds it or loses it.
LEMMA MemorySub ==
    ASSUME TypeOK, OwnInv, held = None, toClient # <<>>, toClient' = Tail(toClient),
           UNCHANGED <<heap, toServer>>,
           \/ held' = Head(toClient) /\ leaked' = leaked
           \/ held' = None /\ leaked' = leaked \cup {Head(toClient)}
    PROVE  /\ OwnInv' /\ Replies # <<>> /\ Replies' = Tail(Replies) /\ UNCHANGED Requests
           /\ held' # None => Received' = Replies[1]
<1> DEFINE b == Head(toClient)
<1>1. /\ toClient \in Seq(Buffers) /\ heap \in [Buffers -> Messages \cup {Free}]
      /\ toServer \in Seq(Buffers) /\ held \in Buffers \cup {None}
  BY DEF TypeOK
<1>2. /\ b = toClient[1] /\ 1 \in DOMAIN toClient /\ b \in Buffers
      /\ toClient' \in Seq(Buffers) /\ Len(toClient') = Len(toClient) - 1
      /\ DOMAIN toClient' = 1 .. Len(toClient) - 1
      /\ DOMAIN toClient = 1 .. Len(toClient) /\ Len(toClient) \in Nat
      /\ \A i \in DOMAIN toClient' : i + 1 \in DOMAIN toClient /\ toClient'[i] = toClient[i + 1]
  BY <1>1, Ends
<1>a. \/ held' = b /\ leaked' = leaked
      \/ held' = None /\ leaked' = leaked \cup {b}
  OBVIOUS
<1> HIDE DEF b
<1>3. OnClient(b) /\ ~OnServer(b) /\ b # held /\ b \notin leaked /\ b # None
  BY <1>2, NamesAssumption DEF OwnInv, OnClient
<1>5. \A c \in Buffers : OnServer(c)' <=> OnServer(c)
  BY <1>1 DEF OnServer
<1>6. \A c \in Buffers : OnClient(c)' <=> OnClient(c) /\ c # b
  <2> TAKE c \in Buffers
  <2>1. ASSUME NEW i \in DOMAIN toClient', toClient'[i] = c PROVE OnClient(c) /\ c # b
    BY <1>2, <2>1 DEF OwnInv, OnClient
  <2>2. ASSUME NEW i \in DOMAIN toClient, toClient[i] = c, c # b PROVE OnClient(c)'
    <3>1. i # 1 /\ i - 1 \in DOMAIN toClient'
      BY <1>2, <2>2
    <3>2. toClient'[i - 1] = c
      BY <1>2, <2>2, <3>1
    <3> QED
      BY <3>1, <3>2 DEF OnClient
  <2> QED
    BY <2>1, <2>2 DEF OnClient
<1>7. OwnInv'
  <2>1. \A i, j \in DOMAIN toClient' : toClient'[i] = toClient'[j] => i = j
    <3> TAKE i, j \in DOMAIN toClient'
    <3>1. i + 1 \in DOMAIN toClient /\ toClient'[i] = toClient[i + 1] /\ i \in Int
          /\ j + 1 \in DOMAIN toClient /\ toClient'[j] = toClient[j + 1] /\ j \in Int
      BY <1>2
    <3>2. toClient[i + 1] = toClient[j + 1] => i + 1 = j + 1
      BY <3>1 DEF OwnInv
    <3> QED
      BY <3>1, <3>2
  <2>2. \A i, j \in DOMAIN toServer' : toServer'[i] = toServer'[j] => i = j
    BY <1>1 DEF OwnInv
  <2>3. ASSUME NEW c \in Buffers
        PROVE  /\ OnServer(c)' => ~OnClient(c)' /\ c # held' /\ c \notin leaked'
               /\ OnClient(c)' => c # held' /\ c \notin leaked'
               /\ c = held' => c \notin leaked'
               /\ heap'[c] # Free <=>
                    OnServer(c)' \/ OnClient(c)' \/ c = held' \/ c \in leaked'
    <3>0. c # None
      BY NamesAssumption
    <3>1. CASE c = b
      <4>1. heap[b] # Free
        BY <1>2, <1>3 DEF OwnInv
      <4> QED
        BY <1>1, <1>a, <1>3, <1>5, <1>6, <3>0, <3>1, <4>1
    <3>2. CASE c # b
      BY <1>1, <1>a, <1>5, <1>6, <3>0, <3>2 DEF OwnInv
    <3> QED
      BY <3>1, <3>2
  <2> QED
    BY <2>1, <2>2, <2>3 DEF OwnInv
<1>8. /\ Replies # <<>> /\ Replies[1] = heap[b] /\ Replies' = Tail(Replies)
  <2>1. Replies \in Seq(Messages) /\ Len(Replies) = Len(toClient)
    BY ViewTypes
  <2>3. \A i \in 1 .. Len(toClient) - 1 : heap'[toClient'[i]] = Replies[i + 1]
    <3> TAKE i \in 1 .. Len(toClient) - 1
    <3>1. i \in DOMAIN toClient' /\ i + 1 \in DOMAIN toClient /\ toClient'[i] = toClient[i + 1]
      BY <1>2
    <3> QED
      BY <3>1 DEF Replies
  <2>4. Replies[1] = heap[b] /\ Replies # <<>>
    <3>1. Replies[1] = heap[toClient[1]]
      BY <1>2 DEF Replies
    <3> QED
      BY <1>2, <2>1, <3>1
  <2>5. Replies' = [i \in 1 .. Len(toClient) - 1 |-> heap'[toClient'[i]]]
    BY <1>2 DEF Replies
  <2> DEFINE t == Replies'
  <2>6. /\ t \in Seq(Messages) /\ Len(t) = Len(Replies) - 1
        /\ \A i \in 1 .. Len(t) : t[i] = Replies[i + 1]
    <3> HIDE DEF t
    <3>1. t = [i \in 1 .. Len(toClient) - 1 |-> heap'[toClient'[i]]]
      BY <2>5 DEF t
    <3>2. \A i \in 1 .. Len(toClient) - 1 : heap'[toClient'[i]] \in Messages
      BY <1>2, <2>1, <2>3
    <3>3. Len(toClient) - 1 \in Nat
      BY <1>2
    <3>4. t \in Seq(Messages) /\ Len(t) = Len(toClient) - 1
      BY <3>1, <3>2, <3>3
    <3>5. \A i \in 1 .. Len(toClient) - 1 : t[i] = Replies[i + 1]
      BY <2>3, <3>1
    <3> QED
      BY <2>1, <3>4, <3>5
  <2> HIDE DEF Replies, t
  <2>7. t = Tail(Replies)
    BY <2>1, <2>4, <2>6, EndsMade
  <2> QED
    BY <1>1, <2>4, <2>7 DEF t
<1>9. UNCHANGED Requests
  BY <1>1 DEF Requests
<1>10. held' # None => Received' = heap[b]
  BY <1>a DEF Received
<1> QED
  BY <1>7, <1>8, <1>9, <1>10

\* The client frees the message it holds.
LEMMA MemoryConsume ==
    ASSUME TypeOK, OwnInv, NEW m, Consume(m)
    PROVE  OwnInv' /\ UNCHANGED <<Requests, Replies>> /\ m = Received /\ m \in Messages
<1>1. /\ toClient \in Seq(Buffers) /\ heap \in [Buffers -> Messages \cup {Free}]
      /\ toServer \in Seq(Buffers) /\ held \in Buffers /\ held # None
      /\ heap' = [heap EXCEPT ![held] = Free] /\ held' = None
      /\ UNCHANGED <<toServer, toClient, leaked>> /\ m = heap[held]
  BY DEF Consume, TypeOK
<1>2. ~OnServer(held) /\ ~OnClient(held) /\ held \notin leaked
  BY <1>1 DEF OwnInv
<1>3. heap'[held] = Free /\ \A c \in Buffers : c # held => heap'[c] = heap[c]
  BY <1>1
<1>4. \A c \in Buffers : (OnServer(c)' <=> OnServer(c)) /\ (OnClient(c)' <=> OnClient(c))
  BY <1>1 DEF OnServer, OnClient
<1>5. OwnInv'
  <2>1. /\ \A i, j \in DOMAIN toServer' : toServer'[i] = toServer'[j] => i = j
        /\ \A i, j \in DOMAIN toClient' : toClient'[i] = toClient'[j] => i = j
    BY <1>1 DEF OwnInv
  <2>2. ASSUME NEW c \in Buffers
        PROVE  /\ OnServer(c)' => ~OnClient(c)' /\ c # held' /\ c \notin leaked'
               /\ OnClient(c)' => c # held' /\ c \notin leaked'
               /\ c = held' => c \notin leaked'
               /\ heap'[c] # Free <=>
                    OnServer(c)' \/ OnClient(c)' \/ c = held' \/ c \in leaked'
    <3>0. c # held'
      BY <1>1, NamesAssumption
    <3>1. CASE c = held
      BY <1>1, <1>2, <1>3, <1>4, <3>0, <3>1
    <3>2. CASE c # held
      BY <1>1, <1>3, <1>4, <3>0, <3>2 DEF OwnInv
    <3> QED
      BY <3>1, <3>2
  <2> QED
    BY <2>1, <2>2 DEF OwnInv
<1>6. UNCHANGED Requests
  <2>1. \A i \in DOMAIN toServer : toServer[i] \in Buffers /\ toServer[i] # held
    BY <1>1, <1>2 DEF OnServer
  <2> QED
    BY <1>1, <1>3, <2>1 DEF Requests
<1>7. UNCHANGED Replies
  <2>1. \A i \in DOMAIN toClient : toClient[i] \in Buffers /\ toClient[i] # held
    BY <1>1, <1>2 DEF OnClient
  <2> QED
    BY <1>1, <1>3, <2>1 DEF Replies
<1>8. m = Received /\ m \in Messages
  BY <1>1, ViewTypes DEF Received
<1> QED
  BY <1>5, <1>6, <1>7, <1>8

\* The steps that touch neither queue, nor the heap, nor the received buffer.
Quiet ==
    \/ GrowSegment \/ Ignore \/ Connect \/ Attach \/ FindHeader \/ AllocateClientQueue
    \/ Disconnect \/ SendUnallocated \/ SubEmpty \/ Wake \/ Cancel \/ DeadlinePasses \/ Return
    \/ DropClient \/ \E m \in Methods : Invoke(m)

\* A step that touches no buffer leaves every message with its owner.
LEMMA QuietSteps ==
    ASSUME OwnInv, Quiet
    PROVE  OwnInv' /\ UNCHANGED <<Requests, Replies, Received>>
<1>1. UNCHANGED memory
  BY DEF Quiet, GrowSegment, Ignore, Connect, Attach, FindHeader, AllocateClientQueue,
         Disconnect, SendUnallocated, SubEmpty, Wake, Cancel, DeadlinePasses, Return, DropClient,
         Invoke, memory, shared, ghosts
<1> QED
  BY <1>1, MemoryKept

\* The reactions of the client to a message it received.
React(m) ==
    \/ Keepalive(m) \/ Foreign(m) \/ Undecodable(m)
    \/ CreateReply(m) \/ Reply(m) \/ DeleteReply(m)

\* A client that handles a message frees its buffer, and no other.
LEMMA ReactSteps ==
    ASSUME TypeOK, OwnInv, NEW m, React(m)
    PROVE  /\ OwnInv' /\ UNCHANGED <<Requests, Replies>> /\ m = Received /\ m \in Messages
           /\ pc = "message" /\ UNCHANGED <<segment, server, op, method, wait, calls, faults, drawn>>
           /\ held \in Buffers /\ heap' = [heap EXCEPT ![held] = Free] /\ m = heap[held]
<1>1. Consume(m)
  BY DEF React, Keepalive, Foreign, Undecodable, CreateReply, Reply, DeleteReply
<1>2. /\ pc = "message" /\ UNCHANGED <<segment, server, op, method, wait, calls, faults, drawn>>
      /\ held \in Buffers /\ heap' = [heap EXCEPT ![held] = Free] /\ m = heap[held]
  BY <1>1 DEF Consume, TypeOK
<1> QED
  BY <1>1, <1>2, MemoryConsume

\* send_message adds the message exactly if it does not report a failure.
LEMMA SendSteps ==
    ASSUME TypeOK, OwnInv, NEW b \in Buffers, NEW o \in Added \cup Refused, Send(b, o)
    PROVE  /\ OwnInv' /\ UNCHANGED <<Replies, Received>> /\ pc = "send" /\ draft \in Messages
           /\ draft' = None
           /\ \/ /\ pc' = "receive" /\ Requests' = Append(Requests, draft)
                 /\ heap[b] = Free /\ heap' = [heap EXCEPT ![b] = draft]
                 /\ UNCHANGED <<result, abandoned>>
              \/ /\ pc' = "returned" /\ result' = Outcome("Queue", 0)
                 /\ UNCHANGED <<heap, Requests>>
                 /\ IF draft.type = "KeepaliveReply" THEN abandoned' ELSE UNCHANGED abandoned
           /\ UNCHANGED <<segment, toClient, input_queue, server, call, held, asleep, calls,
                          drawn, leaked>>
<1>1. pc = "send" /\ draft \in Messages /\ draft' = None
      /\ UNCHANGED <<segment, toClient, input_queue, server, call, held, asleep, calls,
                     drawn, leaked>>
  BY DEF Send, TypeOK
<1>2. o \in Added <=> Committed(o)
  BY DEF Added, Refused, Committed
<1>3. CASE Committed(o)
  <2>1. /\ heap[b] = Free /\ heap' = [heap EXCEPT ![b] = draft] /\ toServer' = Append(toServer, b)
        /\ pc' = "receive" /\ UNCHANGED <<result, abandoned>>
    BY <1>2, <1>3 DEF Send
  <2>2. OwnInv' /\ Requests' = Append(Requests, draft) /\ UNCHANGED <<Replies, Received>>
    BY <1>1, <2>1, MemoryAdd
  <2> QED
    BY <1>1, <2>1, <2>2
<1>4. CASE ~Committed(o)
  <2>1. heap[b] = Free /\ heap' = [heap EXCEPT ![b] = Free] /\ toServer' = toServer
    BY <1>2, <1>4 DEF Send
  <2>2. heap' = heap
    BY <2>1 DEF TypeOK
  <2>3. OwnInv' /\ UNCHANGED <<Requests, Replies, Received>>
    BY <1>1, <2>1, <2>2, MemoryKept DEF memory
  <2>4. pc' = "returned" /\ result' = Outcome("Queue", 0)
    BY <1>4 DEF Send, GiveUp, Fail, Leave
  <2>5. IF draft.type = "KeepaliveReply" THEN abandoned' ELSE UNCHANGED abandoned
    BY <1>4 DEF Send, GiveUp
  <2> QED
    BY <1>1, <2>2, <2>3, <2>4, <2>5
<1> QED
  BY <1>3, <1>4

\* What sub took off the client's queue is held or lost.
LEMMA SubSteps ==
    ASSUME TypeOK, OwnInv, Sub
    PROVE  /\ OwnInv' /\ Replies # <<>> /\ Replies' = Tail(Replies) /\ UNCHANGED Requests
           /\ pc = "receive"
           /\ \/ pc' = "message" /\ Received' = Replies[1] /\ UNCHANGED <<result, abandoned>>
              \/ pc' = "returned" /\ result'.tag \in {"Memory", "Codec"} /\ abandoned'
           /\ UNCHANGED <<segment, heap, toServer, input_queue, server, call, draft, calls, drawn>>
<1> DEFINE b == Head(toClient)
<1>1. /\ pc = "receive" /\ held = None /\ toClient # <<>> /\ toClient' = Tail(toClient)
      /\ UNCHANGED <<heap, toServer>>
      /\ UNCHANGED <<segment, heap, toServer, input_queue, server, call, draft, calls, drawn>>
  BY DEF Sub, TypeOK
<1>2. b \in Buffers /\ b # None
  BY <1>1, NamesAssumption DEF TypeOK
<1>3. CASE Readable(heap[b])
  <2>1. pc' = "message" /\ held' = b /\ UNCHANGED <<result, abandoned, leaked>>
    BY <1>3 DEF Sub
  <2> QED
    BY <1>1, <1>2, <2>1, MemorySub
<1>4. CASE ~Readable(heap[b])
  <2>1. pc' = "returned" /\ result'.tag \in {"Memory", "Codec"} /\ abandoned'
    BY <1>4 DEF Sub, GiveUp, Fail, Leave, Outcome
  <2>2. held' = None /\ leaked' = leaked \cup {b}
    BY <1>1, <1>4 DEF Sub
  <2> QED
    BY <1>1, <1>2, <2>1, <2>2, MemorySub
<1> QED
  BY <1>3, <1>4

\* An error of sub ends the call, with or without the message.
LEMMA SubFailsSteps ==
    ASSUME TypeOK, OwnInv, SubFails
    PROVE  /\ OwnInv' /\ UNCHANGED <<Requests>>
           /\ \/ UNCHANGED Replies
              \/ Replies # <<>> /\ Replies' = Tail(Replies)
           /\ pc = "receive" /\ pc' = "returned" /\ result' = Outcome("Queue", 0) /\ abandoned'
           /\ UNCHANGED <<segment, heap, toServer, input_queue, server, call, draft, calls, drawn>>
<1>1. /\ pc = "receive" /\ held = None /\ held' = None
      /\ UNCHANGED <<heap, toServer>>
      /\ pc' = "returned" /\ result' = Outcome("Queue", 0) /\ abandoned'
      /\ UNCHANGED <<segment, heap, toServer, input_queue, server, call, draft, calls, drawn>>
  BY DEF SubFails, TypeOK, GiveUp, Fail, Leave
<1>2. CASE UNCHANGED <<toClient, leaked>>
  BY <1>1, <1>2, MemoryKept DEF memory
<1>3. CASE toClient # <<>> /\ leaked' = leaked \cup {Head(toClient)} /\ toClient' = Tail(toClient)
  BY <1>1, <1>3, MemorySub
<1> QED
  BY <1>1, <1>2, <1>3 DEF SubFails

\* The daemon's messages, as the client's queue gets them.
Says(b, t, m) ==
    /\ m \in Messages /\ m.type = t /\ Replies' = Append(Replies, m)
    /\ heap[b] = Free /\ heap' = [heap EXCEPT ![b] = m]

\* A step of the daemon that answers posts one message, of the kind it is asked
\* for.
LEMMA AnswerSteps ==
    ASSUME TypeOK, OwnInv, NEW b \in Buffers,
           AnswerCreate(b) \/ AnswerDelete(b) \/ AnswerRequest(b) \/ Ping(b)
    PROVE  /\ OwnInv' /\ UNCHANGED <<Requests, Received>>
           /\ AnswerCreate(b) => \E m : Says(b, "CreateV2Reply", m) /\ m.method = None /\ (registered' <=> m.ok)
           /\ AnswerDelete(b) => \E m : Says(b, "DeleteReply", m) /\ m.method = None /\ (registered' <=> ~m.ok)
           /\ AnswerRequest(b) =>
                \E m : /\ Says(b, "Reply", m) /\ m.method = serving.method
                       /\ m.context = serving.context /\ m.number = serving.number
           /\ Ping(b) => \E m : Says(b, "Keepalive", m)
<1> USE DEF Says
<1>a. UNCHANGED <<toServer, held, leaked>>
  BY DEF AnswerCreate, AnswerDelete, AnswerRequest, Ping, ghosts
<1>b. {"CreateV2Reply", "DeleteReply", "Reply", "Keepalive"} \subseteq Types
  BY DEF Types
<1>1. ASSUME NEW m \in Messages, Post(b, m)
      PROVE  /\ OwnInv' /\ Replies' = Append(Replies, m) /\ UNCHANGED <<Requests, Received>>
             /\ heap[b] = Free /\ heap' = [heap EXCEPT ![b] = m]
  BY <1>a, <1>1, MemoryPost DEF Post
<1>2. ASSUME AnswerCreate(b)
      PROVE  /\ OwnInv' /\ UNCHANGED <<Requests, Received>>
             /\ \E m : Says(b, "CreateV2Reply", m) /\ m.method = None /\ (registered' <=> m.ok)
  <2>1. PICK ok \in BOOLEAN, f \in Flaws :
          Post(b, Posted("CreateV2Reply", None, 0, 0, ok, f)) /\ registered' = ok
    BY <1>2 DEF AnswerCreate
  <2> DEFINE m == Posted("CreateV2Reply", None, 0, 0, ok, f)
  <2>2. m \in Messages /\ m.type = "CreateV2Reply" /\ m.method = None /\ m.ok = ok
    BY <1>b, PostedIs, ZeroContext
  <2> HIDE DEF m
  <2>3. /\ OwnInv' /\ Replies' = Append(Replies, m) /\ UNCHANGED <<Requests, Received>>
        /\ heap[b] = Free /\ heap' = [heap EXCEPT ![b] = m]
    BY <1>1, <2>1, <2>2 DEF m
  <2>4. registered' <=> m.ok
    BY <2>1, <2>2, Zenon
  <2> QED
    BY <2>2, <2>3, <2>4, Zenon
<1>3. ASSUME AnswerDelete(b)
      PROVE  /\ OwnInv' /\ UNCHANGED <<Requests, Received>>
             /\ \E m : Says(b, "DeleteReply", m) /\ m.method = None /\ (registered' <=> ~m.ok)
  <2>1. PICK ok \in BOOLEAN, f \in Flaws :
          Post(b, Posted("DeleteReply", None, 0, 0, ok, f)) /\ (registered' <=> ~ok)
    BY <1>3, Zenon DEF AnswerDelete
  <2> DEFINE m == Posted("DeleteReply", None, 0, 0, ok, f)
  <2>2. m \in Messages /\ m.type = "DeleteReply" /\ m.method = None /\ m.ok = ok
    BY <1>b, PostedIs, ZeroContext
  <2> HIDE DEF m
  <2>3. /\ OwnInv' /\ Replies' = Append(Replies, m) /\ UNCHANGED <<Requests, Received>>
        /\ heap[b] = Free /\ heap' = [heap EXCEPT ![b] = m]
    BY <1>1, <2>1, <2>2 DEF m
  <2>4. registered' <=> ~m.ok
    BY <2>1, <2>2, Zenon
  <2> QED
    BY <2>2, <2>3, <2>4, Zenon
<1>4. ASSUME AnswerRequest(b)
      PROVE  /\ OwnInv' /\ UNCHANGED <<Requests, Received>>
             /\ \E m : /\ Says(b, "Reply", m) /\ m.method = serving.method
                       /\ m.context = serving.context /\ m.number = serving.number
  <2>1. PICK f \in Flaws :
          Post(b, Posted("Reply", serving.method, serving.context, serving.number, TRUE, f))
    BY <1>4 DEF AnswerRequest
  <2>2. serving.method \in Methods \cup {None} /\ serving.context \in 0 .. ContextModulus - 1
        /\ serving.number \in 0 .. MaxCalls
    BY <1>4 DEF AnswerRequest, TypeOK, Messages
  <2> DEFINE m(ok) == Posted("Reply", serving.method, serving.context, serving.number, ok, f)
  <2>3. \A ok \in BOOLEAN : /\ m(ok) \in Messages /\ m(ok).type = "Reply"
                            /\ m(ok).method = serving.method
                            /\ m(ok).context = serving.context /\ m(ok).number = serving.number
    BY <1>b, <2>2, PostedIs
  <2> HIDE DEF m
  <2>4. Post(b, m(TRUE))
    BY <2>1 DEF m
  <2>5. PICK n : n = m(TRUE)
    OBVIOUS
  <2>6. /\ n \in Messages /\ n.type = "Reply" /\ n.method = serving.method
        /\ n.context = serving.context /\ n.number = serving.number /\ Post(b, n)
    BY <2>3, <2>4, <2>5, Zenon
  <2>7. /\ OwnInv' /\ Replies' = Append(Replies, n) /\ UNCHANGED <<Requests, Received>>
        /\ heap[b] = Free /\ heap' = [heap EXCEPT ![b] = n]
    BY <1>1, <2>6
  <2> QED
    BY <2>6, <2>7, Zenon
<1>5. ASSUME Ping(b)
      PROVE  /\ OwnInv' /\ UNCHANGED <<Requests, Received>>
             /\ \E m : Says(b, "Keepalive", m)
  <2>1. PICK f \in Flaws : Post(b, Posted("Keepalive", None, 0, 0, TRUE, f))
    BY <1>5 DEF Ping
  <2> DEFINE m(ok) == Posted("Keepalive", None, 0, 0, ok, f)
  <2>2. \A ok \in BOOLEAN : m(ok) \in Messages /\ m(ok).type = "Keepalive"
    BY <1>b, PostedIs, ZeroContext
  <2> HIDE DEF m
  <2>3. Post(b, m(TRUE))
    BY <2>1 DEF m
  <2>4. PICK n : n = m(TRUE)
    OBVIOUS
  <2>5. n \in Messages /\ n.type = "Keepalive" /\ Post(b, n)
    BY <2>2, <2>3, <2>4, Zenon
  <2>6. /\ OwnInv' /\ Replies' = Append(Replies, n) /\ UNCHANGED <<Requests, Received>>
        /\ heap[b] = Free /\ heap' = [heap EXCEPT ![b] = n]
    BY <1>1, <2>5
  <2> QED
    BY <2>5, <2>6, Zenon
<1>6. OwnInv' /\ UNCHANGED <<Requests, Received>>
  BY <1>2, <1>3, <1>4, <1>5, Zenon
<1> HIDE DEF Says
<1> QED
  BY <1>2, <1>3, <1>4, <1>5, <1>6, Zenon

\* Every step is of one of these kinds.
Steps ==
    \/ Quiet \/ Take
    \/ \E b \in Buffers : AnswerCreate(b) \/ AnswerDelete(b) \/ AnswerRequest(b) \/ Ping(b)
    \/ \E b \in Buffers, o \in Added \cup Refused : Send(b, o)
    \/ Sub \/ SubFails
    \/ \E m : React(m)

\* Every step is of one of the kinds above.
LEMMA NextSteps == Next => Steps
  BY DEF Next, Daemon, Progress, Steps, Quiet, React

\* Every step keeps one owner per buffer.
LEMMA OwnStep == TypeOK /\ OwnInv /\ [Next]_vars => OwnInv'
<1> SUFFICES ASSUME TypeOK, OwnInv, [Next]_vars PROVE OwnInv'
  OBVIOUS
<1>1. CASE UNCHANGED vars
  <2>1. UNCHANGED memory
    BY <1>1 DEF vars, memory, shared, ghosts
  <2> QED
    BY <2>1, MemoryKept
<1>2. CASE Steps
  BY <1>2, QuietSteps, MemoryTake, AnswerSteps, SendSteps, SubSteps, SubFailsSteps, ReactSteps
  DEF Steps
<1> QED
  BY <1>1, <1>2, NextSteps

\* The invariant counts owners the way the property does.
LEMMA OwnersCounted == TypeOK /\ OwnInv => BufferOwnership
<1> SUFFICES ASSUME TypeOK, OwnInv, NEW b \in Buffers
             PROVE  Cardinality(Places(b)) = IF heap[b] = Free \/ b \in leaked THEN 0 ELSE 1
  BY DEF BufferOwnership
<1>a. \A x : x \in Places(b) <=>
        \/ \E i \in DOMAIN toServer : toServer[i] = b /\ x = <<"toServer", i>>
        \/ \E i \in DOMAIN toClient : toClient[i] = b /\ x = <<"toClient", i>>
        \/ held = b /\ x = <<"held", 1>>
  BY DEF Places
<1>1. CASE heap[b] = Free \/ b \in leaked
  <2>1. ~OnServer(b) /\ ~OnClient(b) /\ held # b
    BY <1>1 DEF OwnInv
  <2>2. Places(b) = {}
    BY <1>a, <2>1 DEF OnServer, OnClient
  <2> QED
    BY <1>1, <2>2, FS_EmptySet
<1>2. CASE ~(heap[b] = Free \/ b \in leaked)
  <2>1. \E x : Places(b) = {x}
    <3>1. CASE OnServer(b)
      <4>1. PICK i \in DOMAIN toServer : toServer[i] = b
        BY <3>1 DEF OnServer
      <4>2. ~OnClient(b) /\ held # b /\ \A j \in DOMAIN toServer : toServer[j] = b => j = i
        BY <3>1, <4>1 DEF OwnInv
      <4>3. \A x : x \in Places(b) <=> x = <<"toServer", i>>
        BY <1>a, <4>1, <4>2, Zenon DEF OnClient
      <4>4. Places(b) = {<<"toServer", i>>}
        BY <4>3
      <4> QED
        BY <4>4
    <3>2. CASE OnClient(b)
      <4>1. PICK i \in DOMAIN toClient : toClient[i] = b
        BY <3>2 DEF OnClient
      <4>2. ~OnServer(b) /\ held # b /\ \A j \in DOMAIN toClient : toClient[j] = b => j = i
        BY <3>2, <4>1 DEF OwnInv
      <4>3. \A x : x \in Places(b) <=> x = <<"toClient", i>>
        BY <1>a, <4>1, <4>2, Zenon DEF OnServer
      <4>4. Places(b) = {<<"toClient", i>>}
        BY <4>3
      <4> QED
        BY <4>4
    <3>3. CASE held = b
      <4>1. ~OnServer(b) /\ ~OnClient(b)
        BY <3>3 DEF OwnInv
      <4>2. \A x : x \in Places(b) <=> x = <<"held", 1>>
        BY <1>a, <3>3, <4>1, Zenon DEF OnServer, OnClient
      <4>4. Places(b) = {<<"held", 1>>}
        BY <4>2
      <4> QED
        BY <4>4
    <3> QED
      BY <1>2, <3>1, <3>2, <3>3 DEF OwnInv
  <2> QED
    BY <1>2, <2>1, FS_Singleton
<1> QED
  BY <1>1, <1>2

-----------------------------------------------------------------------------
(* From phase to phase *)

\* No message is on its way to the daemon, or none to the client.
LEMMA NothingSent ==
    ASSUME TypeOK, OwnInv
    PROVE  (Requests = <<>> <=> toServer = <<>>) /\ (Replies = <<>> <=> toClient = <<>>)
<1>1. /\ Requests \in Seq(Messages) /\ Len(Requests) = Len(toServer)
      /\ Replies \in Seq(Messages) /\ Len(Replies) = Len(toClient)
      /\ toServer \in Seq(Buffers) /\ toClient \in Seq(Buffers)
  BY ViewTypes DEF TypeOK
<1> QED
  BY <1>1

\* A connect that has shared nothing goes on to ask, or ends there,
LEMMA StartingStep == TypeOK /\ OwnInv /\ Starting /\ Next => (Starting \/ Asking)'
<1> SUFFICES ASSUME TypeOK, OwnInv, Starting, Next PROVE (Starting \/ Asking)'
  OBVIOUS
<1>1. toServer = <<>> /\ serving = None /\ ~registered /\ pc \notin {"send", "receive", "message", "idle"}
  BY NothingSent DEF Starting
<1>2. Quiet
  BY <1>1, NextSteps DEF Steps, Take, AnswerCreate, AnswerDelete, AnswerRequest, Ping, Send, Sub,
    SubFails, React, Keepalive, Foreign, Undecodable, CreateReply, Reply, DeleteReply, Consume
<1>3. UNCHANGED <<Requests, Replies, Received>>
  BY <1>2, QuietSteps
<1>4. UNCHANGED <<serving, registered, connected>>
  BY <1>1, <1>2 DEF Quiet, GrowSegment, Ignore, Connect, Attach, FindHeader, AllocateClientQueue,
         Disconnect, SendUnallocated, SubEmpty, Wake, Cancel, DeadlinePasses, Return, DropClient,
         Invoke, server, call
<1>5. CASE AllocateClientQueue /\ input_queue' = "live"
  <2>1. pc' = "send" /\ draft' = Message("CreateV2", None, 0, 0) /\ UNCHANGED op
    BY <1>5 DEF AllocateClientQueue, Fail, Leave, call, Starting
  <2>2. draft'.type = "CreateV2"
    BY <2>1, MessageIs, ZeroContext DEF Types
  <2> QED
    BY <1>3, <1>4, <1>5, <2>1, <2>2 DEF Starting, Asking, ConnectFailed
<1>6. CASE ~(AllocateClientQueue /\ input_queue' = "live")
  <2>a. \/ GrowSegment \/ Connect \/ Attach \/ FindHeader \/ AllocateClientQueue
        \/ Wake \/ Cancel \/ DeadlinePasses \/ Return
    BY <1>1, <1>2 DEF Quiet, Ignore, Disconnect, SendUnallocated, SubEmpty, DropClient, Invoke
  <2> USE DEF Starting, ConnectFailed, Fail, GiveUp, Leave, Outcome, shared, call
  <2>1. op' = "connect" /\ UNCHANGED input_queue
    BY <1>6, <2>a DEF GrowSegment, Connect, Attach, FindHeader, AllocateClientQueue, Wake, Cancel,
                    DeadlinePasses, Return
  <2>2. pc' \in {"new", "attach", "context", "allocate", "returned", "dropped"}
    BY <1>6, <2>a DEF GrowSegment, Connect, Attach, FindHeader, AllocateClientQueue, Wake, Cancel,
                    DeadlinePasses, Return
  <2>3. ConnectFailed'
    BY <1>6, <2>a DEF GrowSegment, Connect, Attach, FindHeader, AllocateClientQueue, Wake, Cancel,
                    DeadlinePasses, Return
  <2> QED
    BY <1>3, <1>4, <2>1, <2>2, <2>3
<1> QED
  BY <1>5, <1>6

\* What goes on without a message while connect waits, or after it failed.
LEMMA ConnectWaits ==
    ASSUME OwnInv, Quiet, op = "connect", pc \in {"receive", "returned", "dropped"}, ConnectFailed
    PROVE  /\ UNCHANGED <<Requests, Replies, Received, op, connected, registered, input_queue>>
           /\ pc' \in {pc, "returned", "dropped"} /\ ConnectFailed'
           /\ serving = None \/ serving.type = "CreateV2" => UNCHANGED serving
<1>1. \/ GrowSegment \/ Ignore \/ SubEmpty \/ Wake \/ Cancel \/ DeadlinePasses \/ Return
  BY DEF Quiet, Connect, Attach, FindHeader, AllocateClientQueue, Disconnect, SendUnallocated,
         DropClient, Invoke
<1> USE DEF shared, call, server, Fail, GiveUp, Leave, Outcome
<1>2. UNCHANGED <<op, connected, registered>>
  BY <1>1 DEF GrowSegment, Ignore, SubEmpty, TimedOut, Wake, Cancel, DeadlinePasses, Return
<1>a. UNCHANGED input_queue
  BY <1>1 DEF GrowSegment, Ignore, SubEmpty, TimedOut, Wake, Cancel, DeadlinePasses, Return
<1>3. pc' \in {pc, "returned", "dropped"}
  BY <1>1 DEF GrowSegment, Ignore, SubEmpty, TimedOut, Wake, Cancel, DeadlinePasses, Return,
              ConnectFailed
<1>4. ConnectFailed'
  BY <1>1 DEF GrowSegment, Ignore, SubEmpty, TimedOut, Wake, Cancel, DeadlinePasses, Return,
              ConnectFailed
<1>5. serving = None \/ serving.type = "CreateV2" => UNCHANGED serving
  BY <1>1 DEF GrowSegment, Ignore, SubEmpty, TimedOut, Wake, Cancel, DeadlinePasses, Return
<1> QED
  BY <1>2, <1>a, <1>3, <1>4, <1>5, QuietSteps

\* one that has asked waits, is answered or fails,
LEMMA AskingStep == TypeOK /\ SleepInv /\ OwnInv /\ Asking /\ Next => (Asking \/ Answered \/ Failed)'
<1> SUFFICES ASSUME TypeOK, SleepInv, OwnInv, Asking, Next PROVE (Asking \/ Answered \/ Failed)'
  OBVIOUS
<1>0. /\ op = "connect" /\ ~connected /\ ~registered /\ input_queue = "live" /\ Replies = <<>>
      /\ toClient = <<>> /\ pc \in {"send", "receive", "returned", "dropped"} /\ ConnectFailed
  BY NothingSent DEF Asking
<1>a. ~Sub /\ \A m : ~React(m)
  BY <1>0 DEF Sub, React, Keepalive, Foreign, Undecodable, CreateReply, Reply, DeleteReply, Consume
<1>b. \A b \in Buffers : ~AnswerDelete(b) /\ ~AnswerRequest(b) /\ ~Ping(b)
  BY <1>0 DEF AnswerDelete, AnswerRequest, Ping
<1>1. CASE pc = "send" /\ draft.type = "CreateV2" /\ Requests = <<>> /\ serving = None
  <2>a. ~asleep /\ toServer = <<>>
    BY <1>1, NothingSent DEF SleepInv
  <2>1. GrowSegment \/ DeadlinePasses \/ SendUnallocated
        \/ \E b \in Buffers, o \in Added \cup Refused : Send(b, o)
    BY <1>1, <1>a, <1>b, <2>a, NextSteps DEF Steps, Quiet, Take, AnswerCreate, Ignore, Connect,
      Attach, FindHeader, AllocateClientQueue, Disconnect, SubEmpty, Wake, Cancel, Return,
      DropClient, Invoke, SubFails
  <2>2. CASE GrowSegment \/ DeadlinePasses
    <3>1. UNCHANGED <<Requests, Replies, Received>>
      BY <2>2, QuietSteps DEF Quiet
    <3>2. UNCHANGED <<op, connected, registered, input_queue, pc, draft, serving, result>>
      BY <2>2 DEF GrowSegment, DeadlinePasses, call, server, shared
    <3> QED
      BY <1>0, <1>1, <3>1, <3>2 DEF Asking, ConnectFailed
  <2>3. CASE SendUnallocated
    <3>1. UNCHANGED <<Requests, Replies, Received>>
      BY <2>3, QuietSteps DEF Quiet
    <3>2. /\ UNCHANGED <<op, connected, registered, input_queue, serving>>
          /\ pc' = "returned" /\ result'.tag = "Memory"
      BY <2>3 DEF SendUnallocated, call, server, shared, GiveUp, Fail, Leave, Outcome
    <3> QED
      BY <1>0, <1>1, <3>1, <3>2 DEF Failed, ConnectFailed
  <2>4. ASSUME NEW b \in Buffers, NEW o \in Added \cup Refused, Send(b, o)
        PROVE  (Asking \/ Failed)'
    <3>1. /\ UNCHANGED <<Replies, op, connected, registered, input_queue, serving>>
          /\ draft \in Messages
      BY <2>4, SendSteps DEF server, call
    <3>2. CASE pc' = "receive" /\ Requests' = Append(Requests, draft)
      <4>1. Len(Requests') = 1 /\ Requests'[1] = draft
        BY <1>1, <3>1, <3>2
      <4> QED
        BY <1>0, <1>1, <3>1, <3>2, <4>1 DEF Asking, ConnectFailed
    <3>3. CASE pc' = "returned" /\ result' = Outcome("Queue", 0) /\ UNCHANGED Requests
      <4>1. result'.tag # "Ok"
        BY <3>3 DEF Outcome
      <4> QED
        BY <1>0, <1>1, <3>1, <3>3, <4>1 DEF Failed, ConnectFailed
    <3> QED
      BY <2>4, <3>2, <3>3, SendSteps
  <2> QED
    BY <2>1, <2>2, <2>3, <2>4
<1>2. CASE pc # "send"
  <2>0. /\ ~\E b \in Buffers, o \in Added \cup Refused : Send(b, o)
        /\ serving = None \/ serving.type = "CreateV2"
    BY <1>2 DEF Send, Asking
  <2>1. CASE Quiet
    <3>1. /\ UNCHANGED <<Requests, Replies, op, connected, registered, input_queue, serving>>
          /\ pc' \in {pc, "returned", "dropped"} /\ ConnectFailed'
      BY <1>0, <1>2, <2>0, <2>1, ConnectWaits
    <3> QED
      BY <1>0, <1>2, <3>1 DEF Asking
  <2>2. CASE Take
    <3>1. /\ Requests # <<>> /\ serving' = Requests[1] /\ Requests' = Tail(Requests)
          /\ UNCHANGED <<Replies, op, connected, registered, input_queue, pc, result>>
      BY <2>2, MemoryTake DEF Take, call
    <3>2. Len(Requests) = 1 /\ Requests[1].type = "CreateV2" /\ Requests \in Seq(Messages)
      BY <1>2, <3>1, ViewTypes DEF Asking
    <3>3. Requests' = <<>> /\ serving' # None /\ serving'.type = "CreateV2"
      BY <3>1, <3>2, ValuesAssumption
    <3> QED
      BY <1>0, <1>2, <3>1, <3>3 DEF Asking, ConnectFailed
  <2>3. ASSUME NEW b \in Buffers, AnswerCreate(b) PROVE Answered'
    <3>1. PICK m : Says(b, "CreateV2Reply", m) /\ m.method = None /\ (registered' <=> m.ok)
      BY <2>3, AnswerSteps
    <3>2. Requests = <<>> /\ UNCHANGED Requests /\ serving' = None
          /\ UNCHANGED <<op, connected, input_queue, pc, result>>
      BY <1>2, <2>3, AnswerSteps DEF AnswerCreate, call, Asking
    <3>3. Replies' # <<>> /\ Len(Replies') = 1 /\ Replies'[1] = m
          /\ \A i \in DOMAIN Replies' : ~(i > 1)
      <4>1. m \in Messages /\ Replies' = Append(<<>>, m)
        BY <1>0, <3>1 DEF Says
      <4> QED
        BY <4>1
    <3> QED
      BY <1>0, <1>2, <3>1, <3>2, <3>3 DEF Answered, ConnectFailed, Says
  <2>4. CASE SubFails
    <3>1. /\ UNCHANGED <<Requests, Replies, op, connected, registered, input_queue, serving>>
          /\ pc' = "returned" /\ result' = Outcome("Queue", 0)
      BY <1>0, <2>4, SubFailsSteps DEF server, call
    <3>2. ConnectFailed'
      BY <3>1 DEF ConnectFailed, Outcome
    <3> QED
      BY <1>0, <1>2, <3>1, <3>2 DEF Asking
  <2> QED
    BY <1>a, <1>b, <2>0, <2>1, <2>2, <2>3, <2>4, NextSteps DEF Steps
<1> QED
  BY <1>1, <1>2 DEF Asking

\* one whose answer is in the queue takes it or fails,
LEMMA AnsweredStep == TypeOK /\ OwnInv /\ Answered /\ Next => (Answered \/ Answering \/ Failed)'
<1> SUFFICES ASSUME TypeOK, OwnInv, Answered, Next PROVE (Answered \/ Answering \/ Failed)'
  OBVIOUS
<1>0. /\ op = "connect" /\ ~connected /\ input_queue = "live" /\ Requests = <<>> /\ serving = None
      /\ toServer = <<>> /\ pc \in {"receive", "returned", "dropped"} /\ ConnectFailed
      /\ Replies # <<>> /\ Replies \in Seq(Messages)
      /\ DOMAIN Replies = 1 .. Len(Replies) /\ Len(Replies) \in Nat /\ Len(Replies) > 0
  BY NothingSent, ViewTypes, Ends DEF Answered
<1>a. ~Take /\ \A m : ~React(m)
  BY <1>0 DEF Take, React, Keepalive, Foreign, Undecodable, CreateReply, Reply, DeleteReply, Consume
<1>b. \A b \in Buffers : ~AnswerCreate(b) /\ ~AnswerDelete(b) /\ ~AnswerRequest(b)
  BY <1>0 DEF AnswerCreate, AnswerDelete, AnswerRequest
<1>c. ~\E b \in Buffers, o \in Added \cup Refused : Send(b, o)
  BY <1>0 DEF Send
\* Without the reply, only keepalives are left.
<1>d. ASSUME Replies' = Tail(Replies)
      PROVE  /\ \A i \in DOMAIN Replies' : Replies'[i].type = "Keepalive"
             /\ ~registered => Replies' = <<>>
  <2>1. /\ Tail(Replies) \in Seq(Messages) /\ Len(Tail(Replies)) = Len(Replies) - 1
        /\ \A i \in DOMAIN Tail(Replies) :
             i + 1 \in DOMAIN Replies /\ Tail(Replies)[i] = Replies[i + 1] /\ i + 1 > 1
    BY <1>0, Ends
  <2>2. \A i \in DOMAIN Tail(Replies) : Tail(Replies)[i].type = "Keepalive"
    BY <2>1 DEF Answered
  <2>3. ~registered => Tail(Replies) = <<>>
    BY <2>1 DEF Answered
  <2> QED
    BY <1>d, <2>2, <2>3
<1>1. CASE Quiet
  <2>1. /\ UNCHANGED <<Requests, Replies, op, connected, registered, input_queue, serving>>
        /\ pc' \in {pc, "returned", "dropped"} /\ ConnectFailed'
    BY <1>0, <1>1, ConnectWaits
  <2> QED
    BY <1>0, <2>1 DEF Answered
<1>2. ASSUME NEW b \in Buffers, Ping(b) PROVE Answered'
  <2>1. PICK m : Says(b, "Keepalive", m)
    BY <1>2, AnswerSteps
  <2>2. registered /\ UNCHANGED <<Requests, serving, op, connected, registered, input_queue, pc, result>>
    BY <1>2, AnswerSteps DEF Ping, call
  <2>3. /\ Replies' # <<>> /\ Replies'[1] = Replies[1]
        /\ \A i \in DOMAIN Replies' : i > 1 => Replies'[i].type = "Keepalive"
    <3>1. /\ DOMAIN Replies' = DOMAIN Replies \cup {Len(Replies) + 1}
          /\ \A i \in DOMAIN Replies : Replies'[i] = Replies[i]
          /\ Replies'[Len(Replies) + 1] = m /\ m.type = "Keepalive"
      BY <1>0, <2>1, Ends DEF Says
    <3>2. Replies' # <<>>
      BY <1>0, <2>1, Ends DEF Says
    <3> QED
      BY <1>0, <3>1, <3>2 DEF Answered
  <2> QED
    BY <1>0, <2>2, <2>3 DEF Answered, ConnectFailed
<1>3. CASE Sub
  <2>1. /\ Replies' = Tail(Replies)
        /\ UNCHANGED <<Requests, serving, op, connected, registered, input_queue>>
    BY <1>3, SubSteps DEF server, call
  <2>2. CASE pc' = "message" /\ Received' = Replies[1]
    BY <1>0, <1>d, <2>1, <2>2 DEF Answered, Answering
  <2>3. CASE pc' = "returned" /\ result'.tag \in {"Memory", "Codec"}
    <3>1. ConnectFailed'
      BY <2>3 DEF ConnectFailed
    <3> QED
      BY <1>0, <1>d, <2>1, <2>3, <3>1 DEF Failed
  <2> QED
    BY <1>3, <2>2, <2>3, SubSteps
<1>4. CASE SubFails
  <2>1. /\ UNCHANGED <<Requests, serving, op, connected, registered, input_queue>>
        /\ pc' = "returned" /\ result' = Outcome("Queue", 0)
    BY <1>4, SubFailsSteps DEF server, call
  <2>2. ConnectFailed'
    BY <2>1 DEF ConnectFailed, Outcome
  <2>3. CASE UNCHANGED Replies
    BY <1>0, <2>1, <2>2, <2>3 DEF Answered
  <2>4. CASE Replies' = Tail(Replies)
    BY <1>0, <1>d, <2>1, <2>2, <2>4 DEF Failed
  <2> QED
    BY <1>4, <2>3, <2>4, SubFailsSteps
<1> QED
  BY <1>a, <1>b, <1>c, <1>1, <1>2, <1>3, <1>4, NextSteps DEF Steps

\* and one that has taken it is in session or has failed.
LEMMA AnsweringStep ==
    TypeOK /\ SleepInv /\ OwnInv /\ Answering /\ Next => (Answering \/ Failed \/ InSession)'
<1> SUFFICES ASSUME TypeOK, SleepInv, OwnInv, Answering, Next
             PROVE  (Answering \/ Failed \/ InSession)'
  OBVIOUS
<1>0. /\ op = "connect" /\ ~connected /\ input_queue = "live" /\ Requests = <<>> /\ serving = None
      /\ toServer = <<>> /\ pc = "message" /\ ~asleep
      /\ Replies \in Seq(Messages)
      /\ DOMAIN Replies = 1 .. Len(Replies) /\ Len(Replies) \in Nat
      /\ Received.type = "CreateV2Reply" /\ Received.method = None
  BY NothingSent, ViewTypes, Ends DEF Answering, SleepInv
<1>a. ~Take /\ ~Sub /\ ~SubFails
  BY <1>0 DEF Take, Sub, SubFails
<1>b. \A b \in Buffers : ~AnswerCreate(b) /\ ~AnswerDelete(b) /\ ~AnswerRequest(b)
  BY <1>0 DEF AnswerCreate, AnswerDelete, AnswerRequest
<1>c. ~\E b \in Buffers, o \in Added \cup Refused : Send(b, o)
  BY <1>0 DEF Send
<1>1. CASE Quiet
  <2>1. GrowSegment \/ DeadlinePasses
    BY <1>0, <1>1 DEF Quiet, Ignore, Connect,
      Attach, FindHeader, AllocateClientQueue, Disconnect, SendUnallocated, SubEmpty, Wake, Cancel,
      Return, DropClient, Invoke
  <2>2. UNCHANGED <<op, connected, registered, input_queue, serving, pc>>
    BY <2>1 DEF GrowSegment, DeadlinePasses, call, server, shared
  <2> QED
    BY <1>1, <2>2, QuietSteps DEF Answering
<1>2. ASSUME NEW b \in Buffers, Ping(b) PROVE Answering'
  <2>1. PICK m : Says(b, "Keepalive", m)
    BY <1>2, AnswerSteps
  <2>2. registered
        /\ UNCHANGED <<Requests, Received, serving, op, connected, registered, input_queue, pc>>
    BY <1>2, AnswerSteps DEF Ping, call
  <2>3. \A i \in DOMAIN Replies' : Replies'[i].type = "Keepalive"
    <3>1. /\ DOMAIN Replies' = DOMAIN Replies \cup {Len(Replies) + 1}
          /\ \A i \in DOMAIN Replies : Replies'[i] = Replies[i]
          /\ Replies'[Len(Replies) + 1] = m /\ m.type = "Keepalive"
      BY <1>0, <2>1, Ends DEF Says
    <3> QED
      BY <3>1 DEF Answering
  <2> QED
    BY <2>2, <2>3 DEF Answering
<1>3. ASSUME NEW m, React(m) PROVE (Failed \/ InSession)'
  <2>1. /\ m = Received /\ UNCHANGED <<Requests, Replies, registered, serving, op>>
    BY <1>3, ReactSteps DEF server
  <2>2. Id(m) = Expected /\ ~IsKeepalive(m)
    BY <1>0, <2>1 DEF Id, Expected, IsKeepalive
  <2>3. Undecodable(m) \/ CreateReply(m)
    BY <1>0, <1>3, <2>2 DEF React, Keepalive, Foreign, Reply, DeleteReply
  <2>4. CASE Undecodable(m)
    <3>1. /\ UNCHANGED <<input_queue, connected>> /\ pc' = "returned" /\ ConnectFailed'
      BY <2>4 DEF Undecodable, Fail, Leave, Outcome, ConnectFailed
    <3> QED
      BY <1>0, <2>1, <3>1 DEF Answering, Failed
  <2>5. CASE CreateReply(m) /\ ~m.ok
    <3>1. input_queue' = "freed" /\ ~connected' /\ pc' = "returned" /\ ConnectFailed'
      BY <1>0, <2>5 DEF CreateReply, ReleaseQueue, Fail, Leave, Outcome, ConnectFailed
    <3>2. Replies = <<>> /\ ~registered
      BY <2>1, <2>5 DEF Answering
    <3> QED
      BY <1>0, <2>1, <3>1, <3>2 DEF Answering, Failed
  <2>6. CASE CreateReply(m) /\ m.ok /\ m.flaw = "table"
    <3>1. /\ UNCHANGED <<input_queue, connected>> /\ pc' = "returned" /\ ConnectFailed'
      BY <2>6 DEF CreateReply, Fail, Leave, Outcome, ConnectFailed
    <3> QED
      BY <1>0, <2>1, <3>1 DEF Answering, Failed
  <2>7. CASE CreateReply(m) /\ m.ok /\ m.flaw # "table"
    <3>1. UNCHANGED input_queue /\ connected' /\ pc' = "returned" /\ result'.tag = "Ok"
      BY <2>7 DEF CreateReply, Leave, Outcome
    <3>2. SessionRequests'
      BY <1>0, <2>1 DEF SessionRequests
    <3>3. \A i \in DOMAIN Replies' : Replies'[i].type = "Keepalive"
      BY <2>1 DEF Answering
    <3> QED
      BY <1>0, <2>1, <3>1, <3>2, <3>3 DEF InSession, ReplyTypes
  <2> QED
    BY <2>3, <2>4, <2>5, <2>6, <2>7
<1> QED
  BY <1>a, <1>b, <1>c, <1>1, <1>2, <1>3, NextSteps DEF Steps

\* A connect that has failed stays so.
LEMMA FailedStep == TypeOK /\ OwnInv /\ Failed /\ Next => Failed'
<1> SUFFICES ASSUME TypeOK, OwnInv, Failed, Next PROVE Failed'
  OBVIOUS
<1>0. /\ op = "connect" /\ Requests = <<>> /\ serving = None
      /\ toServer = <<>> /\ pc \in {"returned", "dropped"} /\ ConnectFailed
      /\ Replies \in Seq(Messages)
  BY NothingSent, ViewTypes DEF Failed
<1>a. ~Take /\ ~Sub /\ ~SubFails /\ \A m : ~React(m)
  BY <1>0 DEF Take, Sub, SubFails, React, Keepalive, Foreign, Undecodable, CreateReply, Reply,
              DeleteReply, Consume
<1>b. \A b \in Buffers : ~AnswerCreate(b) /\ ~AnswerDelete(b) /\ ~AnswerRequest(b)
  BY <1>0 DEF AnswerCreate, AnswerDelete, AnswerRequest
<1>c. ~\E b \in Buffers, o \in Added \cup Refused : Send(b, o)
  BY <1>0 DEF Send
<1>1. CASE Quiet
  <2>1. /\ UNCHANGED <<Requests, Replies, op, connected, registered, input_queue, serving>>
        /\ pc' \in {pc, "returned", "dropped"} /\ ConnectFailed'
    BY <1>0, <1>1, ConnectWaits
  <2> QED
    BY <1>0, <2>1 DEF Failed
<1>2. ASSUME NEW b \in Buffers, Ping(b) PROVE Failed'
  <2>1. PICK m : Says(b, "Keepalive", m)
    BY <1>2, AnswerSteps
  <2>2. registered
        /\ UNCHANGED <<Requests, serving, op, connected, registered, input_queue, pc, result>>
    BY <1>2, AnswerSteps DEF Ping, call
  <2>3. \A i \in DOMAIN Replies' : Replies'[i].type = "Keepalive"
    <3>1. /\ DOMAIN Replies' = DOMAIN Replies \cup {Len(Replies) + 1}
          /\ \A i \in DOMAIN Replies : Replies'[i] = Replies[i]
          /\ Replies'[Len(Replies) + 1] = m /\ m.type = "Keepalive"
      BY <1>0, <2>1, Ends DEF Says
    <3> QED
      BY <3>1 DEF Failed
  <2> QED
    BY <2>2, <2>3 DEF Failed, ConnectFailed
<1> QED
  BY <1>a, <1>b, <1>c, <1>1, <1>2, NextSteps DEF Steps

\* A closed session stays closed.
LEMMA ClosedStep == TypeOK /\ SleepInv /\ OwnInv /\ Closed /\ Next => Closed'
<1> SUFFICES ASSUME TypeOK, SleepInv, OwnInv, Closed, Next PROVE Closed'
  OBVIOUS
<1>0. /\ op # "connect" /\ ~connected /\ ~registered /\ ~asleep
      /\ pc \in {"idle", "returned", "dropped"} /\ Requests \in Seq(Messages)
  BY ViewTypes DEF Closed, SleepInv
<1>a. ~Sub /\ ~SubFails /\ \A m : ~React(m)
  BY <1>0 DEF Sub, SubFails, React, Keepalive, Foreign, Undecodable, CreateReply, Reply,
              DeleteReply, Consume
<1>b. \A b \in Buffers : ~AnswerCreate(b) /\ ~AnswerDelete(b) /\ ~AnswerRequest(b) /\ ~Ping(b)
  BY <1>0 DEF AnswerCreate, AnswerDelete, AnswerRequest, Ping, Closed, SessionRequests, RequestTypes
<1>c. ~\E b \in Buffers, o \in Added \cup Refused : Send(b, o)
  BY <1>0 DEF Send
<1>1. CASE Quiet
  <2>1. UNCHANGED <<Requests, Replies>>
    BY <1>1, QuietSteps
  <2>2. \/ GrowSegment \/ Ignore \/ Disconnect \/ Return \/ DropClient
        \/ \E m \in Methods : Invoke(m)
    BY <1>0, <1>1 DEF Quiet, Connect, Attach, FindHeader, AllocateClientQueue, SendUnallocated,
                      SubEmpty, Wake, Cancel, DeadlinePasses
  <2>3. /\ UNCHANGED <<connected, registered, input_queue>> /\ op' # "connect"
        /\ serving' \in {serving, None}
    BY <1>0, <2>2 DEF GrowSegment, Ignore, Disconnect, Return, DropClient, Invoke, server, shared,
                      call
  <2>4. pc' \in {"idle", "returned", "dropped"}
    BY <1>0, <2>2 DEF GrowSegment, Ignore, Disconnect, Return, DropClient, Invoke, Fail, Leave
  <2> QED
    BY <1>0, <2>1, <2>3, <2>4 DEF Closed, SessionRequests
<1>2. CASE Take
  <2>1. /\ serving' = Requests[1] /\ Requests # <<>> /\ Requests' = Tail(Requests)
        /\ UNCHANGED <<Replies, op, connected, registered, input_queue, pc>>
    BY <1>2, MemoryTake DEF Take, call
  <2>2. SessionRequests'
    <3>1. 1 \in DOMAIN Requests /\ \A i \in DOMAIN Tail(Requests) :
             i + 1 \in DOMAIN Requests /\ Tail(Requests)[i] = Requests[i + 1]
      BY <1>0, <2>1, Ends
    <3> QED
      BY <2>1, <3>1 DEF Closed, SessionRequests
  <2> QED
    BY <2>1, <2>2 DEF Closed
<1> QED
  BY <1>a, <1>b, <1>c, <1>1, <1>2, NextSteps DEF Steps

\* A part of InSession: the replies that may be on the client's queue.
SessionReplies ==
    \A i \in DOMAIN Replies :
        /\ Replies[i].type \in ReplyTypes
        /\ Replies[i].type = "DeleteReply" /\ Replies[i].ok => i = Len(Replies) /\ ~registered

\* The daemon adds to them only while the client is registered, so nothing follows the
\* reply that ended the registration.
LEMMA RepliesGrow ==
    ASSUME TypeOK, OwnInv, SessionReplies, registered, NEW m \in Messages, m.type \in ReplyTypes,
           m.type = "DeleteReply" /\ m.ok => ~registered', Replies' = Append(Replies, m)
    PROVE  SessionReplies'
<1>1. /\ Replies \in Seq(Messages) /\ DOMAIN Replies = 1 .. Len(Replies) /\ Len(Replies) \in Nat
      /\ DOMAIN Replies' = DOMAIN Replies \cup {Len(Replies) + 1}
      /\ Len(Replies') = Len(Replies) + 1
      /\ \A i \in DOMAIN Replies : Replies'[i] = Replies[i]
      /\ Replies'[Len(Replies) + 1] = m
  BY ViewTypes, Ends
<1> QED
  BY <1>1 DEF SessionReplies

\* The first reply is taken.
LEMMA RepliesShrink ==
    ASSUME TypeOK, OwnInv, SessionReplies, Replies # <<>>, Replies' = Tail(Replies),
           UNCHANGED registered
    PROVE  /\ SessionReplies' /\ Replies[1].type \in ReplyTypes
           /\ Replies[1].type = "DeleteReply" /\ Replies[1].ok => Replies' = <<>> /\ ~registered
<1>1. /\ Replies \in Seq(Messages) /\ DOMAIN Replies = 1 .. Len(Replies) /\ Len(Replies) \in Nat
      /\ 1 \in DOMAIN Replies /\ Tail(Replies) \in Seq(Messages)
      /\ Len(Tail(Replies)) = Len(Replies) - 1
      /\ DOMAIN Tail(Replies) = 1 .. Len(Tail(Replies))
      /\ \A i \in DOMAIN Tail(Replies) :
            i + 1 \in DOMAIN Replies /\ Tail(Replies)[i] = Replies[i + 1]
  BY ViewTypes, Ends
<1>2. SessionReplies'
  BY <1>1 DEF SessionReplies
<1>3. Len(Replies) = 1 => Tail(Replies) = <<>>
  BY <1>1
<1> QED
  BY <1>1, <1>2, <1>3 DEF SessionReplies

\* A session goes on until it is closed.
LEMMA InSessionStep == TypeOK /\ SleepInv /\ OwnInv /\ InSession /\ Next => (InSession \/ Closed)'
<1> SUFFICES ASSUME TypeOK, SleepInv, OwnInv, InSession, Next PROVE (InSession \/ Closed)'
  OBVIOUS
<1>0. /\ connected /\ input_queue = "live"
      /\ pc \in {"send", "receive", "message", "idle", "returned", "dropped"}
      /\ op = "connect" => pc \in {"idle", "returned", "dropped"}
      /\ op = "connect" /\ pc = "returned" => result.tag = "Ok"
      /\ SessionRequests /\ SessionReplies /\ Requests \in Seq(Messages)
  BY ViewTypes DEF InSession, SessionReplies
<1>1. CASE Quiet
  <2>1. UNCHANGED <<Requests, Replies, Received>>
    BY <1>1, QuietSteps
  <2>2. \/ GrowSegment \/ Ignore \/ Disconnect \/ SendUnallocated \/ SubEmpty \/ Wake \/ Cancel
        \/ DeadlinePasses \/ Return \/ DropClient \/ \E m \in Methods : Invoke(m)
    BY <1>0, <1>1 DEF Quiet, Connect, Attach, FindHeader, AllocateClientQueue
  <2>3. UNCHANGED <<connected, registered, input_queue>> /\ serving' \in {serving, None}
    BY <2>2 DEF GrowSegment, Ignore, Disconnect, SendUnallocated, SubEmpty, TimedOut, Wake, Cancel,
      DeadlinePasses, Return, DropClient, Invoke, server, shared, call
  <2>4. SessionRequests' /\ SessionReplies'
    BY <1>0, <2>1, <2>3 DEF SessionRequests, SessionReplies
  <2>5. CASE GrowSegment \/ Ignore \/ DeadlinePasses \/ Wake
    <3>1. UNCHANGED <<pc, op, draft, result>>
      BY <2>5 DEF GrowSegment, Ignore, DeadlinePasses, Wake, call
    <3> QED
      BY <2>1, <2>3, <2>4, <3>1 DEF InSession, SessionReplies
  <2>6. CASE SendUnallocated \/ SubEmpty \/ Cancel
    <3>1. op # "connect" /\ UNCHANGED op /\ pc' \in {"receive", "returned"}
      BY <1>0, <2>6 DEF SendUnallocated, SubEmpty, TimedOut, Cancel, SleepInv, Fail, GiveUp,
         Leave, call
    <3> QED
      BY <1>0, <2>3, <2>4, <3>1 DEF InSession, SessionReplies
  <2>7. CASE Return \/ DropClient
    <3>1. UNCHANGED op /\ pc' \in {"idle", "dropped"}
      BY <1>0, <2>7 DEF Return, DropClient, call
    <3> QED
      BY <1>0, <2>3, <2>4, <3>1 DEF InSession, SessionReplies
  <2>8. CASE Disconnect
    <3>1. /\ op' = "disconnect" /\ pc' \in {"send", "returned"}
          /\ pc' = "send" => draft' = Message("Delete", None, 0, 0)
      BY <1>0, <2>8 DEF Disconnect, Fail, Leave
    <3>2. pc' = "send" => draft'.type = "Delete"
      BY <3>1, MessageIs, ZeroContext DEF Types
    <3> QED
      BY <1>0, <2>3, <2>4, <3>1, <3>2 DEF InSession, SessionReplies, RequestTypes
  <2>9. ASSUME NEW m \in Methods, Invoke(m) PROVE InSession'
    <3>1. op' = "invoke" /\ pc' \in {"send", "returned"}
      BY <2>9 DEF Invoke, Fail, Leave
    <3>2. pc' = "send" => draft'.type = "Request"
      BY <2>9 DEF Invoke, Fail, Leave, Message
    <3> QED
      BY <1>0, <2>3, <2>4, <3>1, <3>2 DEF InSession, SessionReplies, RequestTypes
  <2> QED
    BY <2>2, <2>5, <2>6, <2>7, <2>8, <2>9
<1>2. CASE Take
  <2>1. /\ serving' = Requests[1] /\ Requests # <<>> /\ Requests' = Tail(Requests)
        /\ UNCHANGED <<Replies, Received, op, connected, registered, input_queue, pc, draft, result>>
    BY <1>2, MemoryTake DEF Take, call
  <2>2. SessionRequests'
    <3>1. 1 \in DOMAIN Requests /\ \A i \in DOMAIN Tail(Requests) :
             i + 1 \in DOMAIN Requests /\ Tail(Requests)[i] = Requests[i + 1]
      BY <1>0, <2>1, Ends
    <3> QED
      BY <1>0, <2>1, <3>1 DEF SessionRequests
  <2> QED
    BY <2>1, <2>2 DEF InSession
<1>3. ASSUME NEW b \in Buffers, AnswerCreate(b) \/ AnswerDelete(b) \/ AnswerRequest(b) \/ Ping(b)
      PROVE  InSession'
  <2>1. AnswerDelete(b) \/ AnswerRequest(b) \/ Ping(b)
    BY <1>0, <1>3 DEF AnswerCreate, SessionRequests, RequestTypes
  <2>2. registered /\ serving' \in {serving, None}
        /\ UNCHANGED <<op, connected, input_queue, pc, draft, result>>
    BY <2>1 DEF AnswerDelete, AnswerRequest, Ping, call
  <2>3. UNCHANGED <<Requests, Received>>
    BY <1>3, AnswerSteps
  <2>4. SessionRequests'
    BY <1>0, <2>2, <2>3 DEF SessionRequests
  <2>5. PICK m : /\ m \in Messages /\ m.type \in ReplyTypes /\ Replies' = Append(Replies, m)
                 /\ m.type = "DeleteReply" /\ m.ok => ~registered'
    <3>1. CASE AnswerDelete(b)
      BY <3>1, AnswerSteps DEF Says, ReplyTypes
    <3>2. CASE AnswerRequest(b)
      <4>1. PICK m : Says(b, "Reply", m)
        BY <3>2, AnswerSteps
      <4> QED
        BY <4>1 DEF Says, ReplyTypes
    <3>3. CASE Ping(b)
      <4>1. PICK m : Says(b, "Keepalive", m)
        BY <3>3, AnswerSteps
      <4> QED
        BY <4>1 DEF Says, ReplyTypes
    <3> QED
      BY <2>1, <3>1, <3>2, <3>3
  <2>6. SessionReplies'
    BY <1>0, <2>2, <2>5, RepliesGrow
  <2>7. pc = "message" => ~(Received.type = "DeleteReply" /\ Received.ok)
    BY <2>2 DEF InSession
  <2> QED
    BY <2>2, <2>3, <2>4, <2>6, <2>7 DEF InSession, SessionReplies
<1>4. ASSUME NEW b \in Buffers, NEW o \in Added \cup Refused, Send(b, o) PROVE InSession'
  <2>1. /\ pc = "send" /\ draft \in Messages /\ pc' \in {"receive", "returned"}
        /\ Requests' \in {Requests, Append(Requests, draft)}
        /\ UNCHANGED <<Replies, Received, op, connected, registered, input_queue, serving>>
    BY <1>4, SendSteps DEF server, call
  <2>2. SessionRequests'
    <3>1. draft.type \in RequestTypes
      BY <2>1 DEF InSession
    <3>2. CASE Requests' = Append(Requests, draft)
      <4>1. /\ DOMAIN Requests' = DOMAIN Requests \cup {Len(Requests) + 1}
            /\ \A i \in DOMAIN Requests : Requests'[i] = Requests[i]
            /\ Requests'[Len(Requests) + 1] = draft
        BY <1>0, <2>1, <3>2, Ends
      <4> QED
        BY <1>0, <2>1, <3>1, <4>1 DEF SessionRequests
    <3>3. CASE Requests' = Requests
      BY <1>0, <2>1, <3>3 DEF SessionRequests
    <3> QED
      BY <2>1, <3>2, <3>3
  <2> QED
    BY <1>0, <2>1, <2>2 DEF InSession
<1>5. CASE Sub
  <2>1. /\ pc = "receive" /\ Replies # <<>> /\ Replies' = Tail(Replies)
        /\ \/ pc' = "message" /\ Received' = Replies[1]
           \/ pc' = "returned"
        /\ UNCHANGED <<Requests, op, connected, registered, input_queue, serving>>
    BY <1>5, SubSteps DEF server, call
  <2>2. SessionRequests'
    BY <1>0, <2>1 DEF SessionRequests
  <2>3. /\ SessionReplies' /\ Replies[1].type \in ReplyTypes
        /\ Replies[1].type = "DeleteReply" /\ Replies[1].ok => Replies' = <<>> /\ ~registered
    BY <1>0, <2>1, RepliesShrink
  <2> QED
    BY <1>0, <2>1, <2>2, <2>3 DEF InSession, SessionReplies
<1>6. CASE SubFails
  <2>1. /\ pc = "receive" /\ pc' = "returned"
        /\ UNCHANGED <<Requests, op, connected, registered, input_queue, serving>>
    BY <1>6, SubFailsSteps DEF server, call
  <2>2. SessionRequests'
    BY <1>0, <2>1 DEF SessionRequests
  <2>3. SessionReplies'
    <3>1. CASE UNCHANGED Replies
      BY <1>0, <2>1, <3>1 DEF SessionReplies
    <3>2. CASE Replies # <<>> /\ Replies' = Tail(Replies)
      BY <1>0, <2>1, <3>2, RepliesShrink
    <3> QED
      BY <1>6, <3>1, <3>2, SubFailsSteps
  <2> QED
    BY <1>0, <2>1, <2>2, <2>3 DEF InSession, SessionReplies
<1>7. ASSUME NEW m, React(m) PROVE (InSession \/ Closed)'
  <2>1. /\ m = Received /\ pc = "message"
        /\ UNCHANGED <<Requests, Replies, registered, serving, op>>
    BY <1>7, ReactSteps DEF server
  <2>2. op # "connect" /\ ~CreateReply(m)
    BY <1>0, <2>1 DEF CreateReply
  <2>3. SessionRequests' /\ SessionReplies'
    BY <1>0, <2>1 DEF SessionRequests, SessionReplies
  <2>4. CASE Keepalive(m)
    <3>1. /\ UNCHANGED <<connected, input_queue>> /\ pc' \in {"send", "returned"}
      BY <2>4 DEF Keepalive, GiveUp, Fail, Leave
    <3>2. pc' = "send" => draft'.type = "KeepaliveReply"
      BY <2>4 DEF Keepalive, GiveUp, Fail, Leave, Message
    <3> QED
      BY <1>0, <2>1, <2>2, <2>3, <3>1, <3>2 DEF InSession, SessionReplies, RequestTypes
  <2>5. CASE Foreign(m) \/ Undecodable(m) \/ Reply(m)
    <3>1. /\ UNCHANGED <<connected, input_queue>> /\ pc' \in {"receive", "returned"}
      BY <2>5 DEF Foreign, Undecodable, Reply, Fail, Leave
    <3> QED
      BY <1>0, <2>1, <2>2, <2>3, <3>1 DEF InSession, SessionReplies
  <2>6. CASE DeleteReply(m) /\ ~m.ok
    <3>1. /\ UNCHANGED <<connected, input_queue>> /\ pc' = "returned"
      BY <2>6 DEF DeleteReply, Fail, Leave
    <3> QED
      BY <1>0, <2>1, <2>2, <2>3, <3>1 DEF InSession, SessionReplies
  <2>7. CASE DeleteReply(m) /\ m.ok
    <3>1. ~connected' /\ input_queue' = "freed" /\ pc' = "returned"
      BY <2>7 DEF DeleteReply, ReleaseQueue, Leave
    <3>2. m.type = "DeleteReply"
      BY <2>7 DEF DeleteReply, Id, Expected
    <3>3. Replies = <<>> /\ ~registered
      BY <2>1, <2>7, <3>2 DEF InSession
    <3> QED
      BY <2>1, <2>2, <2>3, <3>1, <3>3 DEF Closed
  <2> QED
    BY <1>7, <2>2, <2>4, <2>5, <2>6, <2>7 DEF React
<1> QED
  BY <1>1, <1>2, <1>3, <1>4, <1>5, <1>6, <1>7, NextSteps DEF Steps

\* Every step leads from one phase of the connection to the same or the next.
LEMMA PhaseStep == TypeOK /\ SleepInv /\ OwnInv /\ PhaseInv /\ [Next]_vars => PhaseInv'
<1> SUFFICES ASSUME TypeOK, SleepInv, OwnInv, PhaseInv, [Next]_vars PROVE PhaseInv'
  OBVIOUS
<1>1. CASE Next
  BY <1>1, StartingStep, AskingStep, AnsweredStep, AnsweringStep, FailedStep, InSessionStep,
     ClosedStep DEF PhaseInv
<1>2. CASE UNCHANGED vars
  <2>1. /\ UNCHANGED <<Requests, Replies, Received>>
        /\ UNCHANGED <<op, connected, registered, input_queue, serving, pc, draft, result>>
    BY <1>2, MemoryKept DEF vars, memory, shared, server, call, ghosts
  <2> QED
    BY <2>1 DEF PhaseInv, Starting, Asking, Answered, Answering, Failed, InSession, Closed,
                ConnectFailed, SessionRequests
<1> QED
  BY <1>1, <1>2

\* In every phase the queue is there for whoever may use it.
LEMMA PhaseOutlives == TypeOK /\ OwnInv /\ PhaseInv => QueueOutlivesUsers
<1> SUFFICES ASSUME TypeOK, OwnInv, PhaseInv, input_queue # "live", QueueInUse PROVE FALSE
  BY DEF QueueOutlivesUsers
<1>1. Starting \/ Failed \/ Closed
  BY DEF PhaseInv, Asking, Answered, Answering, InSession
<1>2. /\ pc \notin {"send", "receive", "message"} /\ ~connected /\ ~registered /\ Replies = <<>>
      /\ serving # None => serving.type # "CreateV2"
      /\ \A i \in DOMAIN Requests : Requests[i].type # "CreateV2"
  <2>1. Requests = <<>> => DOMAIN Requests = {}
    OBVIOUS
  <2> QED
    BY <1>1, <2>1 DEF Starting, Failed, Closed, SessionRequests, RequestTypes
<1>3. \A i \in DOMAIN toServer : heap[toServer[i]].type # "CreateV2"
  BY <1>2 DEF Requests
<1>4. toClient = <<>>
  BY <1>2, NothingSent
<1> QED
  BY <1>2, <1>3, <1>4 DEF QueueInUse

-----------------------------------------------------------------------------
(* Requests, contexts and replies *)

\* Drawing a context keeps the counter in step with the number of contexts drawn.
LEMMA WrapsNext ==
    ASSUME NEW n \in Int, NEW c \in 0 .. ContextModulus - 1, Wraps(n, c)
    PROVE  Wraps(n + 1, NextContext(c))
<1>1. ContextModulus \in Int
  BY CapacityAssumption
<1>2. PICK k \in Int : n - c = k * (ContextModulus - 1)
  BY DEF Wraps
<1>3. CASE c + 1 = ContextModulus
  <2>1. (n + 1) - 1 = (k + 1) * (ContextModulus - 1)
    BY <1>1, <1>2, <1>3
  <2> QED
    BY <1>3, <2>1, NextContextIs DEF Wraps
<1>4. CASE c + 1 # ContextModulus
  <2>1. (n + 1) - (c + 1) = k * (ContextModulus - 1)
    BY <1>1, <1>2
  <2> QED
    BY <1>4, <2>1, NextContextIs DEF Wraps
<1> QED
  BY <1>3, <1>4

\* Two requests with the same context are whole rounds apart.
LEMMA WrapsApart ==
    ASSUME NEW n \in Int, NEW m \in Int, NEW c \in Int, Wraps(n, c), Wraps(m, c)
    PROVE  Wraps(n, m)
<1>1. PICK k \in Int : n - c = k * (ContextModulus - 1)
  BY DEF Wraps
<1>2. PICK j \in Int : m - c = j * (ContextModulus - 1)
  BY DEF Wraps
<1>3. n - m = (k - j) * (ContextModulus - 1)
  BY <1>1, <1>2, CapacityAssumption
<1> QED
  BY <1>3 DEF Wraps

\* Two requests that share a context are a whole number of wraps apart.
LEMMA WrapsModulo ==
    ASSUME NEW n \in Int, NEW m \in Int, Wraps(n, m)
    PROVE  (n - m) % (ContextModulus - 1) = 0
<1>1. PICK k \in Int : n - m = k * (ContextModulus - 1)
  BY DEF Wraps
<1>2. ContextModulus - 1 \in Nat /\ ContextModulus - 1 > 0
  BY CapacityAssumption
<1>3. \A d \in Nat : d > 0 => (k * d) % d = 0
  OBVIOUS
<1> QED
  BY <1>1, <1>2, <1>3

\* What the quiet steps draft and serve.
LEMMA QuietDrafts ==
    ASSUME TypeOK, Quiet
    PROVE  /\ UNCHANGED heap /\ serving' \in {serving, None}
           /\ \/ /\ UNCHANGED <<drawn, context_counter>>
                 /\ draft' \in {draft, None, Message("CreateV2", None, 0, 0),
                                Message("Delete", None, 0, 0)}
              \/ /\ drawn' = drawn + 1 /\ context_counter' = NextContext(context_counter)
                 /\ \E m \in Methods : draft' = Message("Request", m, context_counter', drawn')
           /\ pc' = "returned" /\ op' = "invoke" /\ result'.tag = "Ok" =>
                UNCHANGED <<pc, op, result>>
<1> USE DEF shared, server, call, ghosts
<1>1. UNCHANGED heap /\ serving' \in {serving, None}
  BY DEF Quiet, GrowSegment, Ignore, Connect, Attach, FindHeader, AllocateClientQueue,
         Disconnect, SendUnallocated, SubEmpty, Wake, Cancel, DeadlinePasses, Return, DropClient,
         Invoke
<1>2. ASSUME NEW m \in Methods, Invoke(m)
      PROVE  \/ UNCHANGED <<drawn, context_counter, draft>>
             \/ /\ drawn' = drawn + 1 /\ context_counter' = NextContext(context_counter)
                /\ draft' = Message("Request", m, context_counter', drawn')
  BY <1>2 DEF Invoke
<1>3. ASSUME ~\E m \in Methods : Invoke(m)
      PROVE  /\ UNCHANGED <<drawn, context_counter>>
             /\ draft' \in {draft, None, Message("CreateV2", None, 0, 0),
                            Message("Delete", None, 0, 0)}
  <2>1. UNCHANGED <<drawn, context_counter>>
    BY <1>3 DEF Quiet, GrowSegment, Ignore, Connect, Attach, FindHeader, AllocateClientQueue,
         Disconnect, SendUnallocated, SubEmpty, Wake, Cancel, DeadlinePasses, Return, DropClient
  <2>2. CASE AllocateClientQueue \/ Disconnect \/ SendUnallocated
    BY <2>2 DEF AllocateClientQueue, Disconnect, SendUnallocated
  <2>3. CASE ~(AllocateClientQueue \/ Disconnect \/ SendUnallocated)
    BY <1>3, <2>3 DEF Quiet, GrowSegment, Ignore, Connect, Attach, FindHeader,
         SubEmpty, Wake, Cancel, DeadlinePasses, Return, DropClient
  <2> QED
    BY <2>1, <2>2, <2>3
<1>4. ASSUME pc' = "returned", result'.tag = "Ok" PROVE UNCHANGED <<pc, op, result>>
  <2> USE DEF Fail, GiveUp, Leave, Outcome
  <2>1. ~\E m \in Methods : Invoke(m)
    BY <1>4 DEF Invoke
  <2>2. ~(Connect \/ Attach \/ FindHeader \/ AllocateClientQueue \/ SendUnallocated \/ Cancel)
    BY <1>4 DEF Connect, Attach, FindHeader, AllocateClientQueue, SendUnallocated, Cancel
  <2>3. ~(Disconnect \/ Return \/ DropClient)
    BY <1>4 DEF Disconnect, Return, DropClient
  <2>a. ~SubEmpty
    <3>1. op \in {"connect", "invoke", "disconnect"}
      BY DEF TypeOK
    <3> QED
      BY <1>4, <3>1 DEF SubEmpty, TimedOut
  <2>4. GrowSegment \/ Ignore \/ Wake \/ DeadlinePasses
    BY <2>1, <2>2, <2>3, <2>a DEF Quiet
  <2> QED
    BY <2>4 DEF GrowSegment, Ignore, Wake, DeadlinePasses
<1> QED
  BY <1>1, <1>2, <1>3, <1>4

\* Every step keeps the numbers of requests behind the contexts they carry.
LEMMA NumberStep == TypeOK /\ OwnInv /\ NumberInv /\ [Next]_vars => NumberInv'
<1> SUFFICES ASSUME TypeOK, OwnInv, NumberInv, [Next]_vars PROVE NumberInv'
  OBVIOUS
<1>0. /\ Wraps(drawn, context_counter) /\ Numbered(serving) /\ Numbered(draft)
      /\ \A b \in Buffers : Numbered(heap[b])
      /\ heap \in [Buffers -> Messages \cup {Free}]
      /\ context_counter \in 0 .. ContextModulus - 1 /\ drawn \in Int /\ context_counter \in Int
  BY CapacityAssumption DEF NumberInv, TypeOK
<1>a. Numbered(None) /\ Numbered(Free)
  BY ValuesAssumption DEF Numbered
\* The messages of the protocol itself have no number.
<1>b. ASSUME NEW t \in Types, t \notin {"Request", "Reply"}
      PROVE  Numbered(Message(t, None, 0, 0))
  BY <1>b, MessageIs, ZeroContext DEF Numbered
<1>1. CASE Quiet
  <2>1. (\A b \in Buffers : Numbered(heap'[b])) /\ Numbered(serving')
    BY <1>0, <1>1, <1>a, QuietDrafts
  <2>2. CASE /\ UNCHANGED <<drawn, context_counter>>
             /\ draft' \in {draft, None, Message("CreateV2", None, 0, 0),
                            Message("Delete", None, 0, 0)}
    <3>1. Numbered(draft')
      BY <1>0, <1>a, <1>b, <2>2 DEF Types
    <3>2. pc' = "returned" /\ op' = "invoke" /\ result'.tag = "Ok" =>
            result'.number \in Int /\ Wraps(drawn', result'.number)
      BY <1>1, <2>2, QuietDrafts DEF NumberInv
    <3> QED
      BY <1>0, <2>1, <2>2, <3>1, <3>2 DEF NumberInv
  <2>3. ASSUME drawn' = drawn + 1, context_counter' = NextContext(context_counter),
               NEW m \in Methods, draft' = Message("Request", m, context_counter', drawn')
        PROVE  NumberInv'
    <3>1. Wraps(drawn', context_counter')
      BY <1>0, <2>3, WrapsNext
    <3>2. Numbered(draft')
      BY <2>3, <3>1 DEF Numbered, Message
    <3>3. pc' # "returned"
      <4>1. \E n \in Methods : Invoke(n)
        <5>1. drawn' # drawn
          BY <1>0, <2>3
        <5> QED
          BY <1>1, <5>1 DEF Quiet, GrowSegment, Ignore, Connect, Attach, FindHeader,
            AllocateClientQueue, Disconnect, SendUnallocated, SubEmpty, Wake, Cancel,
            DeadlinePasses, Return, DropClient, ghosts
      <4> QED
        BY <1>0, <2>3, <4>1 DEF Invoke
    <3> QED
      BY <2>1, <3>1, <3>2, <3>3 DEF NumberInv
  <2> QED
    BY <1>1, <2>2, <2>3, QuietDrafts
<1>2. CASE Take
  <2>1. /\ UNCHANGED <<drawn, context_counter, draft, pc, op, result>>
        /\ Head(toServer) \in Buffers /\ serving' = heap[Head(toServer)]
        /\ heap' = [heap EXCEPT ![Head(toServer)] = Free]
    BY <1>2 DEF Take, TypeOK, ghosts, call
  <2>2. Numbered(serving') /\ \A b \in Buffers : Numbered(heap'[b])
    BY <1>0, <1>a, <2>1
  <2> QED
    BY <1>0, <2>1, <2>2 DEF NumberInv
<1>3. ASSUME NEW b \in Buffers, AnswerCreate(b) \/ AnswerDelete(b) \/ AnswerRequest(b) \/ Ping(b)
      PROVE  NumberInv'
  <2>1. /\ UNCHANGED <<drawn, context_counter, draft, pc, op, result>>
        /\ serving' \in {serving, None}
    BY <1>3 DEF AnswerCreate, AnswerDelete, AnswerRequest, Ping, ghosts, call
  <2>2. PICK m : Numbered(m) /\ heap' = [heap EXCEPT ![b] = m]
    <3>1. CASE AnswerCreate(b)
      BY <3>1, AnswerSteps DEF Says, Numbered
    <3>2. CASE AnswerDelete(b)
      BY <3>2, AnswerSteps DEF Says, Numbered
    <3>3. CASE AnswerRequest(b)
      <4>1. PICK m : /\ Says(b, "Reply", m)
                     /\ m.context = serving.context /\ m.number = serving.number
        BY <3>3, AnswerSteps
      <4>2. serving \in Messages /\ serving.type = "Request"
        BY <3>3 DEF AnswerRequest, TypeOK
      <4> QED
        BY <1>0, <4>1, <4>2 DEF Says, Numbered
    <3>4. CASE Ping(b)
      <4>1. PICK m : Says(b, "Keepalive", m)
        BY <3>4, AnswerSteps
      <4> QED
        BY <4>1 DEF Says, Numbered
    <3> QED
      BY <1>3, <3>1, <3>2, <3>3, <3>4
  <2>3. \A c \in Buffers : Numbered(heap'[c])
    BY <1>0, <2>2
  <2> QED
    BY <1>0, <1>a, <2>1, <2>3 DEF NumberInv
<1>4. ASSUME NEW b \in Buffers, NEW o \in Added \cup Refused, Send(b, o) PROVE NumberInv'
  <2>1. /\ UNCHANGED <<drawn, context_counter, serving, op>> /\ draft' = None
        /\ heap' = heap \/ heap' = [heap EXCEPT ![b] = draft]
        /\ pc' = "receive" \/ result' = Outcome("Queue", 0)
    BY <1>4, SendSteps DEF call, server
  <2>2. \A c \in Buffers : Numbered(heap'[c])
    BY <1>0, <2>1
  <2>3. ~(pc' = "returned" /\ result'.tag = "Ok")
    BY <2>1 DEF Outcome
  <2> QED
    BY <1>0, <1>a, <2>1, <2>2, <2>3 DEF NumberInv
<1>5. CASE Sub \/ SubFails
  <2>1. UNCHANGED <<drawn, context_counter, serving, op, draft, heap>>
    BY <1>5, SubSteps, SubFailsSteps DEF server, call
  <2>2. ~(pc' = "returned" /\ result'.tag = "Ok")
    BY <1>5, SubSteps, SubFailsSteps DEF Outcome
  <2> QED
    BY <1>0, <2>1, <2>2 DEF NumberInv
<1>6. ASSUME NEW m, React(m) PROVE NumberInv'
  <2>1. /\ UNCHANGED <<drawn, serving, op>> /\ m \in Messages
        /\ held \in Buffers /\ heap' = [heap EXCEPT ![held] = Free] /\ m = heap[held]
    BY <1>6, ReactSteps DEF server
  <2>2. UNCHANGED context_counter /\ draft' \in {draft, Message("KeepaliveReply", None, 0, 0)}
    BY <1>6 DEF React, Keepalive, Foreign, Undecodable, CreateReply, Reply, DeleteReply
  <2>3. (\A b \in Buffers : Numbered(heap'[b])) /\ Numbered(draft')
    BY <1>0, <1>a, <1>b, <2>1, <2>2 DEF Types
  <2>4. CASE Reply(m) /\ m.context = context_counter
    <3>1. op = "invoke" /\ Id(m) = <<"Reply", method>> /\ result'.number = m.number
      BY <2>4 DEF Reply, Expected, Leave, Outcome
    <3>2. m.number \in Int /\ m.type = "Reply"
      BY <2>1, <3>1, CapacityAssumption DEF Id, Messages
    <3>3. Wraps(m.number, context_counter)
      BY <1>0, <2>1, <2>4, <3>2 DEF Numbered
    <3>4. Wraps(drawn, m.number)
      BY <1>0, <3>2, <3>3, WrapsApart
    <3> QED
      BY <1>0, <2>1, <2>2, <2>3, <3>1, <3>2, <3>4 DEF NumberInv
  <2>5. CASE ~(Reply(m) /\ m.context = context_counter)
    <3>1. ~(pc' = "returned" /\ op = "invoke" /\ result'.tag = "Ok")
      <4> USE DEF Fail, GiveUp, Leave, Outcome
      <4>1. CASE Keepalive(m) \/ Foreign(m) \/ Undecodable(m)
        BY <4>1 DEF Keepalive, Foreign, Undecodable
      <4>2. CASE CreateReply(m) \/ DeleteReply(m)
        BY <4>2 DEF CreateReply, DeleteReply
      <4>3. CASE Reply(m)
        BY <2>5, <4>3 DEF Reply
      <4> QED
        BY <1>6, <4>1, <4>2, <4>3 DEF React
    <3> QED
      BY <1>0, <2>1, <2>2, <2>3, <3>1 DEF NumberInv
  <2> QED
    BY <2>4, <2>5
<1>7. CASE UNCHANGED vars
  BY <1>7 DEF vars, shared, server, call, ghosts, NumberInv
<1> QED
  BY <1>1, <1>2, <1>3, <1>4, <1>5, <1>6, <1>7, NextSteps DEF Steps

\* A reply with the context of the call is then its own, or that of a call a
\* full wrap ago.
LEMMA NumbersOwn == TypeOK /\ NumberInv => OwnReply
<1> SUFFICES ASSUME TypeOK, NumberInv, pc = "returned", op = "invoke", result.tag = "Ok"
             PROVE  (drawn - result.number) % (ContextModulus - 1) = 0
  BY DEF OwnReply
<1>1. drawn \in Int /\ result.number \in Int /\ Wraps(drawn, result.number)
  BY CapacityAssumption DEF TypeOK, NumberInv
<1> QED
  BY <1>1, WrapsModulo

-----------------------------------------------------------------------------
(* One message at a time *)

\* No step makes a keepalive for a client that does not handle them.
LEMMA KeepaliveStep == TypeOK /\ OwnInv /\ PhaseInv /\ KeepaliveInv /\ [Next]_vars => KeepaliveInv'
<1> SUFFICES ASSUME TypeOK, OwnInv, PhaseInv, KeepaliveInv, [Next]_vars PROVE KeepaliveInv'
  OBVIOUS
<1>0. heap \in [Buffers -> Messages \cup {Free}]
  BY DEF TypeOK
<1>1. CASE Quiet \/ Sub \/ SubFails \/ UNCHANGED vars
  <2>1. UNCHANGED heap
    BY <1>1, QuietDrafts, SubSteps, SubFailsSteps DEF vars, shared
  <2> QED
    BY <2>1 DEF KeepaliveInv
<1>2. CASE Take
  BY <1>0, <1>2 DEF Take, KeepaliveInv
<1>3. ASSUME NEW b \in Buffers, AnswerCreate(b) \/ AnswerDelete(b) \/ AnswerRequest(b) \/ Ping(b)
      PROVE  KeepaliveInv'
  <2>1. PICK m : /\ heap' = [heap EXCEPT ![b] = m]
                 /\ m.type = "Keepalive" => handle_keepalives
    <3>1. CASE AnswerCreate(b)
      BY <3>1, AnswerSteps DEF Says
    <3>2. CASE AnswerDelete(b)
      BY <3>2, AnswerSteps DEF Says
    <3>3. CASE AnswerRequest(b)
      <4>1. PICK m : Says(b, "Reply", m)
        BY <3>3, AnswerSteps
      <4> QED
        BY <4>1 DEF Says
    <3>4. CASE Ping(b)
      <4>1. PICK m : Says(b, "Keepalive", m)
        BY <3>4, AnswerSteps
      <4> QED
        BY <3>4, <4>1 DEF Says, Ping
    <3> QED
      BY <1>3, <3>1, <3>2, <3>3, <3>4
  <2> QED
    BY <1>0, <2>1 DEF KeepaliveInv
<1>4. ASSUME NEW b \in Buffers, NEW o \in Added \cup Refused, Send(b, o) PROVE KeepaliveInv'
  <2>1. pc = "send" /\ (heap' = heap \/ heap' = [heap EXCEPT ![b] = draft])
    BY <1>4, SendSteps
  <2>2. draft.type # "Keepalive"
    BY <2>1 DEF PhaseInv, Starting, Asking, Answered, Answering, Failed, InSession, Closed,
                RequestTypes
  <2> QED
    BY <1>0, <2>1, <2>2 DEF KeepaliveInv
<1>5. ASSUME NEW m, React(m) PROVE KeepaliveInv'
  BY <1>0, <1>5, ReactSteps DEF KeepaliveInv
<1> QED
  BY <1>1, <1>2, <1>3, <1>4, <1>5, NextSteps DEF Steps

\* What PairInv says of the messages, while no call left early.
NonePaired == ~Paired(serving) /\ \A b \in Buffers : ~Paired(heap[b])
OnePaired ==
    /\ \A b, c \in Buffers : Paired(heap[b]) /\ Paired(heap[c]) => b = c
    /\ \A b \in Buffers : Paired(heap[b]) => OfCall(heap[b])
    /\ Paired(serving) => OfCall(serving) /\ \A b \in Buffers : ~Paired(heap[b])

\* The pairing, in parts that a step keeps or breaks together.
LEMMA PairParts ==
    PairInv <=> \/ abandoned
                \/ /\ pc = "returned" => ~Disturbed
                   /\ OnePaired
                   /\ pc = "send" /\ Paired(draft) => OfCall(draft) /\ NonePaired
                   /\ pc \notin {"send", "receive", "message"} => NonePaired
  BY DEF PairInv, OnePaired, NonePaired

\* The draft is that of the call, or the answer to a keepalive.
LEMMA Drafts ==
    ASSUME TypeOK, PhaseInv, pc = "send"
    PROVE  draft \in Messages /\ (draft.type = "KeepaliveReply" <=> ~Paired(draft))
<1>1. draft \in Messages
  BY DEF TypeOK
<1>2. draft.type # "Keepalive"
  BY DEF PhaseInv, Starting, Asking, Answered, Answering, Failed, InSession, Closed, RequestTypes
<1> QED
  BY <1>1, <1>2 DEF Paired

\* The messages the quiet steps leave behind.
LEMMA PairQuiet ==
    ASSUME TypeOK, SleepInv, PhaseInv, PairInv, ~abandoned, ~abandoned', Quiet
    PROVE  PairInv'
<1>0. /\ pc = "returned" => ~Disturbed
      /\ OnePaired
      /\ pc = "send" /\ Paired(draft) => OfCall(draft) /\ NonePaired
      /\ pc \notin {"send", "receive", "message"} => NonePaired
  BY PairParts
<1>1. UNCHANGED heap /\ serving' \in {serving, None} /\ ~Paired(None)
  BY QuietDrafts, ValuesAssumption DEF Paired
<1>2. NonePaired => NonePaired' /\ OnePaired'
  BY <1>1 DEF NonePaired, OnePaired
<1>3. UNCHANGED <<op, method, context_counter>> => OnePaired'
  BY <1>0, <1>1 DEF OnePaired, OfCall
<1> USE DEF shared, server, call, Fail, GiveUp, Leave, Outcome
<1>4. CASE GrowSegment \/ Ignore \/ Wake \/ DeadlinePasses
  <2>1. UNCHANGED <<pc, op, method, context_counter, draft, result>>
    BY <1>4 DEF GrowSegment, Ignore, Wake, DeadlinePasses
  <2>2. OfCall(draft) => OfCall(draft)'
    BY <2>1 DEF OfCall
  <2>3. pc' = "returned" => ~Disturbed'
    BY <1>0, <2>1 DEF Disturbed
  <2> QED
    BY <1>0, <1>2, <1>3, <2>1, <2>2, <2>3 DEF PairInv, OnePaired, NonePaired
<1>5. CASE Connect \/ Attach \/ FindHeader \/ Return \/ DropClient
  <2>1. /\ pc \notin {"send", "receive", "message"} /\ pc' # "send"
        /\ pc' = "returned" => ~Disturbed'
    BY <1>5 DEF Connect, Attach, FindHeader, Return, DropClient, Disturbed
  <2> QED
    BY <1>0, <1>2, <2>1 DEF PairInv, OnePaired, NonePaired
<1>6. CASE AllocateClientQueue
  <2>1. pc = "allocate" /\ NonePaired
    BY <1>0, <1>6 DEF AllocateClientQueue
  <2>2. op = "connect"
    BY <2>1 DEF PhaseInv, Starting, Asking, Answered, Answering, Failed, InSession, Closed
  <2>3. CASE pc' = "send" /\ draft' = Message("CreateV2", None, 0, 0) /\ UNCHANGED op
    <3>1. OfCall(draft)'
      BY <2>2, <2>3, MessageIs, ZeroContext DEF OfCall, Types
    <3> QED
      BY <1>2, <2>1, <2>3, <3>1 DEF PairInv, OnePaired, NonePaired
  <2>4. CASE pc' = "returned" /\ result'.tag = "Queue"
    BY <1>2, <2>1, <2>4 DEF PairInv, OnePaired, NonePaired, Disturbed
  <2> QED
    BY <1>6, <2>3, <2>4 DEF AllocateClientQueue
<1>7. CASE Disconnect
  <2>1. pc = "idle" /\ NonePaired /\ op' = "disconnect"
    BY <1>0, <1>7 DEF Disconnect
  <2>2. CASE pc' = "send" /\ draft' = Message("Delete", None, 0, 0)
    <3>1. OfCall(draft)'
      BY <2>1, <2>2, MessageIs, ZeroContext DEF OfCall, Types
    <3> QED
      BY <1>2, <2>1, <2>2, <3>1 DEF PairInv, OnePaired, NonePaired
  <2>3. CASE pc' = "returned" /\ result'.tag \in {"NotConnected", "MessageUnavailable"}
    BY <1>2, <2>1, <2>3 DEF PairInv, OnePaired, NonePaired, Disturbed
  <2> QED
    BY <1>7, <2>2, <2>3 DEF Disconnect
<1>8. ASSUME NEW m \in Methods, Invoke(m) PROVE PairInv'
  <2>1. pc = "idle" /\ NonePaired /\ op' = "invoke" /\ method' = m
    BY <1>0, <1>8 DEF Invoke
  <2>2. CASE pc' = "send" /\ draft' = Message("Request", m, context_counter', drawn')
    <3>1. OfCall(draft)'
      BY <2>1, <2>2 DEF OfCall, Message
    <3> QED
      BY <1>2, <2>1, <2>2, <3>1 DEF PairInv, OnePaired, NonePaired
  <2>3. CASE pc' = "returned" /\ result'.tag \in {"MessageUnavailable", "NotConnected"}
    BY <1>2, <2>1, <2>3 DEF PairInv, OnePaired, NonePaired, Disturbed
  <2> QED
    BY <1>8, <2>2, <2>3 DEF Invoke
<1>9. CASE SendUnallocated
  <2>1. pc = "send" /\ pc' = "returned" /\ result'.tag = "Memory" /\ draft.type # "KeepaliveReply"
    BY <1>9 DEF SendUnallocated
  <2>2. NonePaired
    BY <1>0, <2>1, Drafts
  <2> QED
    BY <1>2, <2>1, <2>2 DEF PairInv, OnePaired, NonePaired, Disturbed
<1>10. CASE SubEmpty
  <2>1. pc = "receive" /\ pc' = "receive" /\ UNCHANGED <<op, method, context_counter>>
    BY <1>10 DEF SubEmpty, TimedOut
  <2> QED
    BY <1>3, <2>1 DEF PairInv, OnePaired, NonePaired
<1>11. CASE Cancel
  BY <1>11 DEF Cancel
<1> QED
  BY <1>4, <1>5, <1>6, <1>7, <1>8, <1>9, <1>10, <1>11 DEF Quiet

\* The daemon turns a request into its reply.
LEMMA PairAnswer ==
    ASSUME TypeOK, OwnInv, PairInv, ~abandoned, NEW b \in Buffers,
           AnswerCreate(b) \/ AnswerDelete(b) \/ AnswerRequest(b) \/ Ping(b)
    PROVE  PairInv'
<1>0. /\ pc = "returned" => ~Disturbed
      /\ OnePaired
      /\ pc = "send" /\ Paired(draft) => OfCall(draft) /\ NonePaired
      /\ pc \notin {"send", "receive", "message"} => NonePaired
      /\ heap \in [Buffers -> Messages \cup {Free}]
  BY PairParts DEF TypeOK
<1>1. UNCHANGED <<pc, op, method, context_counter, draft, result>> /\ ~Paired(None)
  BY ValuesAssumption DEF AnswerCreate, AnswerDelete, AnswerRequest, Ping, call, Paired
<1>2. \A m : OfCall(m)' <=> OfCall(m)
  BY <1>1 DEF OfCall
<1>3. Disturbed' <=> Disturbed
  BY <1>1 DEF Disturbed
<1>4. CASE Ping(b)
  <2>1. PICK m : Says(b, "Keepalive", m)
    BY <1>4, AnswerSteps
  <2>2. heap' = [heap EXCEPT ![b] = m] /\ ~Paired(m) /\ UNCHANGED serving
    BY <1>4, <2>1 DEF Says, Paired, Ping
  <2>3. \A c \in Buffers : Paired(heap'[c]) => heap'[c] = heap[c] /\ Paired(heap[c])
    BY <1>0, <2>2
  <2>4. OnePaired' /\ (NonePaired => NonePaired')
    BY <1>0, <1>2, <2>2, <2>3 DEF OnePaired, NonePaired
  <2> QED
    BY <1>0, <1>1, <1>2, <1>3, <2>4 DEF PairInv, OnePaired, NonePaired
<1>5. CASE AnswerCreate(b) \/ AnswerDelete(b) \/ AnswerRequest(b)
  <2>1. /\ serving \in Messages /\ serving' = None
        /\ serving.type \in {"CreateV2", "Delete", "Request"}
    BY <1>5 DEF AnswerCreate, AnswerDelete, AnswerRequest, TypeOK
  <2>2. Paired(serving) /\ OfCall(serving) /\ \A c \in Buffers : ~Paired(heap[c])
    BY <1>0, <2>1 DEF Paired, OnePaired
  <2>3. PICK m : OfCall(m) /\ heap' = [heap EXCEPT ![b] = m]
    <3>1. CASE AnswerCreate(b)
      <4>1. serving.type = "CreateV2"
        BY <3>1 DEF AnswerCreate
      <4> QED
        BY <2>2, <3>1, <4>1, AnswerSteps DEF Says, OfCall
    <3>2. CASE AnswerDelete(b)
      <4>1. serving.type = "Delete"
        BY <3>2 DEF AnswerDelete
      <4> QED
        BY <2>2, <3>2, <4>1, AnswerSteps DEF Says, OfCall
    <3>3. CASE AnswerRequest(b)
      <4>1. serving.type = "Request"
        BY <3>3 DEF AnswerRequest
      <4> QED
        BY <2>2, <3>3, <4>1, AnswerSteps DEF Says, OfCall
    <3> QED
      BY <1>5, <3>1, <3>2, <3>3
  <2>4. pc \in {"send", "receive", "message"} /\ (pc = "send" => ~Paired(draft))
    BY <1>0, <2>2 DEF NonePaired
  <2>5. \A c \in Buffers : Paired(heap'[c]) => c = b /\ heap'[c] = m
    BY <1>0, <2>2, <2>3
  <2>6. OnePaired'
    BY <1>1, <1>2, <2>1, <2>3, <2>5 DEF OnePaired
  <2> QED
    BY <1>1, <2>4, <2>6 DEF PairInv, OnePaired
<1> QED
  BY <1>4, <1>5

\* The client reads a message: the reply it waits for, or a keepalive.
LEMMA PairReact ==
    ASSUME TypeOK, OwnInv, PhaseInv, KeepaliveInv, PairInv, ~abandoned, ~abandoned',
           NEW m, React(m)
    PROVE  PairInv'
<1>0. /\ OnePaired /\ heap \in [Buffers -> Messages \cup {Free}]
  BY PairParts DEF TypeOK
<1>1. /\ pc = "message" /\ m = Received /\ m \in Messages /\ UNCHANGED <<op, method, serving>>
      /\ held \in Buffers /\ heap' = [heap EXCEPT ![held] = Free] /\ m = heap[held]
  BY ReactSteps DEF server
<1>2. UNCHANGED context_counter
  BY DEF React, Keepalive, Foreign, Undecodable, CreateReply, Reply, DeleteReply
<1>3. \A n : OfCall(n)' <=> OfCall(n)
  BY <1>1, <1>2 DEF OfCall
<1>4. \A b \in Buffers : Paired(heap'[b]) => b # held /\ heap'[b] = heap[b]
  BY <1>0, <1>1, ValuesAssumption DEF Paired
<1>5. OnePaired'
  BY <1>0, <1>1, <1>3, <1>4 DEF OnePaired
<1>6. Paired(m) => NonePaired'
  BY <1>0, <1>1, <1>4 DEF OnePaired, NonePaired
<1>7. \/ op = "connect" /\ m.type = "CreateV2Reply"
      \/ op # "connect" /\ connected /\ m.type \in ReplyTypes
  BY <1>1 DEF PhaseInv, Starting, Asking, Answered, Answering, Failed, InSession, Closed
<1>a. op \in {"connect", "invoke", "disconnect"}
  BY DEF TypeOK
<1>8. Paired(m) => Id(m) = Expected /\ (op = "invoke" => m.context = context_counter)
  BY <1>0, <1>1, <1>7, <1>a DEF OnePaired, OfCall, Id, Expected, ReplyTypes
<1>9. ~Paired(m) => m.type = "Keepalive" /\ op # "connect" /\ IsKeepalive(m)
  <2>1. ~Paired(m) => m.type = "Keepalive" /\ op # "connect" /\ connected
    BY <1>1, <1>7 DEF Paired, ReplyTypes
  <2>2. m.type = "Keepalive" => handle_keepalives
    BY <1>1, ValuesAssumption DEF KeepaliveInv
  <2> QED
    BY <2>1, <2>2 DEF IsKeepalive
<1> USE DEF Fail, GiveUp, Leave, Outcome
<1>10. CASE Keepalive(m)
  <2>1. pc' = "send" /\ draft' = Message("KeepaliveReply", None, 0, 0)
    BY <1>10 DEF Keepalive
  <2>2. ~Paired(draft')
    BY <2>1 DEF Paired, Message
  <2> QED
    BY <1>5, <2>1, <2>2 DEF PairInv, OnePaired
<1>11. ~Foreign(m)
  BY <1>8, <1>9 DEF Foreign
<1>12. CASE Undecodable(m) \/ CreateReply(m) \/ DeleteReply(m) \/ Reply(m)
  <2>1. Id(m) = Expected
    BY <1>12 DEF Undecodable, CreateReply, DeleteReply, Reply
  <2>2. Paired(m)
    BY <1>9, <1>a, <2>1 DEF Id, Expected
  <2>3. pc' = "returned"
    BY <1>12 DEF Undecodable, CreateReply, DeleteReply, Reply
  <2>4. ~Disturbed'
    <3>1. CASE Undecodable(m) \/ CreateReply(m) \/ DeleteReply(m)
      BY <3>1 DEF Undecodable, CreateReply, DeleteReply, Disturbed
    <3>2. CASE Reply(m)
      BY <1>8, <2>2, <3>2 DEF Reply, Disturbed
    <3> QED
      BY <1>12, <3>1, <3>2
  <2> QED
    BY <1>5, <1>6, <2>2, <2>3, <2>4 DEF PairInv, OnePaired, NonePaired
<1> QED
  BY <1>10, <1>11, <1>12 DEF React

\* Unless a call left before its reply, every step keeps requests and replies
\* paired.
LEMMA PairStep ==
    TypeOK /\ SleepInv /\ OwnInv /\ PhaseInv /\ KeepaliveInv /\ PairInv /\ [Next]_vars => PairInv'
<1> SUFFICES ASSUME TypeOK, SleepInv, OwnInv, PhaseInv, KeepaliveInv, PairInv, [Next]_vars,
                    ~abandoned'
             PROVE  PairInv'
  BY DEF PairInv
<1> USE DEF shared, server, call, ghosts
<1>0. ~abandoned
  <2>1. CASE Quiet
    BY <2>1 DEF Quiet, GrowSegment, Ignore, Connect, Attach, FindHeader, AllocateClientQueue,
         Disconnect, SendUnallocated, SubEmpty, TimedOut, Wake, Cancel, DeadlinePasses, Return,
         DropClient, Invoke, GiveUp
  <2>2. CASE Take \/ \E b \in Buffers :
               AnswerCreate(b) \/ AnswerDelete(b) \/ AnswerRequest(b) \/ Ping(b)
    BY <2>2 DEF Take, AnswerCreate, AnswerDelete, AnswerRequest, Ping
  <2>3. CASE \E b \in Buffers, o \in Added \cup Refused : Send(b, o)
    BY <2>3, SendSteps
  <2>4. CASE Sub \/ SubFails
    BY <2>4, SubSteps, SubFailsSteps
  <2>5. CASE \E m : React(m)
    BY <2>5 DEF React, Keepalive, Foreign, Undecodable, CreateReply, Reply, DeleteReply, GiveUp
  <2>6. CASE UNCHANGED vars
    BY <2>6 DEF vars
  <2> QED
    BY <2>1, <2>2, <2>3, <2>4, <2>5, <2>6, NextSteps DEF Steps
<1>a. /\ pc = "returned" => ~Disturbed
      /\ OnePaired
      /\ pc = "send" /\ Paired(draft) => OfCall(draft) /\ NonePaired
      /\ pc \notin {"send", "receive", "message"} => NonePaired
      /\ heap \in [Buffers -> Messages \cup {Free}]
  BY <1>0, PairParts DEF TypeOK
<1>1. CASE Quiet
  BY <1>0, <1>1, PairQuiet
<1>2. CASE Take
  <2>1. /\ UNCHANGED <<pc, op, method, context_counter, draft, result>> /\ serving = None
        /\ Head(toServer) \in Buffers /\ serving' = heap[Head(toServer)]
        /\ heap' = [heap EXCEPT ![Head(toServer)] = Free]
    BY <1>2 DEF Take, TypeOK
  <2>2. ~Paired(Free)
    BY ValuesAssumption DEF Paired
  <2>3. \A c \in Buffers : Paired(heap'[c]) => c # Head(toServer) /\ heap'[c] = heap[c]
    BY <1>a, <2>1, <2>2
  <2>4. OnePaired' /\ (NonePaired => NonePaired')
    <3>1. \A n : OfCall(n)' <=> OfCall(n)
      BY <2>1 DEF OfCall
    <3> QED
      BY <1>a, <2>1, <2>3, <3>1 DEF OnePaired, NonePaired
  <2>5. (OfCall(draft) => OfCall(draft)') /\ (Disturbed' <=> Disturbed)
    BY <2>1 DEF OfCall, Disturbed
  <2> QED
    BY <1>a, <2>1, <2>4, <2>5 DEF PairInv, OnePaired, NonePaired
<1>3. ASSUME NEW b \in Buffers, AnswerCreate(b) \/ AnswerDelete(b) \/ AnswerRequest(b) \/ Ping(b)
      PROVE  PairInv'
  BY <1>0, <1>3, PairAnswer
<1>4. ASSUME NEW b \in Buffers, NEW o \in Added \cup Refused, Send(b, o) PROVE PairInv'
  <2>1. /\ pc = "send" /\ UNCHANGED <<serving, op, method, context_counter>>
        /\ \/ pc' = "receive" /\ heap' = [heap EXCEPT ![b] = draft]
           \/ /\ pc' = "returned" /\ result' = Outcome("Queue", 0) /\ UNCHANGED heap
              /\ draft.type # "KeepaliveReply"
    BY <1>4, SendSteps
  <2>2. \A n : OfCall(n)' <=> OfCall(n)
    BY <2>1 DEF OfCall
  <2>3. CASE pc' = "receive" /\ heap' = [heap EXCEPT ![b] = draft]
    <3>1. CASE Paired(draft)
      <4>1. \A c \in Buffers : Paired(heap'[c]) => c = b /\ heap'[c] = draft
        BY <1>a, <2>1, <2>3, <3>1 DEF NonePaired
      <4>2. OnePaired'
        BY <1>a, <2>1, <2>2, <3>1, <4>1 DEF OnePaired, NonePaired
      <4> QED
        BY <2>3, <4>2 DEF PairInv, OnePaired
    <3>2. CASE ~Paired(draft)
      <4>1. \A c \in Buffers : Paired(heap'[c]) => heap'[c] = heap[c]
        BY <1>a, <2>3, <3>2
      <4>2. OnePaired'
        BY <1>a, <2>1, <2>2, <4>1 DEF OnePaired
      <4> QED
        BY <2>3, <4>2 DEF PairInv, OnePaired
    <3> QED
      BY <3>1, <3>2
  <2>4. CASE /\ pc' = "returned" /\ result' = Outcome("Queue", 0) /\ UNCHANGED heap
             /\ draft.type # "KeepaliveReply"
    <3>1. NonePaired
      BY <1>a, <2>1, <2>4, Drafts
    <3>2. NonePaired'
      BY <2>1, <2>4, <3>1 DEF NonePaired
    <3>3. ~Disturbed'
      BY <2>4 DEF Disturbed, Outcome
    <3> QED
      BY <2>4, <3>2, <3>3 DEF PairInv, NonePaired
  <2> QED
    BY <2>1, <2>3, <2>4
<1>5. CASE Sub
  <2>1. pc = "receive" /\ pc' = "message" /\ UNCHANGED <<heap, serving, op, method, context_counter>>
    BY <1>5, SubSteps
  <2>2. OnePaired'
    BY <1>a, <2>1 DEF OnePaired, OfCall
  <2> QED
    BY <2>1, <2>2 DEF PairInv, OnePaired
<1>6. CASE SubFails
  BY <1>6, SubFailsSteps
<1>7. ASSUME NEW m, React(m) PROVE PairInv'
  BY <1>0, <1>7, PairReact
<1>8. CASE UNCHANGED vars
  <2>1. UNCHANGED <<heap, serving, op, method, context_counter, pc, draft, result, abandoned>>
    BY <1>8 DEF vars
  <2> QED
    BY <2>1 DEF PairInv, OfCall, Disturbed
<1> QED
  BY <1>1, <1>2, <1>3, <1>4, <1>5, <1>6, <1>7, <1>8, NextSteps DEF Steps

-----------------------------------------------------------------------------
(* The theorems *)

IInv ==
    /\ TypeOK /\ SleepInv /\ OwnInv /\ PhaseInv
    /\ KeepaliveInv /\ PairInv /\ NumberInv

\* A client that has not connected satisfies the invariant,
LEMMA Initially == Init => IInv
<1> SUFFICES ASSUME Init PROVE IInv
  OBVIOUS
<1> USE DEF Init
<1>1. TypeOK
  <2>1. /\ 0 \in 0 .. ContextModulus - 1 /\ 0 \in 0 .. MaxCalls /\ 0 \in 0 .. MaxFaults
        /\ 0 \in 0 .. MaxPings /\ 0 \in 0 .. 0
    BY CapacityAssumption
  <2>2. /\ <<>> \in Seq(Buffers) /\ Len(<<>>) <= InputCapacity /\ Len(<<>>) <= ResponseSize
    BY CapacityAssumption
  <2>3. registered \in BOOLEAN /\ connected \in BOOLEAN /\ expired \in BOOLEAN
        /\ asleep \in BOOLEAN /\ abandoned \in BOOLEAN
    BY Zenon
  <2>4. pc \in Pcs /\ pc # "send" /\ pc # "message"
    BY DEF Pcs
  <2> QED
    BY <2>1, <2>2, <2>3, <2>4 DEF TypeOK
<1>2. SleepInv
  BY DEF SleepInv
<1>3. OwnInv
  <2>1. \A b \in Buffers : ~OnServer(b) /\ ~OnClient(b) /\ b # held /\ heap[b] = Free
    BY NamesAssumption DEF OnServer, OnClient
  <2> QED
    BY <2>1 DEF OwnInv
<1>4. PhaseInv
  <2>1. Requests = <<>> /\ Replies = <<>>
    BY DEF Requests, Replies
  <2> QED
    BY <2>1 DEF PhaseInv, Starting, ConnectFailed
<1>5. KeepaliveInv
  BY DEF KeepaliveInv
<1>6. PairInv
  BY ValuesAssumption DEF PairInv, Paired
<1>7. NumberInv
  <2>1. Wraps(0, 0)
    <3>1. 0 - 0 = 0 * (ContextModulus - 1)
      BY CapacityAssumption
    <3> QED
      BY <3>1 DEF Wraps
  <2>2. Numbered(None) /\ Numbered(Free)
    BY ValuesAssumption DEF Numbered
  <2> QED
    BY <2>1, <2>2 DEF NumberInv
<1> QED
  BY <1>1, <1>2, <1>3, <1>4, <1>5, <1>6, <1>7 DEF IInv

\* every step keeps it,
LEMMA Inductive == IInv /\ [Next]_vars => IInv'
<1> SUFFICES ASSUME IInv, [Next]_vars PROVE IInv'
  OBVIOUS
<1>1. TypeOK'
  <2>1. CASE Daemon
    BY <2>1, DaemonTypes DEF IInv
  <2>2. CASE Client
    BY <2>2, ClientTypes DEF IInv
  <2>3. CASE UNCHANGED vars
    BY <2>3 DEF IInv, TypeOK, vars, shared, server, call, wait, ghosts
  <2> QED
    BY <2>1, <2>2, <2>3 DEF Next, Client
<1> QED
  BY <1>1, SleepStep, OwnStep, PhaseStep, KeepaliveStep, PairStep, NumberStep DEF IInv

\* and every state has it.
LEMMA Invariance == Spec => []IInv
  BY Initially, Inductive, PTL DEF Spec

\* The state of the daemon, the queues, the heap and the client is well formed.
THEOREM TypeCorrect == Spec => []TypeOK
<1>1. IInv => TypeOK
  BY DEF IInv
<1> QED
  BY <1>1, Invariance, PTL

\* Every message in the shared heap has exactly one owner, however sends fail, calls
\* end early and the daemon interleaves: send_message and receive free each message once, and
\* none that a queue still leads to.
THEOREM OwnedOnce == Spec => []BufferOwnership
<1>1. IInv => BufferOwnership
  BY OwnersCounted DEF IInv
<1> QED
  BY <1>1, Invariance, PTL

\* The client's queue is freed only when neither process will touch it again.
THEOREM QueueOutlives == Spec => []QueueOutlivesUsers
<1>1. IInv => QueueOutlivesUsers
  BY PhaseOutlives DEF IInv
<1> QED
  BY <1>1, Invariance, PTL

\* The reply invoke returns is the reply to its own request, up to a whole round of the
\* context counter.
THEOREM OwnReplies == Spec => []OwnReply
<1>1. IInv => OwnReply
  BY NumbersOwn DEF IInv
<1> QED
  BY <1>1, Invariance, PTL

\* Only a session in which a call left before its reply came pairs a request with a
\* message that is not its reply.
THEOREM PairingHolds == Spec => []PairingKept
<1>1. IInv => PairingKept
  BY DEF IInv, PairInv, PairingKept, Disturbed
<1> QED
  BY <1>1, Invariance, PTL
=============================================================================
