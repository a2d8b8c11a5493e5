------------------------------- MODULE Portals -------------------------------
(***************************************************************************)
(* The transport for Portals (nnti/nnti_ptls.cpp).                         *)
(*                                                                         *)
(* The network moves the data and posts events, to a queue for requests    *)
(* and one for everything else, which all threads of a process poll.  A    *)
(* thread records the event it took in the work request it is for, and     *)
(* looks whether its own is complete.  Requests go to two descriptors,     *)
(* halves of the request queue: one that is full is passed over, and back  *)
(* at the end of the list of matching when all of its requests have been   *)
(* received.                                                               *)
(*                                                                         *)
(* SEND_START and SEND_END are one event here, and so are ACK and UNLINK,  *)
(* REPLY_START, REPLY_END and UNLINK, PUT_START and PUT_END: nothing but   *)
(* the last of each group decides.  A buffer to be received in has one     *)
(* NNTI_work_request_t, which is cleared between waits: wr_queue, in which *)
(* the transport looks for it, keeps the first for ever.                   *)
(***************************************************************************)
EXTENDS Messaging

CONSTANT Timed          \* the processes whose waits have a timeout

VARIABLES
    data_eq,        \* process |-> its events: [what, of], of a transfer or a buffer
    op_state,       \* transfer |-> the events of its initiator recorded
    put_end,        \* buffer |-> the transfer of its last_event, or NONE
    awaited,        \* process |-> the transfers its main thread waits for
    messages,       \* transfers and acks on their way: [what, of]
    req_eq,         \* the events of the request queue: [of, md, slot]
    matching,       \* the descriptors of the queue, in the order of matching
    filled,         \* descriptor |-> the requests put there since it was attached
    queue_count,    \* descriptor |-> those of them received
    req_queue,      \* <<descriptor, slot>> |-> the request there
    dropped         \* requests that found no descriptor with room

events_vars == <<data_eq, op_state, put_end, awaited, messages>>
queue_vars == <<req_eq, matching, filled, queue_count, req_queue, dropped>>
ptls == <<events_vars, queue_vars>>
vars == <<shared, ptls>>

NUM_REQ_QUEUES == 2
Mds == 0 .. NUM_REQ_QUEUES - 1
reqs_per_queue == req_count \div NUM_REQ_QUEUES

Init ==
    /\ data_eq = [p \in Processes |-> <<>>]
    /\ op_state = [t \in Transfers |-> {}]
    /\ put_end = [b \in Buffers |-> NONE]
    /\ awaited = [p \in Processes |-> {}]
    /\ messages = {}
    /\ req_eq = <<>> /\ matching = [i \in 1 .. NUM_REQ_QUEUES |-> i - 1]
    /\ filled = [m \in Mds |-> 0]
    /\ queue_count = [m \in Mds |-> 0]
    /\ req_queue = [s \in Mds \X (0 .. reqs_per_queue - 1) |-> NONE]
    /\ dropped = {}

Event(what, of) == [what |-> what, of |-> of]
Posted(p, e) == [data_eq EXCEPT ![p] = Append(@, e)]

-----------------------------------------------------------------------------
(* Registration and connection.  A peer needs no more than an address.     *)

unmoved == <<situation, wr, data, waiter, events, received, ptls>>

NNTI_ptl_register_memory(p) ==
    /\ Registering(p)
    /\ UNCHANGED <<conns, unmoved>>

NNTI_ptl_unregister_memory(p, b) ==
    /\ MayRelease(p, b)
    /\ registered' = registered \ {b}
    /\ UNCHANGED <<pc, conns, unmoved>>

NNTI_ptl_connect(c) ==
    /\ MayConnect(c)
    /\ conns' = conns \union {<<c, SERVER>>, <<SERVER, c>>}
    /\ UNCHANGED <<pc, registered, unmoved>>

NNTI_ptl_disconnect(c) ==
    /\ MayDisconnect(c)
    /\ conns' = conns \ {<<c, SERVER>>}
    /\ UNCHANGED <<pc, registered, unmoved>>

-----------------------------------------------------------------------------
(* Starting transfers.  The calls return at once.                          *)

undisturbed == <<situation, registered, conns>>

Begins(p, t, kind) ==
    /\ MayStart(p, t)
    /\ TransferOf[t].kind = kind
    /\ Becomes(t, "started")
    /\ messages' = messages \union {Event("data", t)}

\* A put, to a buffer or, when it is a request, to the portal of the queue.
NNTI_ptl_put(p, t) ==
    /\ Begins(p, t, "put")
    /\ data_eq' = Posted(p, Event("send", t))
    /\ UNCHANGED <<undisturbed, calls, carried, waiter, events, received, op_state, put_end,
                   awaited, queue_vars>>

NNTI_ptl_send(p, t) ==
    /\ Begins(p, t, "send")
    /\ data_eq' = Posted(p, Event("send", t))
    /\ UNCHANGED <<undisturbed, calls, carried, waiter, events, received, op_state, put_end,
                   awaited, queue_vars>>

NNTI_ptl_get(p, t) ==
    /\ Begins(p, t, "get")
    /\ UNCHANGED <<undisturbed, calls, carried, waiter, events, received, data_eq, op_state, put_end,
                   awaited, queue_vars>>

-----------------------------------------------------------------------------
(* What the network does.  Only buffers to be received in have events.     *)

Underway(t) == Event("data", t) \in messages
Delivered(t, more) == messages' = (messages \ {Event("data", t)}) \union more

PutArrives(t) ==
    /\ Underway(t) /\ TransferOf[t].kind \in {"put", "send"} /\ ~IsRequest(t)
    /\ Becomes(t, "landed")
    /\ carried' = carried \union {<<LocalPlace(t), RemotePlace(t)>>}
    /\ data_eq' = IF TypeOf[Remote(t)] \in {"RECEIVE", "RESULT"}
                  THEN Posted(Owner(Remote(t)), Event("put_end", t)) ELSE data_eq
    /\ Delivered(t, {Event("ack", t)})
    /\ UNCHANGED <<undisturbed, calls, waiter, events, received, op_state, put_end, awaited, queue_vars>>

GetArrives(t) ==
    /\ Underway(t) /\ TransferOf[t].kind = "get"
    /\ Becomes(t, "landed")
    /\ carried' = carried \union {<<RemotePlace(t), LocalPlace(t)>>}
    /\ data_eq' = Posted(By(t), Event("reply", t))
    /\ Delivered(t, {})
    /\ UNCHANGED <<undisturbed, calls, waiter, events, received, op_state, put_end, awaited, queue_vars>>

AckArrives(t) ==
    /\ Event("ack", t) \in messages
    /\ messages' = messages \ {Event("ack", t)}
    /\ data_eq' = Posted(By(t), Event("ack", t))
    /\ UNCHANGED <<undisturbed, calls, data, waiter, events, received, op_state, put_end, awaited, queue_vars>>

Room == SelectSeq(matching, LAMBDA m : filled[m] < reqs_per_queue)

\* To the first descriptor of the list whose threshold is not used up.
RequestArrives(t) ==
    /\ Underway(t) /\ IsRequest(t)
    /\ Room # <<>>
    /\ LET m == Head(Room) IN
         /\ req_queue' = [req_queue EXCEPT ![<<m, filled[m]>>] = t]
         /\ req_eq' = Append(req_eq, [of |-> t, md |-> m, slot |-> filled[m]])
         /\ filled' = [filled EXCEPT ![m] = @ + 1]
    /\ Becomes(t, "landed")
    /\ Delivered(t, {Event("ack", t)})
    /\ UNCHANGED <<undisturbed, calls, carried, waiter, events, received,
                   data_eq, op_state, put_end, awaited, matching, queue_count, dropped>>

\* Both are full: there is no ack, and nobody is told.
RequestIsDropped(t) ==
    /\ Underway(t) /\ IsRequest(t)
    /\ Room = <<>>
    /\ dropped' = dropped \union {t}
    /\ Delivered(t, {})
    /\ UNCHANGED <<undisturbed, calls, data, waiter, events, received,
                   data_eq, op_state, put_end, awaited, req_eq, matching, filled, queue_count, req_queue>>

-----------------------------------------------------------------------------
(* Waiting for transfers started, and for what arrives in a buffer.        *)

EndsUnacked(t) == IF TransferOf[t].kind = "get" THEN {"reply"} ELSE {"send"}
Ends(t) == IF TransferOf[t].kind = "get" THEN {"reply"} ELSE {"send", "ack"}
is_wr_complete(s, t) == Ends(t) \subseteq s[t]

Modes == {"one", "any", "all"}

\* The work requests that a call waiting for one, for any or for all of T may
\* return with.
Finished(s, T, mode) ==
    {done \in SUBSET T : /\ IF mode = "any" THEN Cardinality(done) = 1 ELSE done = T
                         /\ \A t \in done : is_wr_complete(s, t)}

LooksAt(p, s, T, mode) ==
    \/ \E done \in Finished(s, T, mode) :
         awaited' = [awaited EXCEPT ![p] = done] /\ Goto(p, "return")
    \/ /\ Finished(s, T, mode) = {}
       /\ awaited' = [awaited EXCEPT ![p] = T] /\ Goto(p, mode)

Awaitable(p) == {t \in used : By(t) = p /\ Local(t) \notin forgotten /\ state[t] \in {"started", "landed"}}

Waits(p, T, mode) ==
    /\ pc[p] = "idle" /\ T # {} /\ T \subseteq Awaitable(p)
    /\ LooksAt(p, op_state, T, mode)
    /\ UNCHANGED <<undisturbed, wr, data, waiter, events, received, data_eq, op_state, put_end, messages, queue_vars>>

NNTI_ptl_wait(p, t) == Waits(p, {t}, "one")
NNTI_ptl_waitany(p, T) == Cardinality(T) > 1 /\ Waits(p, T, "any")
NNTI_ptl_waitall(p, T) == Cardinality(T) > 1 /\ Waits(p, T, "all")

\* The work requests are freed, one by one.
WaitReturns(p) ==
    /\ pc[p] = "return"
    /\ \E t \in awaited[p] :
         /\ Becomes(t, "complete")
         /\ awaited' = [awaited EXCEPT ![p] = @ \ {t}]
    /\ IF awaited'[p] = {} THEN Goto(p, "idle") ELSE UNCHANGED pc
    /\ UNCHANGED <<undisturbed, wr, carried, waiter, events, received, data_eq, op_state, put_end, messages, queue_vars>>

\* decode_event_wr and process_event: a thread takes the next event.
ProcessEvent(p) ==
    LET e == Head(data_eq[p]) IN
    /\ data_eq[p] # <<>>
    /\ data_eq' = [data_eq EXCEPT ![p] = Tail(@)]
    /\ IF e.what = "put_end"
       THEN put_end' = [put_end EXCEPT ![Remote(e.of)] = e.of] /\ UNCHANGED op_state
       ELSE op_state' = [op_state EXCEPT ![e.of] = @ \union {e.what}] /\ UNCHANGED put_end

\* A poll that finds nothing goes on without looking at the work requests: it
\* returns for what this thread has recorded, or what it found when it came.
MainPolls(p) ==
    /\ pc[p] \in Modes
    /\ ProcessEvent(p)
    /\ LooksAt(p, op_state', awaited[p], pc[p])
    /\ UNCHANGED <<undisturbed, wr, data, waiter, events, received, messages, queue_vars>>

WaitTimesOut(p) ==
    /\ p \in Timed
    /\ pc[p] \in Modes
    /\ data_eq[p] = <<>>
    /\ awaited' = [awaited EXCEPT ![p] = {}]
    /\ Goto(p, "idle")
    /\ UNCHANGED <<undisturbed, wr, data, waiter, events, received, data_eq, op_state, put_end, messages, queue_vars>>

Receives == {b \in Buffers : TypeOf[b] \in {"RECEIVE", "RESULT"}}

TargetWaits(b) ==
    /\ b \in Receives /\ b \in registered /\ waiter[b] = "idle"
    /\ waiter' = [waiter EXCEPT ![b] = IF put_end[b] = NONE THEN "polling" ELSE "seen"]
    /\ UNCHANGED <<undisturbed, calls, data, events, received, ptls>>

TargetPolls(b) ==
    /\ waiter[b] = "polling"
    /\ ProcessEvent(Owner(b))
    /\ waiter' = IF put_end'[b] = NONE THEN waiter ELSE [waiter EXCEPT ![b] = "seen"]
    /\ UNCHANGED <<undisturbed, calls, data, events, received, awaited, messages, queue_vars>>

\* The wait returns; the program clears the work request for the next.
NNTI_ptl_clear_work_request(b) ==
    /\ waiter[b] = "seen"
    /\ events' = [events EXCEPT ![b] = Append(@, [of |-> put_end[b], peer |-> By(put_end[b])])]
    /\ put_end' = [put_end EXCEPT ![b] = NONE]
    /\ waiter' = [waiter EXCEPT ![b] = "idle"]
    /\ UNCHANGED <<undisturbed, calls, data, received, data_eq, op_state, awaited, messages, queue_vars>>

-----------------------------------------------------------------------------
(* Receiving requests.                                                     *)

UsedUp(m) == queue_count[m] + 1 >= reqs_per_queue

ReceiveRequest ==
    /\ QUEUE \in registered
    /\ req_eq # <<>>
    /\ LET e == Head(req_eq) IN
         /\ received' = Append(received, [request |-> req_queue[<<e.md, e.slot>>], announced |-> e.of])
         /\ IF UsedUp(e.md)
            THEN /\ matching' = Append(SelectSeq(matching, LAMBDA m : m # e.md), e.md)
                 /\ filled' = [filled EXCEPT ![e.md] = 0]
                 /\ queue_count' = [queue_count EXCEPT ![e.md] = 0]
            ELSE /\ queue_count' = [queue_count EXCEPT ![e.md] = @ + 1]
                 /\ UNCHANGED <<matching, filled>>
    /\ req_eq' = Tail(req_eq)
    /\ UNCHANGED <<undisturbed, calls, data, waiter, events, events_vars, req_queue, dropped>>

-----------------------------------------------------------------------------
\* The steps of the calls a process makes.
Step(p) ==
    \/ NNTI_ptl_register_memory(p)
    \/ \E t \in used :
         NNTI_ptl_put(p, t) \/ NNTI_ptl_get(p, t) \/ NNTI_ptl_send(p, t) \/ NNTI_ptl_wait(p, t)
    \/ \E T \in SUBSET Awaitable(p) : NNTI_ptl_waitany(p, T) \/ NNTI_ptl_waitall(p, T)
    \/ MainPolls(p) \/ WaitReturns(p) \/ WaitTimesOut(p)

Connecting(c) == NNTI_ptl_connect(c)

Waiting(b) ==
    \/ TargetWaits(b) \/ TargetPolls(b) \/ NNTI_ptl_clear_work_request(b)
    \/ b = QUEUE /\ ReceiveRequest

Arriving ==
    \E t \in used :
        \/ PutArrives(t) \/ GetArrives(t) \/ AckArrives(t)
        \/ RequestArrives(t) \/ RequestIsDropped(t)

Finishing ==
    \/ \E p \in Processes, b \in Buffers : NNTI_ptl_unregister_memory(p, b)
    \/ \E c \in Clients : NNTI_ptl_disconnect(c)

Next ==
    \/ \E p \in Processes : Step(p)
    \/ \E c \in Clients : Connecting(c)
    \/ \E b \in Buffers : Waiting(b)
    \/ Arriving \/ Finishing

\* A wait whose event another thread of the process has taken.
Robbed(b) == waiter[b] = "polling" /\ put_end[b] # NONE
Overlooked(p) == pc[p] \in Modes /\ Finished(op_state, awaited[p], pc[p]) # {}

=============================================================================
