-------------------------------- MODULE Dcmf --------------------------------
(***************************************************************************)
(* The transport for Blue Gene/P (nnti/nnti_dcmf.cpp).                     *)
(*                                                                         *)
(* The network offers messages and one-sided puts and gets; a put tells    *)
(* its initiator when the data has left, and when it has arrived.  The     *)
(* target of a transfer learns of it from the initiator: when that waits,  *)
(* it puts its work completion to the one the target's buffer was          *)
(* registered with.  A client asks a thread of the server for the index of *)
(* an element of the request queue by a put as well, to the word of its    *)
(* rank in unblock_buffer, and gets the index put to its req_index.        *)
(*                                                                         *)
(* Locks are left out: a thread that advances the network holds the lock   *)
(* that the callbacks it runs take again, so that only a build without     *)
(* locks gets any further.                                                 *)
(***************************************************************************)
EXTENDS BlueGene

VARIABLES
    conn_req,       \* of the server: conn_req[], the clients that asked for a connection
    listener,       \* of the server: the client its listener is connecting, or NONE
    flight,         \* puts of completions, questions and answers on their way
    unblock,        \* the clients whose word in unblock_buffer is set
    answering       \* the client that fetch_req_index_thread is answering, or NONE

connecting == <<net, conn_req, listener>>
asking == <<unblock, answering, index>>
dcmf == <<conn_req, listener, flight, unblock, answering>>
vars == <<shared, bluegene, dcmf>>

Init ==
    /\ conn_req = {} /\ listener = NONE
    /\ flight = {} /\ unblock = {} /\ answering = NONE

PutOf(what, t) == [what |-> what, of |-> t]

-----------------------------------------------------------------------------
(* Registration.                                                           *)

NNTI_bgpdcmf_register_memory(p) ==
    /\ Registers(p)
    /\ UNCHANGED <<situation, wr, conns, data, waiter, events, received,
                   connecting, completions, flight, asking, queue>>

NNTI_bgpdcmf_unregister_memory(p, b) ==
    /\ Unregisters(p, b)
    /\ UNCHANGED <<situation, calls, conns, data, waiter, events, received,
                   connecting, completions, flight, asking, queue>>

-----------------------------------------------------------------------------
(* Connections.  A thread that waits for the network runs the callbacks of *)
(* whatever arrives.                                                       *)

unmoved == <<situation, registered, data, waiter, events, received, targets, flight, asking, queue>>

NNTI_bgpdcmf_connect(c) ==
    /\ MayConnect(c)
    /\ Sent("init", c, SERVER)
    /\ Goto(c, "send_once")
    /\ UNCHANGED <<wr, conns, conn_req, listener, unmoved>>

\* send_once is through; new_client_connection sets _recv_active, and waits.
AwaitAttributes(c) ==
    /\ pc[c] = "send_once"
    /\ Goto(c, "await_attrs")
    /\ UNCHANGED <<wr, conns, connecting, unmoved>>

\* The server's attributes arrive: too early, they are not waited for.
ClientReceives(c) ==
    LET m == Message("server_attrs", SERVER, c) IN
    /\ m \in net
    /\ pc[c] \in {"send_once", "await_attrs"}
    /\ net' = IF pc[c] = "await_attrs"
              THEN (net \ {m}) \union {Message("client_attrs", c, SERVER)} ELSE net \ {m}
    /\ IF pc[c] = "await_attrs" THEN Goto(c, "await_confirm") ELSE UNCHANGED pc
    /\ UNCHANGED <<wr, conns, conn_req, listener, unmoved>>

control_recv(c) ==
    /\ pc[c] = "await_confirm"
    /\ Gets("confirm", SERVER, c)
    /\ conns' = conns \union {<<c, SERVER>>}
    /\ Goto(c, "idle")
    /\ UNCHANGED <<wr, conn_req, listener, unmoved>>

cb_recv_new_short(c) ==
    /\ \/ /\ Gets("init", c, SERVER)
          /\ conn_req' = IF <<SERVER, c>> \in conns THEN conn_req ELSE conn_req \union {c}
       \/ /\ Message("client_attrs", c, SERVER) \in net
          /\ net' = (net \ {Message("client_attrs", c, SERVER)}) \union {Message("confirm", SERVER, c)}
          /\ UNCHANGED conn_req
    /\ UNCHANGED <<calls, conns, listener, unmoved>>

\* conn_req keeps the client; the connection keeps it from being served again.
new_server_connection(c) ==
    /\ listener = NONE
    /\ c \in conn_req /\ <<SERVER, c>> \notin conns
    /\ Sent("server_attrs", SERVER, c)
    /\ listener' = c
    /\ UNCHANGED <<calls, conns, conn_req, unmoved>>

insert_conn_rank ==
    /\ listener # NONE
    /\ conns' = conns \union {<<SERVER, listener>>}
    /\ listener' = NONE
    /\ UNCHANGED <<calls, net, conn_req, unmoved>>

\* The server is not told.
NNTI_bgpdcmf_disconnect(c) ==
    /\ MayDisconnect(c)
    /\ conns' = conns \ {<<c, SERVER>>}
    /\ UNCHANGED <<calls, connecting, unmoved>>

-----------------------------------------------------------------------------
(* Transfers.  A call returns when the data has arrived, its work request  *)
(* at the end of the queue of the local buffer.                            *)

undisturbed == <<situation, registered, conns, connecting>>

NNTI_bgpdcmf_put(p, t) ==
    /\ TransferOf[t].kind = "put"
    /\ Starts(p, t, "put")
    /\ UNCHANGED <<undisturbed, carried, waiter, events, received, targets, flight, asking, queue>>

\* To a buffer that is not a queue: a put of all of the message.
NNTI_bgpdcmf_send(p, t) ==
    /\ TransferOf[t].kind = "send" /\ ~IsRequest(t)
    /\ Starts(p, t, "put")
    /\ UNCHANGED <<undisturbed, carried, waiter, events, received, targets, flight, asking, queue>>

NNTI_bgpdcmf_get(p, t) ==
    /\ TransferOf[t].kind = "get"
    /\ Starts(p, t, "get")
    /\ UNCHANGED <<undisturbed, carried, waiter, events, received, targets, flight, asking, queue>>

Lands(p, from, to) ==
    /\ Becomes(wr[p], "landed")
    /\ carried' = carried \union {<<from, to>>}
    /\ wr_queue' = Pushed(Local(wr[p]), wr[p])
    /\ Returns(p)
    /\ UNCHANGED <<undisturbed, waiter, events, received, completions, flight, asking, queue>>

PutLands(p) == pc[p] = "put" /\ Lands(p, LocalPlace(wr[p]), RemotePlace(wr[p]))
GetLands(p) == pc[p] = "get" /\ Lands(p, RemotePlace(wr[p]), LocalPlace(wr[p]))

send_ackOfPuts(t) == IF TransferOf[t].kind = "put" THEN flight \union {PutOf("ack", t)} ELSE flight
send_ack(t) == IF IsRequest(t) THEN flight ELSE flight \union {PutOf("ack", t)}

\* The call has seen the data arrive; what is left is to tell the target.
NNTI_bgpdcmf_wait(p, b) ==
    /\ Completes(p, b)
    /\ flight' = send_ack(Head(Pop(b)))
    /\ UNCHANGED <<undisturbed, calls, carried, waiter, events, received, completions, asking, queue>>

AckLands(t) ==
    /\ PutOf("ack", t) \in flight
    /\ flight' = flight \ {PutOf("ack", t)}
    /\ Replaces(Remote(t), t)
    /\ UNCHANGED <<undisturbed, calls, data, waiter, events, received, wr_queue, asking, queue>>

-----------------------------------------------------------------------------
(* Waiting at a target.                                                    *)

TargetReturnsAtOnce(b) ==
    /\ ReturnsAtOnce(b)
    /\ wc' = [wc EXCEPT ![b] = NONE]
    /\ UNCHANGED <<undisturbed, calls, data, waiter, received, wr_queue, overwritten, flight, asking, queue>>

\* process_event: op_complete is 1; only some types look at who sent it.
TargetCompletes(b) ==
    /\ Waitable(b)
    /\ b \in WithEvents
    /\ wc[b] # NONE
    /\ wr_queue' = [wr_queue EXCEPT ![b] = Tail(@)]
    /\ waiter' = [waiter EXCEPT ![b] = IF TypeOf[b] = "PUT_DST" THEN NONE ELSE By(wc[b])]
    /\ UNCHANGED <<undisturbed, calls, data, events, received, completions, flight, asking, queue>>

repostedNot(b) == wc  \* op_complete not reset, as on Blue Gene/Q
reposted(b) == [wc EXCEPT ![b] = NONE]

\* A completion that arrives in between takes the place of the one reported.
repost_recv_work_request(b) ==
    /\ b \in WithEvents
    /\ waiter[b] # "idle"
    /\ events' = [events EXCEPT ![b] = Append(@, [of |-> wc[b], peer |-> waiter[b]])]
    /\ waiter' = [waiter EXCEPT ![b] = "idle"]
    /\ wc' = reposted(b)
    /\ wr_queue' = Pushed(b, REGISTER)
    /\ UNCHANGED <<undisturbed, calls, data, received, overwritten, flight, asking, queue>>

-----------------------------------------------------------------------------
(* Requests: a client asks for an index, puts the request to that element, *)
(* and then its completion.                                                *)

request_send(p, t) ==
    /\ TransferOf[t].kind = "send" /\ IsRequest(t)
    /\ Starts(p, t, "fetch")
    /\ wr_queue' = Pushed(Local(t), t)
    /\ index' = [index EXCEPT ![p] = -1]
    /\ flight' = flight \union {PutOf("unblock", p)}
    /\ UNCHANGED <<undisturbed, carried, waiter, events, received, completions, unblock, answering, queue>>

UnblockLands(c) ==
    /\ PutOf("unblock", c) \in flight
    /\ flight' = flight \ {PutOf("unblock", c)}
    /\ unblock' = unblock \union {c}
    /\ UNCHANGED <<undisturbed, calls, data, waiter, events, received, targets, answering, index, queue>>

Answer(c, i) == [what |-> "index", of |-> c, index |-> i]

\* fetch_req_index_thread: the answer has left, and is read before req_index
\* is incremented; then the word is cleared, for a new question as well.
fetch_req_index(c) ==
    /\ answering = NONE /\ c \in unblock
    /\ answering' = c
    /\ flight' = flight \union {Answer(c, req_index)}
    /\ UNCHANGED <<undisturbed, calls, data, waiter, events, received, targets, unblock, index, queue>>

incrementedNot == req_index
incremented == req_index + 1

advance_req_index ==
    /\ answering # NONE
    /\ req_index' = incremented
    /\ unblock' = unblock \ {answering}
    /\ answering' = NONE
    /\ UNCHANGED <<undisturbed, calls, data, waiter, events, received, targets, flight, index,
                   req_processed, reset_limit, req_buffer, wc_buffer>>

fetch_server_req_buffer_offset(c) ==
    /\ pc[c] = "fetch"
    /\ \E a \in flight :
         /\ a.what = "index" /\ a.of = c
         /\ index' = [index EXCEPT ![c] = a.index]
         /\ flight' = flight \ {a}
    /\ Goto(c, "send_req")
    /\ UNCHANGED <<undisturbed, wr, data, waiter, events, received, targets, unblock, answering, queue>>

\* The request has arrived; its completion leaves.
send_req(c) ==
    /\ pc[c] = "send_req"
    /\ req_buffer' = [req_buffer EXCEPT ![index[c]] = wr[c]]
    /\ Becomes(wr[c], "landed")
    /\ flight' = flight \union {[what |-> "wc", of |-> wr[c], index |-> index[c]]}
    /\ Returns(c)
    /\ UNCHANGED <<undisturbed, carried, waiter, events, received, targets, asking,
                   req_index, req_processed, reset_limit, wc_buffer>>

send_req_wc(m) ==
    /\ m \in flight /\ m.what = "wc"
    /\ flight' = flight \ {m}
    /\ wc_buffer' = [wc_buffer EXCEPT ![m.index] = m.of]
    /\ UNCHANGED <<undisturbed, calls, data, waiter, events, received, targets, asking,
                   req_index, req_processed, reset_limit, req_buffer>>

\* process_event for the queue, and reposting.
AnnouncedNot == req_index # req_processed
Announced == Arrived

ReceiveRequest ==
    /\ Announced
    /\ TakesRequest
    /\ UNCHANGED <<undisturbed, calls, data, waiter, events, targets, flight, asking, elements>>

-----------------------------------------------------------------------------
\* The steps of the calls a process makes.
Step(p) ==
    \/ NNTI_bgpdcmf_register_memory(p)
    \/ \E b \in Buffers : NNTI_bgpdcmf_wait(p, b)
    \/ \E t \in used :
         \/ NNTI_bgpdcmf_put(p, t) \/ NNTI_bgpdcmf_get(p, t) \/ NNTI_bgpdcmf_send(p, t)
         \/ request_send(p, t)
    \/ PutLands(p) \/ GetLands(p)

Connecting(c) ==
    \/ NNTI_bgpdcmf_connect(c) \/ AwaitAttributes(c) \/ ClientReceives(c) \/ control_recv(c)
    \/ fetch_server_req_buffer_offset(c) \/ send_req(c)

\* Those of the server's threads.
Listening == insert_conn_rank \/ \E c \in Clients : cb_recv_new_short(c) \/ new_server_connection(c)
Fetching == advance_req_index \/ \E c \in Clients : fetch_req_index(c)
Waiting(b) ==
    \/ TargetCompletes(b) \/ TargetReturnsAtOnce(b) \/ repost_recv_work_request(b)
    \/ b = QUEUE /\ ReceiveRequest

Arriving ==
    \/ \E t \in used : AckLands(t)
    \/ \E c \in Clients : UnblockLands(c)
    \/ \E m \in flight : send_req_wc(m)

Finishing ==
    \/ \E p \in Processes, b \in Buffers : NNTI_bgpdcmf_unregister_memory(p, b)
    \/ \E c \in Clients : NNTI_bgpdcmf_disconnect(c)

Next ==
    \/ \E p \in Processes : Step(p)
    \/ \E c \in Clients : Connecting(c)
    \/ \E b \in Buffers : Waiting(b)
    \/ Listening \/ Fetching \/ Arriving \/ Finishing

\* A question whose word was cleared before fetch_req_index_thread saw it.
Erased(c) ==
    /\ pc[c] = "fetch"
    /\ c \notin unblock /\ answering = NONE
    /\ \A m \in flight : m.of # c

=============================================================================
