-------------------------------- MODULE Pami --------------------------------
(***************************************************************************)
(* The transport for Blue Gene/Q (nnti/nnti_pami.cpp).                     *)
(*                                                                         *)
(* As on Blue Gene/P the initiator of a transfer writes a completion to    *)
(* its target, here before the call returns.  A client draws the index of  *)
(* an element of the request queue itself, with a remote fetch-and-add.    *)
(* To connect, client and server send each other the attributes of their   *)
(* queues; they are taken in by a thread of their own that advances the    *)
(* network, whatever the client's thread is at.                            *)
(***************************************************************************)
EXTENDS BlueGene

VARIABLES
    conn_list,      \* of the server: the clients to send attributes to
    conn_ack,       \* the clients whose conn_ack has been decremented
    storing,        \* the clients between that and storing the attributes
    attrs           \* the clients that have the attributes of the server's queue

connecting == <<net, conn_list, conn_ack, storing, attrs>>
pami == <<conn_list, conn_ack, storing, attrs>>
vars == <<shared, bluegene, pami>>

Init == conn_list = {} /\ conn_ack = {} /\ storing = {} /\ attrs = {}

-----------------------------------------------------------------------------
(* Registration.                                                           *)

NNTI_bgqpami_register_memory(p) ==
    /\ Registers(p)
    /\ UNCHANGED <<situation, wr, conns, data, waiter, events, received, connecting, completions, index, queue>>

NNTI_bgqpami_unregister_memory(p, b) ==
    /\ Unregisters(p, b)
    /\ UNCHANGED <<situation, calls, conns, data, waiter, events, received, connecting, completions, index, queue>>

-----------------------------------------------------------------------------
(* Connections.                                                            *)

unmoved == <<situation, registered, data, waiter, events, received, targets, index, queue>>

NNTI_bgqpami_connect(c) ==
    /\ MayConnect(c)
    /\ Sent("client_attrs", c, SERVER)
    /\ conn_ack' = conn_ack \ {c}
    /\ Goto(c, "send_once")
    /\ UNCHANGED <<wr, conns, conn_list, storing, attrs, unmoved>>

\* send_once is through.
InsertConnection(c) ==
    /\ pc[c] = "send_once"
    /\ conns' = conns \union {<<c, SERVER>>}
    /\ Goto(c, "await_ack")
    /\ UNCHANGED <<wr, connecting, unmoved>>

ConnectReturns(c) ==
    /\ pc[c] = "await_ack"
    /\ c \in conn_ack
    /\ Goto(c, "idle")
    /\ UNCHANGED <<wr, conns, connecting, unmoved>>

\* dispatch_recv_cb of the server: only of a client it does not know.
ServerDispatches(c) ==
    /\ Gets("client_attrs", c, SERVER)
    /\ conns' = conns \union {<<SERVER, c>>}
    /\ conn_list' = IF <<SERVER, c>> \in conns THEN conn_list ELSE conn_list \union {c}
    /\ UNCHANGED <<calls, conn_ack, storing, attrs, unmoved>>

check_poll_for_new_connections ==
    /\ conn_list # {}
    /\ net' = net \union {Message("server_attrs", SERVER, c) : c \in conn_list}
    /\ conn_list' = {}
    /\ UNCHANGED <<calls, conns, conn_ack, storing, attrs, unmoved>>

ClientDispatches(c) ==
    /\ Gets("server_attrs", SERVER, c)
    /\ conn_ack' = conn_ack \union {c}
    /\ storing' = storing \union {c}
    /\ UNCHANGED <<calls, conns, conn_list, attrs, unmoved>>

\* The attributes go to the connection, if there is one.
StoreAttributes(c) ==
    /\ c \in storing
    /\ storing' = storing \ {c}
    /\ attrs' = IF <<c, SERVER>> \in conns THEN attrs \union {c} ELSE attrs
    /\ UNCHANGED <<calls, conns, net, conn_list, conn_ack, unmoved>>

del_conn_rank(p, q) == conns' = conns \ {<<p, q>>}

NNTI_bgqpami_disconnect(c) ==
    /\ MayDisconnect(c)
    /\ del_conn_rank(c, SERVER)
    /\ attrs' = attrs \ {c}
    /\ UNCHANGED <<calls, net, conn_list, conn_ack, storing, unmoved>>

-----------------------------------------------------------------------------
(* Transfers.                                                              *)

undisturbed == <<situation, registered, conns, connecting>>

NNTI_bgqpami_put(p, t) ==
    /\ TransferOf[t].kind = "put"
    /\ Starts(p, t, "put")
    /\ UNCHANGED <<undisturbed, carried, waiter, events, received, targets, index, queue>>

NNTI_bgqpami_send(p, t) ==
    /\ TransferOf[t].kind = "send" /\ ~IsRequest(t)
    /\ Starts(p, t, "put")
    /\ UNCHANGED <<undisturbed, carried, waiter, events, received, targets, index, queue>>

NNTI_bgqpami_get(p, t) ==
    /\ TransferOf[t].kind = "get"
    /\ Starts(p, t, "get")
    /\ UNCHANGED <<undisturbed, carried, waiter, events, received, targets, index, queue>>

Lands(p, from, to) ==
    /\ Becomes(wr[p], "landed")
    /\ carried' = carried \union {<<from, to>>}
    /\ Goto(p, "completion")
    /\ UNCHANGED <<undisturbed, wr, waiter, events, received, targets, index, queue>>

PutLandsBackwards(p) == pc[p] = "put" /\ Lands(p, RemotePlace(wr[p]), LocalPlace(wr[p]))
PutLands(p) == pc[p] = "put" /\ Lands(p, LocalPlace(wr[p]), RemotePlace(wr[p]))

\* From the beginning of the remote buffer, whatever src_offset says.
GetLands(p) == pc[p] = "get" /\ Lands(p, <<Remote(wr[p]), 0>>, LocalPlace(wr[p]))

CompletionLands(p) ==
    /\ pc[p] = "completion"
    /\ Replaces(Remote(wr[p]), wr[p])
    /\ wr_queue' = Pushed(Local(wr[p]), wr[p])
    /\ Returns(p)
    /\ UNCHANGED <<undisturbed, data, waiter, events, received, index, queue>>

\* process_event of an initiator's work request: nothing is left to wait for.
ProcessesOwn(p, b) == Completes(p, b)

NNTI_bgqpami_wait(p, b) ==
    /\ ProcessesOwn(p, b)
    /\ UNCHANGED <<undisturbed, calls, carried, waiter, events, received, completions, index, queue>>

-----------------------------------------------------------------------------
(* Waiting at a target.                                                    *)

TargetReturnsAtOnce(b) ==
    /\ ReturnsAtOnce(b)
    /\ UNCHANGED <<undisturbed, calls, data, waiter, received, targets, index, queue>>

CompleteAlways(b) == TRUE
Complete(b) == wc[b] # NONE

\* The completion is not reset, and the next wait sees it again.  The work
\* request of a result buffer is freed.
TargetCompletes(b) ==
    /\ Waitable(b)
    /\ b \in WithEvents
    /\ Complete(b) /\ Reports(b, wc[b]) < MaxReports
    /\ events' = [events EXCEPT ![b] = Append(@,
                     [of |-> wc[b], peer |-> IF TypeOf[b] = "PUT_DST" \/ wc[b] = NONE THEN NONE ELSE By(wc[b])])]
    /\ wr_queue' = IF TypeOf[b] = "RESULT" THEN [wr_queue EXCEPT ![b] = Tail(@)] ELSE wr_queue
    /\ UNCHANGED <<undisturbed, calls, data, waiter, received, completions, index, queue>>

-----------------------------------------------------------------------------
(* Requests.                                                               *)

\* A client whose connection got no attributes has no address to send to.
request_send(p, t) ==
    /\ TransferOf[t].kind = "send" /\ IsRequest(t)
    /\ p \in attrs
    /\ Starts(p, t, "fetch")
    /\ wr_queue' = Pushed(Local(t), t)
    /\ UNCHANGED <<undisturbed, carried, waiter, events, received, completions, index, queue>>

fetched == req_index + 1

fetch_server_req_buffer_offset(c) ==
    /\ pc[c] = "fetch"
    /\ index' = [index EXCEPT ![c] = req_index]
    /\ req_index' = fetched
    /\ Goto(c, "send_req")
    /\ UNCHANGED <<undisturbed, wr, data, waiter, events, received, targets, req_processed, reset_limit, elements>>

send_req(c) ==
    /\ pc[c] = "send_req"
    /\ req_buffer' = [req_buffer EXCEPT ![index[c]] = wr[c]]
    /\ Becomes(wr[c], "landed")
    /\ Goto(c, "send_req_wc")
    /\ UNCHANGED <<undisturbed, wr, carried, waiter, events, received, targets, index,
                   req_index, req_processed, reset_limit, wc_buffer>>

send_req_wc(c) ==
    /\ pc[c] = "send_req_wc"
    /\ wc_buffer' = [wc_buffer EXCEPT ![index[c]] = wr[c]]
    /\ Returns(c)
    /\ UNCHANGED <<undisturbed, data, waiter, events, received, targets, index,
                   req_index, req_processed, reset_limit, req_buffer>>

ReceiveRequest ==
    /\ Arrived
    /\ TakesRequest
    /\ UNCHANGED <<undisturbed, calls, data, waiter, events, targets, index, elements>>

-----------------------------------------------------------------------------
\* The steps of the calls a process makes.
Step(p) ==
    \/ NNTI_bgqpami_register_memory(p)
    \/ \E b \in Buffers : NNTI_bgqpami_wait(p, b)
    \/ \E t \in used :
         \/ NNTI_bgqpami_put(p, t) \/ NNTI_bgqpami_get(p, t) \/ NNTI_bgqpami_send(p, t)
         \/ request_send(p, t)
    \/ PutLands(p) \/ GetLands(p) \/ CompletionLands(p)

Connecting(c) ==
    \/ NNTI_bgqpami_connect(c) \/ InsertConnection(c) \/ ConnectReturns(c)
    \/ fetch_server_req_buffer_offset(c) \/ send_req(c) \/ send_req_wc(c)

\* Those of the threads that advance the network.
Listening ==
    \/ check_poll_for_new_connections
    \/ \E c \in Clients : ServerDispatches(c) \/ ClientDispatches(c) \/ StoreAttributes(c)

Waiting(b) ==
    \/ TargetCompletes(b) \/ TargetReturnsAtOnce(b)
    \/ b = QUEUE /\ ReceiveRequest

Finishing ==
    \/ \E p \in Processes, b \in Buffers : NNTI_bgqpami_unregister_memory(p, b)
    \/ \E c \in Clients : NNTI_bgqpami_disconnect(c)

Next ==
    \/ \E p \in Processes : Step(p)
    \/ \E c \in Clients : Connecting(c)
    \/ \E b \in Buffers : Waiting(b)
    \/ Listening \/ Finishing

=============================================================================
