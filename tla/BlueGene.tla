------------------------------ MODULE BlueGene ------------------------------
(***************************************************************************)
(* What the two Blue Gene transports (nnti/nnti_dcmf.cpp and, with another *)
(* network beneath, nnti/nnti_pami.cpp) have in common: queues of work     *)
(* requests, completions that the initiator of a transfer writes to its    *)
(* target, and the request queue.                                          *)
(***************************************************************************)
EXTENDS Messaging

CONSTANT MaxReports     \* bound on the waits that return with the same completion

VARIABLES
    net,            \* messages on their way: [what, from, to]
    wr_queue,       \* buffer |-> its queue of work requests
    wc,             \* buffer |-> the transfer its completion tells of, or NONE
    overwritten,    \* history: the transfers whose completion was replaced before it was reported
    index,          \* client |-> the index its request was given
    req_index, req_processed, reset_limit,     \* of the queue
    req_buffer,     \* element |-> the request in it
    wc_buffer       \* element |-> the request its work completion tells of

completions == <<wc, overwritten>>
targets == <<wr_queue, completions>>
elements == <<req_buffer, wc_buffer>>
queue == <<req_index, req_processed, reset_limit, elements>>
bluegene == <<net, targets, index, queue>>

REGISTER == "REGISTER_RDMA"

\* Elements from req_count on are outside the buffer.
Elements == 0 .. Cardinality(Transfers)

BlueGeneInit ==
    /\ net = {}
    /\ wr_queue = [b \in Buffers |-> <<>>]
    /\ wc = [b \in Buffers |-> NONE]
    /\ overwritten = {}
    /\ index = [c \in Clients |-> -1]
    /\ req_index = 0 /\ req_processed = 0 /\ reset_limit = req_count
    /\ req_buffer = [e \in Elements |-> NONE]
    /\ wc_buffer = [e \in Elements |-> NONE]

Message(what, from, to) == [what |-> what, from |-> from, to |-> to]
Sent(what, from, to) == net' = net \union {Message(what, from, to)}
Gets(what, from, to) ==
    /\ Message(what, from, to) \in net
    /\ net' = net \ {Message(what, from, to)}

Registers(p) ==
    /\ Registering(p)
    /\ wr_queue' = [wr_queue EXCEPT ![Head(Unregistered(p))] = Append(@, REGISTER)]

Unregisters(p, b) ==
    /\ MayRelease(p, b)
    /\ registered' = registered \ {b}
    /\ wr_queue' = [wr_queue EXCEPT ![b] = <<>>]

\* A wait takes the first work request; an initiator's leaves out that of
\* registration.
Pop(b) == IF wr_queue[b] # <<>> /\ Head(wr_queue[b]) = REGISTER THEN Tail(wr_queue[b]) ELSE wr_queue[b]
PushedNot(b, w) == wr_queue
Pushed(b, w) == [wr_queue EXCEPT ![b] = Append(@, w)]

Completes(p, b) ==
    /\ pc[p] = "idle"
    /\ b \in registered /\ b \in ToSet(BuffersOf[p])
    /\ TypeOf[b] \in {"SEND", "PUT_SRC", "GET_DST"} /\ b \notin forgotten
    /\ Pop(b) # <<>>
    /\ wr_queue' = [wr_queue EXCEPT ![b] = Tail(Pop(b))]
    /\ Becomes(Head(Pop(b)), "complete")

\* A target that is waited on: the work request of its registration does not
\* change until its completion tells of an operation.
Waitable(b) == b \in registered /\ waiter[b] = "idle" /\ wr_queue[b] # <<>>

\* A target has room for one completion.
Replaces(b, t) ==
    /\ wc' = [wc EXCEPT ![b] = t]
    /\ overwritten' = overwritten \union {u \in {wc[b]} \ {NONE} : Reports(b, u) = 0}

\* op_state of a target is never RDMA_TARGET_INIT or RDMA_READ_INIT.
ReturnsAtOnce(b) ==
    /\ Waitable(b)
    /\ TypeOf[b] \in {"GET_SRC", "RDMA_TARGET"}
    /\ Reports(b, NONE) < MaxReports
    /\ events' = [events EXCEPT ![b] = Append(@, [of |-> NONE, peer |-> NONE])]

Arrived == req_index # req_processed /\ wc_buffer[req_processed] # NONE

\* At half of the queue the index starts again, if all of it was given out.
StartsAgain == req_processed + 1 = req_count \div 2 /\ req_index >= req_count
Limit == IF StartsAgain THEN 0 ELSE reset_limit
NextProcessed == IF req_processed + 1 = Limit THEN 0 ELSE req_processed + 1

\* A wait for the queue.  req_received stays set.
TakesRequest ==
    /\ Waitable(QUEUE)
    /\ received' = Append(received, [request |-> req_buffer[req_processed],
                                     announced |-> wc_buffer[req_processed]])
    /\ req_index' = IF StartsAgain THEN 0 ELSE req_index
    /\ reset_limit' = Limit
    /\ req_processed' = NextProcessed

=============================================================================
