------------------------------ MODULE Messaging ------------------------------
(***************************************************************************)
(* What the programs on the DCMF, PAMI and Portals transports do, and what *)
(* they see: clients connect to a server, put, get and send to buffers     *)
(* they know of, send requests to the server's queue, and wait.  The       *)
(* modules Dcmf, Pami and Portals say how each transport does it.          *)
(*                                                                         *)
(* A process makes one call at a time; further threads of it wait for what *)
(* others do to its buffers, one thread per buffer.                        *)
(***************************************************************************)
EXTENDS Integers, Sequences, FiniteSets, SequencesExt, Functions, FiniteSetsExt

CONSTANTS
    Clients,
    Buffers, BuffersOf,     \* process |-> its buffers, in the order of registering
    TypeOf,                 \* buffer |-> its type, as in the transports' memory handles
    Released,               \* the buffers that are unregistered after use
    Transfers, TransferOf,  \* what is put, got and sent, and by which process
    On                      \* transport |-> the situations: transfers to be made, elements of
                            \* the request queue, and the local buffers nobody waits for

SERVER == "server"
QUEUE == "queue"
NONE == "none"
Processes == Clients \union {SERVER}

ASSUME MessagingAssumptions ==
    /\ SERVER \notin Clients
    /\ BuffersOf \in [Processes -> Seq(Buffers)]
    /\ QUEUE \in ToSet(BuffersOf[SERVER]) /\ TypeOf[QUEUE] = "REQUEST"
    /\ \A s \in UNION Range(On) : s.transfers \subseteq Transfers /\ s.elements \in Nat \ {0, 1}

VARIABLES
    transport,              \* the transport in use
    used, req_count,        \* the transfers to be made, and the size of the queue
    forgotten,              \* the local buffers whose owner does not wait for its transfers
    registered,             \* the buffers that are registered
    pc,                     \* process |-> where its call is
    wr,                     \* process |-> the transfer the call is about
    conns,                  \* <<p, q>>: p has a connection to q
    state,                  \* transfer |-> "idle", "started", "landed", "complete"
    carried,                \* <<from, to>>: data that has been moved
    waiter,                 \* buffer |-> where the thread is that waits for its events
    events,                 \* buffer |-> the events its owner got from waiting
    received                \* the requests the server got from its queue

situation == <<transport, used, req_count, forgotten>>
shared == <<situation, registered, pc, wr, conns, state, carried, waiter, events, received>>
calls == <<pc, wr>>
data == <<state, carried>>

By(t) == TransferOf[t].by
Local(t) == TransferOf[t].local
Remote(t) == TransferOf[t].remote
OwnerOf == [b \in Buffers |-> CHOOSE p \in Processes : b \in ToSet(BuffersOf[p])]
Owner(b) == OwnerOf[b]
IsRequest(t) == Remote(t) = QUEUE
LocalPlace(t) == <<Local(t), TransferOf[t].loff>>
RemotePlace(t) == <<Remote(t), TransferOf[t].roff>>
UsersOf(b) == {t \in used : b \in {Local(t), Remote(t)}}
WithEvents == {b \in Buffers : TypeOf[b] \in {"RECEIVE", "RESULT", "PUT_DST"}}

Goto(p, there) == pc' = [pc EXCEPT ![p] = there]
Returns(p) == Goto(p, "idle") /\ wr' = [wr EXCEPT ![p] = NONE]
Becomes(t, s) == state' = [state EXCEPT ![t] = s]

\* A program registers its buffers, and then makes calls; others know of
\* them then.
Mine(p) == SelectSeq(BuffersOf[p], LAMBDA b : b = QUEUE \/ UsersOf(b) # {})
Unregistered(p) == SelectSeq(Mine(p), LAMBDA b : b \notin registered)

Registering(p) ==
    /\ pc[p] = "registering"
    /\ registered' = registered \union {Head(Unregistered(p))}
    /\ Goto(p, IF Len(Unregistered(p)) = 1 THEN "idle" ELSE "registering")

MessagingInit ==
    /\ transport \in DOMAIN On
    /\ \E s \in On[transport] : used = s.transfers /\ req_count = s.elements /\ forgotten = s.forgotten
    /\ registered = {}
    /\ pc = [p \in Processes |-> IF Mine(p) = <<>> THEN "idle" ELSE "registering"]
    /\ wr = [p \in Processes |-> NONE]
    /\ conns = {}
    /\ state = [t \in Transfers |-> "idle"]
    /\ carried = {}
    /\ waiter = [b \in Buffers |-> "idle"]
    /\ events = [b \in Buffers |-> <<>>]
    /\ received = <<>>

\* What a program lets others wait for: the server has got the request.
Done(t) == IF IsRequest(t) THEN \E i \in DOMAIN received : received[i].request = t
           ELSE state[t] = "complete"

\* The owner of the target has got the event of the transfer.
Reports(b, t) == Cardinality({i \in DOMAIN events[b] : events[b][i].of = t})
Heard(t) == Reports(Remote(t), t) > 0 /\ waiter[Remote(t)] = "idle"

\* What a process may call for: it is connected, and knows the target.
MayStart(p, t) ==
    /\ pc[p] = "idle"
    /\ t \in used /\ By(t) = p /\ state[t] = "idle"
    /\ \A u \in TransferOf[t].after \intersect used : Done(u)
    /\ \A u \in TransferOf[t].heard \intersect used : Heard(u)
    /\ pc[Owner(Remote(t))] # "registering"
    /\ <<p, Owner(Remote(t))>> \in conns

Starts(p, t, there) ==
    /\ MayStart(p, t)
    /\ Becomes(t, "started")
    /\ wr' = [wr EXCEPT ![p] = t]
    /\ Goto(p, there)

\* The transfers of which the owner of buffer b, or its peers, are not done.
Pending(b) == {t \in UsersOf(b) : state[t] # "complete"}

MayRelease(p, b) ==
    /\ pc[p] = "idle" /\ waiter[b] = "idle"
    /\ b \in Released /\ b \in registered /\ b \in ToSet(BuffersOf[p])
    /\ Pending(b) = {}
    /\ b \in WithEvents => \A t \in UsersOf(b) : Heard(t)

\* A client connects when it has something to do, and disconnects when it
\* has waited for everything it did.
MayConnect(c) ==
    /\ pc[c] = "idle" /\ QUEUE \in registered
    /\ <<c, SERVER>> \notin conns
    /\ \E t \in used : By(t) = c /\ state[t] = "idle"

MayDisconnect(c) ==
    /\ pc[c] = "idle"
    /\ <<c, SERVER>> \in conns
    /\ \A t \in used : By(t) = c => state[t] = "complete"

=============================================================================
