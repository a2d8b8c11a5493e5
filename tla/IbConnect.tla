------------------------------ MODULE IbConnect ------------------------------
(***************************************************************************)
(* Connections of the InfiniBand transport (nnti/nnti_ib.cpp).  Processes  *)
(* agree on their queue pairs over a TCP socket: the client, that calls    *)
(* NNTI_connect, and the server, of which a thread that waits for          *)
(* something accepts the socket, both blocking until the other has         *)
(* written.  A socket n has two ends, <<n, "client">> and <<n, "server">>, *)
(* each with an ib_connection of the two queue pairs, which are always     *)
(* treated alike.  An end stands for its connection, and for the numbers   *)
(* of its queue pairs.                                                     *)
(***************************************************************************)
EXTENDS Naturals, Sequences, FiniteSets, SequencesExt

CONSTANTS
    Procs,          \* the processes
    ThreadsOf,      \* process |-> its threads
    Reaches,        \* <<p, q>>: p connects to q
    Habits,         \* what callers do besides: "reconnect" although the peer has not
                    \* disconnected, "twice" connect in two threads at a time
    MaxSockets      \* bound on sockets

Threads == UNION {ThreadsOf[p] : p \in Procs}
Proc(t) == CHOOSE p \in Procs : t \in ThreadsOf[p]
Sides == {"client", "server"}
Ends == (1 .. MaxSockets) \X Sides
Other(e) == <<e[1], IF e[2] = "client" THEN "server" ELSE "client">>
NoEnd == <<0, "none">>

\* The target of a connection listens before, which its URL is made from.
ASSUME ReachesAssumption == Reaches \subseteq Procs \X Procs
ASSUME SocketsAssumption == MaxSockets \in Nat
ASSUME ThreadsAssumption == \A p, q \in Procs : p # q => ThreadsOf[p] \cap ThreadsOf[q] = {}

VARIABLES
    up,             \* the processes between init and fini
    sockets,        \* sequence of [from, to, accepted]
    qp,             \* end |-> its queue pairs: "none", "reset", "ready", "closed"
    written,        \* end |-> messages written: 1 parameters, 2 that it is ready
    connections_by_peer,    \* process |-> (peer |-> end, or NoEnd)
    connections_by_qpn,     \* process |-> the ends whose queue pairs it knows
    pc, at          \* thread |-> the next step of its call, and the end that it is about

tables == <<connections_by_peer, connections_by_qpn>>
threads == <<pc, at>>
vars == <<up, sockets, qp, written, tables, threads>>

Init ==
    /\ up = {} /\ sockets = <<>>
    /\ qp = [e \in Ends |-> "none"]
    /\ written = [e \in Ends |-> 0]
    /\ connections_by_peer = [p \in Procs |-> [q \in Procs |-> NoEnd]]
    /\ connections_by_qpn = [p \in Procs |-> {}]
    /\ pc = [t \in Threads |-> "idle"] /\ at = [t \in Threads |-> NoEnd]

\* The peer at the other end, by the name and port that were exchanged.
Peer(e) == IF e[2] = "client" THEN sockets[e[1]].to ELSE sockets[e[1]].from
Goes(t, step, e) == pc' = [pc EXCEPT ![t] = step] /\ at' = [at EXCEPT ![t] = e]
Returns(t) == Goes(t, "idle", NoEnd)
Idle(t) == pc[t] = "idle" /\ Proc(t) \in up
Quiet(p) == \A t \in ThreadsOf[p] : pc[t] = "idle"

init_server_listen_socket(p) ==
    /\ p \notin up /\ sockets = <<>>
    /\ up' = up \cup {p}
    /\ UNCHANGED <<sockets, qp, written, tables, threads>>

-----------------------------------------------------------------------------
(* The maps of connections.                                                *)

get_conn_peer(p, q) == connections_by_peer[p][q]
get_peer_by_url(p, q) == get_conn_peer(p, q) # NoEnd    \* a connection with q is known

\* The first connection with a peer stays.
insert_conn_peer(p, e) ==
    connections_by_peer' = [connections_by_peer EXCEPT ![p][Peer(e)] = IF @ = NoEnd THEN e ELSE @]
insert_conn_qpn(p, e) == connections_by_qpn' = [connections_by_qpn EXCEPT ![p] = @ \cup {e}]

del_conn_qpnNot(p, e) == UNCHANGED connections_by_qpn
del_conn_qpn(p, e) == connections_by_qpn' = [connections_by_qpn EXCEPT ![p] = @ \ {e}]

\* It is looked for once more: by now it may be another one.
del_conn_peerNot(p, q) == UNCHANGED tables
del_conn_peer(p, q) ==
    /\ connections_by_peer' = [connections_by_peer EXCEPT ![p][q] = NoEnd]
    /\ del_conn_qpn(p, get_conn_peer(p, q))

-----------------------------------------------------------------------------
(* The exchange over the socket.                                           *)

\* A peer that is known is returned at once; otherwise TCP connects, at
\* least to the listening socket's queue.
NNTI_ib_connect(t, q) ==
    LET p == Proc(t)
        n == Len(sockets) + 1
        stale == get_conn_peer(q, p)
    IN /\ Idle(t) /\ <<p, q>> \in Reaches /\ q \in up
       /\ ~get_peer_by_url(p, q)
       /\ n <= MaxSockets
       /\ stale = NoEnd \/ "reconnect" \in Habits
       /\ "twice" \in Habits \/ \A u \in ThreadsOf[p] : at[u] # NoEnd => Peer(at[u]) # q
       /\ sockets' = Append(sockets, [from |-> p, to |-> q, accepted |-> FALSE])
       /\ Goes(t, "create", <<n, "client">>)
       /\ UNCHANGED <<up, qp, written, tables>>

\* By the thread that leads its process's progress.
check_for_waiting_connection(t) ==
    LET p == Proc(t) IN
    /\ Idle(t)
    /\ \A u \in ThreadsOf[p] : at[u][2] = "server" => pc[u] \in {"closing", "deleting"}
    /\ \E n \in DOMAIN sockets :
         /\ sockets[n].to = p /\ ~sockets[n].accepted
         /\ \A k \in 1 .. n - 1 : sockets[k].to = p => sockets[k].accepted
         /\ sockets' = [sockets EXCEPT ![n].accepted = TRUE]
         /\ Goes(t, "create", <<n, "server">>)
    /\ UNCHANGED <<up, qp, written, tables>>

tcp_write(e, message) == written' = [written EXCEPT ![e] = message]
CanRead(e, message) == written[Other(e)] >= message

\* The client writes its parameters first and then reads.
new_client_connection(t) ==
    /\ pc[t] = "create" /\ at[t][2] = "client"
    /\ qp' = [qp EXCEPT ![at[t]] = "reset"]
    /\ tcp_write(at[t], 1)
    /\ Goes(t, "read", at[t])
    /\ UNCHANGED <<up, sockets, tables>>

\* The server reads first.
new_server_connection(t) ==
    /\ pc[t] = "create" /\ at[t][2] = "server"
    /\ CanRead(at[t], 1)
    /\ qp' = [qp EXCEPT ![at[t]] = "reset"]
    /\ tcp_write(at[t], 1)
    /\ Goes(t, "read", at[t])
    /\ UNCHANGED <<up, sockets, tables>>

\* The numbers are known, and the connection can be found.
init_connection(t) ==
    /\ pc[t] = "read" /\ CanRead(at[t], 1)
    /\ insert_conn_qpn(Proc(t), at[t]) /\ insert_conn_peer(Proc(t), at[t])
    /\ Goes(t, "transition", at[t])
    /\ UNCHANGED <<up, sockets, qp, written>>

\* To ready, and the other is told.
transition_qp_from_reset_to_ready(t) ==
    /\ pc[t] = "transition"
    /\ qp' = [qp EXCEPT ![at[t]] = "ready"]
    /\ tcp_write(at[t], 2)
    /\ Goes(t, "final", at[t])
    /\ UNCHANGED <<up, sockets, tables>>

\* Both ends write and then read; as if both read first, or did not read.
tcp_exchangeReading(e) == CanRead(e, 2) /\ written[e] = 3
tcp_exchangeNot(e) == TRUE
tcp_exchange(e) == CanRead(e, 2)

transition_connection_to_ready(t) ==
    /\ pc[t] = "final" /\ tcp_exchange(at[t])
    /\ Returns(t)
    /\ UNCHANGED <<up, sockets, qp, written, tables>>

-----------------------------------------------------------------------------
(* Disconnecting.                                                          *)

\* The connection is found; one thread does it.
NNTI_ib_disconnect(t, q) ==
    LET e == get_conn_peer(Proc(t), q) IN
    /\ Idle(t) /\ e # NoEnd
    /\ \A u \in ThreadsOf[Proc(t)] : at[u] # NoEnd => Peer(at[u]) # q
    /\ Goes(t, "closing", e)
    /\ UNCHANGED <<up, sockets, qp, written, tables>>

transition_connection_to_error(ends) == qp' = [e \in Ends |-> IF e \in ends THEN "closed" ELSE qp[e]]

\* Only the own queue pairs: the peer is not told.
close_connection(t) ==
    /\ pc[t] = "closing"
    /\ transition_connection_to_error({at[t]})
    /\ Goes(t, "deleting", at[t])
    /\ UNCHANGED <<up, sockets, written, tables>>

Deletes(t) ==
    /\ pc[t] = "deleting"
    /\ del_conn_peer(Proc(t), Peer(at[t]))
    /\ Returns(t)
    /\ UNCHANGED <<up, sockets, qp, written>>

\* At fini, in a process that no other goes on to reach.
close_all_conn(p) ==
    /\ p \in up /\ Quiet(p)
    /\ \A r \in Reaches : r[2] = p => r[1] \notin up
    /\ sockets # <<>> /\ up' = up \ {p}
    /\ transition_connection_to_error(connections_by_qpn[p])
    /\ connections_by_qpn' = [connections_by_qpn EXCEPT ![p] = {}]
    /\ connections_by_peer' = [connections_by_peer EXCEPT ![p] = [q \in Procs |-> NoEnd]]
    /\ UNCHANGED <<sockets, written, threads>>

\* The steps of a call that has begun.
Step(t) ==
    \/ new_client_connection(t) \/ new_server_connection(t)
    \/ init_connection(t) \/ transition_qp_from_reset_to_ready(t) \/ transition_connection_to_ready(t)
    \/ close_connection(t) \/ Deletes(t)

Next ==
    \/ \E p \in Procs : init_server_listen_socket(p) \/ close_all_conn(p)
    \/ \E t \in Threads :
         \/ Step(t) \/ check_for_waiting_connection(t)
         \/ \E q \in Procs : NNTI_ib_connect(t, q) \/ NNTI_ib_disconnect(t, q)

Accepts(p) == \E t \in ThreadsOf[p] : check_for_waiting_connection(t)
Spec == Init /\ [][Next]_vars
\* Threads run, and a process that others connect to goes on to wait.
FairSpec ==
    /\ Spec /\ \A t \in Threads : WF_vars(Step(t))
    /\ \A p \in Procs : SF_vars(Accepts(p))

-----------------------------------------------------------------------------
(* Once the call that made a connection has returned, at either end, the other end's queue pairs are ready
   too, unless they have been closed since: the final exchange of transition_connection_to_ready. *)
EstablishedIsReady ==
    \A e \in Ends : qp[e] = "ready" /\ (\A t \in Threads : at[t] # e) => qp[Other(e)] \in {"ready", "closed"}

(* Two processes that find each other in connections_by_peer, with no call about it under way, reach each
   other: the end found is open, and the other process knows the queue pair at the other end. *)
PeersReachEachOther ==
    \A p, q \in Procs :
        LET e == get_conn_peer(p, q) IN
        e # NoEnd /\ get_conn_peer(q, p) # NoEnd /\ Quiet(p) /\ Quiet(q) =>
            /\ qp[e] = "ready" /\ qp[Other(e)] = "ready"
            /\ Other(e) \in connections_by_qpn[q]

(* In a process without a call under way the two maps know the same connections, and every connection
   that is not closed is known: disconnecting leaves no queue pair behind. *)
MapsAgree ==
    \A p \in Procs : Quiet(p) =>
        LET known == {get_conn_peer(p, q) : q \in Procs} \ {NoEnd}
            mine == {e \in Ends : e[1] \in DOMAIN sockets /\ Peer(Other(e)) = p}
        IN connections_by_qpn[p] = known /\ {e \in mine : qp[e] \in {"reset", "ready"}} = known

(* Connecting and disconnecting end, though both ends wait for each other and a process that is connecting
   accepts nobody in that thread. *)
ConnectReturns == \A t \in Threads : pc[t] # "idle" ~> pc[t] = "idle"

=============================================================================
