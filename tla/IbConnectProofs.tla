-------------------------- MODULE IbConnectProofs --------------------------
(***************************************************************************)
(* That an established connection of InfiniBand is ready at both ends, for *)
(* any processes, threads, habits of callers and number of sockets; and,   *)
(* for orderly callers, that the maps of connections are true.             *)
(*                                                                         *)
(* What an end has written tells how far it is: 2 is written by            *)
(* transition_qp_from_reset_to_ready with its queue pairs ready.  The      *)
(* argument is that an end's thread does not leave before it has read that *)
(* word of the other, and that the word is never taken back.               *)
(*                                                                         *)
(* For the maps, the argument is that of the sockets from one process to   *)
(* another one is in use (OneSocket).  A client takes a new one when it    *)
(* finds no connection and its server none either; one that the server has *)
(* accepted and not entered yet would have the client waiting for it.      *)
(***************************************************************************)
EXTENDS IbConnect, SequenceTheorems, TLAPS

Socket == [from : Procs, to : Procs, accepted : BOOLEAN]
Steps == {"idle", "create", "read", "transition", "final", "closing", "deleting"}

Types ==
    /\ sockets \in Seq(Socket) /\ Len(sockets) <= MaxSockets
    /\ qp \in [Ends -> {"none", "reset", "ready", "closed"}]
    /\ written \in [Ends -> 0 .. 2]
    /\ connections_by_peer \in [Procs -> [Procs -> Ends \cup {NoEnd}]]
    /\ pc \in [Threads -> Steps]
    /\ at \in [Threads -> Ends \cup {NoEnd}]
    /\ \A t \in Threads : at[t] = NoEnd => pc[t] = "idle"

\* An end at which connecting has not begun.
Fresh(e) == e[1] > Len(sockets) \/ (e[2] = "server" /\ ~sockets[e[1]].accepted)

Begun == {"create", "read", "transition", "final"}

\* Nobody is at a fresh end, and nothing is written there.
FreshIsUntouched ==
    /\ \A e \in Ends : Fresh(e) => written[e] = 0
    /\ \A t \in Threads : pc[t] \in Begun => ~Fresh(at[t])

\* One thread creates the queue pairs of an end, before it writes anything.
CreatesFirst ==
    \A t \in Threads : pc[t] = "create" =>
        /\ written[at[t]] = 0
        /\ \A u \in Threads : pc[u] \in Begun /\ at[u] = at[t] => u = t

\* The word 2 is true when it is written, and stays so.
WordIsTrue == \A e \in Ends : written[e] = 2 => qp[e] \in {"ready", "closed"}

\* Whoever is ready has heard from the other end, or a thread is about to.
HeardOrWaits ==
    \A e \in Ends : qp[e] = "ready" =>
        written[Other(e)] = 2 \/ \E t \in Threads : at[t] = e /\ pc[t] = "final"

IInv == Types /\ FreshIsUntouched /\ CreatesFirst /\ WordIsTrue /\ HeardOrWaits

-----------------------------------------------------------------------------

LEMMA ProcOfThread == ASSUME NEW t \in Threads PROVE Proc(t) \in Procs
BY DEF Proc, Threads

LEMMA Ends2 ==
    ASSUME NEW e \in Ends
    PROVE  /\ Other(e) \in Ends /\ Other(Other(e)) = e /\ e # NoEnd
           /\ e[1] \in 1 .. MaxSockets /\ e[2] \in Sides
BY SocketsAssumption DEF Ends, Sides, Other, NoEnd, SocketsAssumption

(* Initially nobody has written anything. *)
LEMMA InitIInv == Init => IInv
<1>. SUFFICES ASSUME Init PROVE IInv
  OBVIOUS
<1>1. Types
  BY SocketsAssumption DEF Init, Types, Socket, Steps, SocketsAssumption
<1>. QED  BY <1>1 DEF Init, IInv, FreshIsUntouched, CreatesFirst, WordIsTrue, HeardOrWaits, Begun

(* A thread begins to connect at the client's end of a new socket. *)
LEMMA Connect ==
    ASSUME IInv, NEW t \in Threads, NEW q \in Procs, NNTI_ib_connect(t, q)
    PROVE  IInv'
<1>. DEFINE n == Len(sockets) + 1
            e == <<n, "client">>
<1>1. e \in Ends /\ Fresh(e) /\ e # NoEnd
  BY SocketsAssumption DEF IInv, Types, NNTI_ib_connect, Ends, Sides, Fresh, NoEnd, SocketsAssumption
<1>2. Len(sockets') = n /\ \A i \in 1 .. Len(sockets) : sockets'[i] = sockets[i]
  BY DEF IInv, Types, NNTI_ib_connect
<1>3. sockets'[n].accepted = FALSE
  BY DEF IInv, Types, NNTI_ib_connect
<1>4. pc[t] = "idle" /\ pc' = [pc EXCEPT ![t] = "create"] /\ at' = [at EXCEPT ![t] = e]
  BY DEF NNTI_ib_connect, Idle, Goes
<1>5. UNCHANGED <<up, qp, written, connections_by_peer, connections_by_qpn>>
  BY DEF NNTI_ib_connect, tables
<1>6. \A x \in Ends : Fresh(x)' => Fresh(x) /\ x # e
  <2>. SUFFICES ASSUME NEW x \in Ends, Fresh(x)' PROVE Fresh(x) /\ x # e
    OBVIOUS
  <2>1. x[1] \in Nat /\ Len(sockets) \in Nat
    BY Ends2, SocketsAssumption DEF IInv, Types, SocketsAssumption
  <2>2. x[1] > n \/ (x[2] = "server" /\ ~sockets'[x[1]].accepted)
    BY <1>2 DEF Fresh
  <2>3. x # e
    BY <2>1, <2>2
  <2>4. CASE x[1] > Len(sockets)
    BY <2>3, <2>4 DEF Fresh
  <2>5. CASE x[1] <= Len(sockets)
    <3>1. x[1] \in 1 .. Len(sockets) /\ ~(x[1] > n)
      BY <2>1, <2>5, Ends2, SocketsAssumption DEF SocketsAssumption
    <3>. QED  BY <3>1, <2>2, <2>3, <1>2 DEF Fresh
  <2>. QED  BY <2>1, <2>4, <2>5
<1>7. Types'
  <2>1. sockets' \in Seq(Socket) /\ Len(sockets') <= MaxSockets
    BY ProcOfThread, <1>2, SocketsAssumption DEF IInv, Types, NNTI_ib_connect, Socket, SocketsAssumption
  <2>. QED  BY <2>1, <1>1, <1>4, <1>5 DEF IInv, Types, Steps
<1>8. FreshIsUntouched'
  BY <1>1, <1>4, <1>5, <1>6 DEF IInv, Types, FreshIsUntouched, Begun
<1>9. CreatesFirst'
  <2>1. \A u \in Threads : pc[u] \in Begun => at[u] # e
    BY <1>1 DEF IInv, FreshIsUntouched
  <2>. QED  BY <1>1, <1>4, <1>5, <2>1 DEF IInv, Types, FreshIsUntouched, CreatesFirst, Begun
<1>10. WordIsTrue' /\ HeardOrWaits'
  BY <1>4, <1>5 DEF IInv, Types, WordIsTrue, HeardOrWaits
<1>. QED  BY <1>7, <1>8, <1>9, <1>10 DEF IInv

(* A thread accepts: it is at the server's end of a socket nobody has accepted. *)
LEMMA Accept ==
    ASSUME IInv, NEW t \in Threads, check_for_waiting_connection(t)
    PROVE  IInv'
<1>1. PICK n \in DOMAIN sockets :
        /\ ~sockets[n].accepted
        /\ sockets' = [sockets EXCEPT ![n].accepted = TRUE]
        /\ pc' = [pc EXCEPT ![t] = "create"] /\ at' = [at EXCEPT ![t] = <<n, "server">>]
  BY DEF check_for_waiting_connection, Goes
<1>. DEFINE e == <<n, "server">>
<1>2. e \in Ends /\ Fresh(e) /\ e # NoEnd
  BY <1>1, SocketsAssumption DEF IInv, Types, Ends, Sides, Fresh, NoEnd, SocketsAssumption
<1>3. pc[t] = "idle" /\ UNCHANGED <<up, qp, written, connections_by_peer, connections_by_qpn>>
  BY DEF check_for_waiting_connection, Idle, tables
<1>4. sockets' \in Seq(Socket) /\ Len(sockets') = Len(sockets)
  <2>1. sockets \in Seq(Socket) /\ n \in 1 .. Len(sockets) /\ sockets[n] \in Socket
    BY DEF IInv, Types
  <2>2. [sockets[n] EXCEPT !.accepted = TRUE] \in Socket
    BY <2>1 DEF Socket
  <2>3. sockets' = [sockets EXCEPT ![n] = [sockets[n] EXCEPT !.accepted = TRUE]]
    BY <1>1
  <2>. QED  BY <2>1, <2>2, <2>3, ExceptSeq
<1>5. \A x \in Ends : Fresh(x)' => Fresh(x) /\ x # e
  BY <1>1, <1>4, Ends2 DEF Fresh, IInv, Types, Socket
<1>6. Types'
  BY <1>1, <1>2, <1>3, <1>4 DEF IInv, Types, Steps
<1>7. FreshIsUntouched'
  BY <1>1, <1>2, <1>3, <1>5 DEF IInv, Types, FreshIsUntouched, Begun
<1>8. CreatesFirst'
  <2>1. \A u \in Threads : pc[u] \in Begun => at[u] # e
    BY <1>2 DEF IInv, FreshIsUntouched
  <2>. QED  BY <1>1, <1>2, <1>3, <2>1 DEF IInv, Types, FreshIsUntouched, CreatesFirst, Begun
<1>9. WordIsTrue' /\ HeardOrWaits'
  BY <1>1, <1>3 DEF IInv, Types, WordIsTrue, HeardOrWaits
<1>. QED  BY <1>6, <1>7, <1>8, <1>9 DEF IInv

(* Either end's queue pairs are created, and the parameters written, once. *)
LEMMA Create ==
    ASSUME IInv, NEW t \in Threads, new_client_connection(t) \/ new_server_connection(t)
    PROVE  IInv'
<1>1. /\ pc[t] = "create" /\ pc' = [pc EXCEPT ![t] = "read"] /\ at' = [at EXCEPT ![t] = at[t]]
      /\ qp' = [qp EXCEPT ![at[t]] = "reset"] /\ written' = [written EXCEPT ![at[t]] = 1]
      /\ UNCHANGED <<sockets, connections_by_peer, connections_by_qpn>>
  BY DEF new_client_connection, new_server_connection, Goes, tcp_write, tables
<1>2. at[t] \in Ends /\ written[at[t]] = 0 /\ ~Fresh(at[t])
  BY <1>1 DEF IInv, Types, CreatesFirst, FreshIsUntouched, Begun
<1>3. Types'
  BY <1>1, <1>2 DEF IInv, Types, Steps
<1>4. FreshIsUntouched'
  BY <1>1, <1>2 DEF IInv, Types, FreshIsUntouched, Fresh, Begun
<1>5. CreatesFirst'
  BY <1>1, <1>2 DEF IInv, Types, CreatesFirst, Begun
<1>6. WordIsTrue'
  BY <1>1, <1>2 DEF IInv, Types, WordIsTrue
<1>7. HeardOrWaits'
  BY <1>1, <1>2, Ends2 DEF IInv, Types, HeardOrWaits
<1>. QED  BY <1>3, <1>4, <1>5, <1>6, <1>7 DEF IInv

(* The connection is entered in the maps, which the invariant says nothing of. *)
LEMMA Enter ==
    ASSUME IInv, NEW t \in Threads, init_connection(t)
    PROVE  IInv'
<1>1. /\ pc[t] = "read" /\ pc' = [pc EXCEPT ![t] = "transition"] /\ at' = [at EXCEPT ![t] = at[t]]
      /\ UNCHANGED <<sockets, qp, written>>
  BY DEF init_connection, Goes
<1>2. at[t] \in Ends
  BY <1>1 DEF IInv, Types
<1>3. connections_by_peer' \in [Procs -> [Procs -> Ends \cup {NoEnd}]]
  <2>1. connections_by_peer' = [connections_by_peer EXCEPT ![Proc(t)][Peer(at[t])] = IF @ = NoEnd THEN at[t] ELSE @]
    BY DEF init_connection, insert_conn_peer
  <2>2. connections_by_peer \in [Procs -> [Procs -> Ends \cup {NoEnd}]]
    BY DEF IInv, Types
  <2>. QED  BY <2>1, <2>2, <1>2
<1>4. Types'
  BY <1>1, <1>2, <1>3 DEF IInv, Types, Steps
<1>. QED  BY <1>1, <1>4 DEF IInv, Types, FreshIsUntouched, Fresh, CreatesFirst, WordIsTrue, HeardOrWaits, Begun

(* Ready, an end says so. *)
LEMMA Transition ==
    ASSUME IInv, NEW t \in Threads, transition_qp_from_reset_to_ready(t)
    PROVE  IInv'
<1>1. /\ pc[t] = "transition" /\ pc' = [pc EXCEPT ![t] = "final"] /\ at' = [at EXCEPT ![t] = at[t]]
      /\ qp' = [qp EXCEPT ![at[t]] = "ready"] /\ written' = [written EXCEPT ![at[t]] = 2]
      /\ UNCHANGED <<sockets, connections_by_peer, connections_by_qpn>>
  BY DEF transition_qp_from_reset_to_ready, Goes, tcp_write, tables
<1>2. at[t] \in Ends /\ ~Fresh(at[t])
  BY <1>1 DEF IInv, Types, FreshIsUntouched, Begun
<1>3. Types'
  BY <1>1, <1>2 DEF IInv, Types, Steps
<1>4. FreshIsUntouched'
  BY <1>1, <1>2 DEF IInv, Types, FreshIsUntouched, Fresh, Begun
<1>5. CreatesFirst'
  <2>1. \A u \in Threads : pc[u] = "create" => at[u] # at[t]
    BY <1>1 DEF IInv, CreatesFirst, Begun
  <2>. QED  BY <1>1, <1>2, <2>1 DEF IInv, Types, CreatesFirst, Begun
<1>6. WordIsTrue'
  BY <1>1, <1>2 DEF IInv, Types, WordIsTrue
<1>7. HeardOrWaits'
  BY <1>1, <1>2, Ends2 DEF IInv, Types, HeardOrWaits
<1>. QED  BY <1>3, <1>4, <1>5, <1>6, <1>7 DEF IInv

(* A thread leaves when it has heard from the other end. *)
LEMMA Leave ==
    ASSUME IInv, NEW t \in Threads, transition_connection_to_ready(t)
    PROVE  IInv'
<1>1. /\ pc[t] = "final" /\ pc' = [pc EXCEPT ![t] = "idle"] /\ at' = [at EXCEPT ![t] = NoEnd]
      /\ written[Other(at[t])] >= 2
      /\ UNCHANGED <<sockets, qp, written, connections_by_peer, connections_by_qpn>>
  BY DEF transition_connection_to_ready, tcp_exchange, CanRead, Returns, Goes, tables
<1>2. at[t] \in Ends
  BY <1>1 DEF IInv, Types
<1>3. written[Other(at[t])] = 2
  BY <1>1, <1>2, Ends2 DEF IInv, Types
<1>4. HeardOrWaits'
  BY <1>1, <1>3 DEF IInv, Types, HeardOrWaits
<1>. QED  BY <1>1, <1>4 DEF IInv, Types, Steps, FreshIsUntouched, Fresh, CreatesFirst, WordIsTrue, Begun

(* Disconnecting closes queue pairs and takes nothing back that was written. *)
LEMMA Disconnect ==
    ASSUME IInv, NEW t \in Threads, NEW q \in Procs,
           NNTI_ib_disconnect(t, q) \/ close_connection(t) \/ Deletes(t)
    PROVE  IInv'
<1>1. CASE NNTI_ib_disconnect(t, q)
  <2>1. /\ pc[t] = "idle" /\ pc' = [pc EXCEPT ![t] = "closing"]
        /\ at' = [at EXCEPT ![t] = connections_by_peer[Proc(t)][q]]
        /\ connections_by_peer[Proc(t)][q] # NoEnd
        /\ UNCHANGED <<sockets, qp, written, connections_by_peer, connections_by_qpn>>
    BY <1>1 DEF NNTI_ib_disconnect, get_conn_peer, Idle, Goes, tables
  <2>2. connections_by_peer[Proc(t)][q] \in Ends
    BY <2>1, ProcOfThread DEF IInv, Types
  <2>. QED  BY <2>1, <2>2 DEF IInv, Types, Steps, FreshIsUntouched, Fresh, CreatesFirst, WordIsTrue, HeardOrWaits, Begun
<1>2. CASE close_connection(t)
  <2>1. /\ pc[t] = "closing" /\ pc' = [pc EXCEPT ![t] = "deleting"] /\ at' = [at EXCEPT ![t] = at[t]]
        /\ qp' = [e \in Ends |-> IF e \in {at[t]} THEN "closed" ELSE qp[e]]
        /\ UNCHANGED <<sockets, written, connections_by_peer, connections_by_qpn>>
    BY <1>2 DEF close_connection, transition_connection_to_error, Goes, tables
  <2>. QED  BY <2>1 DEF IInv, Types, Steps, FreshIsUntouched, Fresh, CreatesFirst, WordIsTrue, HeardOrWaits, Begun
<1>3. CASE Deletes(t)
  <2>1. /\ pc[t] = "deleting" /\ pc' = [pc EXCEPT ![t] = "idle"] /\ at' = [at EXCEPT ![t] = NoEnd]
        /\ UNCHANGED <<sockets, qp, written>>
    BY <1>3 DEF Deletes, Returns, Goes
  <2>2. connections_by_peer' \in [Procs -> [Procs -> Ends \cup {NoEnd}]]
    BY <1>3 DEF Deletes, del_conn_peer, IInv, Types
  <2>. QED  BY <2>1, <2>2 DEF IInv, Types, Steps, FreshIsUntouched, Fresh, CreatesFirst, WordIsTrue, HeardOrWaits, Begun
<1>. QED  BY <1>1, <1>2, <1>3

(* Init and fini of a process. *)
LEMMA InitFini ==
    ASSUME IInv, NEW p \in Procs, init_server_listen_socket(p) \/ close_all_conn(p)
    PROVE  IInv'
<1>1. CASE init_server_listen_socket(p)
  BY <1>1 DEF init_server_listen_socket, tables, threads, IInv, Types, FreshIsUntouched, Fresh, CreatesFirst,
              WordIsTrue, HeardOrWaits
<1>2. CASE close_all_conn(p)
  <2>1. /\ qp' = [e \in Ends |-> IF e \in connections_by_qpn[p] THEN "closed" ELSE qp[e]]
        /\ connections_by_peer' = [connections_by_peer EXCEPT ![p] = [q \in Procs |-> NoEnd]]
        /\ UNCHANGED <<sockets, written, pc, at>>
    BY <1>2 DEF close_all_conn, transition_connection_to_error, threads
  <2>. QED  BY <2>1 DEF IInv, Types, FreshIsUntouched, Fresh, CreatesFirst, WordIsTrue, HeardOrWaits
<1>. QED  BY <1>1, <1>2

(* The inductive invariant, over all steps of NNTI_ib_connect, NNTI_ib_disconnect, accepting and fini. *)
THEOREM Inductive == Spec => []IInv
<1>1. IInv /\ [Next]_vars => IInv'
  <2>. SUFFICES ASSUME IInv, [Next]_vars PROVE IInv'
    OBVIOUS
  <2>1. CASE UNCHANGED vars
    BY <2>1 DEF vars, tables, threads, IInv, Types, FreshIsUntouched, Fresh, CreatesFirst, WordIsTrue, HeardOrWaits
  <2>2. ASSUME NEW p \in Procs, init_server_listen_socket(p) \/ close_all_conn(p) PROVE IInv'
    BY <2>2, InitFini
  <2>3. ASSUME NEW t \in Threads, Step(t) PROVE IInv'
    <3>1. Procs # {}
      BY <2>3 DEF Threads
    <3>. QED  BY <2>3, <3>1, Create, Enter, Transition, Leave, Disconnect DEF Step
  <2>4. ASSUME NEW t \in Threads, check_for_waiting_connection(t) PROVE IInv'
    BY <2>4, Accept
  <2>5. ASSUME NEW t \in Threads, NEW q \in Procs, NNTI_ib_connect(t, q) \/ NNTI_ib_disconnect(t, q)
        PROVE  IInv'
    BY <2>5, Connect, Disconnect
  <2>. QED  BY <2>1, <2>2, <2>3, <2>4, <2>5 DEF Next
<1>. QED  BY InitIInv, <1>1, PTL DEF Spec

(* For any processes, threads and sockets, when no call is at an end that is ready, the other end is ready
   or has been closed: the exchange at the end of transition_connection_to_ready, which both ends wait
   for, does what it is there for whatever the callers do. *)
THEOREM ReadyAtBothEnds == Spec => []EstablishedIsReady
<1>1. IInv => EstablishedIsReady
  <2>. SUFFICES ASSUME IInv, NEW e \in Ends, qp[e] = "ready", \A t \in Threads : at[t] # e
                PROVE  qp[Other(e)] \in {"ready", "closed"}
    BY DEF EstablishedIsReady
  <2>1. written[Other(e)] = 2
    BY DEF IInv, HeardOrWaits
  <2>. QED  BY <2>1, Ends2 DEF IInv, WordIsTrue
<1>. QED  BY Inductive, <1>1, PTL

-----------------------------------------------------------------------------
(* What the maps know.                                                     *)

\* Of callers: no process connects to one that has not let go of an earlier connection, or in two
\* threads at a time, and of two processes one connects to the other.
Orderly ==
    /\ Habits \cap {"reconnect", "twice"} = {}
    /\ \A p, q \in Procs : <<p, q>> \in Reaches => <<q, p>> \notin Reaches

Home(e) == IF e[2] = "client" THEN sockets[e[1]].from ELSE sockets[e[1]].to

\* Calls are about ends of their own process.
Placed ==
    /\ \A n \in DOMAIN sockets : <<sockets[n].from, sockets[n].to>> \in Reaches
    /\ \A t \in Threads :
         /\ pc[t] = "idle" => at[t] = NoEnd
         /\ at[t] # NoEnd => at[t][1] \in DOMAIN sockets /\ Home(at[t]) = Proc(t)

\* Two threads of a process are not about the same peer.
OnePerPeer ==
    \A t, u \in Threads :
        t # u /\ at[t] # NoEnd /\ at[u] # NoEnd /\ Proc(t) = Proc(u) => Peer(at[t]) # Peer(at[u])

\* The word 1 is written, and 2 is not, until an end is ready.
Reading == \A t \in Threads : pc[t] \in {"read", "transition"} => written[at[t]] = 1

\* A socket that is found in a map, or that a thread is about, or that is in the queue.
Used(n) ==
    \/ \E p, q \in Procs : connections_by_peer[p][q] # NoEnd /\ connections_by_peer[p][q][1] = n
    \/ \E t \in Threads : at[t] # NoEnd /\ at[t][1] = n
    \/ ~sockets[n].accepted

\* Of the sockets between two processes one is in use.
OneSocket ==
    \A m, n \in DOMAIN sockets :
        Used(m) /\ Used(n) /\ sockets[m].from = sockets[n].from /\ sockets[m].to = sockets[n].to => m = n

\* The client waits until the server is ready.
ClientWaits ==
    \A n \in DOMAIN sockets : written[<<n, "server">>] < 2 =>
        \E t \in Threads : at[t] = <<n, "client">> /\ pc[t] \in Begun

\* While a thread is at an end, what its process finds of the peer is that end, from init_connection on.
Entered ==
    \A t \in Threads : at[t] # NoEnd =>
        connections_by_peer[Proc(t)][Peer(at[t])] = IF pc[t] \in {"create", "read"} THEN NoEnd ELSE at[t]

\* What is found is an end of the process with that peer, and is ready but for a thread that is about it.
KnownIsOpen ==
    \A p, q \in Procs : connections_by_peer[p][q] # NoEnd =>
        LET e == connections_by_peer[p][q] IN
        /\ e[1] \in DOMAIN sockets /\ Home(e) = p /\ Peer(e) = q /\ written[e] # 0
        /\ qp[e] = "ready" \/ \E t \in Threads : at[t] = e /\ pc[t] \in {"transition", "deleting"}

\* Queue pairs that are not closed are found.
OpenIsKnown ==
    \A e \in Ends : e[1] \in DOMAIN sockets /\ qp[e] \in {"reset", "ready"} =>
        connections_by_peer[Home(e)][Peer(e)] = e \/ \E t \in Threads : at[t] = e /\ pc[t] = "read"

\* An end is closed before it is forgotten, and a socket that is new has no queue pairs.
ClosedFirst ==
    /\ \A t \in Threads : pc[t] = "deleting" => qp[at[t]] = "closed"
    /\ \A e \in Ends : e[1] \notin DOMAIN sockets => qp[e] = "none"

QpnIsKnown ==
    connections_by_qpn = [p \in Procs |-> {connections_by_peer[p][q] : q \in Procs} \ {NoEnd}]

MapsInv ==
    /\ IInv
    /\ Placed /\ OnePerPeer /\ Reading /\ OneSocket /\ ClientWaits
    /\ Entered /\ KnownIsOpen /\ OpenIsKnown /\ ClosedFirst /\ QpnIsKnown

-----------------------------------------------------------------------------

(* A thread is of one process. *)
LEMMA ThreadIsOf ==
    ASSUME NEW p \in Procs, NEW t \in ThreadsOf[p]
    PROVE  t \in Threads /\ Proc(t) = p
BY ThreadsAssumption DEF Threads, Proc, ThreadsAssumption

LEMMA ThreadIsThere == ASSUME NEW t \in Threads PROVE t \in ThreadsOf[Proc(t)]
BY DEF Threads, Proc

(* The process at an end is the peer of the other end. *)
LEMMA HomeIsOther ==
    ASSUME NEW e \in Ends PROVE Home(e) = Peer(Other(e)) /\ Peer(e) = Home(Other(e))
BY DEF Home, Peer, Other, Ends, Sides

(* The processes of a socket are two, and it is their direction that tells the ends apart. *)
LEMMA ProcsOfEnd ==
    ASSUME Types, Placed, Orderly, NEW e \in Ends, e[1] \in DOMAIN sockets
    PROVE  /\ Home(e) \in Procs /\ Peer(e) \in Procs
           /\ e[2] = "client" => <<Home(e), Peer(e)>> \in Reaches /\ <<Peer(e), Home(e)>> \notin Reaches
           /\ e[2] = "server" => <<Peer(e), Home(e)>> \in Reaches /\ <<Home(e), Peer(e)>> \notin Reaches
<1>1. sockets[e[1]].from \in Procs /\ sockets[e[1]].to \in Procs
  <2>1. sockets[e[1]] \in Socket
    BY ElementOfSeq DEF Types
  <2>. QED  BY <2>1 DEF Socket
<1>. QED  BY <1>1 DEF Placed, Orderly, Home, Peer, Ends, Sides

(* An end that is found is of a socket in use, and so is an end that a thread is about. *)
LEMMA FoundIsUsed ==
    ASSUME Types, NEW p \in Procs, NEW q \in Procs, connections_by_peer[p][q] # NoEnd
    PROVE  connections_by_peer[p][q] \in Ends /\ Used(connections_by_peer[p][q][1])
BY DEF Types, Used

LEMMA PlacedIsUsed ==
    ASSUME Types, NEW t \in Threads, at[t] # NoEnd
    PROVE  at[t] \in Ends /\ Used(at[t][1])
BY DEF Types, Used

(* Two ends in use that have the same home and the same peer are one. *)
LEMMA SameEnd ==
    ASSUME Types, Placed, Orderly, OneSocket, NEW e \in Ends, NEW f \in Ends,
           e[1] \in DOMAIN sockets, f[1] \in DOMAIN sockets, Used(e[1]), Used(f[1]),
           Home(e) = Home(f), Peer(e) = Peer(f)
    PROVE  e = f
<1>1. e[2] = f[2]
  BY ProcsOfEnd DEF Ends, Sides
<1>2. e[1] = f[1]
  BY <1>1 DEF OneSocket, Home, Peer
<1>. QED  BY <1>1, <1>2 DEF Ends

(* One thread is about an end. *)
LEMMA Alone ==
    ASSUME Placed, OnePerPeer, NEW t \in Threads, NEW u \in Threads, at[t] # NoEnd, at[u] = at[t]
    PROVE  u = t
BY DEF Placed, OnePerPeer

(* Initially nothing is known and nobody is connecting. *)
LEMMA InitMaps == Init => MapsInv
<1>. SUFFICES ASSUME Init PROVE MapsInv
  OBVIOUS
<1>1. /\ sockets = <<>> /\ DOMAIN sockets = {} /\ pc = [t \in Threads |-> "idle"] /\ at = [t \in Threads |-> NoEnd]
      /\ connections_by_peer = [p \in Procs |-> [q \in Procs |-> NoEnd]]
      /\ qp = [e \in Ends |-> "none"] /\ connections_by_qpn = [p \in Procs |-> {}]
  BY DEF Init
<1>2. QpnIsKnown
  <2>1. \A p \in Procs : {connections_by_peer[p][q] : q \in Procs} \ {NoEnd} = {}
    BY <1>1
  <2>. QED  BY <1>1, <2>1 DEF QpnIsKnown
<1>3. Placed /\ OnePerPeer /\ Reading
  BY <1>1 DEF Placed, OnePerPeer, Reading
<1>4. OneSocket /\ ClientWaits /\ Entered
  BY <1>1 DEF OneSocket, ClientWaits, Entered
<1>5. KnownIsOpen /\ OpenIsKnown /\ ClosedFirst
  BY <1>1 DEF KnownIsOpen, OpenIsKnown, ClosedFirst
<1>. QED  BY InitIInv, <1>2, <1>3, <1>4, <1>5 DEF MapsInv

(* A client takes a new socket: of those to the same server, no other is in use.  An end of the client's
   would be one that it finds, or one that a thread is about; so would one of the server's, unless the
   server has not entered it yet, and then the client is waiting for it. *)
LEMMA ConnectMaps ==
    ASSUME MapsInv, Orderly, NEW t \in Threads, NEW q \in Procs, NNTI_ib_connect(t, q)
    PROVE  MapsInv'
<1>. DEFINE p == Proc(t)
<1>1. IInv /\ IInv'
  BY Connect DEF MapsInv
<1>0. PICK n \in Nat : n = Len(sockets) + 1
  BY <1>1 DEF IInv, Types
<1>. DEFINE e == <<n, "client">>
<1>2. /\ p \in Procs /\ <<p, q>> \in Reaches /\ <<q, p>> \notin Reaches /\ pc[t] = "idle"
      /\ connections_by_peer[p][q] = NoEnd /\ connections_by_peer[q][p] = NoEnd
      /\ \A u \in ThreadsOf[p] : at[u] # NoEnd => Peer(at[u]) # q
      /\ sockets' = Append(sockets, [from |-> p, to |-> q, accepted |-> FALSE])
      /\ pc' = [pc EXCEPT ![t] = "create"] /\ at' = [at EXCEPT ![t] = e]
      /\ UNCHANGED <<qp, written, connections_by_peer, connections_by_qpn>>
  BY <1>0, ProcOfThread DEF NNTI_ib_connect, Orderly, Idle, get_peer_by_url, get_conn_peer, Goes, tables
<1>3. /\ Len(sockets) \in Nat /\ DOMAIN sockets = 1 .. Len(sockets) /\ DOMAIN sockets' = 1 .. n
      /\ \A i \in DOMAIN sockets : i # n /\ sockets'[i] = sockets[i]
      /\ sockets'[n] = [from |-> p, to |-> q, accepted |-> FALSE]
  BY <1>0, <1>1, <1>2 DEF IInv, Types
<1>4. e \in Ends /\ e # NoEnd /\ <<n, "server">> \in Ends /\ Fresh(e) /\ Fresh(<<n, "server">>) /\ n \in 1 .. MaxSockets
  BY <1>0, <1>1, <1>3, SocketsAssumption
     DEF NNTI_ib_connect, IInv, Types, Ends, Sides, Fresh, NoEnd, SocketsAssumption
<1>5. \A x \in Ends : x[1] \in DOMAIN sockets => Home(x)' = Home(x) /\ Peer(x)' = Peer(x)
  BY <1>3 DEF Home, Peer
<1>6. Home(e)' = p /\ Peer(e)' = q /\ e[1] = n /\ e[2] = "client"
  BY <1>0, <1>3 DEF Home, Peer
<1>7. \A u \in Threads : /\ u # t => pc'[u] = pc[u] /\ at'[u] = at[u]
                         /\ u = t => pc'[u] = "create" /\ at'[u] = e
  BY <1>1, <1>2 DEF IInv, Types
<1>8. at[t] = NoEnd /\ \A u \in Threads : at[u] # NoEnd => at[u] \in Ends /\ at[u][1] \in DOMAIN sockets /\ at[u] # e
  <2>1. at[t] = NoEnd
    BY <1>2 DEF MapsInv, Placed
  <2>2. ASSUME NEW u \in Threads, at[u] # NoEnd PROVE at[u] \in Ends /\ at[u][1] \in DOMAIN sockets /\ at[u] # e
    BY <2>2, <1>1, <1>3, <1>6 DEF IInv, Types, MapsInv, Placed
  <2>. QED  BY <2>1, <2>2
<1>9. \A u \in Threads : at[u] # NoEnd /\ Proc(u) = p => Peer(at[u]) # q
  BY <1>2, ThreadIsThere
<1>10. Placed'
  <2>1. ASSUME NEW i \in DOMAIN sockets' PROVE <<sockets'[i].from, sockets'[i].to>> \in Reaches
    <3>1. CASE i = n
      <4>1. sockets'[i].from = p /\ sockets'[i].to = q
        BY <3>1, <1>3
      <4>. QED  BY <4>1, <1>2
    <3>2. CASE i # n
      <4>1. i \in DOMAIN sockets
        BY <3>2, <1>0, <1>3
      <4>. QED  BY <4>1, <1>3 DEF MapsInv, Placed
    <3>. QED  BY <3>1, <3>2
  <2>2. ASSUME NEW u \in Threads
        PROVE  /\ pc'[u] = "idle" => at'[u] = NoEnd
               /\ at'[u] # NoEnd => at'[u][1] \in DOMAIN sockets' /\ Home(at[u])' = Proc(u)
    <3>1. CASE u = t
      <4>1. n \in DOMAIN sockets'
        BY <1>0, <1>3
      <4>2. Home(at[u])' = Home(e)'
        BY <3>1, <1>7 DEF Home
      <4>. QED  BY <3>1, <4>1, <4>2, <1>6, <1>7
    <3>2. CASE u # t
      <4>1. DOMAIN sockets \subseteq DOMAIN sockets'
        BY <1>0, <1>3
      <4>2. ASSUME at[u] # NoEnd PROVE Home(at[u])' = Home(at[u])
        BY <4>2, <3>2, <1>3, <1>7, <1>8 DEF Home
      <4>. QED  BY <3>2, <4>1, <4>2, <1>7, <1>8 DEF MapsInv, Placed
    <3>. QED  BY <3>1, <3>2
  <2>. QED  BY <2>1, <2>2 DEF Placed
<1>11. \A u \in Threads : /\ u # t /\ at[u] # NoEnd => Peer(at[u])' = Peer(at[u])
                          /\ u = t => Peer(at[u])' = q
  <2>1. ASSUME NEW u \in Threads, u # t, at[u] # NoEnd PROVE Peer(at[u])' = Peer(at[u])
    BY <2>1, <1>3, <1>7, <1>8 DEF Peer
  <2>2. Peer(at[t])' = Peer(e)'
    BY <1>7 DEF Peer
  <2>. QED  BY <2>1, <2>2, <1>6
<1>12. OnePerPeer'
  BY <1>7, <1>9, <1>11 DEF MapsInv, OnePerPeer
<1>13. Reading'
  BY <1>2, <1>7 DEF MapsInv, Reading
<1>14. ASSUME NEW i \in DOMAIN sockets, Used(i) PROVE ~(sockets[i].from = p /\ sockets[i].to = q)
  <2>. SUFFICES ASSUME sockets[i].from = p, sockets[i].to = q PROVE FALSE
    OBVIOUS
  <2>. DEFINE c == <<i, "client">>
              s == <<i, "server">>
  <2>1. i \in 1 .. MaxSockets /\ c \in Ends /\ s \in Ends
    BY <1>1, <1>3, SocketsAssumption DEF IInv, Types, Ends, Sides, SocketsAssumption
  <2>2. Home(c) = p /\ Peer(c) = q /\ Home(s) = q /\ Peer(s) = p
    BY DEF Home, Peer
  <2>3. \A u \in Threads : at[u] # c
    BY <1>9, <2>2, <1>8, <2>1, Ends2 DEF MapsInv, Placed
  <2>4. written[s] = 2
    <3>1. ~(written[s] < 2)
      BY <2>3 DEF MapsInv, ClientWaits
    <3>. QED  BY <2>1, <3>1, <1>1 DEF IInv, Types
  <2>5. \A u \in Threads : at[u] # s
    <3>. SUFFICES ASSUME NEW u \in Threads, at[u] = s PROVE FALSE
      OBVIOUS
    <3>1. at[u] # NoEnd /\ Proc(u) = q /\ Peer(at[u]) = p
      BY <2>1, <2>2, Ends2 DEF MapsInv, Placed
    <3>2. pc[u] \in {"create", "read"}
      BY <3>1, <1>2 DEF MapsInv, Entered
    <3>. QED  BY <3>2, <2>4, <1>1 DEF MapsInv, Reading, IInv, CreatesFirst
  <2>6. sockets[i].accepted
    <3>1. ~Fresh(s)
      BY <2>1, <2>4, <1>1 DEF IInv, FreshIsUntouched
    <3>. QED  BY <3>1 DEF Fresh
  <2>7. PICK a \in Procs, b \in Procs : connections_by_peer[a][b] # NoEnd /\ connections_by_peer[a][b][1] = i
    <3>1. \A u \in Threads : at[u] # NoEnd => at[u][1] # i
      BY <2>3, <2>5, <1>8 DEF Ends, Sides
    <3>. QED  BY <3>1, <2>6, <1>14 DEF Used
  <2>8. connections_by_peer[a][b] \in {c, s}
    BY <2>7, <1>1, FoundIsUsed DEF Ends, Sides, IInv
  <2>9. Home(connections_by_peer[a][b]) = a /\ Peer(connections_by_peer[a][b]) = b
    BY <2>7 DEF MapsInv, KnownIsOpen
  <2>. QED  BY <2>2, <2>7, <2>8, <2>9, <1>2
<1>15. OneSocket'
  <2>1. ASSUME NEW i \in DOMAIN sockets, Used(i)' PROVE Used(i)
    BY <2>1, <1>2, <1>3, <1>6, <1>7 DEF Used
  <2>2. ASSUME NEW i \in DOMAIN sockets' PROVE i \in DOMAIN sockets \/ i = n
    BY <1>0, <1>3
  <2>3. ASSUME NEW i \in DOMAIN sockets, Used(i)', NEW j \in DOMAIN sockets, Used(j)',
               sockets'[i].from = sockets'[j].from, sockets'[i].to = sockets'[j].to
        PROVE  i = j
    BY <2>1, <2>3, <1>3 DEF MapsInv, OneSocket
  <2>4. ASSUME NEW i \in DOMAIN sockets, Used(i)'
        PROVE  ~(sockets'[i].from = sockets'[n].from /\ sockets'[i].to = sockets'[n].to)
    BY <2>1, <2>4, <1>3, <1>14
  <2>. QED  BY <2>2, <2>3, <2>4 DEF OneSocket
<1>16. ClientWaits'
  <2>. SUFFICES ASSUME NEW i \in DOMAIN sockets', written'[<<i, "server">>] < 2
                PROVE  \E u \in Threads : at'[u] = <<i, "client">> /\ pc'[u] \in Begun
    BY DEF ClientWaits
  <2>1. CASE i = n
    BY <2>1, <1>0, <1>7 DEF Begun
  <2>2. CASE i # n
    <3>1. i \in DOMAIN sockets
      BY <2>2, <1>0, <1>3
    <3>2. PICK u \in Threads : at[u] = <<i, "client">> /\ pc[u] \in Begun
      BY <3>1, <1>2 DEF MapsInv, ClientWaits
    <3>. QED  BY <3>2, <1>2, <1>7 DEF Begun
  <2>. QED  BY <2>1, <2>2
<1>17. Entered'
  <2>. SUFFICES ASSUME NEW u \in Threads, at'[u] # NoEnd
                PROVE  connections_by_peer[Proc(u)][Peer(at[u])']
                         = IF pc'[u] \in {"create", "read"} THEN NoEnd ELSE at'[u]
    BY <1>2, <1>11 DEF Entered
  <2>1. CASE u = t
    BY <2>1, <1>2, <1>7, <1>11
  <2>2. CASE u # t
    BY <2>2, <1>7, <1>11 DEF MapsInv, Entered
  <2>. QED  BY <2>1, <2>2
<1>18. KnownIsOpen'
  <2>. SUFFICES ASSUME NEW a \in Procs, NEW b \in Procs, NEW x, x = connections_by_peer[a][b], x # NoEnd
                PROVE  /\ x[1] \in DOMAIN sockets' /\ Home(x)' = a /\ Peer(x)' = b /\ written[x] # 0
                       /\ qp[x] = "ready" \/ \E u \in Threads : at'[u] = x /\ pc'[u] \in {"transition", "deleting"}
    BY <1>2 DEF KnownIsOpen, Home, Peer
  <2>1. x \in Ends
    BY <1>1 DEF IInv, Types
  <2>2. /\ x[1] \in DOMAIN sockets /\ Home(x) = a /\ Peer(x) = b /\ written[x] # 0
        /\ qp[x] = "ready" \/ \E u \in Threads : at[u] = x /\ pc[u] \in {"transition", "deleting"}
    BY DEF MapsInv, KnownIsOpen
  <2>3. x[1] \in DOMAIN sockets'
    BY <2>2, <1>0, <1>3
  <2>. QED  BY <2>1, <2>2, <2>3, <1>2, <1>5, <1>7
<1>19. OpenIsKnown'
  <2>. SUFFICES ASSUME NEW x \in Ends, x[1] \in DOMAIN sockets', qp[x] \in {"reset", "ready"}
                PROVE  \/ connections_by_peer[Home(x)'][Peer(x)'] = x
                       \/ \E u \in Threads : at'[u] = x /\ pc'[u] = "read"
    BY <1>2 DEF OpenIsKnown
  <2>1. x[1] \in DOMAIN sockets
    BY DEF MapsInv, ClosedFirst
  <2>2. \/ connections_by_peer[Home(x)][Peer(x)] = x
        \/ \E u \in Threads : at[u] = x /\ pc[u] = "read"
    BY <2>1 DEF MapsInv, OpenIsKnown
  <2>3. Home(x)' = Home(x) /\ Peer(x)' = Peer(x)
    BY <2>1, <1>5
  <2>. QED  BY <2>2, <2>3, <1>2, <1>7
<1>20. ClosedFirst'
  <2>1. \A x : x \notin DOMAIN sockets' => x \notin DOMAIN sockets
    BY <1>0, <1>3
  <2>. QED  BY <2>1, <1>2, <1>7 DEF MapsInv, ClosedFirst
<1>21. QpnIsKnown'
  BY <1>2 DEF MapsInv, QpnIsKnown
<1>. QED  BY <1>1, <1>10, <1>12, <1>13, <1>15, <1>16, <1>17, <1>18, <1>19, <1>20, <1>21 DEF MapsInv

(* A server's thread takes a socket of the queue.  No other thread of the process is about that peer and
   the peer is not found: either would be about this very socket, of which nothing is known yet. *)
LEMMA AcceptMaps ==
    ASSUME MapsInv, Orderly, NEW t \in Threads, check_for_waiting_connection(t)
    PROVE  MapsInv'
<1>. DEFINE p == Proc(t)
<1>1. IInv /\ IInv' /\ p \in Procs
  BY Accept, ProcOfThread DEF MapsInv
<1>2. PICK n \in DOMAIN sockets :
        /\ ~sockets[n].accepted /\ sockets[n].to = p
        /\ sockets' = [sockets EXCEPT ![n].accepted = TRUE]
        /\ pc' = [pc EXCEPT ![t] = "create"] /\ at' = [at EXCEPT ![t] = <<n, "server">>]
  BY DEF check_for_waiting_connection, Goes
<1>. DEFINE e == <<n, "server">>
            q == sockets[n].from
<1>3. pc[t] = "idle" /\ UNCHANGED <<qp, written, connections_by_peer, connections_by_qpn>>
  BY DEF check_for_waiting_connection, Idle, tables
<1>4. /\ sockets \in Seq(Socket) /\ sockets' \in Seq(Socket) /\ DOMAIN sockets' = DOMAIN sockets
      /\ \A i \in DOMAIN sockets :
           /\ sockets'[i].from = sockets[i].from /\ sockets'[i].to = sockets[i].to
           /\ i # n => sockets'[i].accepted = sockets[i].accepted
           /\ i = n => sockets'[i].accepted = TRUE
  <2>1. sockets \in Seq(Socket) /\ DOMAIN sockets = 1 .. Len(sockets) /\ \A i \in DOMAIN sockets : sockets[i] \in Socket
    BY <1>1, ElementOfSeq DEF IInv, Types
  <2>2. sockets' = [sockets EXCEPT ![n] = [sockets[n] EXCEPT !.accepted = TRUE]]
    BY <1>2
  <2>3. DOMAIN sockets' = DOMAIN sockets /\ sockets' \in Seq(Socket)
    BY <1>1, <2>2 DEF IInv, Types
  <2>4. \A i \in DOMAIN sockets : sockets'[i] = IF i = n THEN [sockets[n] EXCEPT !.accepted = TRUE] ELSE sockets[i]
    BY <2>1, <2>2
  <2>5. /\ [sockets[n] EXCEPT !.accepted = TRUE].from = sockets[n].from
        /\ [sockets[n] EXCEPT !.accepted = TRUE].to = sockets[n].to
        /\ [sockets[n] EXCEPT !.accepted = TRUE].accepted = TRUE
    BY <2>1 DEF Socket
  <2>. QED  BY <2>1, <2>3, <2>4, <2>5
<1>5. e \in Ends /\ <<n, "client">> \in Ends /\ e # NoEnd /\ Fresh(e) /\ written[e] = 0
  <2>1. n \in 1 .. MaxSockets
    BY <1>1, <1>4, SocketsAssumption DEF IInv, Types, SocketsAssumption
  <2>2. e \in Ends /\ <<n, "client">> \in Ends /\ e # NoEnd /\ Fresh(e)
    BY <2>1, <1>2 DEF Ends, Sides, NoEnd, Fresh
  <2>. QED  BY <2>2, <1>1 DEF IInv, FreshIsUntouched
<1>6. \A x \in Ends : x[1] \in DOMAIN sockets => Home(x)' = Home(x) /\ Peer(x)' = Peer(x)
  BY <1>4 DEF Home, Peer
<1>7. Home(e) = p /\ Peer(e) = q /\ q \in Procs /\ Used(n)
  BY <1>2, <1>5, ProcsOfEnd, <1>1 DEF MapsInv, IInv, Home, Peer, Used
<1>8. \A u \in Threads : /\ u # t => pc'[u] = pc[u] /\ at'[u] = at[u]
                         /\ u = t => pc'[u] = "create" /\ at'[u] = e
  BY <1>1, <1>2 DEF IInv, Types
<1>9. at[t] = NoEnd /\ \A u \in Threads : at[u] # NoEnd => at[u] \in Ends /\ at[u][1] \in DOMAIN sockets
  BY <1>1, <1>3, PlacedIsUsed DEF MapsInv, Placed, IInv
<1>10. connections_by_peer[p][q] = NoEnd
  <2>. SUFFICES ASSUME NEW x, x = connections_by_peer[p][q], x # NoEnd PROVE FALSE
    OBVIOUS
  <2>1. x \in Ends /\ Used(x[1])
    BY <1>1, <1>7, FoundIsUsed DEF IInv
  <2>2. x[1] \in DOMAIN sockets /\ Home(x) = p /\ Peer(x) = q /\ written[x] # 0
    BY <1>1, <1>7 DEF MapsInv, KnownIsOpen
  <2>3. x = e
    BY <2>1, <2>2, <1>1, <1>2, <1>5, <1>7, SameEnd DEF MapsInv, IInv
  <2>. QED  BY <2>2, <2>3, <1>5
<1>11. ASSUME NEW u \in Threads, at[u] # NoEnd, Proc(u) = p PROVE Peer(at[u]) # q
  <2>. SUFFICES ASSUME Peer(at[u]) = q PROVE FALSE
    OBVIOUS
  <2>1. at[u] \in Ends /\ Used(at[u][1]) /\ at[u][1] \in DOMAIN sockets /\ Home(at[u]) = p
    BY <1>1, <1>11, PlacedIsUsed DEF MapsInv, IInv, Placed
  <2>2. at[u] = e
    BY <2>1, <1>1, <1>2, <1>5, <1>7, SameEnd DEF MapsInv, IInv
  <2>3. pc[u] \in {"create", "read"}
    BY <2>1, <1>10, <1>11 DEF MapsInv, Entered
  <2>. QED  BY <2>2, <2>3, <1>1, <1>5 DEF IInv, FreshIsUntouched, Begun
<1>12. \A u \in Threads : /\ u # t /\ at[u] # NoEnd => Home(at[u])' = Home(at[u]) /\ Peer(at[u])' = Peer(at[u])
                          /\ u = t => Home(at[u])' = p /\ Peer(at[u])' = q
  <2>1. ASSUME NEW u \in Threads, u # t, at[u] # NoEnd
        PROVE  Home(at[u])' = Home(at[u]) /\ Peer(at[u])' = Peer(at[u])
    BY <2>1, <1>4, <1>8, <1>9 DEF Home, Peer
  <2>2. Home(at[t])' = p /\ Peer(at[t])' = q
    BY <1>2, <1>4, <1>8 DEF Home, Peer
  <2>. QED  BY <2>1, <2>2
<1>13. Placed'
  <2>1. \A i \in DOMAIN sockets' : <<sockets'[i].from, sockets'[i].to>> \in Reaches
    BY <1>4 DEF MapsInv, Placed
  <2>2. ASSUME NEW u \in Threads
        PROVE  /\ pc'[u] = "idle" => at'[u] = NoEnd
               /\ at'[u] # NoEnd => at'[u][1] \in DOMAIN sockets' /\ Home(at[u])' = Proc(u)
    <3>1. CASE u = t
      <4>1. pc'[u] = "create" /\ at'[u] = e /\ e[1] = n /\ n \in DOMAIN sockets'
        BY <3>1, <1>4, <1>8
      <4>2. Home(at[u])' = Proc(u)
        BY <3>1, <1>12
      <4>. QED  BY <4>1, <4>2
    <3>2. CASE u # t
      BY <3>2, <1>4, <1>8, <1>12 DEF MapsInv, Placed
    <3>. QED  BY <3>1, <3>2
  <2>. QED  BY <2>1, <2>2 DEF Placed
<1>14. OnePerPeer'
  BY <1>8, <1>11, <1>12 DEF MapsInv, OnePerPeer
<1>15. Reading'
  BY <1>3, <1>8 DEF MapsInv, Reading
<1>16. OneSocket'
  <2>1. ASSUME NEW i \in DOMAIN sockets, Used(i)' PROVE Used(i)
    <3>1. CASE i = n
      BY <3>1, <1>7
    <3>2. CASE i # n
      BY <2>1, <3>2, <1>3, <1>4, <1>8 DEF Used
    <3>. QED  BY <3>1, <3>2
  <2>. QED  BY <2>1, <1>4 DEF MapsInv, OneSocket
<1>17. ClientWaits'
  <2>. SUFFICES ASSUME NEW i \in DOMAIN sockets, written[<<i, "server">>] < 2
                PROVE  \E u \in Threads : at'[u] = <<i, "client">> /\ pc'[u] \in Begun
    BY <1>3, <1>4 DEF ClientWaits
  <2>1. PICK u \in Threads : at[u] = <<i, "client">> /\ pc[u] \in Begun
    BY DEF MapsInv, ClientWaits
  <2>. QED  BY <2>1, <1>3, <1>8 DEF Begun
<1>18. Entered'
  <2>. SUFFICES ASSUME NEW u \in Threads, at'[u] # NoEnd
                PROVE  connections_by_peer[Proc(u)][Peer(at[u])']
                         = IF pc'[u] \in {"create", "read"} THEN NoEnd ELSE at'[u]
    BY <1>3 DEF Entered
  <2>1. CASE u = t
    BY <2>1, <1>8, <1>10, <1>12
  <2>2. CASE u # t
    BY <2>2, <1>8, <1>12 DEF MapsInv, Entered
  <2>. QED  BY <2>1, <2>2
<1>19. KnownIsOpen'
  <2>. SUFFICES ASSUME NEW a \in Procs, NEW b \in Procs, NEW x, x = connections_by_peer[a][b], x # NoEnd
                PROVE  /\ x[1] \in DOMAIN sockets' /\ Home(x)' = a /\ Peer(x)' = b /\ written[x] # 0
                       /\ qp[x] = "ready" \/ \E u \in Threads : at'[u] = x /\ pc'[u] \in {"transition", "deleting"}
    BY <1>3 DEF KnownIsOpen, Home, Peer
  <2>1. x \in Ends
    BY <1>1 DEF IInv, Types
  <2>2. /\ x[1] \in DOMAIN sockets /\ Home(x) = a /\ Peer(x) = b /\ written[x] # 0
        /\ qp[x] = "ready" \/ \E u \in Threads : at[u] = x /\ pc[u] \in {"transition", "deleting"}
    BY DEF MapsInv, KnownIsOpen
  <2>. QED  BY <2>1, <2>2, <1>3, <1>4, <1>6, <1>8
<1>20. OpenIsKnown'
  <2>. SUFFICES ASSUME NEW x \in Ends, x[1] \in DOMAIN sockets, qp[x] \in {"reset", "ready"}
                PROVE  \/ connections_by_peer[Home(x)'][Peer(x)'] = x
                       \/ \E u \in Threads : at'[u] = x /\ pc'[u] = "read"
    BY <1>3, <1>4 DEF OpenIsKnown
  <2>. QED  BY <1>3, <1>6, <1>8 DEF MapsInv, OpenIsKnown
<1>21. ClosedFirst'
  BY <1>3, <1>4, <1>8 DEF MapsInv, ClosedFirst
<1>22. QpnIsKnown'
  BY <1>3 DEF MapsInv, QpnIsKnown
<1>. QED  BY <1>1, <1>13, <1>14, <1>15, <1>16, <1>17, <1>18, <1>19, <1>20, <1>21, <1>22 DEF MapsInv

(* A thread that goes on at its end, or has entered it, changes neither whose the ends are nor which
   sockets are in use. *)
LEMMA GoesOn ==
    ASSUME MapsInv, NEW t \in Threads, NEW step, pc[t] # "idle", step # "idle",
           pc' = [pc EXCEPT ![t] = step], at' = [at EXCEPT ![t] = at[t]], sockets' = sockets,
           \A p, q \in Procs : connections_by_peer'[p][q] \in {connections_by_peer[p][q], at[t]}
    PROVE  /\ at' = at /\ at[t] \in Ends /\ at[t] # NoEnd
           /\ \A u \in Threads : pc'[u] = IF u = t THEN step ELSE pc[u]
           /\ \A u \in Threads : u # t => at[u] # at[t]
           /\ \A e : Home(e)' = Home(e) /\ Peer(e)' = Peer(e)
           /\ Placed' /\ OnePerPeer' /\ OneSocket'
<1>1. Types
  BY DEF MapsInv, IInv
<1>2. at' = at /\ at[t] # NoEnd /\ at[t] \in Ends /\ \A u \in Threads : pc'[u] = IF u = t THEN step ELSE pc[u]
  BY <1>1 DEF Types
<1>3. \A e : Home(e)' = Home(e) /\ Peer(e)' = Peer(e)
  BY DEF Home, Peer
<1>4. \A u \in Threads : u # t => at[u] # at[t]
  BY <1>2, Alone DEF MapsInv
<1>5. Placed' /\ OnePerPeer'
  BY <1>2 DEF MapsInv, Placed, OnePerPeer, Home, Peer
<1>6. OneSocket'
  <2>1. ASSUME NEW n \in DOMAIN sockets, Used(n)' PROVE Used(n)
    BY <2>1, <1>2 DEF Used
  <2>. QED  BY <2>1 DEF MapsInv, OneSocket
<1>. QED  BY <1>2, <1>3, <1>4, <1>5, <1>6

(* An end whose queue pairs are created is not found yet. *)
LEMMA CreateMaps ==
    ASSUME MapsInv, NEW t \in Threads, new_client_connection(t) \/ new_server_connection(t)
    PROVE  MapsInv'
<1>1. IInv /\ IInv'
  BY Create DEF MapsInv
<1>. DEFINE e == at[t]
<1>2. /\ pc[t] = "create" /\ pc' = [pc EXCEPT ![t] = "read"] /\ at' = [at EXCEPT ![t] = at[t]]
      /\ qp' = [qp EXCEPT ![at[t]] = "reset"] /\ written' = [written EXCEPT ![at[t]] = 1]
      /\ UNCHANGED <<sockets, connections_by_peer, connections_by_qpn>>
  BY DEF new_client_connection, new_server_connection, Goes, tcp_write, tables
<1>3. /\ at' = at /\ e \in Ends /\ e # NoEnd
      /\ \A u \in Threads : pc'[u] = IF u = t THEN "read" ELSE pc[u]
      /\ \A u \in Threads : u # t => at[u] # e
      /\ \A x : Home(x)' = Home(x) /\ Peer(x)' = Peer(x)
      /\ Placed' /\ OnePerPeer' /\ OneSocket'
  BY <1>2, GoesOn
<1>4. /\ written[e] = 0
      /\ \A x \in Ends : written'[x] = IF x = e THEN 1 ELSE written[x]
      /\ \A x \in Ends : qp'[x] = IF x = e THEN "reset" ELSE qp[x]
  BY <1>1, <1>2, <1>3 DEF IInv, Types, CreatesFirst
<1>5. Reading'
  <2>. SUFFICES ASSUME NEW u \in Threads, pc'[u] \in {"read", "transition"} PROVE written'[at[u]] = 1
    BY <1>3 DEF Reading
  <2>1. at[u] \in Ends
    BY <1>1, <1>3 DEF IInv, Types
  <2>. QED  BY <2>1, <1>3, <1>4 DEF MapsInv, Reading
<1>6. ClientWaits'
  <2>. SUFFICES ASSUME NEW n \in DOMAIN sockets, written'[<<n, "server">>] < 2
                PROVE  \E u \in Threads : at[u] = <<n, "client">> /\ pc'[u] \in Begun
    BY <1>2, <1>3 DEF ClientWaits
  <2>1. <<n, "server">> \in Ends
    BY <1>1, SocketsAssumption DEF IInv, Types, Ends, Sides, SocketsAssumption
  <2>2. written[<<n, "server">>] < 2
    BY <2>1, <1>4
  <2>. QED  BY <2>2, <1>3 DEF MapsInv, ClientWaits, Begun
<1>7. Entered'
  BY <1>2, <1>3 DEF MapsInv, Entered
<1>8. KnownIsOpen'
  <2>. SUFFICES ASSUME NEW a \in Procs, NEW b \in Procs, NEW x, x = connections_by_peer[a][b], x # NoEnd
                PROVE  /\ x[1] \in DOMAIN sockets /\ Home(x) = a /\ Peer(x) = b /\ written'[x] # 0
                       /\ qp'[x] = "ready" \/ \E u \in Threads : at[u] = x /\ pc'[u] \in {"transition", "deleting"}
    BY <1>2, <1>3 DEF KnownIsOpen
  <2>1. x \in Ends
    BY <1>1 DEF IInv, Types
  <2>2. /\ x[1] \in DOMAIN sockets /\ Home(x) = a /\ Peer(x) = b /\ written[x] # 0
        /\ qp[x] = "ready" \/ \E u \in Threads : at[u] = x /\ pc[u] \in {"transition", "deleting"}
    BY DEF MapsInv, KnownIsOpen
  <2>. QED  BY <2>1, <2>2, <1>2, <1>3, <1>4
<1>9. OpenIsKnown'
  <2>. SUFFICES ASSUME NEW x \in Ends, x[1] \in DOMAIN sockets, qp'[x] \in {"reset", "ready"}
                PROVE  \/ connections_by_peer[Home(x)][Peer(x)] = x
                       \/ \E u \in Threads : at[u] = x /\ pc'[u] = "read"
    BY <1>2, <1>3 DEF OpenIsKnown
  <2>. QED  BY <1>2, <1>3, <1>4 DEF MapsInv, OpenIsKnown
<1>10. ClosedFirst'
  <2>1. ASSUME NEW u \in Threads, pc'[u] = "deleting" PROVE qp'[at[u]] = "closed"
    <3>1. at[u] \in Ends /\ u # t
      BY <2>1, <1>1, <1>3 DEF IInv, Types
    <3>. QED  BY <2>1, <3>1, <1>3, <1>4 DEF MapsInv, ClosedFirst
  <2>2. e[1] \in DOMAIN sockets
    BY <1>3 DEF MapsInv, Placed
  <2>. QED  BY <2>1, <2>2, <1>2, <1>3, <1>4 DEF MapsInv, ClosedFirst
<1>11. QpnIsKnown'
  BY <1>2 DEF MapsInv, QpnIsKnown
<1>. QED  BY <1>1, <1>3, <1>5, <1>6, <1>7, <1>8, <1>9, <1>10, <1>11 DEF MapsInv

(* Entered in both maps, an end is what its process finds of the peer: nothing was there. *)
LEMMA EnterMaps ==
    ASSUME MapsInv, Orderly, NEW t \in Threads, init_connection(t)
    PROVE  MapsInv'
<1>. DEFINE e == at[t]
            p == Proc(t)
            q == Peer(at[t])
<1>1. IInv /\ IInv' /\ p \in Procs
  BY Enter, ProcOfThread DEF MapsInv
<1>2. /\ pc[t] = "read" /\ pc' = [pc EXCEPT ![t] = "transition"] /\ at' = [at EXCEPT ![t] = at[t]]
      /\ connections_by_qpn' = [connections_by_qpn EXCEPT ![p] = @ \cup {e}]
      /\ connections_by_peer' = [connections_by_peer EXCEPT ![p][q] = IF @ = NoEnd THEN e ELSE @]
      /\ UNCHANGED <<sockets, qp, written>>
  BY DEF init_connection, insert_conn_qpn, insert_conn_peer, Goes
<1>3. e \in Ends /\ e # NoEnd /\ e[1] \in DOMAIN sockets /\ Home(e) = p /\ q \in Procs /\ p # q /\ written[e] = 1
  <2>1. e \in Ends /\ e # NoEnd
    BY <1>1, <1>2, Ends2 DEF IInv, Types
  <2>2. e[1] \in DOMAIN sockets /\ Home(e) = p /\ written[e] = 1
    BY <1>2, <2>1 DEF MapsInv, Placed, Reading
  <2>. QED  BY <2>1, <2>2, <1>1, ProcsOfEnd DEF MapsInv, IInv, Ends, Sides
<1>4. connections_by_peer[p][q] = NoEnd
  BY <1>2, <1>3 DEF MapsInv, Entered
<1>5. \A a, b \in Procs :
        connections_by_peer'[a][b] = IF a = p /\ b = q THEN e ELSE connections_by_peer[a][b]
  <2>1. connections_by_peer \in [Procs -> [Procs -> Ends \cup {NoEnd}]]
    BY <1>1 DEF IInv, Types
  <2>. QED  BY <2>1, <1>2, <1>4
<1>6. /\ at' = at
      /\ \A u \in Threads : pc'[u] = IF u = t THEN "transition" ELSE pc[u]
      /\ \A u \in Threads : u # t => at[u] # e
      /\ \A x : Home(x)' = Home(x) /\ Peer(x)' = Peer(x)
      /\ Placed' /\ OnePerPeer' /\ OneSocket'
  <2>1. \A a, b \in Procs : connections_by_peer'[a][b] \in {connections_by_peer[a][b], at[t]}
    BY <1>5
  <2>2. sockets' = sockets /\ pc[t] # "idle"
    BY <1>2
  <2>. QED  BY <2>1, <2>2, <1>2, GoesOn
<1>7. Reading'
  BY <1>2, <1>3, <1>6 DEF MapsInv, Reading
<1>8. ClientWaits'
  BY <1>2, <1>6 DEF MapsInv, ClientWaits, Begun
<1>9. Entered'
  <2>. SUFFICES ASSUME NEW u \in Threads, at[u] # NoEnd
                PROVE  connections_by_peer'[Proc(u)][Peer(at[u])]
                         = IF pc'[u] \in {"create", "read"} THEN NoEnd ELSE at[u]
    BY <1>6 DEF Entered
  <2>1. CASE u = t
    BY <2>1, <1>1, <1>3, <1>5, <1>6
  <2>2. CASE u # t
    <3>1. Proc(u) \in Procs /\ Peer(at[u]) \in Procs
      BY <1>1, ProcOfThread, ProcsOfEnd DEF MapsInv, IInv, Types, Placed
    <3>2. ~(Proc(u) = p /\ Peer(at[u]) = q)
      BY <2>2, <1>3 DEF MapsInv, OnePerPeer
    <3>. QED  BY <2>2, <3>1, <3>2, <1>5, <1>6 DEF MapsInv, Entered
  <2>. QED  BY <2>1, <2>2
<1>10. KnownIsOpen'
  <2>. SUFFICES ASSUME NEW a \in Procs, NEW b \in Procs, NEW x, x = connections_by_peer'[a][b], x # NoEnd
                PROVE  /\ x[1] \in DOMAIN sockets /\ Home(x) = a /\ Peer(x) = b /\ written[x] # 0
                       /\ qp[x] = "ready" \/ \E u \in Threads : at[u] = x /\ pc'[u] \in {"transition", "deleting"}
    BY <1>2, <1>6 DEF KnownIsOpen
  <2>1. CASE a = p /\ b = q
    BY <2>1, <1>3, <1>5, <1>6
  <2>2. CASE ~(a = p /\ b = q)
    <3>1. x = connections_by_peer[a][b]
      BY <2>2, <1>5
    <3>2. /\ x[1] \in DOMAIN sockets /\ Home(x) = a /\ Peer(x) = b /\ written[x] # 0
          /\ qp[x] = "ready" \/ \E u \in Threads : at[u] = x /\ pc[u] \in {"transition", "deleting"}
      BY <3>1 DEF MapsInv, KnownIsOpen
    <3>. QED  BY <3>2, <1>6
  <2>. QED  BY <2>1, <2>2
<1>11. OpenIsKnown'
  <2>. SUFFICES ASSUME NEW x \in Ends, x[1] \in DOMAIN sockets, qp[x] \in {"reset", "ready"}
                PROVE  \/ connections_by_peer'[Home(x)][Peer(x)] = x
                       \/ \E u \in Threads : at[u] = x /\ pc'[u] = "read"
    BY <1>2, <1>6 DEF OpenIsKnown
  <2>1. Home(x) \in Procs /\ Peer(x) \in Procs
    BY <1>1, ProcsOfEnd DEF MapsInv, IInv
  <2>2. CASE x = e
    BY <2>2, <1>1, <1>3, <1>5
  <2>3. CASE x # e
    <3>1. \/ connections_by_peer[Home(x)][Peer(x)] = x
          \/ \E u \in Threads : at[u] = x /\ pc[u] = "read"
      BY DEF MapsInv, OpenIsKnown
    <3>2. CASE connections_by_peer[Home(x)][Peer(x)] = x
      <4>1. x # NoEnd
        BY Ends2
      <4>. QED  BY <3>2, <4>1, <2>1, <1>4, <1>5
    <3>3. CASE \E u \in Threads : at[u] = x /\ pc[u] = "read"
      BY <3>3, <2>3, <1>6
    <3>. QED  BY <3>1, <3>2, <3>3
  <2>. QED  BY <2>2, <2>3
<1>12. ClosedFirst'
  BY <1>2, <1>6 DEF MapsInv, ClosedFirst
<1>13. QpnIsKnown'
  <2>1. ASSUME NEW a \in Procs
        PROVE  connections_by_qpn'[a] = {connections_by_peer'[a][b] : b \in Procs} \ {NoEnd}
    <3>1. connections_by_qpn[a] = {connections_by_peer[a][b] : b \in Procs} \ {NoEnd}
      BY DEF MapsInv, QpnIsKnown
    <3>2. CASE a = p
      <4>1. connections_by_qpn'[a] = connections_by_qpn[a] \cup {e}
        BY <3>2, <1>1, <1>2 DEF MapsInv, QpnIsKnown
      <4>. QED  BY <3>1, <3>2, <4>1, <1>3, <1>4, <1>5
    <3>3. CASE a # p
      <4>1. connections_by_qpn'[a] = connections_by_qpn[a]
        BY <3>3, <1>2 DEF MapsInv, QpnIsKnown
      <4>. QED  BY <3>1, <3>3, <4>1, <1>5
    <3>. QED  BY <3>2, <3>3
  <2>2. connections_by_qpn' = [a \in Procs |-> connections_by_qpn'[a]]
    BY <1>2 DEF MapsInv, QpnIsKnown
  <2>. QED  BY <2>1, <2>2 DEF QpnIsKnown
<1>. QED  BY <1>1, <1>6, <1>7, <1>8, <1>9, <1>10, <1>11, <1>12, <1>13 DEF MapsInv

(* An end that is found is ready before its thread goes on. *)
LEMMA TransitionMaps ==
    ASSUME MapsInv, NEW t \in Threads, transition_qp_from_reset_to_ready(t)
    PROVE  MapsInv'
<1>. DEFINE e == at[t]
<1>1. IInv /\ IInv'
  BY Transition DEF MapsInv
<1>2. /\ pc[t] = "transition" /\ pc' = [pc EXCEPT ![t] = "final"] /\ at' = [at EXCEPT ![t] = at[t]]
      /\ qp' = [qp EXCEPT ![at[t]] = "ready"] /\ written' = [written EXCEPT ![at[t]] = 2]
      /\ UNCHANGED <<sockets, connections_by_peer, connections_by_qpn>>
  BY DEF transition_qp_from_reset_to_ready, Goes, tcp_write, tables
<1>3. /\ at' = at /\ e \in Ends /\ e # NoEnd
      /\ \A u \in Threads : pc'[u] = IF u = t THEN "final" ELSE pc[u]
      /\ \A u \in Threads : u # t => at[u] # e
      /\ \A x : Home(x)' = Home(x) /\ Peer(x)' = Peer(x)
      /\ Placed' /\ OnePerPeer' /\ OneSocket'
  BY <1>2, GoesOn
<1>4. /\ \A x \in Ends : written'[x] = IF x = e THEN 2 ELSE written[x]
      /\ \A x \in Ends : qp'[x] = IF x = e THEN "ready" ELSE qp[x]
  BY <1>1, <1>2, <1>3 DEF IInv, Types
<1>5. Reading'
  <2>. SUFFICES ASSUME NEW u \in Threads, pc'[u] \in {"read", "transition"} PROVE written'[at[u]] = 1
    BY <1>3 DEF Reading
  <2>1. at[u] \in Ends
    BY <1>1, <1>3 DEF IInv, Types
  <2>. QED  BY <2>1, <1>3, <1>4 DEF MapsInv, Reading
<1>6. ClientWaits'
  <2>. SUFFICES ASSUME NEW n \in DOMAIN sockets, written'[<<n, "server">>] < 2
                PROVE  \E u \in Threads : at[u] = <<n, "client">> /\ pc'[u] \in Begun
    BY <1>2, <1>3 DEF ClientWaits
  <2>1. <<n, "server">> \in Ends
    BY <1>1, SocketsAssumption DEF IInv, Types, Ends, Sides, SocketsAssumption
  <2>2. written[<<n, "server">>] < 2
    BY <2>1, <1>4
  <2>. QED  BY <2>2, <1>3 DEF MapsInv, ClientWaits, Begun
<1>7. Entered'
  BY <1>2, <1>3 DEF MapsInv, Entered
<1>8. KnownIsOpen'
  <2>. SUFFICES ASSUME NEW a \in Procs, NEW b \in Procs, NEW x, x = connections_by_peer[a][b], x # NoEnd
                PROVE  /\ x[1] \in DOMAIN sockets /\ Home(x) = a /\ Peer(x) = b /\ written'[x] # 0
                       /\ qp'[x] = "ready" \/ \E u \in Threads : at[u] = x /\ pc'[u] \in {"transition", "deleting"}
    BY <1>2, <1>3 DEF KnownIsOpen
  <2>1. x \in Ends
    BY <1>1 DEF IInv, Types
  <2>2. /\ x[1] \in DOMAIN sockets /\ Home(x) = a /\ Peer(x) = b /\ written[x] # 0
        /\ qp[x] = "ready" \/ \E u \in Threads : at[u] = x /\ pc[u] \in {"transition", "deleting"}
    BY DEF MapsInv, KnownIsOpen
  <2>. QED  BY <2>1, <2>2, <1>2, <1>3, <1>4
<1>9. OpenIsKnown'
  <2>. SUFFICES ASSUME NEW x \in Ends, x[1] \in DOMAIN sockets, qp'[x] \in {"reset", "ready"}
                PROVE  \/ connections_by_peer[Home(x)][Peer(x)] = x
                       \/ \E u \in Threads : at[u] = x /\ pc'[u] = "read"
    BY <1>2, <1>3 DEF OpenIsKnown
  <2>1. CASE x = e
    <3>1. Home(e) = Proc(t)
      BY <1>3 DEF MapsInv, Placed
    <3>2. connections_by_peer[Proc(t)][Peer(e)] = e
      BY <1>2, <1>3 DEF MapsInv, Entered
    <3>. QED  BY <2>1, <3>1, <3>2
  <2>2. CASE x # e
    BY <2>2, <1>2, <1>3, <1>4 DEF MapsInv, OpenIsKnown
  <2>. QED  BY <2>1, <2>2
<1>10. ClosedFirst'
  <2>1. ASSUME NEW u \in Threads, pc'[u] = "deleting" PROVE qp'[at[u]] = "closed"
    <3>1. at[u] \in Ends /\ u # t
      BY <2>1, <1>1, <1>3 DEF IInv, Types
    <3>. QED  BY <2>1, <3>1, <1>3, <1>4 DEF MapsInv, ClosedFirst
  <2>2. e[1] \in DOMAIN sockets
    BY <1>3 DEF MapsInv, Placed
  <2>. QED  BY <2>1, <2>2, <1>2, <1>3, <1>4 DEF MapsInv, ClosedFirst
<1>11. QpnIsKnown'
  BY <1>2 DEF MapsInv, QpnIsKnown
<1>. QED  BY <1>1, <1>3, <1>5, <1>6, <1>7, <1>8, <1>9, <1>10, <1>11 DEF MapsInv

(* A thread leaves an end that is ready; a client leaves when the server is. *)
LEMMA LeaveMaps ==
    ASSUME MapsInv, NEW t \in Threads, transition_connection_to_ready(t)
    PROVE  MapsInv'
<1>. DEFINE e == at[t]
<1>1. IInv /\ IInv'
  BY Leave DEF MapsInv
<1>2. /\ pc[t] = "final" /\ pc' = [pc EXCEPT ![t] = "idle"] /\ at' = [at EXCEPT ![t] = NoEnd]
      /\ written[Other(at[t])] >= 2
      /\ UNCHANGED <<sockets, qp, written, connections_by_peer, connections_by_qpn>>
  BY DEF transition_connection_to_ready, tcp_exchange, CanRead, Returns, Goes, tables
<1>3. \A u \in Threads : /\ pc'[u] = IF u = t THEN "idle" ELSE pc[u]
                         /\ at'[u] = IF u = t THEN NoEnd ELSE at[u]
  BY <1>1, <1>2 DEF IInv, Types
<1>4. \A x : Home(x)' = Home(x) /\ Peer(x)' = Peer(x)
  BY <1>2 DEF Home, Peer
<1>5. \A u \in Threads : at'[u] # NoEnd =>
        u # t /\ at'[u] = at[u] /\ Home(at[u])' = Home(at[u]) /\ Peer(at[u])' = Peer(at[u])
  BY <1>2, <1>3 DEF Home, Peer
<1>6. Placed'
  BY <1>2, <1>3, <1>5 DEF MapsInv, Placed
<1>7. OnePerPeer'
  BY <1>3, <1>5 DEF MapsInv, OnePerPeer
<1>8. OneSocket'
  <2>1. ASSUME NEW n \in DOMAIN sockets, Used(n)' PROVE Used(n)
    BY <2>1, <1>2, <1>3 DEF Used
  <2>. QED  BY <2>1, <1>2 DEF MapsInv, OneSocket
<1>9. Reading'
  BY <1>2, <1>3 DEF MapsInv, Reading
<1>10. ClientWaits'
  <2>. SUFFICES ASSUME NEW n \in DOMAIN sockets, written[<<n, "server">>] < 2
                PROVE  \E u \in Threads : at'[u] = <<n, "client">> /\ pc'[u] \in Begun
    BY <1>2 DEF ClientWaits
  <2>1. PICK u \in Threads : at[u] = <<n, "client">> /\ pc[u] \in Begun
    BY DEF MapsInv, ClientWaits
  <2>2. u # t
    <3>. SUFFICES ASSUME u = t PROVE FALSE
      OBVIOUS
    <3>1. Other(at[t]) = <<n, "server">>
      BY <2>1 DEF Other
    <3>2. written[<<n, "server">>] \in Nat
      <4>1. <<n, "server">> \in Ends
        BY <1>1, SocketsAssumption DEF IInv, Types, Ends, Sides, SocketsAssumption
      <4>. QED  BY <4>1, <1>1 DEF IInv, Types
    <3>. QED  BY <3>1, <3>2, <1>2
  <2>. QED  BY <2>1, <2>2, <1>3
<1>11. Entered'
  BY <1>2, <1>3, <1>5 DEF MapsInv, Entered
<1>12. KnownIsOpen'
  BY <1>2, <1>3, <1>4 DEF MapsInv, KnownIsOpen
<1>13. OpenIsKnown'
  BY <1>2, <1>3, <1>4 DEF MapsInv, OpenIsKnown
<1>14. ClosedFirst' /\ QpnIsKnown'
  BY <1>2, <1>3 DEF MapsInv, ClosedFirst, QpnIsKnown
<1>. QED  BY <1>1, <1>6, <1>7, <1>8, <1>9, <1>10, <1>11, <1>12, <1>13, <1>14 DEF MapsInv

(* Disconnecting begins at an end that is found, of a peer no other thread is about. *)
LEMMA DisconnectMaps ==
    ASSUME MapsInv, NEW t \in Threads, NEW q \in Procs, NNTI_ib_disconnect(t, q)
    PROVE  MapsInv'
<1>1. IInv /\ IInv' /\ Proc(t) \in Procs
  BY Disconnect, ProcOfThread DEF MapsInv
<1>2. PICK e : e = connections_by_peer[Proc(t)][q]
  OBVIOUS
<1>3. /\ pc[t] = "idle" /\ pc' = [pc EXCEPT ![t] = "closing"] /\ at' = [at EXCEPT ![t] = e] /\ e # NoEnd
      /\ \A u \in ThreadsOf[Proc(t)] : at[u] # NoEnd => Peer(at[u]) # q
      /\ UNCHANGED <<sockets, qp, written, connections_by_peer, connections_by_qpn>>
  BY <1>2 DEF NNTI_ib_disconnect, get_conn_peer, Idle, Goes, tables
<1>4. e \in Ends /\ e[1] \in DOMAIN sockets /\ Home(e) = Proc(t) /\ Peer(e) = q /\ Used(e[1])
  BY <1>1, <1>2, <1>3, FoundIsUsed DEF MapsInv, KnownIsOpen, IInv
<1>5. \A u \in Threads : /\ pc'[u] = IF u = t THEN "closing" ELSE pc[u]
                         /\ at'[u] = IF u = t THEN e ELSE at[u]
  BY <1>1, <1>3 DEF IInv, Types
<1>6. \A x : Home(x)' = Home(x) /\ Peer(x)' = Peer(x)
  BY <1>3 DEF Home, Peer
<1>7. \A u \in Threads : Home(at[u])' = Home(at'[u]) /\ Peer(at[u])' = Peer(at'[u])
  BY <1>3 DEF Home, Peer
<1>8. at[t] = NoEnd /\ \A u \in Threads : at[u] # NoEnd /\ Proc(u) = Proc(t) => Peer(at[u]) # q
  BY <1>3, ThreadIsThere DEF MapsInv, Placed
<1>9. Placed'
  BY <1>3, <1>4, <1>5, <1>7 DEF MapsInv, Placed
<1>10. OnePerPeer'
  BY <1>4, <1>5, <1>7, <1>8 DEF MapsInv, OnePerPeer
<1>11. OneSocket'
  <2>1. ASSUME NEW n \in DOMAIN sockets, Used(n)' PROVE Used(n)
    <3>1. CASE n = e[1]
      BY <3>1, <1>4
    <3>2. CASE n # e[1]
      BY <2>1, <3>2, <1>3, <1>5 DEF Used
    <3>. QED  BY <3>1, <3>2
  <2>. QED  BY <2>1, <1>3 DEF MapsInv, OneSocket
<1>12. Reading' /\ ClientWaits'
  BY <1>3, <1>5, SMTT(30) DEF MapsInv, Reading, ClientWaits, Begun
<1>13. Entered'
  BY <1>2, <1>3, <1>4, <1>5, <1>7 DEF MapsInv, Entered
<1>14. KnownIsOpen'
  BY <1>3, <1>5, <1>6 DEF MapsInv, KnownIsOpen
<1>15. OpenIsKnown'
  BY <1>3, <1>5, <1>6 DEF MapsInv, OpenIsKnown
<1>16. ClosedFirst' /\ QpnIsKnown'
  BY <1>3, <1>5 DEF MapsInv, ClosedFirst, QpnIsKnown
<1>. QED  BY <1>1, <1>9, <1>10, <1>11, <1>12, <1>13, <1>14, <1>15, <1>16 DEF MapsInv

(* An end that is closed is still found, until the thread that closed it takes it out. *)
LEMMA CloseMaps ==
    ASSUME MapsInv, NEW t \in Threads, close_connection(t)
    PROVE  MapsInv'
<1>. DEFINE e == at[t]
<1>1. IInv /\ IInv'
  <2>1. Procs # {}
    BY DEF Threads
  <2>. QED  BY <2>1, Disconnect DEF MapsInv
<1>2. /\ pc[t] = "closing" /\ pc' = [pc EXCEPT ![t] = "deleting"] /\ at' = [at EXCEPT ![t] = at[t]]
      /\ qp' = [x \in Ends |-> IF x \in {at[t]} THEN "closed" ELSE qp[x]]
      /\ UNCHANGED <<sockets, written, connections_by_peer, connections_by_qpn>>
  BY DEF close_connection, transition_connection_to_error, Goes, tables
<1>3. /\ at' = at /\ e \in Ends /\ e # NoEnd
      /\ \A u \in Threads : pc'[u] = IF u = t THEN "deleting" ELSE pc[u]
      /\ \A u \in Threads : u # t => at[u] # e
      /\ \A x : Home(x)' = Home(x) /\ Peer(x)' = Peer(x)
      /\ Placed' /\ OnePerPeer' /\ OneSocket'
  BY <1>2, GoesOn
<1>4. \A x \in Ends : qp'[x] = IF x = e THEN "closed" ELSE qp[x]
  BY <1>2
<1>5. Reading' /\ ClientWaits'
  BY <1>2, <1>3 DEF MapsInv, Reading, ClientWaits, Begun
<1>6. Entered'
  BY <1>2, <1>3 DEF MapsInv, Entered
<1>7. KnownIsOpen'
  <2>. SUFFICES ASSUME NEW a \in Procs, NEW b \in Procs, NEW x, x = connections_by_peer[a][b], x # NoEnd
                PROVE  /\ x[1] \in DOMAIN sockets /\ Home(x) = a /\ Peer(x) = b /\ written[x] # 0
                       /\ qp'[x] = "ready" \/ \E u \in Threads : at[u] = x /\ pc'[u] \in {"transition", "deleting"}
    BY <1>2, <1>3 DEF KnownIsOpen
  <2>1. x \in Ends
    BY <1>1 DEF IInv, Types
  <2>2. /\ x[1] \in DOMAIN sockets /\ Home(x) = a /\ Peer(x) = b /\ written[x] # 0
        /\ qp[x] = "ready" \/ \E u \in Threads : at[u] = x /\ pc[u] \in {"transition", "deleting"}
    BY DEF MapsInv, KnownIsOpen
  <2>. QED  BY <2>1, <2>2, <1>2, <1>3, <1>4
<1>8. OpenIsKnown'
  <2>. SUFFICES ASSUME NEW x \in Ends, x[1] \in DOMAIN sockets, qp'[x] \in {"reset", "ready"}
                PROVE  \/ connections_by_peer[Home(x)][Peer(x)] = x
                       \/ \E u \in Threads : at[u] = x /\ pc'[u] = "read"
    BY <1>2, <1>3 DEF OpenIsKnown
  <2>. QED  BY <1>2, <1>3, <1>4 DEF MapsInv, OpenIsKnown
<1>9. ClosedFirst'
  <2>1. ASSUME NEW u \in Threads, pc'[u] = "deleting" PROVE qp'[at[u]] = "closed"
    <3>1. at[u] \in Ends
      BY <2>1, <1>1, <1>3 DEF IInv, Types
    <3>. QED  BY <2>1, <3>1, <1>3, <1>4 DEF MapsInv, ClosedFirst
  <2>2. e[1] \in DOMAIN sockets
    BY <1>3 DEF MapsInv, Placed
  <2>. QED  BY <2>1, <2>2, <1>2, <1>3, <1>4 DEF MapsInv, ClosedFirst
<1>10. QpnIsKnown'
  BY <1>2 DEF MapsInv, QpnIsKnown
<1>. QED  BY <1>1, <1>3, <1>5, <1>6, <1>7, <1>8, <1>9, <1>10 DEF MapsInv

(* What is taken out of the maps is the end that was closed, though it is looked for anew. *)
LEMMA DeleteMaps ==
    ASSUME MapsInv, Orderly, NEW t \in Threads, Deletes(t)
    PROVE  MapsInv'
<1>. DEFINE e == at[t]
            p == Proc(t)
            q == Peer(at[t])
<1>1. IInv /\ IInv' /\ p \in Procs
  <2>1. Procs # {}
    BY DEF Threads
  <2>. QED  BY <2>1, Disconnect, ProcOfThread DEF MapsInv
<1>2. /\ pc[t] = "deleting" /\ pc' = [pc EXCEPT ![t] = "idle"] /\ at' = [at EXCEPT ![t] = NoEnd]
      /\ connections_by_peer' = [connections_by_peer EXCEPT ![p][q] = NoEnd]
      /\ connections_by_qpn' = [connections_by_qpn EXCEPT ![p] = @ \ {connections_by_peer[p][q]}]
      /\ UNCHANGED <<sockets, qp, written>>
  BY DEF Deletes, del_conn_peer, del_conn_qpn, get_conn_peer, Returns, Goes
<1>3. e \in Ends /\ e # NoEnd /\ e[1] \in DOMAIN sockets /\ Home(e) = p /\ q \in Procs /\ qp[e] = "closed"
  <2>1. e \in Ends /\ e # NoEnd
    BY <1>1, <1>2, Ends2 DEF IInv, Types
  <2>2. e[1] \in DOMAIN sockets /\ Home(e) = p /\ qp[e] = "closed"
    BY <1>2, <2>1 DEF MapsInv, Placed, ClosedFirst
  <2>. QED  BY <2>1, <2>2, <1>1, ProcsOfEnd DEF MapsInv, IInv
<1>4. connections_by_peer[p][q] = e
  BY <1>2, <1>3 DEF MapsInv, Entered
<1>5. \A a, b \in Procs :
        connections_by_peer'[a][b] = IF a = p /\ b = q THEN NoEnd ELSE connections_by_peer[a][b]
  <2>1. connections_by_peer \in [Procs -> [Procs -> Ends \cup {NoEnd}]]
    BY <1>1 DEF IInv, Types
  <2>. QED  BY <2>1, <1>2
<1>6. \A u \in Threads : /\ pc'[u] = IF u = t THEN "idle" ELSE pc[u]
                         /\ at'[u] = IF u = t THEN NoEnd ELSE at[u]
  BY <1>1, <1>2 DEF IInv, Types
<1>7. \A x : Home(x)' = Home(x) /\ Peer(x)' = Peer(x)
  BY <1>2 DEF Home, Peer
<1>8. \A u \in Threads : at'[u] # NoEnd =>
        u # t /\ at'[u] = at[u] /\ Home(at[u])' = Home(at[u]) /\ Peer(at[u])' = Peer(at[u])
  BY <1>2, <1>6 DEF Home, Peer
<1>9. Placed'
  BY <1>2, <1>6, <1>8 DEF MapsInv, Placed
<1>10. OnePerPeer'
  BY <1>6, <1>8 DEF MapsInv, OnePerPeer
<1>11. OneSocket'
  <2>1. ASSUME NEW n \in DOMAIN sockets, Used(n)' PROVE Used(n)
    BY <2>1, <1>2, <1>5, <1>6 DEF Used
  <2>. QED  BY <2>1, <1>2 DEF MapsInv, OneSocket
<1>12. Reading' /\ ClientWaits'
  <2>1. Reading'
    BY <1>2, <1>6 DEF MapsInv, Reading
  <2>2. ASSUME NEW n \in DOMAIN sockets, written[<<n, "server">>] < 2
        PROVE  \E u \in Threads : at'[u] = <<n, "client">> /\ pc'[u] \in Begun
    <3>1. PICK u \in Threads : at[u] = <<n, "client">> /\ pc[u] \in Begun
      BY <2>2 DEF MapsInv, ClientWaits
    <3>. QED  BY <3>1, <1>2, <1>6 DEF Begun
  <2>. QED  BY <2>1, <2>2, <1>2 DEF ClientWaits
<1>13. Entered'
  <2>. SUFFICES ASSUME NEW u \in Threads, at'[u] # NoEnd
                PROVE  connections_by_peer'[Proc(u)][Peer(at[u])']
                         = IF pc'[u] \in {"create", "read"} THEN NoEnd ELSE at'[u]
    BY DEF Entered
  <2>1. u # t /\ at'[u] = at[u] /\ at[u] # NoEnd /\ Peer(at[u])' = Peer(at[u]) /\ pc'[u] = pc[u]
    BY <1>6, <1>8
  <2>2. Proc(u) \in Procs /\ Peer(at[u]) \in Procs
    BY <2>1, <1>1, ProcOfThread, ProcsOfEnd DEF MapsInv, IInv, Types, Placed
  <2>3. ~(Proc(u) = p /\ Peer(at[u]) = q)
    BY <2>1, <1>3 DEF MapsInv, OnePerPeer
  <2>. QED  BY <2>1, <2>2, <2>3, <1>5 DEF MapsInv, Entered
<1>14. KnownIsOpen'
  <2>. SUFFICES ASSUME NEW a \in Procs, NEW b \in Procs, NEW x, x = connections_by_peer'[a][b], x # NoEnd
                PROVE  /\ x[1] \in DOMAIN sockets /\ Home(x) = a /\ Peer(x) = b /\ written[x] # 0
                       /\ qp[x] = "ready" \/ \E u \in Threads : at'[u] = x /\ pc'[u] \in {"transition", "deleting"}
    BY <1>2, <1>7 DEF KnownIsOpen
  <2>1. x = connections_by_peer[a][b] /\ ~(a = p /\ b = q)
    BY <1>5
  <2>2. /\ x[1] \in DOMAIN sockets /\ Home(x) = a /\ Peer(x) = b /\ written[x] # 0
        /\ qp[x] = "ready" \/ \E u \in Threads : at[u] = x /\ pc[u] \in {"transition", "deleting"}
    BY <2>1 DEF MapsInv, KnownIsOpen
  <2>3. x # e
    BY <2>1, <2>2, <1>3
  <2>. QED  BY <2>2, <2>3, <1>6
<1>15. OpenIsKnown'
  <2>. SUFFICES ASSUME NEW x \in Ends, x[1] \in DOMAIN sockets, qp[x] \in {"reset", "ready"}
                PROVE  \/ connections_by_peer'[Home(x)][Peer(x)] = x
                       \/ \E u \in Threads : at'[u] = x /\ pc'[u] = "read"
    BY <1>2, <1>7 DEF OpenIsKnown
  <2>1. Home(x) \in Procs /\ Peer(x) \in Procs /\ x # e
    BY <1>1, <1>3, ProcsOfEnd DEF MapsInv, IInv
  <2>2. \/ connections_by_peer[Home(x)][Peer(x)] = x
        \/ \E u \in Threads : at[u] = x /\ pc[u] = "read"
    BY DEF MapsInv, OpenIsKnown
  <2>. QED  BY <2>1, <2>2, <1>2, <1>4, <1>5, <1>6
<1>16. ClosedFirst'
  BY <1>2, <1>6 DEF MapsInv, ClosedFirst
<1>17. QpnIsKnown'
  <2>1. ASSUME NEW a \in Procs
        PROVE  connections_by_qpn'[a] = {connections_by_peer'[a][b] : b \in Procs} \ {NoEnd}
    <3>1. connections_by_qpn[a] = {connections_by_peer[a][b] : b \in Procs} \ {NoEnd}
      BY DEF MapsInv, QpnIsKnown
    <3>2. CASE a = p
      <4>1. connections_by_qpn'[a] = connections_by_qpn[a] \ {e}
        BY <3>2, <1>1, <1>2, <1>4 DEF MapsInv, QpnIsKnown
      <4>2. \A b \in Procs : connections_by_peer[a][b] = e => b = q
        BY <1>3, <3>2 DEF MapsInv, KnownIsOpen
      <4>3. \A b \in Procs : connections_by_peer'[a][b] = IF b = q THEN NoEnd ELSE connections_by_peer[a][b]
        BY <1>5, <3>2
      <4>4. connections_by_peer[a][q] = e
        BY <1>4, <3>2
      <4>. HIDE DEF e, q
      <4>. QED  BY <3>1, <4>1, <4>2, <4>3, <4>4, <1>3
    <3>3. CASE a # p
      <4>1. connections_by_qpn'[a] = connections_by_qpn[a]
        BY <3>3, <1>2 DEF MapsInv, QpnIsKnown
      <4>. QED  BY <3>1, <3>3, <4>1, <1>5
    <3>. QED  BY <3>2, <3>3
  <2>2. connections_by_qpn' = [a \in Procs |-> connections_by_qpn'[a]]
    BY <1>2 DEF MapsInv, QpnIsKnown
  <2>. QED  BY <2>1, <2>2 DEF QpnIsKnown
<1>. QED  BY <1>1, <1>9, <1>10, <1>11, <1>12, <1>13, <1>14, <1>15, <1>16, <1>17 DEF MapsInv

(* A process that ends closes all that it finds; its threads are idle. *)
LEMMA InitFiniMaps ==
    ASSUME MapsInv, NEW p \in Procs, init_server_listen_socket(p) \/ close_all_conn(p)
    PROVE  MapsInv'
<1>1. IInv /\ IInv'
  BY InitFini DEF MapsInv
<1>2. UNCHANGED <<sockets, written, pc, at>> /\ \A x : Home(x)' = Home(x) /\ Peer(x)' = Peer(x)
  BY DEF init_server_listen_socket, close_all_conn, threads, Home, Peer
<1>3. Placed' /\ OnePerPeer' /\ Reading' /\ ClientWaits'
  BY <1>2 DEF MapsInv, Placed, OnePerPeer, Reading, ClientWaits, Home, Peer
<1>4. CASE init_server_listen_socket(p)
  <2>1. UNCHANGED <<qp, connections_by_peer, connections_by_qpn>>
    BY <1>4 DEF init_server_listen_socket, tables
  <2>2. OneSocket' /\ Entered'
    BY <2>1, <1>2 DEF MapsInv, OneSocket, Used, Entered, Peer
  <2>3. KnownIsOpen' /\ OpenIsKnown'
    BY <2>1, <1>2 DEF MapsInv, KnownIsOpen, OpenIsKnown
  <2>4. ClosedFirst' /\ QpnIsKnown'
    BY <2>1, <1>2 DEF MapsInv, ClosedFirst, QpnIsKnown
  <2>. QED  BY <2>2, <2>3, <2>4, <1>1, <1>3 DEF MapsInv
<1>5. CASE close_all_conn(p)
  <2>1. /\ \A x \in Ends : qp'[x] = IF x \in connections_by_qpn[p] THEN "closed" ELSE qp[x]
        /\ connections_by_qpn' = [connections_by_qpn EXCEPT ![p] = {}]
        /\ connections_by_peer' = [connections_by_peer EXCEPT ![p] = [q \in Procs |-> NoEnd]]
    BY <1>5 DEF close_all_conn, transition_connection_to_error
  <2>2. \A t \in Threads : Proc(t) = p => pc[t] = "idle" /\ at[t] = NoEnd
    BY <1>5, ThreadIsThere DEF close_all_conn, Quiet, MapsInv, Placed
  <2>3. \A a, b \in Procs : connections_by_peer'[a][b] = IF a = p THEN NoEnd ELSE connections_by_peer[a][b]
    BY <2>1, <1>1 DEF IInv, Types
  <2>4. \A x \in connections_by_qpn[p] : x # NoEnd /\ Home(x) = p /\ connections_by_peer[p][Peer(x)] = x
    BY DEF MapsInv, QpnIsKnown, KnownIsOpen
  <2>5. OneSocket'
    <3>1. ASSUME NEW n \in DOMAIN sockets, Used(n)' PROVE Used(n)
      BY <3>1, <2>3, <1>2 DEF Used
    <3>. QED  BY <3>1, <1>2 DEF MapsInv, OneSocket
  <2>6. Entered'
    <3>. SUFFICES ASSUME NEW u \in Threads, at[u] # NoEnd
                  PROVE  connections_by_peer'[Proc(u)][Peer(at[u])]
                           = IF pc[u] \in {"create", "read"} THEN NoEnd ELSE at[u]
      BY <1>2 DEF Entered, Peer
    <3>1. Proc(u) # p
      BY <2>2
    <3>2. connections_by_peer'[Proc(u)] = connections_by_peer[Proc(u)]
      BY <3>1, <2>1, ProcOfThread, <1>1 DEF IInv, Types
    <3>. QED  BY <3>2 DEF MapsInv, Entered
  <2>7. KnownIsOpen'
    <3>. SUFFICES ASSUME NEW a \in Procs, NEW b \in Procs, NEW x, x = connections_by_peer'[a][b], x # NoEnd
                  PROVE  /\ x[1] \in DOMAIN sockets /\ Home(x) = a /\ Peer(x) = b /\ written[x] # 0
                         /\ qp'[x] = "ready" \/ \E u \in Threads : at[u] = x /\ pc[u] \in {"transition", "deleting"}
      BY <1>2 DEF KnownIsOpen
    <3>1. a # p /\ x = connections_by_peer[a][b]
      BY <2>3
    <3>2. /\ x[1] \in DOMAIN sockets /\ Home(x) = a /\ Peer(x) = b /\ written[x] # 0
          /\ qp[x] = "ready" \/ \E u \in Threads : at[u] = x /\ pc[u] \in {"transition", "deleting"}
      BY <3>1 DEF MapsInv, KnownIsOpen
    <3>3. x \in Ends /\ x \notin connections_by_qpn[p]
      BY <3>1, <3>2, <2>4, <1>1 DEF IInv, Types
    <3>. QED  BY <3>2, <3>3, <2>1
  <2>8. OpenIsKnown'
    <3>. SUFFICES ASSUME NEW x \in Ends, x[1] \in DOMAIN sockets, qp'[x] \in {"reset", "ready"}
                  PROVE  \/ connections_by_peer'[Home(x)][Peer(x)] = x
                         \/ \E u \in Threads : at[u] = x /\ pc[u] = "read"
      BY <1>2 DEF OpenIsKnown
    <3>1. x \notin connections_by_qpn[p] /\ qp[x] \in {"reset", "ready"}
      BY <2>1
    <3>2. \/ connections_by_peer[Home(x)][Peer(x)] = x
          \/ \E u \in Threads : at[u] = x /\ pc[u] = "read"
      BY <3>1 DEF MapsInv, OpenIsKnown
    <3>3. ASSUME connections_by_peer[Home(x)][Peer(x)] = x PROVE connections_by_peer'[Home(x)][Peer(x)] = x
      <4>1. Home(x) # p
        <5>. SUFFICES ASSUME Home(x) = p PROVE FALSE
          OBVIOUS
        <5>1. Peer(x) \in Procs /\ x # NoEnd
          <6>1. sockets[x[1]] \in Socket
            BY <1>1, ElementOfSeq DEF IInv, Types
          <6>. QED  BY <6>1, Ends2 DEF Socket, Peer
        <5>. QED  BY <5>1, <3>1, <3>3 DEF MapsInv, QpnIsKnown
      <4>2. connections_by_peer'[Home(x)] = connections_by_peer[Home(x)]
        BY <4>1, <2>1, <1>1 DEF IInv, Types
      <4>. QED  BY <4>2, <3>3
    <3>. QED  BY <3>2, <3>3
  <2>9. ClosedFirst'
    <3>1. ASSUME NEW t \in Threads, pc[t] = "deleting" PROVE qp'[at[t]] = "closed"
      <4>1. at[t] \in Ends /\ qp[at[t]] = "closed"
        BY <3>1, <1>1 DEF IInv, Types, MapsInv, ClosedFirst
      <4>. QED  BY <4>1, <2>1
    <3>2. ASSUME NEW x \in Ends, x[1] \notin DOMAIN sockets PROVE qp'[x] = "none"
      <4>1. x \notin connections_by_qpn[p]
        BY <3>2 DEF MapsInv, QpnIsKnown, KnownIsOpen
      <4>. QED  BY <4>1, <3>2, <2>1 DEF MapsInv, ClosedFirst
    <3>. QED  BY <3>1, <3>2, <1>2 DEF ClosedFirst
  <2>10. QpnIsKnown'
    <3>1. ASSUME NEW a \in Procs
          PROVE  connections_by_qpn'[a] = {connections_by_peer'[a][b] : b \in Procs} \ {NoEnd}
      BY <2>1, <2>3 DEF MapsInv, QpnIsKnown
    <3>2. connections_by_qpn' = [a \in Procs |-> connections_by_qpn'[a]]
      BY <2>1 DEF MapsInv, QpnIsKnown
    <3>. QED  BY <3>1, <3>2 DEF QpnIsKnown
  <2>. QED  BY <2>5, <2>6, <2>7, <2>8, <2>9, <2>10, <1>1, <1>3 DEF MapsInv
<1>. QED  BY <1>4, <1>5

(* The invariant of the maps, over all steps of the calls of such processes. *)
THEOREM MapsAreInductive == ASSUME Orderly PROVE Spec => []MapsInv
<1>1. MapsInv /\ [Next]_vars => MapsInv'
  <2>. SUFFICES ASSUME MapsInv, [Next]_vars PROVE MapsInv'
    OBVIOUS
  <2>1. CASE UNCHANGED vars
    <3>1. UNCHANGED <<sockets, qp, written, connections_by_peer, connections_by_qpn, pc, at>>
      BY <2>1 DEF vars, tables, threads
    <3>2. IInv'
      BY <3>1 DEF MapsInv, IInv, Types, FreshIsUntouched, Fresh, CreatesFirst, WordIsTrue, HeardOrWaits
    <3>3. (Placed /\ OnePerPeer /\ Reading)'
      BY <3>1, SMTT(30) DEF MapsInv, Placed, OnePerPeer, Reading, Home, Peer
    <3>4. (OneSocket /\ ClientWaits)'
      BY <3>1, SMTT(30) DEF MapsInv, OneSocket, Used, ClientWaits, Home, Peer
    <3>5. (Entered /\ KnownIsOpen /\ OpenIsKnown)'
      BY <3>1, SMTT(30) DEF MapsInv, Entered, KnownIsOpen, OpenIsKnown, Home, Peer
    <3>6. (ClosedFirst /\ QpnIsKnown)'
      BY <3>1, SMTT(30) DEF MapsInv, ClosedFirst, QpnIsKnown, Home, Peer
    <3>. QED  BY <3>2, <3>3, <3>4, <3>5, <3>6 DEF MapsInv
  <2>2. ASSUME NEW p \in Procs, init_server_listen_socket(p) \/ close_all_conn(p) PROVE MapsInv'
    BY <2>2, InitFiniMaps
  <2>3. ASSUME NEW t \in Threads, Step(t) PROVE MapsInv'
    BY <2>3, CreateMaps, EnterMaps, TransitionMaps, LeaveMaps, CloseMaps, DeleteMaps DEF Step
  <2>4. ASSUME NEW t \in Threads, check_for_waiting_connection(t) PROVE MapsInv'
    BY <2>4, AcceptMaps
  <2>5. ASSUME NEW t \in Threads, NEW q \in Procs, NNTI_ib_connect(t, q) \/ NNTI_ib_disconnect(t, q)
        PROVE  MapsInv'
    BY <2>5, ConnectMaps, DisconnectMaps
  <2>. QED  BY <2>1, <2>2, <2>3, <2>4, <2>5 DEF Next
<1>. QED  BY InitMaps, <1>1, PTL DEF Spec

(* Between calls the two maps of a process know the same connections, which are those of its queue pairs
   that are open: with any processes and threads, del_conn_peer, which looks for the connection anew
   after it has been closed, takes out that one, and insert_conn_peer, which keeps the first, has none
   to keep. *)
THEOREM MapsStayTrue == ASSUME Orderly PROVE Spec => []MapsAgree
<1>1. MapsInv => MapsAgree
  <2>. SUFFICES ASSUME MapsInv, NEW p \in Procs, Quiet(p)
                PROVE  LET known == {get_conn_peer(p, q) : q \in Procs} \ {NoEnd}
                           mine == {e \in Ends : e[1] \in DOMAIN sockets /\ Peer(Other(e)) = p}
                       IN  connections_by_qpn[p] = known /\ {e \in mine : qp[e] \in {"reset", "ready"}} = known
    BY DEF MapsAgree
  <2>. DEFINE known == {get_conn_peer(p, q) : q \in Procs} \ {NoEnd}
              mine == {e \in Ends : e[1] \in DOMAIN sockets /\ Peer(Other(e)) = p}
  <2>1. connections_by_qpn[p] = known
    BY DEF MapsInv, QpnIsKnown, get_conn_peer
  <2>2. \A t \in Threads : Proc(t) = p => pc[t] = "idle" /\ at[t] = NoEnd
    BY ThreadIsThere DEF Quiet, MapsInv, Placed
  <2>3. ASSUME NEW e \in Ends, e[1] \in DOMAIN sockets, Peer(Other(e)) = p, qp[e] \in {"reset", "ready"}
        PROVE  e \in known
    <3>1. Home(e) = p /\ Peer(e) \in Procs /\ e # NoEnd
      BY <2>3, HomeIsOther, ProcsOfEnd, Ends2 DEF MapsInv, IInv
    <3>2. \A t \in Threads : at[t] # e
      BY <3>1, <2>2 DEF MapsInv, Placed
    <3>3. connections_by_peer[p][Peer(e)] = e
      BY <2>3, <3>1, <3>2 DEF MapsInv, OpenIsKnown
    <3>. QED  BY <3>1, <3>3 DEF get_conn_peer
  <2>4. ASSUME NEW e \in known PROVE e \in mine /\ qp[e] \in {"reset", "ready"}
    <3>1. PICK q \in Procs : e = connections_by_peer[p][q] /\ e # NoEnd
      BY <2>4 DEF get_conn_peer
    <3>2. e \in Ends /\ e[1] \in DOMAIN sockets /\ Home(e) = p
      BY <3>1 DEF MapsInv, IInv, Types, KnownIsOpen
    <3>3. \A t \in Threads : at[t] # e
      BY <3>1, <3>2, <2>2 DEF MapsInv, Placed
    <3>. QED  BY <3>1, <3>2, <3>3, HomeIsOther DEF MapsInv, KnownIsOpen
  <2>. QED  BY <2>1, <2>3, <2>4
<1>. QED  BY <1>1, MapsAreInductive, PTL

(* Two processes that find each other, between calls, find the two ends of one socket, both ready, whatever
   connections have been made and closed before, on either side. *)
THEOREM PeersFindEachOther == ASSUME Orderly PROVE Spec => []PeersReachEachOther
<1>1. MapsInv => PeersReachEachOther
  <2>. SUFFICES ASSUME MapsInv, NEW p \in Procs, NEW q \in Procs, NEW e, e = connections_by_peer[p][q], e # NoEnd,
                       connections_by_peer[q][p] # NoEnd, Quiet(p), Quiet(q)
                PROVE  qp[e] = "ready" /\ qp[Other(e)] = "ready" /\ Other(e) \in connections_by_qpn[q]
    BY DEF PeersReachEachOther, get_conn_peer
  <2>1. ASSUME NEW a \in Procs, NEW b \in Procs, NEW x, x = connections_by_peer[a][b], x # NoEnd, Quiet(a)
        PROVE  /\ x \in Ends /\ x[1] \in DOMAIN sockets /\ Used(x[1]) /\ Home(x) = a /\ Peer(x) = b
               /\ qp[x] = "ready"
    <3>1. x \in Ends /\ x[1] \in DOMAIN sockets /\ Used(x[1]) /\ Home(x) = a /\ Peer(x) = b
      BY <2>1, FoundIsUsed DEF MapsInv, IInv, KnownIsOpen
    <3>2. \A t \in Threads : at[t] # x
      BY <2>1, <3>1, ThreadIsThere DEF Quiet, MapsInv, Placed
    <3>. QED  BY <2>1, <3>1, <3>2 DEF MapsInv, KnownIsOpen
  <2>2. PICK f : f = connections_by_peer[q][p]
    OBVIOUS
  <2>3. /\ e \in Ends /\ e[1] \in DOMAIN sockets /\ Used(e[1]) /\ Home(e) = p /\ Peer(e) = q /\ qp[e] = "ready"
        /\ f \in Ends /\ f[1] \in DOMAIN sockets /\ Used(f[1]) /\ Home(f) = q /\ Peer(f) = p /\ qp[f] = "ready"
    BY <2>1, <2>2
  <2>4. Other(e) \in Ends /\ Other(e)[1] = e[1] /\ Home(Other(e)) = q /\ Peer(Other(e)) = p
    BY <2>3, Ends2, HomeIsOther DEF Other
  <2>5. f = Other(e)
    BY <2>3, <2>4, SameEnd DEF MapsInv, IInv
  <2>6. f \in connections_by_qpn[q]
    BY <2>2, <2>5, <2>4, Ends2 DEF MapsInv, QpnIsKnown
  <2>. QED  BY <2>3, <2>5, <2>6
<1>. QED  BY <1>1, MapsAreInductive, PTL

=============================================================================
