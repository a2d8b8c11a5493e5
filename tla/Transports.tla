------------------------------ MODULE Transports ------------------------------
(***************************************************************************)
(* The programs of module Messaging on one of the transports, and what     *)
(* they may rely on, whichever it is.                                      *)
(***************************************************************************)
EXTENDS BlueGene

CONSTANT Timed

VARIABLES
    conn_req, listener, flight, unblock, answering,         \* module Dcmf
    conn_list, conn_ack, storing, attrs,                    \* module Pami
    data_eq, op_state, put_end, awaited, messages,              \* module Portals
    req_eq, matching, filled, queue_count, req_queue, dropped

D == INSTANCE Dcmf
P == INSTANCE Pami
Q == INSTANCE Portals

dcmf == <<conn_req, listener, flight, unblock, answering>>
pami == <<conn_list, conn_ack, storing, attrs>>
ptls == <<data_eq, op_state, put_end, awaited, messages,
          req_eq, matching, filled, queue_count, req_queue, dropped>>
vars == <<shared, bluegene, dcmf, pami, ptls>>

Init ==
    /\ MessagingInit /\ BlueGeneInit
    /\ D!Init /\ P!Init /\ Q!Init

\* The variables of the transports that are not in use.
OffDcmf == <<pami, ptls>>
OffPami == <<dcmf, ptls>>
OffPortals == <<bluegene, dcmf, pami>>

\* Programs call, threads of the transports run, and the network delivers.
Step(p) ==
    \/ transport = "dcmf" /\ D!Step(p) /\ UNCHANGED OffDcmf
    \/ transport = "pami" /\ P!Step(p) /\ UNCHANGED OffPami
    \/ transport = "portals" /\ Q!Step(p) /\ UNCHANGED OffPortals

Connecting(c) ==
    \/ transport = "dcmf" /\ D!Connecting(c) /\ UNCHANGED OffDcmf
    \/ transport = "pami" /\ P!Connecting(c) /\ UNCHANGED OffPami
    \/ transport = "portals" /\ Q!Connecting(c) /\ UNCHANGED OffPortals

Waiting(b) ==
    \/ transport = "dcmf" /\ D!Waiting(b) /\ UNCHANGED OffDcmf
    \/ transport = "pami" /\ P!Waiting(b) /\ UNCHANGED OffPami
    \/ transport = "portals" /\ Q!Waiting(b) /\ UNCHANGED OffPortals

Listening ==
    \/ transport = "dcmf" /\ D!Listening /\ UNCHANGED OffDcmf
    \/ transport = "pami" /\ P!Listening /\ UNCHANGED OffPami

Fetching == transport = "dcmf" /\ D!Fetching /\ UNCHANGED OffDcmf

Arriving ==
    \/ transport = "dcmf" /\ D!Arriving /\ UNCHANGED OffDcmf
    \/ transport = "portals" /\ Q!Arriving /\ UNCHANGED OffPortals

Finishing ==
    \/ transport = "dcmf" /\ D!Finishing /\ UNCHANGED OffDcmf
    \/ transport = "pami" /\ P!Finishing /\ UNCHANGED OffPami
    \/ transport = "portals" /\ Q!Finishing /\ UNCHANGED OffPortals

Next ==
    \/ \E p \in Processes : Step(p)
    \/ \E c \in Clients : Connecting(c)
    \/ \E b \in Buffers : Waiting(b)
    \/ Listening \/ Fetching \/ Arriving \/ Finishing

\* A thread in a call goes on, those that wait for requests and events go on
\* to wait, and what is on the network arrives.
Fairness ==
    /\ \A p \in Processes : WF_vars(Step(p) \/ (p \in Clients /\ Connecting(p)))
    /\ \A b \in WithEvents \cup {QUEUE} : WF_vars(Waiting(b))
    /\ WF_vars(Listening) /\ WF_vars(Fetching) /\ WF_vars(Arriving)

Spec == Init /\ [][Next]_vars /\ Fairness

-----------------------------------------------------------------------------
(* Safety.                                                                 *)

Moves == {t \in Transfers : ~IsRequest(t)}

OneSidedSpec == INSTANCE OneSided WITH
    Ops <- Moves,
    From <- [t \in Moves |-> IF TransferOf[t].kind = "get" THEN RemotePlace(t) ELSE LocalPlace(t)],
    To <- [t \in Moves |-> IF TransferOf[t].kind = "get" THEN LocalPlace(t) ELSE RemotePlace(t)],
    state <- [t \in Moves |-> state[t]]

\* Whichever the transport, a put, a send or a get that was called for moves
\* its data from the place it names to the place it names, once, and a wait
\* reports it only after that.
ImplementsOneSided == OneSidedSpec!Spec

\* A request is received once, as it was announced: no element of the queue
\* is read before the request is all there, written while its request is to
\* be read, or read again.
RequestsReceivedOnce ==
    /\ \A i \in DOMAIN received : received[i].request = received[i].announced
    /\ \A i, j \in DOMAIN received : received[i].request = received[j].request => i = j

\* On Blue Gene/Q a completion stays until the next, and may be reported again.
ReportedAgain(b, i, j) ==
    transport = "pami" /\ \A k \in i .. j : events[b][k].of = events[b][j].of

\* The events a target waits for tell of a transfer to it when its data is
\* there, with the peer that made it where the transport says so, and of each
\* once, however often the target waits; but on Blue Gene/Q of the last one
\* again, and never of one before it.
EventsFollowData ==
    \A b \in WithEvents : \A i, j \in DOMAIN events[b] :
        LET e == events[b][i] IN
        /\ e.of # NONE /\ Remote(e.of) = b
        /\ state[e.of] \in {"landed", "complete"}
        /\ e.peer \in {By(e.of), NONE}
        /\ i < j /\ events[b][j].of = e.of => ReportedAgain(b, i, j)

\* Once it is released, nothing is moved into a buffer or out of it, and no
\* completion written to it.
ReleasedIsQuiet ==
    [][\A b \in Buffers :
         b \in registered \/ b \in registered' \/
             /\ wc'[b] = wc[b]
             /\ \A m \in carried' \ carried : b \notin {m[1][1], m[2][1]}]_vars

-----------------------------------------------------------------------------
(* Liveness.                                                               *)

\* What a transport may do with a request instead of delivering it: a client
\* whose question was erased waits for ever, and a request that finds no room
\* is dropped.
Lost(t) ==
    \/ transport = "dcmf" /\ D!Erased(By(t))
    \/ transport = "portals" /\ t \in dropped

\* A request that was sent is received in the end, if it is not lost.
RequestsAreReceived ==
    <>[](\A t \in used : IsRequest(t) /\ state[t] # "idle" => Done(t) \/ Lost(t))

\* A process that waits for the transfers it started gets them done, unless it
\* forgets one, and if none is lost.  On Portals the events it needs may be taken by another thread.
WaitReturns ==
    <>[](\A t \in used : \/ state[t] \in {"idle", "complete"}
                         \/ Local(t) \in forgotten
                         \/ Q!Overlooked(By(t))
                         \/ \E u \in used : By(u) = By(t) /\ Lost(u))

\* What keeps the owner of the target from learning of a transfer: on Blue
\* Gene/P that its initiator does not wait for it, on both that the completion
\* of another has taken the place of its own before the owner's wait, and on
\* Portals that another thread took the event, or that there is none.
Untold(t) ==
    \/ transport = "dcmf" /\ (Local(t) \in forgotten \/ t \in overwritten)
    \/ transport = "pami" /\ t \in overwritten
    \/ transport = "portals" /\ (Q!Robbed(Remote(t)) \/ TypeOf[Remote(t)] = "PUT_DST")

\* The owner of the target, waiting for its events, learns of every transfer,
\* with these exceptions, and on Blue Gene always of one of those to a buffer.
TargetsLearn ==
    <>[](\A t \in used : Remote(t) \in WithEvents /\ state[t] # "idle" =>
            \/ Reports(Remote(t), t) > 0
            \/ Untold(t))

=============================================================================
