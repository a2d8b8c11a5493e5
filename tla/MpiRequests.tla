------------------------------ MODULE MpiRequests ------------------------------
(***************************************************************************)
(* Requests on the MPI transport (nnti/nnti_mpi.cpp): NNTI_mpi_send, the   *)
(* request queue, and waiting for one or several work requests.            *)
(*                                                                         *)
(* A request queue is one work request with one posted receive for each of *)
(* its slots.  NNTI_mpi_wait finds a receive that is done, reports its     *)
(* slot, and posts the receive again before it returns.                    *)
(*                                                                         *)
(* NNTI_mpi_wait tests the MPI_Request of its work request in place, where *)
(* MPI sets it to null when it completes.  NNTI_mpi_waitany and            *)
(* NNTI_mpi_waitall test copies: the copy becomes null, and the work       *)
(* request is left with a handle that MPI has freed.                       *)
(*                                                                         *)
(* Every rank has one thread.  Of a put there is the initiator's part, a   *)
(* command and its data, both of which the target takes at some time; the  *)
(* rest is in MpiRdma.                                                     *)
(***************************************************************************)
EXTENDS MpiMatching, FiniteSets, Functions

CONSTANTS
    Requests, Puts,     \* the sends to the server's queue, and puts
    RankOf,             \* the rank that starts each
    Slots,              \* the slots of the queue, 0 .. req_count - 1
    Window,             \* how many requests clients have under way at once
    Calls,              \* rank |-> the waits it may make: call and list of work requests
    Timed               \* ranks whose waits have timeouts

SERVER == "server"
QUEUE == "queue"        \* the queue's work request
NONE == "none"
NoSlot == -1

Ops == Requests \union Puts
Wrs == Ops \union {QUEUE}

RequestTag == "request"     \* NNTI_MPI_REQUEST_TAG

\* A rank waits for what it has started, and the server for its queue.
ASSUME Assumptions ==
    /\ RankOf \in [Ops -> Ranks] /\ SERVER \in Ranks /\ RequestTag \in Ports
    /\ Requests \cap Puts = {} /\ QUEUE \notin Ops /\ IsFiniteSet(Requests)
    /\ Slots \subseteq Nat /\ IsFiniteSet(Slots)
    /\ Window \in Nat
    /\ \A t \in Ranks : \A l \in Calls[t] :
         /\ l.wrs \in Seq(Wrs) /\ (l.call = "wait" <=> Len(l.wrs) = 1) /\ Len(l.wrs) > 0
         /\ \A w \in Range(l.wrs) : IF w = QUEUE THEN t = SERVER ELSE RankOf[w] = t

VARIABLES
    op_state,       \* work request |-> mpi_wr->op_state, or "unposted" or "freed"
    request,        \* work request |-> its MPI_Requests
    request_index,  \* of the queue's work request
    in_slot,        \* slot |-> the request in it
    thread,         \* rank |-> the wait it is in
    held,           \* the slot the server has been told of and has not read yet
    told,           \* history: the request that was in it then
    received        \* history: what the server read

vars == <<sends, recvs, op_state, request, request_index, in_slot, thread, held, told, received>>
application == <<held, told, received>>

Idle == [pc |-> "idle", call |-> NONE, wrs |-> <<>>, which |-> 0]

\* The MPI_Requests of a work request, and those request_ptr points to.
Indexes(w) == IF w = QUEUE THEN Slots ELSE IF w \in Puts THEN {"cmd", "data"} ELSE {"send"}
CurrentStays(w) == IF w \notin Puts THEN Indexes(w) ELSE {"cmd"}
Current(w) ==
    IF w \notin Puts THEN Indexes(w) ELSE IF op_state[w] = "INIT" THEN {"cmd"} ELSE {"data"}

ReceiveInto(s) == [from |-> ANY_SOURCE, rcv |-> s]

\* The queue is registered: post_recv_queue_work_request has filled it.
Init ==
    /\ sends = [ch \in Ranks \X Ports |-> <<>>]
    /\ recvs = [port \in Ports |-> SetToSeq({ReceiveInto(s) : s \in Slots})]
    /\ op_state = [w \in Wrs |-> IF w = QUEUE THEN "INIT" ELSE "unposted"]
    /\ request = [w \in Wrs |-> [i \in Indexes(w) |-> IF w = QUEUE THEN "active" ELSE "null"]]
    /\ request_index = 0
    /\ in_slot = [s \in Slots |-> NONE]
    /\ thread = [t \in Ranks |-> Idle]
    /\ held = NoSlot /\ told = NONE /\ received = <<>>

-----------------------------------------------------------------------------
(* Starting operations.                                                    *)

UnderWay == {r \in Requests : op_state[r] # "unposted" /\ r \notin Range(received)}

NNTI_mpi_send(r) ==
    /\ thread[RankOf[r]].pc = "idle"
    /\ op_state[r] = "unposted"
    /\ Cardinality(UnderWay) < Window
    /\ Issend(RankOf[r], RequestTag, r)
    /\ request' = [request EXCEPT ![r]["send"] = "active"]
    /\ op_state' = [op_state EXCEPT ![r] = "INIT"]
    /\ UNCHANGED <<recvs, request_index, in_slot, thread, application>>

NNTI_mpi_put(p) ==
    /\ thread[RankOf[p]].pc = "idle"
    /\ op_state[p] = "unposted"
    /\ request' = [request EXCEPT ![p] = [i \in Indexes(p) |-> "active"]]
    /\ op_state' = [op_state EXCEPT ![p] = "INIT"]
    /\ UNCHANGED <<fabric, request_index, in_slot, thread, application>>

-----------------------------------------------------------------------------
(* MPI, and the targets of puts.                                           *)

Transfer(c) ==
    /\ Matchable(c, RequestTag)
    /\ LET r == MatchedMessage(c, RequestTag)
           s == MatchedReceive(c, RequestTag) IN
         /\ request' = [request EXCEPT ![r]["send"] = "done", ![QUEUE][s] = "done"]
         /\ in_slot' = [in_slot EXCEPT ![s] = r]
    /\ Matched(c, RequestTag)
    /\ UNCHANGED <<op_state, request_index, thread, application>>

TargetTakes(p, i) ==
    /\ request[p][i] = "active"
    /\ i = "data" => request[p]["cmd"] # "active"
    /\ request' = [request EXCEPT ![p][i] = "done"]
    /\ UNCHANGED <<fabric, op_state, request_index, in_slot, thread, application>>

-----------------------------------------------------------------------------
(* NNTI_mpi_wait, NNTI_mpi_waitany, NNTI_mpi_waitall.                      *)

IsComplete(state, w) == state[w] = "COMPLETE"
ListIsComplete(state, l) ==
    IF l.call = "waitall" THEN \A w \in Range(l.wrs) : IsComplete(state, w)
                          ELSE \E w \in Range(l.wrs) : IsComplete(state, w)

\* is_any_wr_complete: the first in the list.
FirstComplete(state, l) ==
    CHOOSE n \in DOMAIN l.wrs :
        IsComplete(state, l.wrs[n]) /\ \A m \in 1 .. n - 1 : ~IsComplete(state, l.wrs[m])

\* After a test: the wait goes on, or has what it waits for.
GoOn(t, state, l) ==
    thread' = [thread EXCEPT ![t] =
        IF ~ListIsComplete(state, l)
        THEN [pc |-> "test", call |-> l.call, wrs |-> l.wrs, which |-> 0]
        ELSE [pc |-> "finish", call |-> l.call, wrs |-> l.wrs,
              which |-> IF l.call = "waitall" THEN 0 ELSE FirstComplete(state, l)]]

\* A rank waits for what it has started.  The server reads a request before
\* it waits for the next.
Wait(t, l) ==
    /\ thread[t].pc = "idle"
    /\ \A w \in Range(l.wrs) : op_state[w] \notin {"unposted", "freed"}
    /\ QUEUE \in Range(l.wrs) => held = NoSlot
    /\ GoOn(t, op_state, l)
    /\ UNCHANGED <<fabric, op_state, request, request_index, in_slot, application>>

\* process_event: the next state of a work request.
AdvancedToCommand(w) == IF w \in Puts THEN "RTS_COMPLETE" ELSE "COMPLETE"
Advanced(w) == IF w \in Puts /\ op_state[w] = "INIT" THEN "RTS_COMPLETE" ELSE "COMPLETE"

\* MPI_Testany, in place or on copies.
Done(call) == IF call = "wait" THEN "null" ELSE "freed"

IndexNotFound(t, w, i) == request_index
IndexFound(t, w, i) == IF thread[t].call = "wait" /\ w = QUEUE THEN i ELSE request_index

TestAny(t) ==
    /\ thread[t].pc = "test" /\ thread[t].call # "waitall"
    /\ \E w \in Range(thread[t].wrs) : \E i \in Current(w) :
         /\ request[w][i] = "done"
         /\ request' = [request EXCEPT ![w][i] = Done(thread[t].call)]
         /\ op_state' = [op_state EXCEPT ![w] = Advanced(w)]
         /\ request_index' = IndexFound(t, w, i)
    /\ GoOn(t, op_state', thread[t])
    /\ UNCHANGED <<fabric, in_slot, application>>

\* MPI_Testall: nothing is still active.
AllDone(l) == \A w \in Range(l.wrs) : \A i \in Current(w) : request[w][i] # "active"

TestAll(t) ==
    LET l == thread[t] IN
    /\ l.pc = "test" /\ l.call = "waitall"
    /\ AllDone(l)
    /\ request' = [w \in Wrs |-> [i \in Indexes(w) |->
                     IF w \in Range(l.wrs) /\ i \in Current(w) /\ request[w][i] = "done"
                     THEN Done(l.call) ELSE request[w][i]]]
    /\ op_state' = [w \in Wrs |-> IF w \in Range(l.wrs) THEN Advanced(w) ELSE op_state[w]]
    /\ GoOn(t, op_state', l)
    /\ UNCHANGED <<fabric, request_index, in_slot, application>>

SomethingIsDone(l) ==
    IF l.call = "waitall" THEN AllDone(l)
    ELSE \E w \in Range(l.wrs) : \E i \in Current(w) : request[w][i] = "done"

TimedOut(t) ==
    /\ t \in Timed
    /\ thread[t].pc = "test"
    /\ ~SomethingIsDone(thread[t])
    /\ thread' = [thread EXCEPT ![t] = Idle]
    /\ UNCHANGED <<fabric, op_state, request, request_index, in_slot, application>>

\* The work requests a successful wait cleans up.
Finished(l) == IF l.call = "waitall" THEN Range(l.wrs) ELSE {l.wrs[l.which]}

FinishOps(t) ==
    LET l == thread[t] IN
    /\ l.pc = "finish"
    /\ QUEUE \notin Finished(l)
    /\ op_state' = [w \in Wrs |-> IF w \in Finished(l) THEN "freed" ELSE op_state[w]]
    /\ thread' = [thread EXCEPT ![t] = Idle]
    /\ UNCHANGED <<fabric, request, request_index, in_slot, application>>

\* repost_recv_work_request; the status names the slot.
Reposted == request_index

RepostNothing == UNCHANGED recvs
Repost == Irecv(RequestTag, ANY_SOURCE, Reposted)

FinishReceive(t) ==
    LET l == thread[t] IN
    /\ l.pc = "finish"
    /\ Finished(l) = {QUEUE}
    /\ op_state' = [op_state EXCEPT ![QUEUE] = "INIT"]
    /\ Repost
    /\ request' = [request EXCEPT ![QUEUE][Reposted] = "active"]
    /\ held' = request_index
    /\ told' = in_slot[request_index]
    /\ thread' = [thread EXCEPT ![t] = Idle]
    /\ UNCHANGED <<sends, request_index, in_slot, received>>

\* The server uses the request.
Read ==
    /\ held # NoSlot
    /\ received' = Append(received, in_slot[held])
    /\ held' = NoSlot
    /\ UNCHANGED <<fabric, op_state, request, request_index, in_slot, thread, told>>

-----------------------------------------------------------------------------
Waiting(t) == TestAny(t) \/ TestAll(t) \/ TimedOut(t) \/ FinishOps(t) \/ FinishReceive(t)

Next ==
    \/ \E r \in Requests : NNTI_mpi_send(r)
    \/ \E p \in Puts : NNTI_mpi_put(p) \/ \E i \in Indexes(p) : TargetTakes(p, i)
    \/ \E t \in Ranks : Transfer(t) \/ Waiting(t) \/ \E l \in Calls[t] : Wait(t, l)
    \/ Read

Spec == Init /\ [][Next]_vars

\* MPI delivers, targets take, a rank in a wait is scheduled, and the server
\* reads its requests and waits for the next.
Fairness ==
    /\ \A t \in Ranks : WF_vars(Transfer(t)) /\ WF_vars(Waiting(t))
    /\ \A p \in Puts : WF_vars(\E i \in Indexes(p) : TargetTakes(p, i))
    /\ WF_vars(Read)
    /\ SF_vars(\E l \in Calls[SERVER] : QUEUE \in Range(l.wrs) /\ Wait(SERVER, l))

FairSpec == Spec /\ Fairness

-----------------------------------------------------------------------------
(* Properties.                                                             *)

(***************************************************************************)
(* No test is given a handle that MPI has freed, though waits on lists     *)
(* leave such handles behind in their work requests.                       *)
(***************************************************************************)
HandlesAreLive ==
    \A t \in Ranks : thread[t].pc = "test" =>
        \A w \in Range(thread[t].wrs) : \A i \in Current(w) : request[w][i] # "freed"

(***************************************************************************)
(* The server is told of a request it has not read, and that stays in its  *)
(* slot until it has, although a receive is posted for that slot again:    *)
(* the other slots come first.                                             *)
(***************************************************************************)
HeldIsIntact == held # NoSlot => in_slot[held] = told /\ told \notin Range(received)

(***************************************************************************)
(* Every request is read.                                                  *)
(***************************************************************************)
RequestsAreRead == \A r \in Requests : op_state[r] # "unposted" ~> r \in Range(received)

(***************************************************************************)
(* A wait without timeout ends, whatever it waits for.                     *)
(***************************************************************************)
WaitReturns == \A t \in Ranks \ Timed : thread[t].pc = "test" ~> thread[t].pc = "idle"

===============================================================================
