----------------------------- MODULE MpiAtomics -----------------------------
(***************************************************************************)
(* Remote atomic operations of the MPI transport (nnti/nnti_mpi.cpp).      *)
(*                                                                         *)
(* NNTI_mpi_atomic_fop and NNTI_mpi_atomic_cswap send a request to the     *)
(* rank that hosts the variable and post a receive for the result.  Every  *)
(* rank keeps one receive for requests posted; check_atomic_operation, a   *)
(* part of every NNTI_mpi_wait, executes the request, sends the previous   *)
(* value back and posts the receive again.                                 *)
(*                                                                         *)
(* A rank has one request structure and one result structure, for the      *)
(* operations it starts as for those it executes.  The contents of the     *)
(* request structure are abstracted to the operation whose arguments it    *)
(* holds.                                                                  *)
(***************************************************************************)
EXTENDS MpiMatching, Integers

CONSTANTS
    Threads, RankOf,    \* the threads, and the rank each belongs to
    Indices,            \* the indices of the atomic variables of a rank
    Ops, OpOf,          \* the operations, and the arguments of each
    Pollers,            \* the threads that wait for requests in a receive queue
    OneAtATime          \* a thread waits for an operation before it starts the next

(***************************************************************************)
(* OpOf[o] has the fields kind ("fadd", "cswap"), thread, target (a rank), *)
(* index (target_atomic), result (result_atomic), operand (operand,        *)
(* compare_operand) and swap (swap_operand).                               *)
(***************************************************************************)
NONE == "none"
QUEUE == "queue"

VARIABLES
    atomics,            \* [rank, index] |-> the variable's value
    request_msg,        \* rank |-> transport_global_data.atomics_request_msg
    result_msg,         \* rank |-> transport_global_data.atomics_result_msg
    recv_request,       \* rank |-> atomics_recv_request and the source it completed with
    phase,              \* mpi_wr->op_state and what the application did with the operation
    request,            \* [op, "send" or "recv"] |-> its MPI_Request
    thread,             \* thread |-> where it is in a call of the library
    executed,           \* history: [rank, op] |-> the values it found there
    fetched             \* history: op |-> the result the application read

vars == <<sends, recvs, atomics, request_msg, result_msg, recv_request, phase,
          request, thread, executed, fetched>>
history == <<executed, fetched>>
structures == <<request_msg, result_msg>>

RequestPort(r) == <<"request", r>>
ResultPort(r) == <<"result", r>>

Me(t) == RankOf[t]

NewValue(o, value) ==
    CASE OpOf[o].kind = "fadd" -> value + OpOf[o].operand
      [] OpOf[o].kind = "cswap" -> IF value = OpOf[o].operand THEN OpOf[o].swap ELSE value

Idle == [pc |-> "idle", op |-> NONE, from |-> ANY_SOURCE, index |-> 0]

\* setup_atomics: the variables are zero and the first receive is posted.
Init ==
    /\ sends = [ch \in Ranks \X Ports |-> <<>>]
    /\ recvs = [port \in Ports |->
                  IF port[1] = "request"
                  THEN <<[from |-> ANY_SOURCE, rcv |-> [req |-> <<port[2], "serve">>]]>>
                  ELSE <<>>]
    /\ atomics = [v \in Ranks \X Indices |-> 0]
    /\ request_msg = [r \in Ranks |-> NONE]
    /\ result_msg = [r \in Ranks |-> 0]
    /\ recv_request = [r \in Ranks |-> [is |-> "active", from |-> ANY_SOURCE]]
    /\ phase = [o \in Ops |-> "unposted"]
    /\ request = [q \in Ops \X {"send", "recv"} |-> "null"]
    /\ thread = [t \in Threads |-> Idle]
    /\ executed = [e \in Ranks \X Ops |-> <<>>]
    /\ fetched = [o \in Ops |-> <<>>]

GoTo(t, pc) == thread' = [thread EXCEPT ![t].pc = pc]

\* nnti_mpi_lock is held through a blocking MPI_Send.
LibraryFree(r) == \A t \in Threads : RankOf[t] = r => thread[t].pc # "sending"

\* The lock of a variable is held from its update to the end of the send.
VariableFree(r, i) ==
    \A t \in Threads :
        (RankOf[t] = r /\ thread[t].pc \in {"send", "sending"}) => thread[t].index # i

-----------------------------------------------------------------------------
(***************************************************************************)
(* NNTI_mpi_atomic_fop and NNTI_mpi_atomic_cswap, which differ in what     *)
(* they write into the request structure: without a lock they fill it,     *)
(* then send it, then post the receive of the result.                      *)
(***************************************************************************)
FillRequest(t, o) ==
    /\ thread[t].pc = "idle"
    /\ OpOf[o].thread = t
    /\ phase[o] = "unposted"
    /\ OneAtATime => \A p \in Ops : OpOf[p].thread = t => phase[p] \in {"unposted", "read"}
    /\ request_msg' = [request_msg EXCEPT ![Me(t)] = o]
    /\ phase' = [phase EXCEPT ![o] = "init"]
    /\ thread' = [thread EXCEPT ![t].pc = "filled", ![t].op = o]
    /\ UNCHANGED <<fabric, atomics, result_msg, recv_request, request, history>>

SendRequest(t) ==
    LET o == thread[t].op
    IN  /\ thread[t].pc = "filled"
        /\ LibraryFree(Me(t))
        /\ Issend(Me(t), RequestPort(OpOf[o].target),
                  [req |-> <<o, "send">>, data |-> request_msg[Me(t)]])
        /\ request' = [request EXCEPT ![o, "send"] = "active"]
        /\ GoTo(t, "sent")
        /\ UNCHANGED <<recvs, atomics, structures, recv_request, phase, history>>

ReceiveResult(t) ==
    LET o == thread[t].op
    IN  /\ thread[t].pc = "sent"
        /\ LibraryFree(Me(t))
        /\ Irecv(ResultPort(Me(t)), OpOf[o].target, [req |-> <<o, "recv">>])
        /\ request' = [request EXCEPT ![o, "recv"] = "active"]
        /\ thread' = [thread EXCEPT ![t] = Idle]
        /\ UNCHANGED <<sends, atomics, structures, recv_request, phase, history>>

(***************************************************************************)
(* The MPI library matches a message with a receive.  The request leaves   *)
(* from the sender's request structure at the time of the send or, when    *)
(* the library does not copy it, as late as now.                           *)
(***************************************************************************)
TransferRequest(from, r) ==
    LET msg == MatchedMessage(from, RequestPort(r))
    IN  /\ Matchable(from, RequestPort(r))
        /\ Matched(from, RequestPort(r))
        /\ \E o \in {msg.data, request_msg[from]} :
             request_msg' = [request_msg EXCEPT ![r] = o]
        /\ request' = [request EXCEPT ![msg.req] = "done"]
        /\ recv_request' = [recv_request EXCEPT ![r] = [is |-> "done", from |-> from]]
        /\ UNCHANGED <<atomics, result_msg, phase, thread, history>>

TransferResult(from, r) ==
    LET msg == MatchedMessage(from, ResultPort(r))
        rcv == MatchedReceive(from, ResultPort(r))
    IN  /\ Matchable(from, ResultPort(r))
        /\ Matched(from, ResultPort(r))
        /\ result_msg' = [result_msg EXCEPT ![r] = msg.data]
        /\ request' = [request EXCEPT ![rcv.req] = "done"]
        /\ UNCHANGED <<atomics, request_msg, recv_request, phase, thread, history>>

-----------------------------------------------------------------------------
(***************************************************************************)
(* NNTI_mpi_wait for an operation of the thread, or, by a poller, for a    *)
(* request, goes round check_atomic_operation and a test of its own work   *)
(* request.                                                                *)
(***************************************************************************)
WaitEnter(t, w) ==
    /\ thread[t].pc = "idle"
    /\ \/ w \in Ops /\ OpOf[w].thread = t /\ phase[w] \in {"init", "sent"}
       \/ w = QUEUE /\ t \in Pollers
    /\ thread' = [thread EXCEPT ![t].pc = "check", ![t].op = w]
    /\ UNCHANGED <<fabric, atomics, structures, recv_request, phase, request, history>>

(***************************************************************************)
(* check_atomic_operation.  MPI_Test reports an inactive request as done,  *)
(* with an empty status: its source is MPI_ANY_SOURCE.                     *)
(***************************************************************************)
TestRequest(t) ==
    /\ thread[t].pc = "check"
    /\ LibraryFree(Me(t))
    /\ IF recv_request[Me(t)].is = "active"
       THEN GoTo(t, "test") /\ UNCHANGED recv_request
       ELSE /\ thread' = [thread EXCEPT ![t].pc = "execute", ![t].from = recv_request[Me(t)].from]
            /\ recv_request' = [recv_request EXCEPT ![Me(t)] = [is |-> "null", from |-> ANY_SOURCE]]
    /\ UNCHANGED <<fabric, atomics, structures, phase, request, history>>

\* Mistake: a compare-and-swap swaps whatever it finds.
UpdateAlways(value, o) ==
    IF OpOf[o].kind = "cswap" THEN OpOf[o].swap ELSE NewValue(o, value)

Update(value, o) == NewValue(o, value)

\* The variable changes and its previous value is ready to be sent.
Execute(t) ==
    LET r == Me(t)
        o == request_msg[r]
        i == OpOf[o].index
    IN  /\ thread[t].pc = "execute"
        /\ VariableFree(r, i)
        /\ atomics' = [atomics EXCEPT ![r, i] = Update(@, o)]
        /\ result_msg' = [result_msg EXCEPT ![r] = atomics[r, i]]
        /\ executed' = [executed EXCEPT ![r, o] = Append(@, atomics[r, i])]
        /\ thread' = [thread EXCEPT ![t].pc = "send", ![t].index = i]
        /\ UNCHANGED <<fabric, request_msg, recv_request, phase, request, fetched>>

\* MPI_Send may or may not return before the result is received.  Sending
\* to MPI_ANY_SOURCE is an error, and MPI errors end the job.
SendResult(t) ==
    /\ thread[t].pc = "send"
    /\ thread[t].from # ANY_SOURCE
    /\ LibraryFree(Me(t))
    /\ Issend(Me(t), ResultPort(thread[t].from), [req |-> <<Me(t), "reply">>,
                                                  data |-> result_msg[Me(t)]])
    /\ GoTo(t, "repost") \/ GoTo(t, "sending")
    /\ UNCHANGED <<recvs, atomics, structures, recv_request, phase, request, history>>

\* MPI_Send returns when the result has been received.
ResultSent(t) ==
    /\ thread[t].pc = "sending"
    /\ sends[Me(t), ResultPort(thread[t].from)] = <<>>
    /\ GoTo(t, "repost")
    /\ UNCHANGED <<fabric, atomics, structures, recv_request, phase, request, history>>

\* Mistake: the receive is not posted again.
PostNothing(t) ==
    /\ thread[t].pc = "repost"
    /\ GoTo(t, "test")
    /\ UNCHANGED <<fabric, atomics, structures, recv_request, phase, request, history>>

post_atomics_recv_request(t) ==
    /\ thread[t].pc = "repost"
    /\ LibraryFree(Me(t))
    /\ Irecv(RequestPort(Me(t)), ANY_SOURCE, [req |-> <<Me(t), "serve">>])
    /\ recv_request' = [recv_request EXCEPT ![Me(t)] = [is |-> "active", from |-> ANY_SOURCE]]
    /\ GoTo(t, "test")
    /\ UNCHANGED <<sends, atomics, structures, phase, request, history>>

\* mpi_wr->request_ptr: the request the wait tests.
Current(o) == <<o, IF phase[o] = "init" THEN "send" ELSE "recv">>

\* MPI_Testany found the work request's current request done.
TestDone(t) ==
    /\ thread[t].pc = "test"
    /\ LibraryFree(Me(t))
    /\ thread[t].op \in Ops /\ request[Current(thread[t].op)] = "done"
    /\ request' = [request EXCEPT ![Current(thread[t].op)] = "null"]
    /\ GoTo(t, "event")
    /\ UNCHANGED <<fabric, atomics, structures, recv_request, phase, history>>

\* It did not, and the wait goes round again or its timeout has expired.
TestNotDone(t) ==
    /\ thread[t].pc = "test"
    /\ LibraryFree(Me(t))
    /\ thread[t].op \in Ops => request[Current(thread[t].op)] = "active"
    /\ GoTo(t, "check") \/ thread' = [thread EXCEPT ![t] = Idle]
    /\ UNCHANGED <<fabric, atomics, structures, recv_request, phase, request, history>>

NextPhase(o) == IF phase[o] = "init" THEN "sent" ELSE "done"

(***************************************************************************)
(* process_event for an atomic operation copies the result structure into  *)
(* the result variable after the request is sent, and again after the      *)
(* result arrived.  A complete work request is freed.                      *)
(***************************************************************************)
process_event(t) ==
    LET o == thread[t].op
        i == OpOf[o].result
    IN  /\ thread[t].pc = "event"
        /\ VariableFree(Me(t), i)
        /\ atomics' = [atomics EXCEPT ![Me(t), i] = result_msg[Me(t)]]
        /\ phase' = [phase EXCEPT ![o] = NextPhase(o)]
        /\ IF NextPhase(o) = "done" THEN thread' = [thread EXCEPT ![t] = Idle]
                                    ELSE GoTo(t, "check")
        /\ UNCHANGED <<fabric, structures, recv_request, request, history>>

\* NNTI_mpi_atomic_read of the result, after the wait.
NNTI_mpi_atomic_read(t, o) ==
    /\ thread[t].pc = "idle"
    /\ OpOf[o].thread = t /\ phase[o] = "done"
    /\ VariableFree(Me(t), OpOf[o].result)
    /\ fetched' = [fetched EXCEPT ![o] = <<atomics[Me(t), OpOf[o].result]>>]
    /\ phase' = [phase EXCEPT ![o] = "read"]
    /\ UNCHANGED <<fabric, atomics, structures, recv_request, request, thread, executed>>

-----------------------------------------------------------------------------
InsideCall(t) ==
    \/ SendRequest(t)
    \/ ReceiveResult(t)
    \/ TestRequest(t)
    \/ Execute(t)
    \/ SendResult(t)
    \/ ResultSent(t)
    \/ post_atomics_recv_request(t)
    \/ TestDone(t)
    \/ TestNotDone(t)
    \/ process_event(t)

Next ==
    \/ \E from, r \in Ranks : TransferRequest(from, r) \/ TransferResult(from, r)
    \/ \E t \in Threads :
         \/ InsideCall(t)
         \/ \E o \in Ops : FillRequest(t, o) \/ NNTI_mpi_atomic_read(t, o)
         \/ \E w \in Ops \union {QUEUE} : WaitEnter(t, w)

(***************************************************************************)
(* The MPI library delivers what can be matched, the scheduler runs every  *)
(* thread inside a call, and threads come back to waiting, and read the    *)
(* result of what is complete.                                             *)
(***************************************************************************)
Fairness ==
    /\ \A from, r \in Ranks : WF_vars(TransferRequest(from, r)) /\ WF_vars(TransferResult(from, r))
    /\ \A t \in Threads : WF_vars(InsideCall(t))
    /\ \A t \in Threads : WF_vars(\E w \in Ops \union {QUEUE} : WaitEnter(t, w))
    /\ \A t \in Threads : WF_vars(\E o \in Ops : NNTI_mpi_atomic_read(t, o))

Spec == Init /\ [][Next]_vars
FairSpec == Spec /\ Fairness

-----------------------------------------------------------------------------

\* Every operation that was started completes, and its initiator gets the
\* result, although a server answers one request at a time.
OperationCompletes == \A o \in Ops : phase[o] = "init" ~> phase[o] = "read"

(***************************************************************************)
(* The transport implements RemoteAtomics for the variables that the       *)
(* operations are aimed at.                                                *)
(***************************************************************************)
Found(o) == executed[OpOf[o].target, o]

StateOf(o) ==
    CASE phase[o] = "unposted" -> "idle"
      [] phase[o] = "read" -> "complete"
      [] phase[o] \in {"init", "sent", "done"} -> IF Found(o) = <<>> THEN "started" ELSE "executed"

Abstract == INSTANCE RemoteAtomics WITH
    VariableOf <- [o \in Ops |-> <<OpOf[o].target, OpOf[o].index>>],
    state <- [o \in Ops |-> StateOf(o)],
    value <- [v \in {<<OpOf[o].target, OpOf[o].index>> : o \in Ops} |-> atomics[v]],
    before <- [o \in Ops |-> Found(o)],
    seen <- fetched

ImplementsRemoteAtomics == Abstract!Spec

=============================================================================
