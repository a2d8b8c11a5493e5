------------------------------ MODULE MpiRdma ------------------------------
(***************************************************************************)
(* One-sided transfers of the MPI transport (nnti/nnti_mpi.cpp).           *)
(*                                                                         *)
(* MPI has no put or get into a registered buffer here: the initiator of   *)
(* NNTI_mpi_put or NNTI_mpi_get sends the owner of the remote buffer a     *)
(* command message on the buffer's cmd_tag, and the data follows in a      *)
(* message of its own.  Each registered buffer with remote access has one  *)
(* target work request, which receives the next command, moves the data    *)
(* and is posted again.  Nothing runs in the background: the target side   *)
(* advances only inside NNTI_mpi_wait, whatever that call waits for.       *)
(*                                                                         *)
(* Data is abstracted to its place, a buffer and an offset.  The history   *)
(* variable moved collects what the data messages carried where.  All      *)
(* transfers have the same length.  MPI errors end the job and are left    *)
(* out.                                                                    *)
(***************************************************************************)
EXTENDS MpiMatching, FiniteSets

CONSTANTS
    Threads, RankOf,    \* the threads, and the rank each belongs to
    Buffers, OwnerOf,   \* the registered buffers, and the rank of each
    TargetBuffers,      \* rank |-> its target_buffers, in registration order
    WithEvents,         \* buffers registered with NNTI_BOP_WITH_EVENTS
    EventThread,        \* the thread that waits for events of a buffer
    Pollers,            \* the threads that wait for requests in a receive queue
    Ops, OpOf,          \* the puts and gets, and the arguments of each
    Timeouts            \* the timeouts each thread waits with

(***************************************************************************)
(* OpOf[o] has the fields kind, thread, local, loff, remote and roff: a    *)
(* "put" copies <<local, loff>> to <<remote, roff>>, a "get" the reverse.  *)
(***************************************************************************)
SourcePlace(o) == IF OpOf[o].kind = "put" THEN <<OpOf[o].local, OpOf[o].loff>>
                                          ELSE <<OpOf[o].remote, OpOf[o].roff>>
DestPlace(o) == IF OpOf[o].kind = "put" THEN <<OpOf[o].remote, OpOf[o].roff>>
                                        ELSE <<OpOf[o].local, OpOf[o].loff>>

Targets == UNION {Range(TargetBuffers[r]) : r \in Ranks}

\* A work request is named after its operation, or after the buffer whose
\* target work request it is.
\* No request arrives in the receive queue: QUEUE is its work request.
QUEUE == "queue"
Wrs == Ops \union Targets \union {QUEUE}

NONE == "none"

VARIABLES
    phase,          \* mpi_wr->op_state: "unposted", "init", "cmd_done", "done", "freed"
    last_op,        \* target wr |-> mpi_wr->last_op
    request,        \* [wr, "cmd" or "data"] |-> its MPI_Request
    cmd_msg,        \* target wr |-> mpi_wr->cmd_msg and the rank it came from
    wr_queue,       \* buffer |-> its wr_queue
    thread,         \* thread |-> where it is in a call of the library
    moved,          \* history: <<source, destination>> of the data received
    events          \* history: buffer |-> waits for its events that returned NNTI_OK

vars == <<sends, recvs, phase, last_op, request, cmd_msg, wr_queue, thread, moved, events>>
wrs == <<phase, last_op, cmd_msg, wr_queue>>

\* The tags of a registered buffer (cmd_tag, put_data_tag, get_data_tag).
\* They are fresh at the owner, which is the one to receive under them.
CmdPort(b) == <<"cmd", b>>
PutPort(b) == <<"put", b>>
GetPort(b) == <<"get", b>>

(***************************************************************************)
(* A rank uses its own memory: the local buffers of its threads'           *)
(* operations, and the targets it looks at, are its own.                   *)
(***************************************************************************)
ASSUME Assumptions ==
    /\ \A t \in Threads : RankOf[t] \in Ranks
    /\ \A b \in Buffers : OwnerOf[b] \in Ranks
    /\ \A r \in Ranks : TargetBuffers[r] \in Seq({b \in Buffers : OwnerOf[b] = r})
    /\ \A o \in Ops :
         LET op == OpOf[o] IN
         /\ op.kind \in {"put", "get"} /\ op.thread \in Threads
         /\ op.local \in Buffers /\ OwnerOf[op.local] = RankOf[op.thread] /\ op.remote \in Targets
         /\ op.kind = "get" => GetPort(op.local) \in Ports
    /\ \A b \in Targets : CmdPort(b) \in Ports /\ PutPort(b) \in Ports
    /\ \A b \in WithEvents : b \in Targets /\ EventThread[b] \in Threads /\ RankOf[EventThread[b]] = OwnerOf[b]
    /\ Ops \cap Buffers = {} /\ QUEUE \notin Ops \union Buffers

(***************************************************************************)
(* The uses that safety is claimed for.                                    *)
(***************************************************************************)
\* Each rank has one thread, as nnti_mpi_lock is released between the steps of a call.
OneThread == \A t, u \in Threads : RankOf[t] = RankOf[u] => t = u

\* Operations are known by the places they name, which NONE is not.  Two gets into one
\* buffer from one rank are from one buffer there, as the data of both has one tag.
ToldApart ==
    /\ \A o, p \in Ops : SourcePlace(o) = SourcePlace(p) /\ DestPlace(o) = DestPlace(p) => o = p
    /\ \A o, p \in Ops :
         /\ OpOf[o].kind = "get" /\ OpOf[p].kind = "get" /\ OpOf[o].local = OpOf[p].local
         /\ OwnerOf[OpOf[o].remote] = OwnerOf[OpOf[p].remote]
         => OpOf[o].remote = OpOf[p].remote
    /\ \A o \in Ops : DestPlace(o) # NONE

NoCommand == [from |-> ANY_SOURCE, cmd |-> [op |-> NONE, offset |-> 0, port |-> <<>>]]

Idle == [pc |-> "idle", wr |-> NONE, timeout |-> -1, cursor |-> 1, progressed |-> FALSE]

(***************************************************************************)
(* Every buffer is registered: post_rdma_target_work_request has posted    *)
(* the receive of the first command, and insert_target_buffer has put the  *)
(* buffer in target_buffers.                                               *)
(***************************************************************************)
Init ==
    /\ sends = [ch \in Ranks \X Ports |-> <<>>]
    /\ recvs = [port \in Ports |->
                  IF \E b \in Targets : port = CmdPort(b)
                  THEN <<[from |-> ANY_SOURCE, rcv |-> [req |-> <<port[2], "cmd">>, into |-> NONE]]>>
                  ELSE <<>>]
    /\ phase = [w \in Wrs |-> IF w \in Ops THEN "unposted" ELSE "init"]
    /\ last_op = [w \in Targets |-> NONE]
    /\ request = [q \in Wrs \X {"cmd", "data"} |->
                    IF q[1] \notin Ops /\ q[2] = "cmd" THEN "active" ELSE "null"]
    /\ cmd_msg = [w \in Targets |-> NoCommand]
    /\ wr_queue = [b \in Buffers |-> IF b \in Targets THEN <<b>> ELSE <<>>]
    /\ thread = [t \in Threads |-> Idle]
    /\ moved = {}
    /\ events = [b \in Targets |-> 0]

GoTo(t, pc) == thread' = [thread EXCEPT ![t].pc = pc]

-----------------------------------------------------------------------------
(***************************************************************************)
(* NNTI_mpi_put: the command, then the data.  nnti_mpi_lock is released    *)
(* between the two.                                                        *)
(***************************************************************************)
Command(o) ==
    [req |-> <<o, "cmd">>,
     data |-> [op |-> OpOf[o].kind, offset |-> OpOf[o].roff, port |-> GetPort(OpOf[o].local)]]

PostCommand(o) ==
    Issend(RankOf[OpOf[o].thread], CmdPort(OpOf[o].remote), Command(o))

PutCommand(t, o) ==
    /\ thread[t].pc = "idle"
    /\ OpOf[o].thread = t /\ OpOf[o].kind = "put"
    /\ phase[o] = "unposted"
    /\ PostCommand(o)
    /\ request' = [request EXCEPT ![<<o, "cmd">>] = "active"]
    /\ phase' = [phase EXCEPT ![o] = "init"]
    /\ thread' = [thread EXCEPT ![t].pc = "put", ![t].wr = o]
    /\ UNCHANGED <<recvs, last_op, cmd_msg, wr_queue, moved, events>>

PutData(t) ==
    LET o == thread[t].wr
    IN  /\ thread[t].pc = "put"
        /\ Issend(RankOf[t], PutPort(OpOf[o].remote),
                  [req |-> <<o, "data">>, data |-> SourcePlace(o)])
        /\ request' = [request EXCEPT ![<<o, "data">>] = "active"]
        /\ wr_queue' = [wr_queue EXCEPT ![OpOf[o].local] = Append(@, o)]
        /\ thread' = [thread EXCEPT ![t] = Idle]
        /\ UNCHANGED <<recvs, phase, last_op, cmd_msg, moved, events>>

(***************************************************************************)
(* NNTI_mpi_get: the receive of the data, from the owner of the remote     *)
(* buffer under the local buffer's get_data_tag, then the command.         *)
(***************************************************************************)
GetReceive(t, o) ==
    /\ thread[t].pc = "idle"
    /\ OpOf[o].thread = t /\ OpOf[o].kind = "get"
    /\ phase[o] = "unposted"
    /\ Irecv(GetPort(OpOf[o].local), OwnerOf[OpOf[o].remote],
             [req |-> <<o, "data">>, into |-> DestPlace(o)])
    /\ request' = [request EXCEPT ![<<o, "data">>] = "active"]
    /\ phase' = [phase EXCEPT ![o] = "init"]
    /\ thread' = [thread EXCEPT ![t].pc = "get", ![t].wr = o]
    /\ UNCHANGED <<sends, last_op, cmd_msg, wr_queue, moved, events>>

GetCommand(t) ==
    LET o == thread[t].wr
    IN  /\ thread[t].pc = "get"
        /\ PostCommand(o)
        /\ request' = [request EXCEPT ![<<o, "cmd">>] = "active"]
        /\ wr_queue' = [wr_queue EXCEPT ![OpOf[o].local] = Append(@, o)]
        /\ thread' = [thread EXCEPT ![t] = Idle]
        /\ UNCHANGED <<recvs, phase, last_op, cmd_msg, moved, events>>

-----------------------------------------------------------------------------
(***************************************************************************)
(* The MPI library matches a message with a receive: both requests are     *)
(* done, a command is in the target's cmd_msg, data is in its place.       *)
(***************************************************************************)
Transfer(from, port) ==
    LET msg == MatchedMessage(from, port)
        rcv == MatchedReceive(from, port)
    IN  /\ Matchable(from, port)
        /\ Matched(from, port)
        /\ request' = [request EXCEPT ![msg.req] = "done", ![rcv.req] = "done"]
        /\ IF rcv.into = NONE
           THEN /\ cmd_msg' = [cmd_msg EXCEPT ![rcv.req[1]] = [from |-> from, cmd |-> msg.data]]
                /\ UNCHANGED moved
           ELSE /\ moved' = moved \union {<<msg.data, rcv.into>>}
                /\ UNCHANGED cmd_msg
        /\ UNCHANGED <<phase, last_op, wr_queue, thread, events>>

-----------------------------------------------------------------------------
\* Mistake: request_ptr stays at the command.
CurrentStaysCommand(w) == <<w, "cmd">>

\* mpi_wr->request_ptr: the request whose completion wr expects next.
Current(w) == <<w, IF phase[w] = "init" THEN "cmd" ELSE "data">>

\* Mistake: the data of a put is received from whichever rank sends first.
PostDataFromAny(b, op, from, cmd) ==
    \/ /\ op = "put"
       /\ Irecv(PutPort(b), ANY_SOURCE, [req |-> <<b, "data">>, into |-> <<b, cmd.offset>>])
       /\ UNCHANGED sends
    \/ /\ op = "get"
       /\ Issend(OwnerOf[b], cmd.port, [req |-> <<b, "data">>, data |-> <<b, cmd.offset>>])
       /\ UNCHANGED recvs

\* The target's half of a put or get: the receive or the send of the data.
\* There is no sending to MPI_ANY_SOURCE: that ends the job.
PostData(b, op, from, cmd) ==
    \/ /\ op = "put"
       /\ Irecv(PutPort(b), from, [req |-> <<b, "data">>, into |-> <<b, cmd.offset>>])
       /\ UNCHANGED sends
    \/ /\ op = "get" /\ from # ANY_SOURCE
       /\ Issend(OwnerOf[b], cmd.port, [req |-> <<b, "data">>, data |-> <<b, cmd.offset>>])
       /\ UNCHANGED recvs

(***************************************************************************)
(* process_event for the target's command.  known says whether the event   *)
(* is the one of the command message; otherwise (MPI_Testany found no      *)
(* active request and returned an empty status) last_op stays what it was  *)
(* and the source is any.                                                  *)
(***************************************************************************)
StartData(b, known) ==
    LET op == IF known THEN cmd_msg[b].cmd.op ELSE last_op[b]
        from == IF known THEN cmd_msg[b].from ELSE ANY_SOURCE
    IN  /\ last_op' = [last_op EXCEPT ![b] = op]
        /\ UNCHANGED <<cmd_msg, wr_queue>>
        /\ IF op = NONE
           THEN /\ request' = [request EXCEPT ![<<b, "cmd">>] = "null"]
                /\ UNCHANGED <<fabric, phase>>
           ELSE /\ phase' = [phase EXCEPT ![b] = "cmd_done"]
                /\ request' = [request EXCEPT ![<<b, "cmd">>] = "null", ![<<b, "data">>] = "active"]
                /\ PostData(b, op, from, cmd_msg[b].cmd)

\* process_event in every other state: the initiator's command is sent, or
\* the data of either side is through.
Advance(w) ==
    /\ phase' = [phase EXCEPT ![w] = CASE @ = "init" -> "cmd_done"
                                       [] @ = "cmd_done" -> "done"
                                       [] OTHER -> @]
    /\ request' = [request EXCEPT ![Current(w)] = "null"]
    /\ UNCHANGED <<fabric, last_op, cmd_msg, wr_queue>>

process_event(w, known) ==
    IF w \in Targets /\ phase[w] = "init" THEN StartData(w, known) ELSE Advance(w)

\* repost_rdma_target_work_request: ready for the next command.  queue is
\* the buffer's wr_queue without the entry that was taken out, if any.
Repost(b, queue) ==
    /\ phase' = [phase EXCEPT ![b] = "init"]
    /\ request' = [request EXCEPT ![<<b, "data">>] = "null", ![<<b, "cmd">>] = "active"]
    /\ Irecv(CmdPort(b), ANY_SOURCE, [req |-> <<b, "cmd">>, into |-> NONE])
    /\ wr_queue' = [wr_queue EXCEPT ![b] = Append(queue, b)]
    /\ UNCHANGED <<sends, last_op, cmd_msg>>

\* Mistake: a finished work request is recycled although the application
\* has not had its event.
AlwaysRecycled(b) == TRUE

\* The application does not want events: the work request is recycled.
Recycled(b) == b \notin WithEvents

(***************************************************************************)
(* One buffer of check_target_buffer_progress: test the work request at    *)
(* the front of its queue.  A finished target work request of a buffer     *)
(* without events is recycled at once; with events it keeps its state      *)
(* until the application waits for it, and takes no command meanwhile.     *)
(***************************************************************************)
CheckBuffer(b) ==
    LET w == Head(wr_queue[b])
        finishes == w \in Targets /\ phase[w] = "cmd_done"
    IN  IF phase[w] = "done" \/ request[Current(w)] = "active"
        THEN UNCHANGED <<fabric, wrs, request>>
        ELSE IF finishes /\ Recycled(b)
             THEN Repost(w, RemoveFirst(wr_queue[b], w))
             ELSE process_event(w, request[Current(w)] = "done")

\* Buffer b's target operation completes in this step.
Completes(b) ==
    LET w == Head(wr_queue[b])
    IN  w \in Targets /\ phase[w] = "cmd_done" /\ request[Current(w)] # "active"

-----------------------------------------------------------------------------
(***************************************************************************)
(* NNTI_mpi_wait.  A thread waits for one of its own operations, or for    *)
(* the next event of a buffer: then the work request is the front of the   *)
(* buffer's queue.  A poller waits for a request.                          *)
(***************************************************************************)
WaitFor(t) ==
    {o \in Ops : OpOf[o].thread = t /\ phase[o] \in {"init", "cmd_done", "done"}}
      \union {Head(wr_queue[b]) : b \in {d \in WithEvents : EventThread[d] = t}}
      \union (IF t \in Pollers THEN {QUEUE} ELSE {})

WaitEnter(t, w, timeout) ==
    /\ thread[t].pc = "idle"
    /\ w \in WaitFor(t)
    /\ thread' = [thread EXCEPT ![t] =
                    [pc |-> IF phase[w] = "done" THEN "finish" ELSE "check",
                     wr |-> w, timeout |-> timeout, cursor |-> 1, progressed |-> FALSE]]
    /\ UNCHANGED <<fabric, wrs, request, moved, events>>

\* The pass over target_buffers holds nnti_target_buffer_queue_lock.
Walking(t) == thread[t].pc = "check" /\ thread[t].cursor > 1

(***************************************************************************)
(* check_target_buffer_progress, one buffer per step.  After the last one  *)
(* the wait looks at its own work request if some operation completed.     *)
(***************************************************************************)
CheckTarget(t) ==
    LET targets == TargetBuffers[RankOf[t]]
        b == targets[thread[t].cursor]
    IN  /\ thread[t].pc = "check"
        /\ thread[t].cursor <= Len(targets)
        /\ \A u \in Threads \ {t} : RankOf[u] = RankOf[t] => ~Walking(u)
        /\ CheckBuffer(b)
        /\ thread' = [thread EXCEPT ![t].cursor = @ + 1,
                                    ![t].progressed = @ \/ Completes(b)]
        /\ UNCHANGED <<moved, events>>

CheckDone(t) ==
    /\ thread[t].pc = "check"
    /\ thread[t].cursor > Len(TargetBuffers[RankOf[t]])
    /\ thread' = [thread EXCEPT ![t].pc = IF thread[t].progressed /\ phase[thread[t].wr] = "done"
                                          THEN "finish" ELSE "test",
                                ![t].cursor = 1, ![t].progressed = FALSE]
    /\ UNCHANGED <<fabric, wrs, request, moved, events>>

(***************************************************************************)
(* MPI_Testany on the wait's own work request.  Either the request is      *)
(* done, or the wait goes round again: as it has no active request, or as  *)
(* it is still active and a positive timeout has not expired.              *)
(***************************************************************************)
TestDone(t) ==
    LET w == thread[t].wr
    IN  /\ thread[t].pc = "test"
        /\ request[Current(w)] = "done"
        /\ request' = [request EXCEPT ![Current(w)] = "null"]
        /\ GoTo(t, "event")
        /\ UNCHANGED <<fabric, wrs, moved, events>>

TestAgain(t) ==
    LET w == thread[t].wr
    IN  /\ thread[t].pc = "test"
        /\ request[Current(w)] # "done"
        /\ GoTo(t, IF request[Current(w)] = "null" /\ phase[w] = "done" THEN "finish" ELSE "check")
        /\ UNCHANGED <<fabric, wrs, request, moved, events>>

\* Mistake: a wait that timed out ends like one that succeeded.
TimedOutReposts(t) ==
    LET w == thread[t].wr
    IN  /\ thread[t].pc = "test"
        /\ request[Current(w)] = "active"
        /\ thread[t].timeout > 0
        /\ IF w \in Targets THEN Repost(w, wr_queue[w])
                            ELSE UNCHANGED <<fabric, wrs, request>>
        /\ thread' = [thread EXCEPT ![t] = Idle]
        /\ UNCHANGED <<moved, events>>

TimedOut(t) ==
    /\ thread[t].pc = "test"
    /\ request[Current(thread[t].wr)] = "active"
    /\ thread[t].timeout > 0
    /\ thread' = [thread EXCEPT ![t] = Idle]
    /\ UNCHANGED <<fabric, wrs, request, moved, events>>

\* process_event for the wait's own work request, then is_wr_complete.
HandleEvent(t) ==
    LET w == thread[t].wr
    IN  /\ thread[t].pc = "event"
        /\ process_event(w, TRUE)
        /\ GoTo(t, IF phase'[w] = "done" THEN "finish" ELSE "check")
        /\ UNCHANGED <<moved, events>>

(***************************************************************************)
(* The end of a wait that returns NNTI_OK: an initiator's work request     *)
(* leaves its queue and is freed, a target's is posted again.              *)
(***************************************************************************)
FinishInitiator(t) ==
    LET o == thread[t].wr
    IN  /\ thread[t].pc = "finish"
        /\ o \in Ops
        /\ phase' = [phase EXCEPT ![o] = "freed"]
        /\ wr_queue' = [wr_queue EXCEPT ![OpOf[o].local] = RemoveFirst(@, o)]
        /\ thread' = [thread EXCEPT ![t] = Idle]
        /\ UNCHANGED <<fabric, last_op, cmd_msg, request, moved, events>>

FinishTarget(t) ==
    LET b == thread[t].wr
    IN  /\ thread[t].pc = "finish"
        /\ b \in Targets
        /\ Repost(b, wr_queue[b])
        /\ events' = [events EXCEPT ![b] = @ + 1]
        /\ thread' = [thread EXCEPT ![t] = Idle]
        /\ UNCHANGED moved

-----------------------------------------------------------------------------
\* The steps of a call of the library once a thread is inside it.
InsideCall(t) ==
    \/ PutData(t)
    \/ GetCommand(t)
    \/ CheckTarget(t)
    \/ CheckDone(t)
    \/ TestDone(t)
    \/ TestAgain(t)
    \/ TimedOut(t)
    \/ HandleEvent(t)
    \/ FinishInitiator(t)
    \/ FinishTarget(t)

Next ==
    \/ \E from \in Ranks, port \in Ports : Transfer(from, port)
    \/ \E t \in Threads :
         \/ InsideCall(t)
         \/ \E o \in Ops : PutCommand(t, o) \/ GetReceive(t, o)
         \/ \E w \in Wrs, timeout \in Timeouts[t] : WaitEnter(t, w, timeout)

(***************************************************************************)
(* The MPI library delivers what can be matched, the scheduler runs every  *)
(* thread that is inside a call, and every thread goes back to waiting as  *)
(* long as it has something to wait for: that is what progress needs from  *)
(* the application, as nothing runs in the background.                     *)
(***************************************************************************)
Fairness ==
    /\ \A from \in Ranks, port \in Ports : WF_vars(Transfer(from, port))
    /\ \A t \in Threads : WF_vars(InsideCall(t))
    /\ \A t \in Threads : WF_vars(\E w \in Wrs, timeout \in Timeouts[t] : WaitEnter(t, w, timeout))

Spec == Init /\ [][Next]_vars
FairSpec == Spec /\ Fairness

-----------------------------------------------------------------------------

\* The data of the operation is in its place.
Landed(o) == <<SourcePlace(o), DestPlace(o)>> \in moved

(***************************************************************************)
(* No event is lost and none is invented: the operations of peers whose    *)
(* data went through a buffer with events are those whose events the       *)
(* application had, and at most one more, whose event its target work      *)
(* request still holds.                                                    *)
(***************************************************************************)
LandedOn(b) == {o \in Ops : OpOf[o].remote = b /\ Landed(o)}

HoldsEvent(b) ==
    \/ phase[b] = "done"
    \/ phase[b] = "cmd_done" /\ request[<<b, "data">>] # "active"

OneEventPerTransfer ==
    \A b \in WithEvents :
        Cardinality(LandedOn(b)) = events[b] + (IF HoldsEvent(b) THEN 1 ELSE 0)

(***************************************************************************)
(* An MPI_Request is active exactly while the one send or receive it was   *)
(* started for is unmatched.  A second operation started on an active      *)
(* request would lose the handle of the first.                             *)
(***************************************************************************)
PostedSends(q) ==
    {at \in UNION {{ch} \X DOMAIN sends[ch] : ch \in DOMAIN sends} :
        sends[at[1]][at[2]].req = q}
PostedRecvs(q) ==
    {at \in UNION {{port} \X DOMAIN recvs[port] : port \in DOMAIN recvs} :
        recvs[at[1]][at[2]].rcv.req = q}

RequestHandleIsUnique ==
    \A q \in (Wrs \ {QUEUE}) \X {"cmd", "data"} :
        Cardinality(PostedSends(q)) + Cardinality(PostedRecvs(q))
            = IF request[q] = "active" THEN 1 ELSE 0

\* A wait for an operation the thread started returns.
WaitReturns == \A t \in Threads : thread[t].wr \in Ops ~> thread[t].pc = "idle"

(***************************************************************************)
(* The transport implements OneSided: an operation has landed when its     *)
(* data is in its place and is complete when its wait freed it.            *)
(***************************************************************************)
StateOf(o) ==
    CASE phase[o] = "unposted" -> "idle"
      [] phase[o] = "freed" -> "complete"
      [] phase[o] \in {"init", "cmd_done", "done"} -> IF Landed(o) THEN "landed" ELSE "started"

Abstract == INSTANCE OneSided WITH
    From <- [o \in Ops |-> SourcePlace(o)],
    To <- [o \in Ops |-> DestPlace(o)],
    state <- [o \in Ops |-> StateOf(o)],
    carried <- moved

ImplementsOneSided == Abstract!Spec

=============================================================================
