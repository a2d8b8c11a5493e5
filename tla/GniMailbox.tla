------------------------------ MODULE GniMailbox ------------------------------
(***************************************************************************)
(* Requests on the Gemini transport (nnti/nnti_gni.cpp), from NNTI_send to *)
(* a server's request queue.                                               *)
(*                                                                         *)
(* A connection has a mailbox in the server's memory, a ring of slots, and *)
(* a counter of credits in the client's memory, one per free slot.  The    *)
(* client takes a credit with two remote atomic operations (fetch, then    *)
(* compare and swap) and writes the request into the slot its own counter  *)
(* names.  The server is told of a connection that wrote, not of a slot:   *)
(* its counter of the connection's requests names the slot, and a third    *)
(* counter the element of the request queue that the request is for.  It   *)
(* copies the request when that element is free, and returns the credit.   *)
(* A client without credits keeps its requests for a later try.            *)
(*                                                                         *)
(* A client and the server have one thread each.  The server has one work  *)
(* request at a time for its queue, and waits for it or for other          *)
(* operations of its own.  Posting never fails.                            *)
(***************************************************************************)
EXTENDS Integers, Sequences, FiniteSets, SequencesExt, Functions

CONSTANTS
    Clients,        \* the clients, one connection each
    Requests,       \* the requests they send
    ClientOf,       \* request |-> the client that sends it
    MaxCredits,     \* config.queue_elements_per_connection
    QueueSize,      \* req_count, the elements of the server's request queue
    Timed           \* those whose waits have timeouts

SERVER == "server"
NONE == "none"

ASSUME Assumptions ==
    /\ ClientOf \in [Requests -> Clients]
    /\ MaxCredits \in Nat \ {0}
    /\ QueueSize \in Nat \ {0, 1}
    /\ NONE \notin Requests
    /\ SERVER \notin Clients

Slots == 0 .. MaxCredits - 1
Elements == 0 .. QueueSize - 1
NoElement == -1

VARIABLES
    \* of a client
    pc,             \* client |-> where it is
    wr,             \* client |-> the request it is executing
    awaited,        \* client |-> the request it waits for
    state,          \* request |-> state of its work request
    resend,         \* client |-> wr_resend_map: its requests that found no credit
    credits,        \* client |-> send_mbox->credits
    seen,           \* client |-> what the fetch in credits_available returned
    mbox_index,     \* client |-> send_mbox->mbox_index
    \* of the network
    posted,         \* client |-> what it has posted: requests and their slots
    delivered,      \* client |-> how many of them have been written
    completed,      \* client |-> how many completions it has handled
    mbox,           \* client |-> its mailbox: slot |-> request
    \* of the server
    spc,            \* where it is
    waits_for,      \* what it waits for: its work request for the queue, or another
    attached,       \* the element that work request is for
    reqs_received,  \* client |-> conn->reqs_received
    req_index,      \* req_queue.req_index
    head, tail,     \* of req_queue
    element,        \* element |-> state of its work request
    req_buffer,     \* element |-> the request in it
    mbox_backlog,   \* requests that are still in their mailbox
    copied,         \* client |-> the requests copied from its mailbox
    received        \* the requests the application has received

sending == <<pc, wr, awaited, state, resend>>
flow == <<credits, seen, mbox_index>>
network == <<posted, delivered, completed, mbox>>
client == <<sending, flow>>
queue == <<head, tail, element, req_buffer>>
server == <<spc, waits_for, attached, reqs_received, req_index, queue, mbox_backlog, copied, received>>
vars == <<client, network, server>>

Init ==
    /\ pc = [c \in Clients |-> "idle"]
    /\ wr = [c \in Clients |-> NONE]
    /\ awaited = [c \in Clients |-> NONE]
    /\ state = [r \in Requests |-> "unsent"]
    /\ resend = [c \in Clients |-> <<>>]
    /\ credits = [c \in Clients |-> MaxCredits]
    /\ seen = [c \in Clients |-> 0]
    /\ mbox_index = [c \in Clients |-> 0]
    /\ posted = [c \in Clients |-> <<>>]
    /\ delivered = [c \in Clients |-> 0]
    /\ completed = [c \in Clients |-> 0]
    /\ mbox = [c \in Clients |-> [s \in Slots |-> NONE]]
    /\ spc = "idle" /\ waits_for = NONE /\ attached = NoElement
    /\ reqs_received = [c \in Clients |-> 0] /\ req_index = 0
    /\ head = 0 /\ tail = 0
    /\ element = [e \in Elements |-> "POSTED"]
    /\ req_buffer = [e \in Elements |-> NONE]
    /\ mbox_backlog = <<>>
    /\ copied = [c \in Clients |-> <<>>]
    /\ received = <<>>

-----------------------------------------------------------------------------
(* The client: NNTI_gni_send, credits_available, execute_send_wr.          *)

Goto(c, p) == pc' = [pc EXCEPT ![c] = p]

NNTI_gni_send(c, r) ==
    /\ pc[c] = "idle"
    /\ state[r] = "unsent"
    /\ ClientOf[r] = c
    /\ state' = [state EXCEPT ![r] = "STARTED"]
    /\ wr' = [wr EXCEPT ![c] = r]
    /\ Goto(c, "fetch")
    /\ UNCHANGED <<awaited, resend, flow, network, server>>

\* Executing the head of the resend queue, not a request just sent.
Resending(c) == resend[c] # <<>> /\ wr[c] = Head(resend[c])

\* resend_all is through; the wait it belongs to returns or goes on.
PassIsOver(c) ==
    /\ wr' = [wr EXCEPT ![c] = NONE]
    /\ IF state[awaited[c]] = "COMPLETE" \/ c \in Timed
       THEN Goto(c, "idle") /\ awaited' = [awaited EXCEPT ![c] = NONE]
       ELSE Goto(c, "progress") /\ UNCHANGED awaited

\* NNTI_gni_send returns.
SendReturns(c) ==
    /\ Goto(c, "idle")
    /\ wr' = [wr EXCEPT ![c] = NONE]
    /\ UNCHANGED awaited

FetchCredits(c) ==
    /\ pc[c] = "fetch"
    /\ credits[c] > 0
    /\ seen' = [seen EXCEPT ![c] = credits[c]]
    /\ Goto(c, "swap")
    /\ UNCHANGED <<wr, awaited, state, resend, credits, mbox_index, network, server>>

insert_resendNot(c) == resend
insert_resend(c) == [resend EXCEPT ![c] = Append(@, wr[c])]

\* A new request goes to the end of the resend queue, one from there stays.
NoCredit(c) ==
    /\ pc[c] = "fetch"
    /\ credits[c] <= 0
    /\ IF Resending(c)
       THEN PassIsOver(c) /\ UNCHANGED resend
       ELSE SendReturns(c) /\ resend' = insert_resend(c)
    /\ UNCHANGED <<state, flow, network, server>>

SwappedUnchecked(c) == TRUE
Swapped(c) == credits[c] = seen[c]

TakeCredit(c) ==
    /\ pc[c] = "swap"
    /\ Swapped(c)
    /\ credits' = [credits EXCEPT ![c] = seen[c] - 1]
    /\ seen' = [seen EXCEPT ![c] = 0]
    /\ Goto(c, "post")
    /\ UNCHANGED <<wr, awaited, state, resend, mbox_index, network, server>>

\* The server returned credits in between.
RetryCredit(c) ==
    /\ pc[c] = "swap"
    /\ credits[c] > seen[c]
    /\ seen' = [seen EXCEPT ![c] = 0]
    /\ Goto(c, "fetch")
    /\ UNCHANGED <<wr, awaited, state, resend, credits, mbox_index, network, server>>

NextSlot(c) == mbox_index[c] % MaxCredits

PostFma(c) ==
    /\ posted' = [posted EXCEPT ![c] = Append(@, [request |-> wr[c], slot |-> NextSlot(c)])]
    /\ mbox_index' = [mbox_index EXCEPT ![c] = @ + 1]

SendDirectly(c) ==
    /\ pc[c] = "post"
    /\ ~Resending(c)
    /\ PostFma(c)
    /\ SendReturns(c)
    /\ UNCHANGED <<state, resend, credits, seen, delivered, completed, mbox, server>>

\* resend_all erases the request and tries the next.
SendAgain(c) ==
    /\ pc[c] = "post"
    /\ Resending(c)
    /\ PostFma(c)
    /\ resend' = [resend EXCEPT ![c] = Tail(@)]
    /\ IF Len(resend[c]) > 1
       THEN wr' = [wr EXCEPT ![c] = resend[c][2]] /\ Goto(c, "fetch") /\ UNCHANGED awaited
       ELSE PassIsOver(c)
    /\ UNCHANGED <<state, credits, seen, delivered, completed, mbox, server>>

\* The hardware writes in the order of posting, and tells both sides.
Deliver(c) ==
    /\ delivered[c] < Len(posted[c])
    /\ LET p == posted[c][delivered[c] + 1] IN
         mbox' = [mbox EXCEPT ![c][p.slot] = p.request]
    /\ delivered' = [delivered EXCEPT ![c] = @ + 1]
    /\ UNCHANGED <<client, posted, completed, server>>

-----------------------------------------------------------------------------
(* The client: NNTI_gni_wait for a request sent.                           *)

WaitForSend(c, r) ==
    /\ pc[c] = "idle"
    /\ ClientOf[r] = c
    /\ state[r] = "STARTED"
    /\ awaited' = [awaited EXCEPT ![c] = r]
    /\ Goto(c, "progress")
    /\ UNCHANGED <<wr, state, resend, flow, network, server>>

\* progress() has a send completion to handle.
SendCompletes(c) ==
    /\ pc[c] = "progress"
    /\ completed[c] < delivered[c]
    /\ LET r == posted[c][completed[c] + 1].request IN
         state' = [state EXCEPT ![r] = "COMPLETE"]
    /\ completed' = [completed EXCEPT ![c] = @ + 1]
    /\ Goto(c, "resend")
    /\ UNCHANGED <<wr, awaited, resend, flow, posted, delivered, mbox, server>>

\* progress() returns without an event only if there is a timeout.
SendTimesOut(c) ==
    /\ pc[c] = "progress"
    /\ completed[c] = delivered[c]
    /\ c \in Timed
    /\ Goto(c, "resend")
    /\ UNCHANGED <<wr, awaited, state, resend, flow, network, server>>

resend_all(c) ==
    /\ pc[c] = "resend"
    /\ IF resend[c] = <<>>
       THEN PassIsOver(c)
       ELSE wr' = [wr EXCEPT ![c] = Head(resend[c])] /\ Goto(c, "fetch") /\ UNCHANGED awaited
    /\ UNCHANGED <<state, resend, flow, network, server>>

-----------------------------------------------------------------------------
(* The server's request queue: work requests for its elements.             *)

\* The elements from the tail on, as many as there are up to the head.
InUse == (head - tail + QueueSize) % QueueSize
FromTail(k) == (tail + k) % QueueSize
Free(e) == element[e] \in {"POSTED", "RDMA_COMPLETE"}

Advanced == (head + 1) % QueueSize

\* The first free element from tail to head, the head included.
NNTI_gni_create_work_request ==
    /\ spc = "idle"
    /\ attached = NoElement
    /\ \E k \in 0 .. InUse :
         /\ Free(FromTail(k))
         /\ \A j \in 0 .. k - 1 : ~Free(FromTail(j))
         /\ attached' = FromTail(k)
         /\ head' = IF k = InUse THEN Advanced ELSE head
    /\ UNCHANGED <<client, network, spc, waits_for, reqs_received, req_index, tail, element,
                   req_buffer, mbox_backlog, copied, received>>

\* The elements at the tail that have been waited for, if the tail is given back.
Passed == {k \in 0 .. InUse - 1 : attached = tail
              /\ \A j \in 0 .. k : element[FromTail(j)] = "WAIT_COMPLETE"}

\* The index starts again when the queue is back at its beginning.
ResetIndex(t) == IF req_index >= QueueSize /\ head = 0 /\ t = 0 THEN 0 ELSE req_index

NNTI_gni_destroy_work_request ==
    /\ spc = "idle"
    /\ attached # NoElement
    /\ LET n == Cardinality(Passed) IN
         /\ element' = [e \in Elements |-> IF e \in {FromTail(k) : k \in Passed} THEN "POSTED" ELSE element[e]]
         /\ tail' = FromTail(n)
         /\ req_index' = ResetIndex(FromTail(n))
    /\ attached' = NoElement
    /\ UNCHANGED <<client, network, spc, waits_for, reqs_received, head, req_buffer,
                   mbox_backlog, copied, received>>

-----------------------------------------------------------------------------
(* The server: NNTI_gni_wait and what it does with requests that arrive.   *)

ServerWaits(what) ==
    /\ spc = "idle"
    /\ what = "queue" => attached # NoElement /\ element[attached] # "WAIT_COMPLETE"
    /\ waits_for' = what
    /\ spc' = IF what = "queue" /\ element[attached] = "RDMA_COMPLETE" THEN "finish" ELSE "progress"
    /\ UNCHANGED <<client, network, attached, reqs_received, req_index, queue, mbox_backlog, copied, received>>

Arrived(c) == reqs_received[c] < delivered[c]

PutBackFirst(b) == <<b>> \o mbox_backlog
PutBack(b) == Append(mbox_backlog, b)

\* decode_sge chooses the element, process_event the slot.
RequestArrives(c) ==
    /\ spc = "progress"
    /\ Arrived(c)
    /\ req_index' = req_index + 1
    /\ reqs_received' = [reqs_received EXCEPT ![c] = @ + 1]
    /\ mbox_backlog' = PutBack([conn |-> c, queue_index |-> req_index % QueueSize,
                                 mbox_index |-> reqs_received[c] % MaxCredits])
    /\ spc' = "backlog"
    /\ UNCHANGED <<client, network, waits_for, attached, queue, copied, received>>

\* progress() returns without a request: a timeout, or another operation's event.
NothingArrives ==
    /\ spc = "progress"
    /\ \A c \in Clients : ~Arrived(c)
    /\ SERVER \in Timed \/ waits_for = "other"
    /\ spc' = "backlog"
    /\ UNCHANGED <<client, network, waits_for, attached, reqs_received, req_index, queue,
                   mbox_backlog, copied, received>>

CopyableAlways == mbox_backlog # <<>>
Copyable == mbox_backlog # <<>> /\ element[Head(mbox_backlog).queue_index] = "POSTED"

execute_mbox_copy ==
    /\ spc = "backlog"
    /\ Copyable
    /\ LET b == Head(mbox_backlog)
           r == mbox[b.conn][b.mbox_index] IN
         /\ req_buffer' = [req_buffer EXCEPT ![b.queue_index] = r]
         /\ copied' = [copied EXCEPT ![b.conn] = Append(@, r)]
    /\ spc' = "credit"
    /\ UNCHANGED <<client, network, waits_for, attached, reqs_received, req_index, head, tail, element,
                   mbox_backlog, received>>

\* The credit goes back, then the work request is complete.
send_back_credits ==
    /\ spc = "credit"
    /\ LET b == Head(mbox_backlog) IN
         /\ credits' = [credits EXCEPT ![b.conn] = @ + 1]
         /\ element' = [element EXCEPT ![b.queue_index] = "RDMA_COMPLETE"]
    /\ mbox_backlog' = Tail(mbox_backlog)
    /\ spc' = "backlog"
    /\ UNCHANGED <<sending, seen, mbox_index, network, waits_for, attached, reqs_received, req_index,
                   head, tail, req_buffer, copied, received>>

\* The backlog is empty or blocked; the wait looks at its work request.
BacklogIsDone ==
    /\ spc = "backlog"
    /\ ~Copyable
    /\ spc' = IF waits_for = "other" THEN "idle"
              ELSE IF element[attached] = "RDMA_COMPLETE" THEN "finish"
              ELSE IF SERVER \in Timed THEN "idle" ELSE "progress"
    /\ waits_for' = IF spc' = "idle" THEN NONE ELSE waits_for
    /\ UNCHANGED <<client, network, attached, reqs_received, req_index, queue,
                   mbox_backlog, copied, received>>

WaitComplete == [element EXCEPT ![attached] = "WAIT_COMPLETE"]

WaitFinishes ==
    /\ spc = "finish"
    /\ element' = WaitComplete
    /\ received' = Append(received, req_buffer[attached])
    /\ spc' = "idle"
    /\ waits_for' = NONE
    /\ UNCHANGED <<client, network, attached, reqs_received, req_index, head, tail,
                   req_buffer, mbox_backlog, copied>>

-----------------------------------------------------------------------------
Executing(c) ==
    \/ FetchCredits(c) \/ NoCredit(c) \/ TakeCredit(c) \/ RetryCredit(c)
    \/ SendDirectly(c) \/ SendAgain(c)
    \/ SendCompletes(c) \/ SendTimesOut(c) \/ resend_all(c)

Serving ==
    \/ \E c \in Clients : RequestArrives(c)
    \/ NothingArrives \/ execute_mbox_copy \/ send_back_credits \/ BacklogIsDone \/ WaitFinishes

Next ==
    \/ \E c \in Clients :
         \/ \E r \in Requests : NNTI_gni_send(c, r) \/ WaitForSend(c, r)
         \/ Executing(c) \/ Deliver(c)
    \/ NNTI_gni_create_work_request \/ NNTI_gni_destroy_work_request
    \/ \E what \in {"queue", "other"} : ServerWaits(what)
    \/ Serving

Spec == Init /\ [][Next]_vars

\* A client waits for what it has sent; the server takes one request after
\* the other and always comes back to waiting for its queue.
Fairness ==
    /\ \A c \in Clients :
         /\ WF_vars(Executing(c)) /\ WF_vars(Deliver(c))
         /\ WF_vars(\E r \in Requests : WaitForSend(c, r))
    /\ WF_vars(Serving)
    /\ SF_vars(NNTI_gni_create_work_request)
    /\ SF_vars(attached # NoElement /\ element[attached] = "WAIT_COMPLETE" /\ NNTI_gni_destroy_work_request)
    /\ SF_vars(ServerWaits("queue"))

FairSpec == Spec /\ Fairness

-----------------------------------------------------------------------------
(* Properties.                                                             *)

(***************************************************************************)
(* Credits are neither lost nor invented, though they are taken with two   *)
(* operations between which the server returns others: a slot is free and  *)
(* has a credit, or it has been taken by a request that is not copied, or  *)
(* whose credit is on its way back.                                        *)
(***************************************************************************)
InHand(c) == IF pc[c] = "post" THEN 1 ELSE 0
OnItsWay(c) == IF spc = "credit" /\ Head(mbox_backlog).conn = c THEN 1 ELSE 0

CreditsAccounted ==
    \A c \in Clients :
        credits[c] + InHand(c) + (Len(posted[c]) - Len(copied[c])) + OnItsWay(c) = MaxCredits

(***************************************************************************)
(* A connection is a bounded channel: the server copies every request      *)
(* once, in the order of posting, though no message says which slot it is  *)
(* in and both sides count for themselves.                                 *)
(***************************************************************************)
RequestsPosted == [c \in Clients |-> [i \in 1 .. Len(posted[c]) |-> posted[c][i].request]]
Channel == INSTANCE RequestChannel WITH Capacity <- MaxCredits, put <- RequestsPosted, taken <- copied
ImplementsChannel == Channel!Spec

(***************************************************************************)
(* A request in the queue stays there until the application has received   *)
(* it, though elements go round.                                           *)
(***************************************************************************)
KeptUntilReceived ==
    [][\A e \in Elements :
         req_buffer[e] # NONE /\ req_buffer'[e] # req_buffer[e] => req_buffer[e] \in ToSet(received)]_vars

\* Elements are chosen for requests in another order than for work requests:
\* the index was reset while requests beyond those received had been counted.
Shifted == (FoldFunction(+, 0, reqs_received) - req_index) % QueueSize # 0

(***************************************************************************)
(* Every request that is sent is received, whatever it has to wait for: a  *)
(* credit, its turn in the resend queue, a free element, its turn in the   *)
(* backlog.  The one thing in the way is a queue whose index is shifted.   *)
(***************************************************************************)
RequestsAreReceived ==
    \A r \in Requests : state[r] # "unsent" ~> r \in ToSet(received) \/ Shifted

(***************************************************************************)
(* Every request that is sent is received, without exception.              *)
(***************************************************************************)
EveryRequestIsReceived ==
    \A r \in Requests : state[r] # "unsent" ~> r \in ToSet(received)

===============================================================================
