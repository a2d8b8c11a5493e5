----------------------------- MODULE IbProgress -----------------------------
(***************************************************************************)
(* NNTI_ib_wait and the progress engine of the InfiniBand transport        *)
(* (nnti/nnti_ib.cpp).                                                     *)
(*                                                                         *)
(* Completions of all work requests arrive in two completion queues.  One  *)
(* waiting thread at a time, the leader, polls them, handles whatever it   *)
(* finds, and blocks in poll() while there is nothing; the other waiting   *)
(* threads, its followers, sleep on nnti_progress_cond until the leader    *)
(* leaves.  poll() watches the completion channels, which get an event     *)
(* only while the queue is armed (ibv_req_notify_cq), the pipe that        *)
(* NNTI_ib_interrupt writes to, and the socket for new connections.        *)
(*                                                                         *)
(* Each request is that of an initiator, waited for by one thread.  All    *)
(* failures are NNTI_EIO.  Time is abstracted to whether the timeout a     *)
(* thread gave has run out.  Cancelling is left out.                       *)
(***************************************************************************)
EXTENDS Integers, Sequences

CONSTANTS
    Threads,        \* the threads that call NNTI_ib_wait
    Requests,       \* their work requests
    WaiterOf,       \* request |-> the thread that waits for it
    CqOf,           \* request |-> the completion queue it completes in
    Timeouts,       \* thread |-> the timeouts it waits with
    MaxConnects,    \* bound on the connections requested by peers
    MaxPipe         \* bound on the unread interrupts in the pipe

Cqs == {"data", "req"}
NONE == "none"
AnyTimeout == {"infinite", "positive", "zero"}   \* timeout < 0, > 0, = 0

ASSUME Assumptions ==
    /\ WaiterOf \in [Requests -> Threads]
    /\ CqOf \in [Requests -> Cqs]
    /\ Timeouts \in [Threads -> SUBSET AnyTimeout]
    /\ MaxConnects \in Nat
    /\ MaxPipe \in Nat

VARIABLES
    state,          \* request |-> ib_wr->state, with "consumed" once wait cleaned it up
    fate,           \* request |-> what the hardware made of it: "none", "ok", "error"
    cq,             \* completion queue |-> the completions in it
    armed,          \* completion queue |-> whether the next completion raises an event
    events,         \* completion queue |-> unread events in its channel
    connects,       \* connection requests so far, and
    connecting,     \* whether one waits to be accepted
    pipe,           \* unread interrupts
    in_progress,    \* progress()'s static variable: there is a leader
    pc,             \* thread |-> where it is in NNTI_ib_wait
    wr,             \* thread |-> the request it waits for
    timeout,        \* thread |-> the timeout it gave
    due,            \* thread |-> that timeout has run out
    remaining,      \* leader |-> timeout-elapsed_time, as poll() takes it
    wr_complete,    \* thread |-> progress() found its request complete at entry
    made_progress,  \* leader |-> it has handled a completion
    code            \* thread |-> nnti_rc

hardware == <<fate, cq, armed, events>>
signals == <<connects, connecting, pipe>>
call == <<wr, timeout>>
leading == <<remaining, wr_complete, made_progress>>
vars == <<state, hardware, signals, in_progress, pc, call, due, leading, code>>

Pcs == {"idle", "enter", "asleep", "poll_data", "poll_req", "block", "rearm",
        "leave", "check", "finish"}
Codes == {"OK", "ETIMEDOUT", "EINTR", "EIO"}

Complete(w) == state[w] \in {"RDMA_COMPLETE", "WAIT_COMPLETE"}

Init ==
    /\ state = [w \in Requests |-> "STARTED"]
    /\ fate = [w \in Requests |-> "none"]
    /\ cq = [c \in Cqs |-> <<>>]
    /\ armed = [c \in Cqs |-> TRUE]
    /\ events = [c \in Cqs |-> 0]
    /\ connects = 0 /\ connecting = FALSE /\ pipe = 0
    /\ in_progress = FALSE
    /\ pc = [t \in Threads |-> "idle"]
    /\ wr = [t \in Threads |-> NONE]
    /\ timeout = [t \in Threads |-> "infinite"]
    /\ due = [t \in Threads |-> FALSE]
    /\ remaining = [t \in Threads |-> "infinite"]
    /\ wr_complete = [t \in Threads |-> FALSE]
    /\ made_progress = [t \in Threads |-> FALSE]
    /\ code = [t \in Threads |-> "OK"]

-----------------------------------------------------------------------------
(* The surroundings: hardware, peers, other threads, time.                 *)

\* An event per completion while the queue is armed, and the event disarms it.
Notified(c) ==
    /\ events' = [events EXCEPT ![c] = IF armed[c] THEN @ + 1 ELSE @]
    /\ armed' = [armed EXCEPT ![c] = FALSE]

\* The hardware has done a work request, or failed to.
Arrive(w) ==
    /\ fate[w] = "none"
    /\ \E f \in {"ok", "error"} : fate' = [fate EXCEPT ![w] = f]
    /\ cq' = [cq EXCEPT ![CqOf[w]] = Append(@, w)]
    /\ Notified(CqOf[w])
    /\ UNCHANGED <<state, signals, in_progress, pc, call, due, leading, code>>

\* A peer connects to the listening socket.
Connect ==
    /\ connects < MaxConnects
    /\ connects' = connects + 1
    /\ connecting' = TRUE
    /\ UNCHANGED <<state, hardware, pipe, in_progress, pc, call, due, leading, code>>

NNTI_ib_interrupt ==
    /\ pipe < MaxPipe
    /\ pipe' = pipe + 1
    /\ UNCHANGED <<state, hardware, connects, connecting, in_progress, pc, call, due, leading, code>>

TimeRunsOut(t) ==
    /\ pc[t] # "idle"
    /\ timeout[t] = "positive"
    /\ ~due[t]
    /\ due' = [due EXCEPT ![t] = TRUE]
    /\ UNCHANGED <<state, hardware, signals, in_progress, pc, call, leading, code>>

-----------------------------------------------------------------------------
(* progress(): who leads.                                                  *)

Goto(t, p) == pc' = [pc EXCEPT ![t] = p]
Return(t, c) == code' = [code EXCEPT ![t] = c]

\* All of this is under nnti_progress_lock.
Lead(t) ==
    /\ pc[t] = "enter"
    /\ ~in_progress
    /\ wr_complete' = [wr_complete EXCEPT ![t] = Complete(wr[t])]
    /\ in_progress' = TRUE
    /\ made_progress' = [made_progress EXCEPT ![t] = FALSE]
    /\ remaining' = [remaining EXCEPT ![t] = timeout[t]]
    /\ Return(t, "OK")
    /\ Goto(t, "poll_data")
    /\ UNCHANGED <<state, hardware, signals, call, due>>

SleepsUnchecked(t) == timeout[t] # "zero"
Sleeps(t) == ~Complete(wr[t]) /\ timeout[t] # "zero"

Follow(t) ==
    /\ pc[t] = "enter"
    /\ in_progress
    /\ Sleeps(t)
    /\ Goto(t, "asleep")
    /\ UNCHANGED <<state, hardware, signals, in_progress, call, due, leading, code>>

ReturnAtOnce(t) ==
    /\ pc[t] = "enter"
    /\ in_progress
    /\ ~Sleeps(t)
    /\ Return(t, IF Complete(wr[t]) THEN "OK" ELSE "ETIMEDOUT")
    /\ Goto(t, "check")
    /\ UNCHANGED <<state, hardware, signals, in_progress, call, due, leading>>

\* The condition variable may also wake a thread for no reason.
WakeSpuriously(t) ==
    /\ pc[t] = "asleep"
    /\ Return(t, "OK")
    /\ Goto(t, "check")
    /\ UNCHANGED <<state, hardware, signals, in_progress, call, due, leading>>

SleepTimesOut(t) ==
    /\ pc[t] = "asleep"
    /\ due[t]
    /\ Return(t, "ETIMEDOUT")
    /\ Goto(t, "check")
    /\ UNCHANGED <<state, hardware, signals, in_progress, call, due, leading>>

\* The leader clears in_progress and wakes all followers.  Its locals end here.
WokenNone(u, t) == u = t
Woken(u, t) == pc[u] = "asleep" \/ u = t

Leave(t) ==
    /\ pc[t] = "leave"
    /\ in_progress' = FALSE
    /\ pc' = [u \in Threads |-> IF Woken(u, t) THEN "check" ELSE pc[u]]
    /\ code' = [u \in Threads |-> IF pc[u] = "asleep" THEN "OK" ELSE code[u]]
    /\ remaining' = [remaining EXCEPT ![t] = "infinite"]
    /\ wr_complete' = [wr_complete EXCEPT ![t] = FALSE]
    /\ made_progress' = [made_progress EXCEPT ![t] = FALSE]
    /\ UNCHANGED <<state, hardware, signals, call, due>>

-----------------------------------------------------------------------------
(* progress(): what the leader does.                                       *)

PollPc(c) == IF c = "data" THEN "poll_data" ELSE "poll_req"

NextRoundReturns(t, made) == IF made THEN "check" ELSE "block"
\* The end of a round over both queues.
NextRound(t, made) ==
    CASE made -> "leave"
      [] ~made /\ wr_complete[t] -> "poll_data"
      [] OTHER -> "block"

AfterPoll(t, c, made) == IF c = "data" THEN "poll_req" ELSE NextRound(t, made)

\* The listening socket is checked before the queues of a round.
Accepted(c) == connecting' = IF c = "data" THEN FALSE ELSE connecting

PollEmpty(t, c) ==
    /\ pc[t] = PollPc(c)
    /\ cq[c] = <<>>
    /\ Goto(t, AfterPoll(t, c, made_progress[t]))
    /\ Accepted(c)
    /\ UNCHANGED <<state, hardware, connects, pipe, in_progress, call, due, leading, code>>

\* The states process_event gives a request.
Handled(w) == IF fate[w] = "ok" THEN "RDMA_COMPLETE" ELSE "WAIT_COMPLETE"

PollCompletion(t, c) ==
    /\ pc[t] = PollPc(c)
    /\ cq[c] # <<>>
    /\ LET w == Head(cq[c]) IN
         /\ state' = [state EXCEPT ![w] = Handled(w)]
         /\ Return(t, IF fate[w] = "error" THEN "EIO" ELSE code[t])
    /\ cq' = [cq EXCEPT ![c] = Tail(@)]
    /\ made_progress' = [made_progress EXCEPT ![t] = TRUE]
    /\ Goto(t, AfterPoll(t, c, TRUE))
    /\ Accepted(c)
    /\ UNCHANGED <<fate, armed, events, connects, pipe, in_progress, call, due, remaining, wr_complete>>

\* poll() has something to report.
Ready == connecting \/ pipe > 0 \/ \E c \in Cqs : events[c] > 0

\* One event is read from each channel that has some.
ReadEvents == [c \in Cqs |-> IF events[c] > 0 THEN events[c] - 1 ELSE 0]

PollReady(t) ==
    /\ pc[t] = "block"
    /\ Ready
    /\ connecting' = FALSE
    /\ events' = ReadEvents
    /\ pipe' = 0
    /\ Return(t, IF pipe > 0 THEN "EINTR" ELSE "OK")
    /\ Goto(t, "rearm")
    /\ UNCHANGED <<state, fate, cq, armed, connects, in_progress, call, due, leading>>

\* timeout-elapsed_time after poll_all: a negative number means no timeout.
Left(t) ==
    IF due[t] /\ remaining[t] # "infinite" THEN {"zero", "infinite"} ELSE {remaining[t]}

RearmedNot == armed
Rearmed == [c \in Cqs |-> TRUE]

Rearm(t) ==
    /\ pc[t] = "rearm"
    /\ armed' = Rearmed
    /\ \E r \in Left(t) : remaining' = [remaining EXCEPT ![t] = r]
    /\ Goto(t, IF code[t] = "EINTR" THEN "leave" ELSE "poll_data")
    /\ UNCHANGED <<state, fate, cq, events, signals, in_progress, call, due, wr_complete, made_progress, code>>

PollTimesOut(t) ==
    /\ pc[t] = "block"
    /\ ~Ready
    /\ remaining[t] # "infinite" /\ due[t]
    /\ Return(t, "ETIMEDOUT")
    /\ Goto(t, "leave")
    /\ UNCHANGED <<state, hardware, signals, in_progress, call, due, leading>>

-----------------------------------------------------------------------------
(* NNTI_ib_wait around progress().                                         *)

WaitCall(t, w, to) ==
    /\ pc[t] = "idle"
    /\ WaiterOf[w] = t
    /\ state[w] # "consumed"
    /\ to \in Timeouts[t]
    /\ wr' = [wr EXCEPT ![t] = w]
    /\ timeout' = [timeout EXCEPT ![t] = to]
    /\ due' = [due EXCEPT ![t] = (to = "zero")]
    /\ Return(t, "OK")
    /\ Goto(t, IF Complete(w) THEN "finish" ELSE "enter")
    /\ UNCHANGED <<state, hardware, signals, in_progress, leading>>

\* progress() failed or was interrupted: give up without another look.
GiveUp(t) ==
    /\ pc[t] = "check"
    /\ code[t] \in {"EINTR", "EIO"}
    /\ Goto(t, "finish")
    /\ UNCHANGED <<state, hardware, signals, in_progress, call, due, leading, code>>

CheckComplete(t) ==
    /\ pc[t] = "check"
    /\ code[t] \in {"OK", "ETIMEDOUT"}
    /\ Complete(wr[t])
    /\ Return(t, "OK")
    /\ Goto(t, "finish")
    /\ UNCHANGED <<state, hardware, signals, in_progress, call, due, leading>>

CheckTimeout(t) ==
    /\ pc[t] = "check"
    /\ code[t] \in {"OK", "ETIMEDOUT"}
    /\ ~Complete(wr[t])
    /\ IF due[t] THEN Return(t, "ETIMEDOUT") /\ Goto(t, "finish")
                 ELSE UNCHANGED code /\ Goto(t, "enter")
    /\ UNCHANGED <<state, hardware, signals, in_progress, call, due, leading>>

\* The request is looked at once more: if complete, it is gone for the caller.
Finish(t) ==
    /\ pc[t] = "finish"
    /\ state' = IF Complete(wr[t]) THEN [state EXCEPT ![wr[t]] = "consumed"] ELSE state
    /\ timeout' = [timeout EXCEPT ![t] = "infinite"]
    /\ due' = [due EXCEPT ![t] = FALSE]
    /\ Goto(t, "idle")
    /\ UNCHANGED <<hardware, signals, in_progress, wr, leading, code>>

-----------------------------------------------------------------------------
Leader(t) ==
    \/ \E c \in Cqs : PollEmpty(t, c) \/ PollCompletion(t, c)
    \/ PollReady(t) \/ Rearm(t) \/ PollTimesOut(t) \/ Leave(t)

Entry(t) == Lead(t) \/ Follow(t) \/ ReturnAtOnce(t)

Outcome(t) == GiveUp(t) \/ CheckComplete(t) \/ CheckTimeout(t) \/ Finish(t)

Next ==
    \/ \E w \in Requests : Arrive(w)
    \/ Connect
    \/ NNTI_ib_interrupt
    \/ \E t \in Threads :
         \/ \E w \in Requests, to \in AnyTimeout : WaitCall(t, w, to)
         \/ Entry(t) \/ WakeSpuriously(t) \/ SleepTimesOut(t) \/ TimeRunsOut(t)
         \/ Leader(t) \/ Outcome(t)

Spec == Init /\ [][Next]_vars

\* Threads run, locks are fair to them, and time passes.
Fairness ==
    \A t \in Threads :
      /\ WF_vars(Entry(t)) /\ WF_vars(Leader(t)) /\ WF_vars(Outcome(t))
      /\ WF_vars(SleepTimesOut(t)) /\ WF_vars(TimeRunsOut(t))

FairSpec == Spec /\ Fairness

-----------------------------------------------------------------------------
(* Properties.                                                             *)

TypeOK ==
    /\ state \in [Requests -> {"STARTED", "RDMA_COMPLETE", "WAIT_COMPLETE", "consumed"}]
    /\ fate \in [Requests -> {"none", "ok", "error"}]
    /\ cq \in [Cqs -> Seq(Requests)]
    /\ armed \in [Cqs -> BOOLEAN]
    /\ events \in [Cqs -> Nat]
    /\ connects \in Nat /\ connecting \in BOOLEAN /\ pipe \in Nat
    /\ in_progress \in BOOLEAN
    /\ pc \in [Threads -> Pcs]
    /\ wr \in [Threads -> Requests \union {NONE}]
    /\ timeout \in [Threads -> AnyTimeout]
    /\ due \in [Threads -> BOOLEAN]
    /\ remaining \in [Threads -> AnyTimeout]
    /\ wr_complete \in [Threads -> BOOLEAN]
    /\ made_progress \in [Threads -> BOOLEAN]
    /\ code \in [Threads -> Codes]

Leads(t) == pc[t] \in {"poll_data", "poll_req", "block", "rearm", "leave"}

(***************************************************************************)
(* "Only one thread is allowed to make progress at a time": in_progress,   *)
(* which is cleared in one critical section and set in another, with the   *)
(* whole leader's loop outside the lock in between, tells whether there    *)
(* is a leader, and there are never two.                                   *)
(***************************************************************************)
OneLeader ==
    /\ in_progress <=> \E t \in Threads : Leads(t)
    /\ \A t, u \in Threads : Leads(t) /\ Leads(u) => t = u

(***************************************************************************)
(* A leader does not block over a completion: when it is in poll() with a  *)
(* completion in a queue, the queue's channel has an event, so poll()      *)
(* returns.  Queues are polled, left, and armed again at other moments     *)
(* than those at which completions arrive, and a leader takes one          *)
(* completion of a queue and may leave others to the next leader.          *)
(***************************************************************************)
NoMissedCompletion ==
    \A t \in Threads, c \in Cqs : pc[t] = "block" /\ cq[c] # <<>> => events[c] > 0

(***************************************************************************)
(* "All others wait for the progress maker to finish": a thread asleep has *)
(* a leader that will wake it, and if its request is complete that leader  *)
(* is on its way out and will not block first.                             *)
(***************************************************************************)
SleepersAreWoken ==
    \A t \in Threads : pc[t] = "asleep" =>
        \E l \in Threads : Leads(l) /\ (Complete(wr[t]) => made_progress[l])

\* The two ways a leader fails to leave: it goes round without blocking or
\* leaving because its own request was complete when it entered ...
Spins(t) ==
    /\ pc[t] \in {"poll_data", "poll_req"}
    /\ wr_complete[t]
    /\ \A c \in Cqs : cq[c] = <<>>

\* ... or it blocks without a timeout though its caller gave one.
Oversleeps(t) == pc[t] = "block" /\ remaining[t] = "infinite" /\ timeout[t] # "infinite"

(***************************************************************************)
(* Every wait whose request completes, or that has a timeout, returns, but *)
(* for two causes: there is a leader that spins, or one that oversleeps.   *)
(* No other cause exists: not the hand-over of leadership, not a wakeup    *)
(* lost, not an interrupt or a timeout at the wrong moment.                *)
(***************************************************************************)
WaitEnds ==
    \A t \in Threads :
        (pc[t] # "idle" /\ (Complete(wr[t]) \/ timeout[t] # "infinite"))
            ~> (pc[t] = "idle" \/ \E l \in Threads : Spins(l) \/ Oversleeps(l))

=============================================================================
