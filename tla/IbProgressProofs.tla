-------------------------- MODULE IbProgressProofs --------------------------
(***************************************************************************)
(* Proofs about IbProgress, for any number of threads, requests and        *)
(* timeouts: there is one leader, it does not block over a completion, and *)
(* it does not leave a thread asleep.                                      *)
(***************************************************************************)
EXTENDS IbProgress, TLAPS

(***************************************************************************)
(* A queue that is not armed has an event in its channel, or the leader is *)
(* about to arm it: a completion cannot arrive unannounced.                *)
(***************************************************************************)
Announced ==
    \A c \in Cqs : armed[c] \/ events[c] > 0 \/ \E t \in Threads : pc[t] = "rearm"

(***************************************************************************)
(* The queues the leader has found empty in the round it is in have since  *)
(* received nothing, or there is an event that says so.                    *)
(***************************************************************************)
FoundEmpty(t, c) ==
    \/ pc[t] = "poll_req" /\ ~made_progress[t] /\ c = "data"
    \/ pc[t] = "block"

RoundIsGood ==
    \A t \in Threads, c \in Cqs : FoundEmpty(t, c) /\ cq[c] # <<>> => events[c] > 0

-----------------------------------------------------------------------------
(***************************************************************************)
(* The types of the variables, initially and over a step.                  *)
(***************************************************************************)
LEMMA TypeInit == Init => TypeOK
<1> SUFFICES ASSUME Init PROVE TypeOK
  OBVIOUS
<1>1. <<>> \in Seq(Requests)
  OBVIOUS
<1>2. cq \in [Cqs -> Seq(Requests)]
  BY <1>1 DEF Init
<1> QED
  BY <1>2 DEF Init, TypeOK, AnyTimeout, Pcs, Codes

\* No step of a thread, of the hardware or of a peer breaks a type.
LEMMA TypeStep ==
    ASSUME TypeOK, [Next]_vars
    PROVE  TypeOK'
<1> USE DEF TypeOK
<1>1. ASSUME NEW w \in Requests, Arrive(w) PROVE TypeOK'
  <2>1. CqOf[w] \in Cqs
    BY Assumptions DEF Assumptions
  <2>2. fate' \in [Requests -> {"none", "ok", "error"}] /\ cq' \in [Cqs -> Seq(Requests)]
    BY <1>1, <2>1 DEF Arrive
  <2>3. events' \in [Cqs -> Nat] /\ armed' \in [Cqs -> BOOLEAN]
    BY <1>1, <2>1 DEF Arrive, Notified
  <2> QED
    BY <1>1, <2>2, <2>3 DEF Arrive, signals, call, leading
<1>2. CASE Connect
  BY <1>2 DEF Connect, hardware, call, leading
<1>3. CASE NNTI_ib_interrupt
  BY <1>3 DEF NNTI_ib_interrupt, hardware, call, leading
<1>4. ASSUME NEW t \in Threads, NEW w \in Requests, NEW to \in AnyTimeout, WaitCall(t, w, to)
      PROVE  TypeOK'
  <2>1. wr' \in [Threads -> Requests \union {NONE}] /\ timeout' \in [Threads -> AnyTimeout]
    BY <1>4 DEF WaitCall
  <2>2. due' \in [Threads -> BOOLEAN]
    <3>1. (to = "zero") \in BOOLEAN
      OBVIOUS
    <3> QED
      BY <1>4, <3>1, Zenon DEF WaitCall
  <2>3. pc' \in [Threads -> Pcs] /\ code' \in [Threads -> Codes]
    BY <1>4 DEF WaitCall, Return, Goto, Pcs, Codes
  <2> QED
    BY <1>4, <2>1, <2>2, <2>3 DEF WaitCall, hardware, signals, leading
<1>5. ASSUME NEW t \in Threads, Entry(t) PROVE TypeOK'
  <2>1. CASE Lead(t)
    <3>1. Complete(wr[t]) \in BOOLEAN
      BY DEF Complete
    <3>2. wr_complete' \in [Threads -> BOOLEAN]
      BY <2>1, <3>1, Zenon DEF Lead
    <3> QED
      BY <2>1, <3>2 DEF Lead, Return, Goto, Pcs, Codes, hardware, signals, call
  <2>2. CASE Follow(t)
    BY <2>2 DEF Follow, Goto, Pcs, hardware, signals, call, leading
  <2>3. CASE ReturnAtOnce(t)
    BY <2>3 DEF ReturnAtOnce, Return, Goto, Pcs, Codes, hardware, signals, call, leading
  <2> QED
    BY <1>5, <2>1, <2>2, <2>3 DEF Entry
<1>6. ASSUME NEW t \in Threads, WakeSpuriously(t) \/ SleepTimesOut(t) PROVE TypeOK'
  <2>1. CASE WakeSpuriously(t)
    BY <2>1 DEF WakeSpuriously, Return, Goto, Pcs, Codes, hardware, signals, call, leading
  <2>2. CASE SleepTimesOut(t)
    BY <2>2 DEF SleepTimesOut, Return, Goto, Pcs, Codes, hardware, signals, call, leading
  <2> QED
    BY <1>6, <2>1, <2>2
<1>7. ASSUME NEW t \in Threads, TimeRunsOut(t) PROVE TypeOK'
  BY <1>7 DEF TimeRunsOut, hardware, signals, call, leading
<1>8. ASSUME NEW t \in Threads, Leader(t) PROVE TypeOK'
  <2>1. ASSUME NEW c \in Cqs, PollEmpty(t, c) PROVE TypeOK'
    BY <2>1 DEF PollEmpty, PollPc, AfterPoll, NextRound, Accepted, Goto, Pcs, hardware, call, leading
  <2>2. ASSUME NEW c \in Cqs, PollCompletion(t, c) PROVE TypeOK'
    <3>1. Head(cq[c]) \in Requests /\ Tail(cq[c]) \in Seq(Requests)
      BY <2>2 DEF PollCompletion
    <3>2. state' \in [Requests -> {"STARTED", "RDMA_COMPLETE", "WAIT_COMPLETE", "consumed"}]
          /\ code' \in [Threads -> Codes]
      BY <2>2, <3>1 DEF PollCompletion, Handled, Return, Codes
    <3>3. cq' \in [Cqs -> Seq(Requests)]
      BY <2>2, <3>1 DEF PollCompletion
    <3>4. pc' \in [Threads -> Pcs] /\ connecting' \in BOOLEAN /\ made_progress' \in [Threads -> BOOLEAN]
      BY <2>2 DEF PollCompletion, AfterPoll, NextRound, Accepted, Goto, Pcs
    <3> QED
      BY <2>2, <3>2, <3>3, <3>4 DEF PollCompletion, call
  <2>3. CASE PollReady(t)
    <3>1. events' \in [Cqs -> Nat]
      BY <2>3 DEF PollReady, ReadEvents
    <3>2. pc' \in [Threads -> Pcs] /\ code' \in [Threads -> Codes]
      BY <2>3 DEF PollReady, Return, Goto, Pcs, Codes
    <3> QED
      BY <2>3, <3>1, <3>2 DEF PollReady, call, leading
  <2>4. CASE Rearm(t)
    <3>1. remaining' \in [Threads -> AnyTimeout]
      BY <2>4 DEF Rearm, Left, AnyTimeout
    <3>2. armed' \in [Cqs -> BOOLEAN] /\ pc' \in [Threads -> Pcs]
      BY <2>4 DEF Rearm, Rearmed, Goto, Pcs
    <3> QED
      BY <2>4, <3>1, <3>2 DEF Rearm, signals, call
  <2>5. CASE PollTimesOut(t)
    BY <2>5 DEF PollTimesOut, Return, Goto, Pcs, Codes, hardware, signals, call, leading
  <2>6. CASE Leave(t)
    <3>1. pc' \in [Threads -> Pcs] /\ code' \in [Threads -> Codes]
      BY <2>6 DEF Leave, Pcs, Codes
    <3>2. remaining' \in [Threads -> AnyTimeout]
      BY <2>6 DEF Leave, AnyTimeout
    <3>3. /\ in_progress' \in BOOLEAN
          /\ wr_complete' \in [Threads -> BOOLEAN]
          /\ made_progress' \in [Threads -> BOOLEAN]
      BY <2>6 DEF Leave
    <3> QED
      BY <2>6, <3>1, <3>2, <3>3 DEF Leave, hardware, signals, call
  <2> QED
    BY <1>8, <2>1, <2>2, <2>3, <2>4, <2>5, <2>6 DEF Leader
<1>9. ASSUME NEW t \in Threads, Outcome(t) PROVE TypeOK'
  <2>1. CASE GiveUp(t)
    BY <2>1 DEF GiveUp, Goto, Pcs, hardware, signals, call, leading
  <2>2. CASE CheckComplete(t)
    BY <2>2 DEF CheckComplete, Return, Goto, Pcs, Codes, hardware, signals, call, leading
  <2>3. CASE CheckTimeout(t)
    <3>1. pc' \in [Threads -> Pcs] /\ code' \in [Threads -> Codes]
      <4>1. CASE due[t]
        <5>1. /\ pc' = [pc EXCEPT ![t] = "finish"]
              /\ code' = [code EXCEPT ![t] = "ETIMEDOUT"]
          BY <2>3, <4>1 DEF CheckTimeout, Return, Goto
        <5> QED
          BY <5>1 DEF Pcs, Codes
      <4>2. CASE ~due[t]
        BY <2>3, <4>2 DEF CheckTimeout, Goto, Pcs
      <4> QED
        BY <4>1, <4>2
    <3> QED
      BY <2>3, <3>1 DEF CheckTimeout, hardware, signals, call, leading
  <2>4. CASE Finish(t)
    <3>1. state' \in [Requests -> {"STARTED", "RDMA_COMPLETE", "WAIT_COMPLETE", "consumed"}]
      BY <2>4 DEF Finish
    <3>2. due' \in [Threads -> BOOLEAN] /\ timeout' \in [Threads -> AnyTimeout]
      BY <2>4 DEF Finish, AnyTimeout
    <3> QED
      BY <2>4, <3>1, <3>2 DEF Finish, Goto, Pcs, hardware, signals, leading
  <2> QED
    BY <1>9, <2>1, <2>2, <2>3, <2>4 DEF Outcome
<1>10. CASE UNCHANGED vars
  BY <1>10 DEF vars, hardware, signals, call, leading
<1> QED
  BY <1>1, <1>2, <1>3, <1>4, <1>5, <1>6, <1>7, <1>8, <1>9, <1>10 DEF Next

(***************************************************************************)
(* The types of the code's variables hold in every reachable state.        *)
(***************************************************************************)
THEOREM Typing == Spec => []TypeOK
<1>1. TypeOK /\ [Next]_vars => TypeOK'
  BY TypeStep
<1> QED
  BY <1>1, TypeInit, PTL DEF Spec

-----------------------------------------------------------------------------
(* The inductive invariant, and what single steps do to its parts.         *)

Names == \A t \in Threads : pc[t] # "idle" => wr[t] \in Requests

IInv ==
    /\ TypeOK /\ Names
    /\ OneLeader /\ SleepersAreWoken
    /\ Announced /\ RoundIsGood

(***************************************************************************)
(* Only Lead and Leave change who leads.                                   *)
(***************************************************************************)
LEMMA Steady ==
    ASSUME TypeOK, [Next]_vars
    PROVE  \/ \E t \in Threads : Lead(t) \/ Leave(t)
           \/ /\ in_progress' = in_progress
              /\ \A u \in Threads : Leads(u)' <=> Leads(u)
<1> DEFINE Same == in_progress' = in_progress /\ \A u \in Threads : Leads(u)' <=> Leads(u)
<1> USE DEF TypeOK, Leads
<1>1. ASSUME NEW w \in Requests, Arrive(w) PROVE Same
  BY <1>1 DEF Arrive
<1>2. CASE Connect \/ NNTI_ib_interrupt \/ UNCHANGED vars
  BY <1>2 DEF Connect, NNTI_ib_interrupt, vars
<1>3. ASSUME NEW t \in Threads, NEW w \in Requests, NEW to \in AnyTimeout, WaitCall(t, w, to)
      PROVE  Same
  BY <1>3 DEF WaitCall, Goto
<1>4. ASSUME NEW t \in Threads, Follow(t) \/ ReturnAtOnce(t) PROVE Same
  BY <1>4 DEF Follow, ReturnAtOnce, Goto
<1>5. ASSUME NEW t \in Threads, WakeSpuriously(t) \/ SleepTimesOut(t) \/ TimeRunsOut(t) PROVE Same
  BY <1>5 DEF WakeSpuriously, SleepTimesOut, TimeRunsOut, Goto
<1>6. ASSUME NEW t \in Threads, NEW c \in Cqs, PollEmpty(t, c) \/ PollCompletion(t, c) PROVE Same
  BY <1>6 DEF PollEmpty, PollCompletion, PollPc, AfterPoll, NextRound, Goto
<1>7. ASSUME NEW t \in Threads, PollReady(t) \/ Rearm(t) \/ PollTimesOut(t) PROVE Same
  BY <1>7 DEF PollReady, Rearm, PollTimesOut, Goto
<1>8. ASSUME NEW t \in Threads, Outcome(t) PROVE Same
  BY <1>8 DEF Outcome, GiveUp, CheckComplete, CheckTimeout, Finish, Goto
<1> QED
  BY <1>1, <1>2, <1>3, <1>4, <1>5, <1>6, <1>7, <1>8 DEF Next, Entry, Leader

(***************************************************************************)
(* A thread falls asleep in Follow only, and sleeps on one request.        *)
(***************************************************************************)
LEMMA Sleeping ==
    ASSUME TypeOK, [Next]_vars, NEW t \in Threads, pc'[t] = "asleep"
    PROVE  Follow(t) \/ (pc[t] = "asleep" /\ wr'[t] = wr[t])
<1> DEFINE Sleeps0 == pc[t] = "asleep" /\ wr'[t] = wr[t]
<1> USE DEF TypeOK
<1>1. ASSUME NEW w \in Requests, Arrive(w) PROVE Sleeps0
  BY <1>1 DEF Arrive, call
<1>2. CASE Connect \/ NNTI_ib_interrupt \/ UNCHANGED vars
  BY <1>2 DEF Connect, NNTI_ib_interrupt, vars, call
<1>3. ASSUME NEW u \in Threads, NEW w \in Requests, NEW to \in AnyTimeout, WaitCall(u, w, to)
      PROVE  Sleeps0
  BY <1>3 DEF WaitCall, Goto
<1>4. ASSUME NEW u \in Threads, Entry(u) PROVE Follow(t) \/ Sleeps0
  BY <1>4 DEF Entry, Lead, Follow, ReturnAtOnce, Goto, call
<1>5. ASSUME NEW u \in Threads, WakeSpuriously(u) \/ SleepTimesOut(u) \/ TimeRunsOut(u) PROVE Sleeps0
  BY <1>5 DEF WakeSpuriously, SleepTimesOut, TimeRunsOut, Goto, call
<1>6. ASSUME NEW u \in Threads, NEW c \in Cqs, PollEmpty(u, c) \/ PollCompletion(u, c) PROVE Sleeps0
  BY <1>6 DEF PollEmpty, PollCompletion, AfterPoll, NextRound, Goto, call
<1>7. ASSUME NEW u \in Threads, PollReady(u) \/ Rearm(u) \/ PollTimesOut(u) \/ Leave(u) PROVE Sleeps0
  BY <1>7 DEF PollReady, Rearm, PollTimesOut, Leave, Woken, Goto, call
<1>8. ASSUME NEW u \in Threads, Outcome(u) PROVE Sleeps0
  BY <1>8 DEF Outcome, GiveUp, CheckComplete, CheckTimeout, Finish, Goto, call
<1> QED
  BY <1>1, <1>2, <1>3, <1>4, <1>5, <1>6, <1>7, <1>8 DEF Next, Leader

(***************************************************************************)
(* Only a completion that is polled makes a request complete, and leaders  *)
(* remember it until they leave.                                           *)
(***************************************************************************)
LEMMA Completing ==
    ASSUME TypeOK, Names, [Next]_vars
    PROVE  \/ \E t \in Threads : Lead(t) \/ Leave(t)
           \/ \E t \in Threads, c \in Cqs : PollCompletion(t, c)
           \/ /\ made_progress' = made_progress
              /\ \A w \in Requests : Complete(w)' => Complete(w)
<1> DEFINE Same == /\ made_progress' = made_progress
                   /\ \A w \in Requests : Complete(w)' => Complete(w)
<1> USE DEF TypeOK, Complete
<1>1. ASSUME NEW w \in Requests, Arrive(w) PROVE Same
  BY <1>1 DEF Arrive, leading
<1>2. CASE Connect \/ NNTI_ib_interrupt \/ UNCHANGED vars
  BY <1>2 DEF Connect, NNTI_ib_interrupt, vars, leading
<1>3. ASSUME NEW t \in Threads, NEW w \in Requests, NEW to \in AnyTimeout, WaitCall(t, w, to)
      PROVE  Same
  BY <1>3 DEF WaitCall, leading
<1>4. ASSUME NEW t \in Threads, Follow(t) \/ ReturnAtOnce(t) PROVE Same
  BY <1>4 DEF Follow, ReturnAtOnce, leading
<1>5. ASSUME NEW t \in Threads, WakeSpuriously(t) \/ SleepTimesOut(t) \/ TimeRunsOut(t) PROVE Same
  BY <1>5 DEF WakeSpuriously, SleepTimesOut, TimeRunsOut, leading
<1>6. ASSUME NEW t \in Threads, NEW c \in Cqs, PollEmpty(t, c) PROVE Same
  BY <1>6 DEF PollEmpty, leading
<1>7. ASSUME NEW t \in Threads, PollReady(t) \/ Rearm(t) \/ PollTimesOut(t) PROVE Same
  BY <1>7 DEF PollReady, Rearm, PollTimesOut, leading
<1>8. ASSUME NEW t \in Threads, Outcome(t) PROVE Same
  <2>1. CASE GiveUp(t) \/ CheckComplete(t) \/ CheckTimeout(t)
    BY <2>1 DEF GiveUp, CheckComplete, CheckTimeout, leading
  <2>2. CASE Finish(t)
    <3>1. wr[t] \in Requests
      BY <2>2 DEF Finish, Names
    <3> QED
      BY <2>2, <3>1 DEF Finish, leading
  <2> QED
    BY <1>8, <2>1, <2>2 DEF Outcome
<1> QED
  BY <1>1, <1>2, <1>3, <1>4, <1>5, <1>6, <1>7, <1>8 DEF Next, Entry, Leader

-----------------------------------------------------------------------------
(* The parts of the invariant, one by one.                                 *)

\* A thread inside NNTI_ib_wait has named its request in the call.
LEMMA NamesStep ==
    ASSUME TypeOK, Names, [Next]_vars
    PROVE  Names'
<1> USE DEF TypeOK, Names
<1>1. ASSUME NEW w \in Requests, Arrive(w) PROVE Names'
  BY <1>1 DEF Arrive, call
<1>2. CASE Connect \/ NNTI_ib_interrupt \/ UNCHANGED vars
  BY <1>2 DEF Connect, NNTI_ib_interrupt, vars, call
<1>3. ASSUME NEW t \in Threads, NEW w \in Requests, NEW to \in AnyTimeout, WaitCall(t, w, to)
      PROVE  Names'
  BY <1>3 DEF WaitCall, Goto
<1>4. ASSUME NEW t \in Threads, Entry(t) PROVE Names'
  BY <1>4 DEF Entry, Lead, Follow, ReturnAtOnce, Goto, call
<1>5. ASSUME NEW t \in Threads, WakeSpuriously(t) \/ SleepTimesOut(t) \/ TimeRunsOut(t) PROVE Names'
  BY <1>5 DEF WakeSpuriously, SleepTimesOut, TimeRunsOut, Goto, call
<1>6. ASSUME NEW t \in Threads, NEW c \in Cqs, PollEmpty(t, c) \/ PollCompletion(t, c) PROVE Names'
  <2>1. pc[t] # "idle"
    BY <1>6 DEF PollEmpty, PollCompletion, PollPc
  <2> QED
    BY <1>6, <2>1 DEF PollEmpty, PollCompletion, Goto, call
<1>7. ASSUME NEW t \in Threads, PollReady(t) \/ Rearm(t) \/ PollTimesOut(t) \/ Leave(t) PROVE Names'
  <2>1. CASE PollReady(t)
    BY <2>1 DEF PollReady, Goto, call
  <2>2. CASE Rearm(t)
    BY <2>2 DEF Rearm, Goto, call
  <2>3. CASE PollTimesOut(t)
    BY <2>3 DEF PollTimesOut, Goto, call
  <2>4. CASE Leave(t)
    BY <2>4 DEF Leave, Woken, call
  <2> QED
    BY <1>7, <2>1, <2>2, <2>3, <2>4
<1>8. ASSUME NEW t \in Threads, Outcome(t) PROVE Names'
  <2>1. CASE GiveUp(t) \/ CheckComplete(t)
    BY <2>1 DEF GiveUp, CheckComplete, Goto, call
  <2>2. CASE CheckTimeout(t) \/ Finish(t)
    BY <2>2 DEF CheckTimeout, Finish, Goto, call
  <2> QED
    BY <1>8, <2>1, <2>2 DEF Outcome
<1> QED
  BY <1>1, <1>2, <1>3, <1>4, <1>5, <1>6, <1>7, <1>8 DEF Next, Leader

\* in_progress is set by Lead, when there is no leader, and cleared by Leave.
LEMMA LeaderStep ==
    ASSUME TypeOK, OneLeader, [Next]_vars
    PROVE  OneLeader'
<1>1. ASSUME NEW t \in Threads, Lead(t) PROVE OneLeader'
  <2>1. \A u \in Threads : ~Leads(u)
    BY <1>1 DEF Lead, OneLeader
  <2>2. \A u \in Threads : Leads(u)' <=> u = t
    BY <1>1, <2>1 DEF Lead, Goto, Leads, TypeOK
  <2> QED
    BY <1>1, <2>2 DEF Lead, OneLeader
<1>2. ASSUME NEW t \in Threads, Leave(t) PROVE OneLeader'
  <2>1. Leads(t)
    BY <1>2 DEF Leave, Leads
  <2>2. \A u \in Threads : ~Leads(u)'
    BY <1>2, <2>1 DEF Leave, Woken, Leads, OneLeader, TypeOK
  <2> QED
    BY <1>2, <2>2 DEF Leave, OneLeader
<1> QED
  BY <1>1, <1>2, Steady DEF OneLeader

\* Whoever falls asleep finds a leader, whose next completion ends its loop.
LEMMA SleepersStep ==
    ASSUME TypeOK, Names, OneLeader, SleepersAreWoken, [Next]_vars
    PROVE  SleepersAreWoken'
<1> SUFFICES ASSUME NEW t \in Threads, pc'[t] = "asleep"
             PROVE  \E l \in Threads : Leads(l)' /\ (Complete(wr[t])' => made_progress'[l])
  BY DEF SleepersAreWoken
<1>1. ASSUME NEW u \in Threads, Lead(u) PROVE FALSE
  <2>1. pc[t] = "asleep"
    BY <1>1 DEF Lead, Goto, TypeOK
  <2> QED
    BY <1>1, <2>1 DEF Lead, SleepersAreWoken, OneLeader
<1>2. ASSUME NEW u \in Threads, Leave(u) PROVE FALSE
  BY <1>2 DEF Leave, Woken, TypeOK
<1>3. /\ in_progress' = in_progress
      /\ \A u \in Threads : Leads(u)' <=> Leads(u)
  BY <1>1, <1>2, Steady
<1>4. CASE Follow(t)
  <2>1. PICK l \in Threads : Leads(l)
    BY <1>4 DEF Follow, OneLeader
  <2>2. ~Complete(wr[t])'
    BY <1>4 DEF Follow, Sleeps, Complete, call
  <2> QED
    BY <1>3, <2>1, <2>2
<1>5. CASE pc[t] = "asleep" /\ wr'[t] = wr[t]
  <2>1. PICK l \in Threads : Leads(l) /\ (Complete(wr[t]) => made_progress[l])
    BY <1>5 DEF SleepersAreWoken
  <2>2. ASSUME NEW u \in Threads, NEW c \in Cqs, PollCompletion(u, c)
        PROVE  made_progress'[l]
    <3>1. Leads(u)
      BY <2>2 DEF PollCompletion, PollPc, Leads
    <3>2. u = l
      BY <2>1, <3>1 DEF OneLeader
    <3> QED
      BY <2>2, <3>2 DEF PollCompletion, TypeOK
  <2>3. wr[t] \in Requests
    BY <1>5 DEF Names
  <2>4. Complete(wr[t])' => made_progress'[l]
    <3>1. CASE \E u \in Threads, c \in Cqs : PollCompletion(u, c)
      BY <3>1, <2>2
    <3>2. CASE made_progress' = made_progress /\ \A w \in Requests : Complete(w)' => Complete(w)
      BY <3>2, <2>1, <2>3, <1>5 DEF Complete
    <3> QED
      BY <1>1, <1>2, <3>1, <3>2, Completing
  <2> QED
    BY <1>3, <2>1, <2>4
<1> QED
  BY <1>4, <1>5, Sleeping

\* An event is raised where a queue is disarmed, and read before it is armed.
LEMMA AnnouncedStep ==
    ASSUME TypeOK, Announced, [Next]_vars
    PROVE  Announced'
<1> USE DEF TypeOK, Announced
<1>1. ASSUME NEW w \in Requests, Arrive(w) PROVE Announced'
  BY <1>1 DEF Arrive, Notified
<1>2. CASE Connect \/ NNTI_ib_interrupt \/ UNCHANGED vars
  BY <1>2 DEF Connect, NNTI_ib_interrupt, vars, hardware
<1>3. ASSUME NEW t \in Threads, NEW w \in Requests, NEW to \in AnyTimeout, WaitCall(t, w, to)
      PROVE  Announced'
  BY <1>3 DEF WaitCall, Goto, hardware
<1>4. ASSUME NEW t \in Threads, Entry(t) PROVE Announced'
  BY <1>4 DEF Entry, Lead, Follow, ReturnAtOnce, Goto, hardware
<1>5. ASSUME NEW t \in Threads, WakeSpuriously(t) \/ SleepTimesOut(t) \/ TimeRunsOut(t)
      PROVE  Announced'
  BY <1>5 DEF WakeSpuriously, SleepTimesOut, TimeRunsOut, Goto, hardware
<1>6. ASSUME NEW t \in Threads, NEW c \in Cqs, PollEmpty(t, c) \/ PollCompletion(t, c)
      PROVE  Announced'
  <2>1. pc[t] # "rearm"
    BY <1>6 DEF PollEmpty, PollCompletion, PollPc
  <2> QED
    BY <1>6, <2>1 DEF PollEmpty, PollCompletion, Goto, hardware
<1>7. ASSUME NEW t \in Threads, PollReady(t) \/ Rearm(t) PROVE Announced'
  BY <1>7 DEF PollReady, Rearm, Rearmed, Goto
<1>8. ASSUME NEW t \in Threads, PollTimesOut(t) \/ Leave(t) PROVE Announced'
  <2>1. CASE PollTimesOut(t)
    BY <2>1 DEF PollTimesOut, Goto, hardware
  <2>2. CASE Leave(t)
    <3>1. \A u \in Threads : pc[u] = "rearm" => pc'[u] = "rearm"
      BY <2>2 DEF Leave, Woken
    <3> QED
      BY <2>2, <3>1 DEF Leave, hardware
  <2> QED
    BY <1>8, <2>1, <2>2
<1>9. ASSUME NEW t \in Threads, Outcome(t) PROVE Announced'
  <2>1. CASE GiveUp(t) \/ CheckComplete(t)
    BY <2>1 DEF GiveUp, CheckComplete, Goto, hardware
  <2>2. CASE CheckTimeout(t) \/ Finish(t)
    BY <2>2 DEF CheckTimeout, Finish, Goto, hardware
  <2> QED
    BY <1>9, <2>1, <2>2 DEF Outcome
<1> QED
  BY <1>1, <1>2, <1>3, <1>4, <1>5, <1>6, <1>7, <1>8, <1>9 DEF Next, Leader

\* A completion that arrives behind the leader's back raises an event.
LEMMA RoundStep ==
    ASSUME TypeOK, OneLeader, Announced, RoundIsGood, [Next]_vars
    PROVE  RoundIsGood'
<1> SUFFICES ASSUME NEW t \in Threads, NEW c \in Cqs, FoundEmpty(t, c)', cq'[c] # <<>>
             PROVE  events'[c] > 0
  BY DEF RoundIsGood
<1> USE DEF TypeOK
<1>1. ASSUME FoundEmpty(t, c), cq' = cq, events' = events PROVE events'[c] > 0
  BY <1>1 DEF RoundIsGood
<1>2. ASSUME NEW u \in Threads, Leads(u), \A x \in Threads \ {u} : pc'[x] = pc[x] PROVE u = t
  BY <1>2 DEF OneLeader, Leads, FoundEmpty
<1>3. ASSUME NEW w \in Requests, Arrive(w) PROVE events'[c] > 0
  <2>1. FoundEmpty(t, c)
    BY <1>3 DEF Arrive, FoundEmpty, leading
  <2>2. CASE c = CqOf[w]
    <3>1. \A x \in Threads : pc[x] # "rearm"
      BY <2>1 DEF FoundEmpty, OneLeader, Leads
    <3>2. armed[c] \/ events[c] > 0
      BY <3>1 DEF Announced
    <3> QED
      BY <1>3, <2>2, <3>2 DEF Arrive, Notified
  <2>3. CASE c # CqOf[w]
    <3>1. cq'[c] = cq[c] /\ events'[c] = events[c]
      BY <1>3, <2>3, Assumptions DEF Arrive, Notified, Assumptions
    <3> QED
      BY <2>1, <3>1 DEF RoundIsGood
  <2> QED
    BY <2>2, <2>3
<1>4. CASE Connect \/ NNTI_ib_interrupt \/ UNCHANGED vars
  BY <1>1, <1>4 DEF Connect, NNTI_ib_interrupt, vars, hardware, leading, FoundEmpty
<1>5. ASSUME NEW u \in Threads, NEW w \in Requests, NEW to \in AnyTimeout, WaitCall(u, w, to)
      PROVE  events'[c] > 0
  BY <1>1, <1>5 DEF WaitCall, Goto, hardware, leading, FoundEmpty
<1>6. ASSUME NEW u \in Threads, Lead(u) PROVE events'[c] > 0
  BY <1>1, <1>6 DEF Lead, Goto, hardware, FoundEmpty
<1>7. ASSUME NEW u \in Threads, Follow(u) \/ ReturnAtOnce(u) PROVE events'[c] > 0
  BY <1>1, <1>7 DEF Follow, ReturnAtOnce, Goto, hardware, leading, FoundEmpty
<1>8. ASSUME NEW u \in Threads, WakeSpuriously(u) \/ SleepTimesOut(u) \/ TimeRunsOut(u)
      PROVE  events'[c] > 0
  BY <1>1, <1>8 DEF WakeSpuriously, SleepTimesOut, TimeRunsOut, Goto, hardware, leading, FoundEmpty
<1>9. ASSUME NEW u \in Threads, NEW d \in Cqs, PollEmpty(u, d) PROVE events'[c] > 0
  <2>1. u = t
    BY <1>2, <1>9 DEF PollEmpty, PollPc, Leads, Goto
  <2>2. cq[c] # <<>>
    BY <1>9 DEF PollEmpty, hardware
  <2>3. c # d
    BY <1>9, <2>2 DEF PollEmpty
  <2>4. d = "req" /\ c = "data" /\ ~made_progress[t]
    BY <1>9, <2>1, <2>3 DEF PollEmpty, AfterPoll, NextRound, Goto, leading, FoundEmpty, Cqs
  <2>5. FoundEmpty(t, c)
    BY <1>9, <2>1, <2>4 DEF PollEmpty, PollPc, FoundEmpty
  <2> QED
    BY <1>1, <1>9, <2>5 DEF PollEmpty, hardware
<1>10. ASSUME NEW u \in Threads, NEW d \in Cqs, PollCompletion(u, d) PROVE FALSE
  <2>1. u = t
    BY <1>2, <1>10 DEF PollCompletion, PollPc, Leads, Goto
  <2> QED
    BY <1>10, <2>1 DEF PollCompletion, AfterPoll, NextRound, Goto, FoundEmpty
<1>11. ASSUME NEW u \in Threads, PollReady(u) \/ Rearm(u) \/ PollTimesOut(u) PROVE FALSE
  <2>1. u = t
    BY <1>2, <1>11 DEF PollReady, Rearm, PollTimesOut, Leads, Goto
  <2> QED
    BY <1>11, <2>1 DEF PollReady, Rearm, PollTimesOut, Goto, FoundEmpty
<1>12. ASSUME NEW u \in Threads, Leave(u) PROVE FALSE
  <2>1. pc'[t] = pc[t] /\ t # u
    BY <1>12 DEF Leave, Woken, FoundEmpty
  <2> QED
    BY <1>12, <2>1 DEF Leave, OneLeader, Leads, FoundEmpty
<1>13. ASSUME NEW u \in Threads, Outcome(u) PROVE events'[c] > 0
  BY <1>1, <1>13 DEF Outcome, GiveUp, CheckComplete, CheckTimeout, Finish, Goto, hardware, leading,
                     FoundEmpty
<1> QED
  BY <1>3, <1>4, <1>5, <1>6, <1>7, <1>8, <1>9, <1>10, <1>11, <1>12, <1>13 DEF Next, Entry, Leader

-----------------------------------------------------------------------------
(***************************************************************************)
(* The conjunction is inductive: it holds whatever threads call, hardware  *)
(* completes, peers connect and timeouts run out.                          *)
(***************************************************************************)
THEOREM Inductive == Spec => []IInv
<1>1. Init => IInv
  <2> SUFFICES ASSUME Init PROVE IInv
    OBVIOUS
  <2>1. Names /\ SleepersAreWoken /\ Announced /\ RoundIsGood
    BY DEF Init, Names, SleepersAreWoken, Announced, RoundIsGood, FoundEmpty
  <2>2. OneLeader
    BY DEF Init, OneLeader, Leads
  <2>3. TypeOK
    BY TypeInit
  <2> QED
    BY <2>1, <2>2, <2>3 DEF IInv
<1>2. IInv /\ [Next]_vars => IInv'
  BY TypeStep, NamesStep, LeaderStep, SleepersStep, AnnouncedStep, RoundStep DEF IInv
<1> QED
  BY <1>1, <1>2, PTL DEF Spec

(***************************************************************************)
(* in_progress tells whether there is a leader, and there are never two.   *)
(***************************************************************************)
THEOREM LeadersAreUnique == Spec => []OneLeader
<1>1. IInv => OneLeader
  BY DEF IInv
<1> QED
  BY <1>1, Inductive, PTL

(***************************************************************************)
(* No thread is left asleep without a leader, or on a complete request by  *)
(* a leader that may still block.                                          *)
(***************************************************************************)
THEOREM NobodyIsLeftAsleep == Spec => []SleepersAreWoken
<1>1. IInv => SleepersAreWoken
  BY DEF IInv
<1> QED
  BY <1>1, Inductive, PTL

(***************************************************************************)
(* A leader that blocks with a completion in a queue has an event waiting. *)
(***************************************************************************)
THEOREM NoCompletionIsMissed == Spec => []NoMissedCompletion
<1>1. IInv => NoMissedCompletion
  BY DEF IInv, RoundIsGood, FoundEmpty, NoMissedCompletion
<1> QED
  BY <1>1, Inductive, PTL

=============================================================================
