-------------------------- MODULE MpiRequestsProofs --------------------------
(***************************************************************************)
(* That no wait on MPI tests a handle that was freed, and that a request   *)
(* stays in its slot until the server has read it, for any ranks,          *)
(* requests, puts, slots and lists of work requests.                       *)
(***************************************************************************)
EXTENDS MpiRequests, FiniteSetTheorems, SequenceTheorems, WellFoundedInduction, TLAPS

\* Callers wait with waitall for sends only, whose handles complete in one test, and for the queue with wait.
OneByOne ==
    \A t \in Ranks : \A l \in Calls[t] :
        /\ l.call = "waitall" => Range(l.wrs) \subseteq Requests
        /\ QUEUE \in Range(l.wrs) => l.call = "wait"

-----------------------------------------------------------------------------
(* Handles.                                                                *)

\* The rank that waits for a work request.
Owner(w) == IF w = QUEUE THEN SERVER ELSE RankOf[w]

States == {"unposted", "INIT", "RTS_COMPLETE", "COMPLETE", "freed"}

Typed ==
    /\ DOMAIN op_state = Wrs /\ \A w \in Wrs : op_state[w] \in States
    /\ \A r \in Requests : op_state[r] # "RTS_COMPLETE"
    /\ op_state[QUEUE] \in {"INIT", "COMPLETE"}
    /\ DOMAIN request = Wrs /\ \A w \in Wrs : DOMAIN request[w] = Indexes(w)
    /\ DOMAIN thread = Ranks /\ \A t \in Ranks : thread[t].pc \in {"idle", "test", "finish"}
    /\ sends \in [Ranks \X Ports -> Seq(Requests)]

\* A rank is in a call that it may make.
Called ==
    \A t \in Ranks : thread[t].pc # "idle" =>
        \E l \in Calls[t] : l.call = thread[t].call /\ l.wrs = thread[t].wrs

\* What is still to be tested has not been freed.
Handled ==
    /\ \A r \in Requests : op_state[r] = "INIT" => request[r]["send"] # "freed"
    /\ \A p \in Puts : /\ op_state[p] = "INIT" => request[p]["cmd"] # "freed"
                       /\ op_state[p] \in {"INIT", "RTS_COMPLETE"} => request[p]["data"] # "freed"
    /\ \A s \in Slots : request[QUEUE][s] # "freed"

Testing ==
    \A t \in Ranks : thread[t].pc = "test" =>
        \A w \in Range(thread[t].wrs) : op_state[w] \in {"INIT", "RTS_COMPLETE"}

\* A work request is complete while its wait finishes it, and at no other time.
Finishing ==
    \A t \in Ranks : thread[t].pc = "finish" =>
        /\ Finished(thread[t]) \subseteq Range(thread[t].wrs)
        /\ \A w \in Finished(thread[t]) : op_state[w] = "COMPLETE"

FinishedBy(w, t) == thread[t].pc = "finish" /\ w \in Finished(thread[t])
Completing == \A w \in Wrs : op_state[w] = "COMPLETE" => FinishedBy(w, Owner(w))

HInv == Typed /\ Called /\ Handled /\ Testing /\ Finishing /\ Completing

(* Of some natural numbers one is the least. *)
LEMMA Least == ASSUME NEW S, S \subseteq Nat, S # {} PROVE \E n \in S : \A m \in S : n <= m
<1>1. PICK n \in S : \A m \in S : ~(<<m, n>> \in OpToRel(<, Nat))
  BY WFMin, NatLessThanWellFounded
<1>2. ASSUME NEW m \in S PROVE n <= m
  <2>1. ~(m < n)
    BY <1>1 DEF OpToRel
  <2>. QED  BY <2>1
<1>. QED  BY <1>2

\* What a list that may be waited for holds.
ListOf(t, l) ==
    /\ l.wrs \in Seq(Wrs) /\ Len(l.wrs) > 0
    /\ l.call = "wait" <=> Len(l.wrs) = 1
    /\ \A w \in Range(l.wrs) : w \in Wrs /\ Owner(w) = t
    /\ l.call = "waitall" => Range(l.wrs) \subseteq Requests
    /\ QUEUE \in Range(l.wrs) => l.call = "wait"

(* The lists of calls are of work requests of the caller. *)
LEMMA Lists ==
    ASSUME OneByOne, NEW t \in Ranks
    PROVE  /\ \A l \in Calls[t] : ListOf(t, l)
           /\ Called /\ thread[t].pc # "idle" => ListOf(t, thread[t])
<1>1. ASSUME NEW l \in Calls[t] PROVE ListOf(t, l)
  <2>1. /\ l.wrs \in Seq(Wrs) /\ Len(l.wrs) > 0
        /\ l.call = "wait" <=> Len(l.wrs) = 1
        /\ \A w \in Range(l.wrs) : IF w = QUEUE THEN t = SERVER ELSE RankOf[w] = t
    BY Assumptions DEF Assumptions
  <2>2. \A w \in Range(l.wrs) : w \in Wrs
    BY <2>1, ElementOfSeq DEF Range
  <2>. QED  BY <2>1, <2>2 DEF ListOf, Owner, OneByOne
<1>. QED  BY <1>1 DEF Called, ListOf

(* When one work request of a list is complete, a wait for any goes on to finish it; when none is, every
   wait goes on testing. *)
LEMMA GoesOn ==
    ASSUME NEW t \in Ranks, DOMAIN thread = Ranks, NEW state, NEW l, ListOf(t, l), GoOn(t, state, l)
    PROVE  /\ \A u \in Ranks : u # t => thread'[u] = thread[u]
           /\ DOMAIN thread' = Ranks
           /\ thread'[t].call = l.call /\ thread'[t].wrs = l.wrs
           /\ (\A w \in Range(l.wrs) : state[w] # "COMPLETE") => thread'[t].pc = "test"
           /\ (l.call = "waitall" /\ \A w \in Range(l.wrs) : state[w] = "COMPLETE") =>
                thread'[t].pc = "finish" /\ Finished(thread'[t]) = Range(l.wrs)
           /\ \A w \in Range(l.wrs) :
                (l.call # "waitall" /\ state[w] = "COMPLETE" /\ \A v \in Range(l.wrs) : state[v] = "COMPLETE" => v = w)
                  => thread'[t].pc = "finish" /\ Finished(thread'[t]) = {w}
<1>. DEFINE s == l.wrs
            first == FirstComplete(state, l)
            tests == [pc |-> "test", call |-> l.call, wrs |-> s, which |-> 0]
            finishes == [pc |-> "finish", call |-> l.call, wrs |-> s,
                         which |-> IF l.call = "waitall" THEN 0 ELSE first]
            goes == IF ~ListIsComplete(state, l) THEN tests ELSE finishes
<1>1. s \in Seq(Wrs) /\ Len(s) \in Nat /\ Len(s) > 0 /\ DOMAIN s = 1 .. Len(s)
  BY LenProperties DEF ListOf
<1>2. thread' = [thread EXCEPT ![t] = goes]
  BY DEF GoOn
<1>3. thread'[t] = goes /\ DOMAIN thread' = Ranks /\ \A u \in Ranks : u # t => thread'[u] = thread[u]
  BY <1>2
<1>4. goes.call = l.call /\ goes.wrs = s
  OBVIOUS
<1>5. s[1] \in Range(s)
  BY <1>1 DEF Range
<1>6. ASSUME \A w \in Range(s) : state[w] # "COMPLETE" PROVE goes.pc = "test"
  BY <1>5, <1>6 DEF ListIsComplete, IsComplete
<1>7. ASSUME l.call = "waitall", \A w \in Range(s) : state[w] = "COMPLETE"
      PROVE  goes.pc = "finish" /\ Finished(goes) = Range(s)
  BY <1>7 DEF ListIsComplete, IsComplete, Finished
<1>8. ASSUME NEW w \in Range(s), l.call # "waitall", state[w] = "COMPLETE",
             \A v \in Range(s) : state[v] = "COMPLETE" => v = w
      PROVE  goes.pc = "finish" /\ Finished(goes) = {w}
  <2>1. goes = finishes
    BY <1>8 DEF ListIsComplete, IsComplete
  <2>. DEFINE N == {n \in DOMAIN s : state[s[n]] = "COMPLETE"}
  <2>2. N \subseteq Nat /\ N # {}
    BY <1>1, <1>8 DEF Range
  <2>3. PICK n \in N : \A m \in N : n <= m
    BY <2>2, Least
  <2>4. n \in DOMAIN s /\ IsComplete(state, s[n]) /\ \A m \in 1 .. n - 1 : ~IsComplete(state, s[m])
    BY <2>3, <1>1 DEF IsComplete
  <2>5. first \in DOMAIN s /\ IsComplete(state, s[first])
    BY <2>4 DEF FirstComplete
  <2>6. s[first] = w
    BY <2>5, <1>8 DEF IsComplete, Range
  <2>. QED  BY <2>1, <2>6, <1>8 DEF Finished
<1>. HIDE DEF goes
<1>. QED  BY <1>3, <1>4, <1>6, <1>7, <1>8

(* Initially the queue's receives are posted and nothing else is under way. *)
LEMMA InitHInv == OneByOne /\ Init => HInv
<1>. SUFFICES ASSUME Init PROVE HInv
  OBVIOUS
<1>1. /\ op_state = [w \in Wrs |-> IF w = QUEUE THEN "INIT" ELSE "unposted"]
      /\ request = [w \in Wrs |-> [i \in Indexes(w) |-> IF w = QUEUE THEN "active" ELSE "null"]]
      /\ thread = [t \in Ranks |-> Idle]
      /\ sends = [ch \in Ranks \X Ports |-> <<>>]
  BY DEF Init
<1>2. Requests \subseteq Wrs /\ Puts \subseteq Wrs /\ QUEUE \in Wrs /\ QUEUE \notin Requests /\ QUEUE \notin Puts
  BY Assumptions DEF Assumptions, Wrs, Ops
<1>3. Typed
  BY <1>1, <1>2 DEF Typed, Idle, States
<1>4. \A t \in Ranks : thread[t].pc = "idle"
  BY <1>1 DEF Idle
<1>5. Handled
  BY <1>1, <1>2 DEF Handled, Indexes
<1>6. Completing
  BY <1>1 DEF Completing
<1>. QED  BY <1>3, <1>4, <1>5, <1>6 DEF HInv, Called, Testing, Finishing

(* Requests, puts and the queue's work request are different. *)
LEMMA Kinds ==
    /\ Requests \subseteq Wrs /\ Puts \subseteq Wrs /\ QUEUE \in Wrs
    /\ QUEUE \notin Requests /\ QUEUE \notin Puts /\ Requests \cap Puts = {}
    /\ \A w \in Wrs : w \in Requests \/ w \in Puts \/ w = QUEUE
    /\ \A w \in Wrs : Owner(w) \in Ranks
    /\ \A r \in Requests : Indexes(r) = {"send"} /\ Current(r) = {"send"}
    /\ \A p \in Puts : Indexes(p) = {"cmd", "data"} /\ Current(p) \subseteq {"cmd", "data"}
    /\ Indexes(QUEUE) = Slots /\ Current(QUEUE) = Slots
BY Assumptions DEF Assumptions, Wrs, Ops, Owner, Indexes, Current

(* Starting a send or a put completes nothing and frees nothing. *)
LEMMA Starts ==
    ASSUME HInv, NEW w, (w \in Requests /\ NNTI_mpi_send(w)) \/ (w \in Puts /\ NNTI_mpi_put(w))
    PROVE  HInv'
<1>1. /\ w \in Wrs /\ w # QUEUE /\ op_state[w] = "unposted"
      /\ op_state' = [op_state EXCEPT ![w] = "INIT"] /\ thread' = thread
  BY Kinds DEF NNTI_mpi_send, NNTI_mpi_put
<1>2. \A v \in Wrs : op_state'[v] = IF v = w THEN "INIT" ELSE op_state[v]
  BY <1>1 DEF HInv, Typed
<1>3. \A v \in Wrs : v # w => request'[v] = request[v]
  BY DEF NNTI_mpi_send, NNTI_mpi_put, HInv, Typed
<1>4. /\ DOMAIN request' = Wrs /\ DOMAIN request'[w] = Indexes(w)
      /\ \A i \in Indexes(w) : request'[w][i] = "active"
  BY <1>1, Kinds DEF NNTI_mpi_send, NNTI_mpi_put, HInv, Typed
<1>5. sends' \in [Ranks \X Ports -> Seq(Requests)]
  <2>1. CASE w \in Requests /\ NNTI_mpi_send(w)
    <3>. DEFINE ch == <<RankOf[w], RequestTag>>
    <3>1. sends' = [sends EXCEPT ![ch] = Append(sends[ch], w)] /\ w \in Requests
      BY <2>1 DEF NNTI_mpi_send, Issend
    <3>2. ch \in Ranks \X Ports
      BY Assumptions, <1>1, Kinds DEF Assumptions, Ops, Wrs
    <3>. HIDE DEF ch
    <3>3. Append(sends[ch], w) \in Seq(Requests)
      BY <3>1, <3>2, AppendProperties DEF HInv, Typed
    <3>. QED  BY <3>1, <3>3 DEF HInv, Typed
  <2>2. CASE w \in Puts /\ NNTI_mpi_put(w)
    BY <2>2 DEF NNTI_mpi_put, fabric, HInv, Typed
  <2>. QED  BY <2>1, <2>2
<1>6. Typed'
  BY <1>1, <1>2, <1>3, <1>4, <1>5, Kinds DEF HInv, Typed, States
<1>7. Handled'
  <2>1. \A r \in Requests : op_state'[r] = "INIT" => request'[r]["send"] # "freed"
    BY <1>2, <1>3, <1>4, Kinds DEF HInv, Handled
  <2>2. \A p \in Puts : /\ op_state'[p] = "INIT" => request'[p]["cmd"] # "freed"
                        /\ op_state'[p] \in {"INIT", "RTS_COMPLETE"} => request'[p]["data"] # "freed"
    BY <1>2, <1>3, <1>4, Kinds DEF HInv, Handled
  <2>3. \A s \in Slots : request'[QUEUE][s] # "freed"
    BY <1>1, <1>3, Kinds DEF HInv, Handled
  <2>. QED  BY <2>1, <2>2, <2>3 DEF Handled
<1>8. Called' /\ Completing'
  BY <1>1, <1>2 DEF HInv, Called, Completing, FinishedBy
<1>9. \A v : op_state[v] \in {"INIT", "RTS_COMPLETE", "COMPLETE"} => v # w
  BY <1>1
<1>10. Testing'
  <2>. SUFFICES ASSUME NEW t \in Ranks, thread[t].pc = "test", NEW v \in Range(thread[t].wrs)
                PROVE  op_state'[v] \in {"INIT", "RTS_COMPLETE"}
    BY <1>1 DEF Testing
  <2>1. op_state[v] \in {"INIT", "RTS_COMPLETE"}
    BY DEF HInv, Testing
  <2>2. op_state'[v] = op_state[v]
    BY <2>1, <1>1, <1>9
  <2>. QED  BY <2>1, <2>2
<1>11. Finishing'
  <2>. SUFFICES ASSUME NEW t \in Ranks, thread[t].pc = "finish", NEW v \in Finished(thread[t])
                PROVE  op_state'[v] = "COMPLETE"
    BY <1>1 DEF Finishing, HInv
  <2>1. op_state[v] = "COMPLETE"
    BY DEF HInv, Finishing
  <2>. QED  BY <2>1, <1>1, <1>9
<1>. QED  BY <1>6, <1>7, <1>8, <1>10, <1>11 DEF HInv

(* What MPI does frees no handle. *)
LEMMA Delivers ==
    ASSUME HInv, \/ \E c \in Ranks : Transfer(c)
                 \/ \E p \in Puts : \E i \in Indexes(p) : TargetTakes(p, i)
                 \/ Read
    PROVE  HInv'
<1>1. UNCHANGED <<op_state, thread>>
  BY DEF Transfer, TargetTakes, Read
<1>2. /\ sends' \in [Ranks \X Ports -> Seq(Requests)]
      /\ DOMAIN request' = Wrs
      /\ \A w \in Wrs : DOMAIN request'[w] = Indexes(w)
      /\ \A w \in Wrs : \A i \in Indexes(w) : request'[w][i] \in {request[w][i], "done"}
  <2>1. ASSUME NEW c \in Ranks, Transfer(c)
        PROVE  /\ sends' \in [Ranks \X Ports -> Seq(Requests)]
               /\ DOMAIN request' = Wrs
               /\ \A w \in Wrs : DOMAIN request'[w] = Indexes(w)
               /\ \A w \in Wrs : \A i \in Indexes(w) : request'[w][i] \in {request[w][i], "done"}
    <3>. DEFINE ch == <<c, RequestTag>>
                r == MatchedMessage(c, RequestTag)
                s == MatchedReceive(c, RequestTag)
    <3>1. /\ sends' = [sends EXCEPT ![ch] = Tail(sends[ch])] /\ sends[ch] # <<>>
          /\ request' = [request EXCEPT ![r]["send"] = "done", ![QUEUE][s] = "done"]
      BY <2>1 DEF Transfer, Matched, Matchable
    <3>2. ch \in Ranks \X Ports
      BY Assumptions DEF Assumptions
    <3>. HIDE DEF ch, r, s
    <3>3. Tail(sends[ch]) \in Seq(Requests)
      BY <3>1, <3>2, HeadTailProperties DEF HInv, Typed
    <3>. QED  BY <3>1, <3>3 DEF HInv, Typed
  <2>2. ASSUME NEW p \in Puts, NEW i \in Indexes(p), TargetTakes(p, i)
        PROVE  /\ sends' \in [Ranks \X Ports -> Seq(Requests)]
               /\ DOMAIN request' = Wrs
               /\ \A w \in Wrs : DOMAIN request'[w] = Indexes(w)
               /\ \A w \in Wrs : \A j \in Indexes(w) : request'[w][j] \in {request[w][j], "done"}
    BY <2>2 DEF TargetTakes, fabric, HInv, Typed
  <2>3. CASE Read
    BY <2>3 DEF Read, fabric, HInv, Typed
  <2>. QED  BY <2>1, <2>2, <2>3
<1>3. Typed'
  BY <1>1, <1>2 DEF HInv, Typed
<1>4. Handled'
  BY <1>1, <1>2, Kinds DEF HInv, Handled
<1>. QED  BY <1>1, <1>3, <1>4 DEF HInv, Called, Testing, Finishing, Completing, FinishedBy

(* A wait begins with nothing of its rank complete. *)
LEMMA WaitBegins ==
    ASSUME OneByOne, HInv, NEW t \in Ranks, NEW l \in Calls[t], Wait(t, l)
    PROVE  HInv'
<1>1. /\ thread[t].pc = "idle" /\ UNCHANGED <<sends, op_state, request>> /\ GoOn(t, op_state, l)
      /\ \A w \in Range(l.wrs) : op_state[w] \notin {"unposted", "freed"}
  BY DEF Wait, fabric
<1>2. ListOf(t, l)
  BY Lists
<1>3. \A w \in Wrs : op_state[w] = "COMPLETE" => FinishedBy(w, Owner(w))
  BY DEF HInv, Completing
<1>4. \A w \in Range(l.wrs) : op_state[w] \in {"INIT", "RTS_COMPLETE"}
  <2>. SUFFICES ASSUME NEW w \in Range(l.wrs) PROVE op_state[w] \in {"INIT", "RTS_COMPLETE"}
    OBVIOUS
  <2>1. w \in Wrs /\ Owner(w) = t
    BY <1>2 DEF ListOf
  <2>2. op_state[w] # "COMPLETE"
    BY <2>1, <1>1, <1>3 DEF FinishedBy
  <2>3. op_state[w] \in States
    BY <2>1 DEF HInv, Typed
  <2>. QED  BY <2>2, <2>3, <1>1 DEF States
<1>5. /\ \A u \in Ranks : u # t => thread'[u] = thread[u]
      /\ DOMAIN thread' = Ranks
      /\ thread'[t].call = l.call /\ thread'[t].wrs = l.wrs /\ thread'[t].pc = "test"
  <2>1. \A w \in Range(l.wrs) : op_state[w] # "COMPLETE"
    BY <1>4
  <2>2. DOMAIN thread = Ranks
    BY DEF HInv, Typed
  <2>. QED  BY <1>1, <1>2, <2>1, <2>2, GoesOn
<1>6. Typed'
  BY <1>1, <1>5 DEF HInv, Typed
<1>7. Called'
  BY <1>5 DEF HInv, Called
<1>8. Handled'
  BY <1>1 DEF HInv, Handled
<1>9. Testing'
  BY <1>1, <1>4, <1>5 DEF HInv, Testing
<1>10. Finishing'
  BY <1>1, <1>5 DEF HInv, Finishing
<1>11. Completing'
  <2>. SUFFICES ASSUME NEW w \in Wrs, op_state[w] = "COMPLETE" PROVE FinishedBy(w, Owner(w))'
    BY <1>1 DEF Completing
  <2>1. FinishedBy(w, Owner(w)) /\ Owner(w) \in Ranks
    BY <1>3, Kinds
  <2>2. Owner(w) # t
    BY <2>1, <1>1 DEF FinishedBy
  <2>. QED  BY <2>1, <2>2, <1>5 DEF FinishedBy
<1>. QED  BY <1>6, <1>7, <1>8, <1>9, <1>10, <1>11 DEF HInv

\* A test that completes S, all of them of rank t, moves the other work requests of its list nowhere.
Tested(t, S) ==
    /\ thread[t].pc = "test" /\ S \subseteq Range(thread[t].wrs)
    /\ DOMAIN op_state' = Wrs
    /\ \A w \in Wrs : op_state'[w] = IF w \in S THEN "COMPLETE" ELSE op_state[w]
    /\ UNCHANGED sends
    /\ \A u \in Ranks : u # t => thread'[u] = thread[u]
    /\ DOMAIN thread' = Ranks
    /\ thread'[t].call = thread[t].call /\ thread'[t].wrs = thread[t].wrs
    /\ thread'[t].pc = "finish" /\ Finished(thread'[t]) = S
    /\ DOMAIN request' = Wrs /\ \A w \in Wrs : DOMAIN request'[w] = Indexes(w)
    /\ \A w \in Wrs \ S : \A i \in Indexes(w) : request'[w][i] = request[w][i]
    /\ QUEUE \in S => \A s \in Slots : request'[QUEUE][s] # "freed"

(* What a test completes is finished by the wait that tested it. *)
LEMMA TestCompletes ==
    ASSUME OneByOne, HInv, NEW t \in Ranks, NEW S, Tested(t, S)
    PROVE  HInv'
<1>1. ListOf(t, thread[t])
  BY Lists DEF Tested, HInv
<1>2. \A w \in S : w \in Wrs /\ Owner(w) = t
  BY <1>1 DEF ListOf, Tested
<1>3. /\ thread[t].pc = "test" /\ S \subseteq Range(thread[t].wrs)
      /\ \A w \in Wrs : op_state'[w] = IF w \in S THEN "COMPLETE" ELSE op_state[w]
      /\ \A u \in Ranks : u # t => thread'[u] = thread[u]
      /\ thread'[t].call = thread[t].call /\ thread'[t].wrs = thread[t].wrs
      /\ thread'[t].pc = "finish" /\ Finished(thread'[t]) = S
      /\ \A w \in Wrs \ S : \A i \in Indexes(w) : request'[w][i] = request[w][i]
  BY DEF Tested
<1>4. \A u \in Ranks : \A w : (thread[u].pc # "idle" /\ w \in Range(thread[u].wrs)) => w \in Wrs /\ Owner(w) = u
  BY Lists DEF ListOf, HInv
<1>5. Typed'
  <2>1. DOMAIN op_state' = Wrs /\ \A w \in Wrs : op_state'[w] \in States
    BY <1>3 DEF Tested, HInv, Typed, States
  <2>2. \A r \in Requests : op_state'[r] # "RTS_COMPLETE"
    BY <1>3, Kinds DEF HInv, Typed
  <2>3. op_state'[QUEUE] \in {"INIT", "COMPLETE"}
    BY <1>3, Kinds DEF HInv, Typed
  <2>4. \A u \in Ranks : thread'[u].pc \in {"idle", "test", "finish"}
    BY <1>3 DEF HInv, Typed
  <2>. QED  BY <2>1, <2>2, <2>3, <2>4 DEF Tested, HInv, Typed
<1>6. Called'
  BY <1>3 DEF HInv, Called
<1>7. Handled'
  <2>1. \A w \in Wrs : op_state'[w] # "COMPLETE" =>
          op_state'[w] = op_state[w] /\ \A i \in Indexes(w) : request'[w][i] = request[w][i]
    BY <1>3
  <2>2. \A s \in Slots : request'[QUEUE][s] # "freed"
    BY <1>3, Kinds DEF Tested, HInv, Handled
  <2>. QED  BY <2>1, <2>2, Kinds DEF HInv, Handled
<1>8. Testing'
  <2>. SUFFICES ASSUME NEW u \in Ranks, thread'[u].pc = "test", NEW w \in Range(thread'[u].wrs)
                PROVE  op_state'[w] \in {"INIT", "RTS_COMPLETE"}
    BY DEF Testing
  <2>1. u # t /\ thread'[u] = thread[u]
    BY <1>3
  <2>2. w \in Wrs /\ Owner(w) = u
    BY <2>1, <1>4
  <2>3. op_state[w] \in {"INIT", "RTS_COMPLETE"}
    BY <2>1 DEF HInv, Testing
  <2>. QED  BY <2>1, <2>2, <2>3, <1>2, <1>3
<1>9. Finishing'
  <2>. SUFFICES ASSUME NEW u \in Ranks, thread'[u].pc = "finish"
                PROVE  /\ Finished(thread'[u]) \subseteq Range(thread'[u].wrs)
                       /\ \A w \in Finished(thread'[u]) : op_state'[w] = "COMPLETE"
    BY DEF Finishing, Finished
  <2>1. CASE u = t
    BY <2>1, <1>2, <1>3
  <2>2. CASE u # t
    <3>1. thread'[u] = thread[u]
      BY <2>2, <1>3
    <3>2. /\ Finished(thread[u]) \subseteq Range(thread[u].wrs)
          /\ \A w \in Finished(thread[u]) : op_state[w] = "COMPLETE"
      BY <3>1 DEF HInv, Finishing
    <3>. QED  BY <3>1, <3>2, <1>3, <1>4
  <2>. QED  BY <2>1, <2>2
<1>10. Completing'
  <2>. SUFFICES ASSUME NEW w \in Wrs, op_state'[w] = "COMPLETE" PROVE FinishedBy(w, Owner(w))'
    BY DEF Completing
  <2>1. CASE w \in S
    BY <2>1, <1>2, <1>3 DEF FinishedBy
  <2>2. CASE w \notin S
    <3>1. FinishedBy(w, Owner(w)) /\ Owner(w) \in Ranks
      BY <2>2, <1>3, Kinds DEF HInv, Completing
    <3>2. thread'[Owner(w)] = thread[Owner(w)]
      BY <3>1, <1>3 DEF FinishedBy
    <3>. QED  BY <3>1, <3>2 DEF FinishedBy
  <2>. QED  BY <2>1, <2>2
<1>. QED  BY <1>5, <1>6, <1>7, <1>8, <1>9, <1>10 DEF HInv

(* MPI_Testany completes a work request, or the command of a put, whose data is tested next. *)
LEMMA TestAnyKeeps ==
    ASSUME OneByOne, HInv, NEW t \in Ranks, TestAny(t)
    PROVE  HInv'
<1>1. /\ thread[t].pc = "test" /\ thread[t].call # "waitall" /\ sends' = sends
      /\ GoOn(t, op_state', thread[t])
  BY DEF TestAny, fabric
<1>0. PICK w \in Range(thread[t].wrs) : \E i \in Current(w) :
        /\ request[w][i] = "done"
        /\ request' = [request EXCEPT ![w][i] = Done(thread[t].call)]
        /\ op_state' = [op_state EXCEPT ![w] = Advanced(w)]
  BY DEF TestAny
<1>2. PICK i \in Current(w) :
        /\ request[w][i] = "done"
        /\ request' = [request EXCEPT ![w][i] = Done(thread[t].call)]
        /\ op_state' = [op_state EXCEPT ![w] = Advanced(w)]
  BY <1>0
<1>3. ListOf(t, thread[t])
  BY <1>1, Lists DEF HInv
<1>4. w \in Wrs /\ (w = QUEUE => thread[t].call = "wait") /\ \A v \in Range(thread[t].wrs) : v \in Wrs
  BY <1>3 DEF ListOf
<1>5. \A v \in Range(thread[t].wrs) : op_state[v] \in {"INIT", "RTS_COMPLETE"}
  BY <1>1 DEF HInv, Testing
<1>6. /\ DOMAIN op_state' = Wrs
      /\ \A v \in Wrs : op_state'[v] = IF v = w THEN Advanced(w) ELSE op_state[v]
      /\ DOMAIN request' = Wrs /\ \A v \in Wrs : DOMAIN request'[v] = Indexes(v)
      /\ \A v \in Wrs \ {w} : request'[v] = request[v]
      /\ \A j \in Indexes(w) : request'[w][j] = IF j = i THEN Done(thread[t].call) ELSE request[w][j]
  BY <1>2, <1>4 DEF HInv, Typed
<1>7. DOMAIN thread = Ranks
  BY DEF HInv, Typed
<1>8. /\ \A u \in Ranks : u # t => thread'[u] = thread[u]
      /\ DOMAIN thread' = Ranks
      /\ thread'[t].call = thread[t].call /\ thread'[t].wrs = thread[t].wrs
      /\ (\A v \in Range(thread[t].wrs) : op_state'[v] # "COMPLETE") => thread'[t].pc = "test"
      /\ \A x \in Range(thread[t].wrs) :
           (/\ thread[t].call # "waitall" /\ op_state'[x] = "COMPLETE"
            /\ \A v \in Range(thread[t].wrs) : op_state'[v] = "COMPLETE" => v = x)
              => thread'[t].pc = "finish" /\ Finished(thread'[t]) = {x}
  <2>. DEFINE state == op_state'
  <2>1. GoOn(t, state, thread[t])
    BY <1>1
  <2>. HIDE DEF state
  <2>2. /\ \A u \in Ranks : u # t => thread'[u] = thread[u]
        /\ DOMAIN thread' = Ranks
        /\ thread'[t].call = thread[t].call /\ thread'[t].wrs = thread[t].wrs
        /\ (\A v \in Range(thread[t].wrs) : state[v] # "COMPLETE") => thread'[t].pc = "test"
        /\ \A x \in Range(thread[t].wrs) :
             (/\ thread[t].call # "waitall" /\ state[x] = "COMPLETE"
              /\ \A v \in Range(thread[t].wrs) : state[v] = "COMPLETE" => v = x)
                => thread'[t].pc = "finish" /\ Finished(thread'[t]) = {x}
    BY <2>1, <1>3, <1>7, GoesOn
  <2>. QED  BY <2>2 DEF state
<1>9. CASE Advanced(w) = "COMPLETE"
  <2>1. op_state'[w] = "COMPLETE" /\ \A v \in Range(thread[t].wrs) : op_state'[v] = "COMPLETE" => v = w
    BY <1>4, <1>5, <1>6, <1>9
  <2>2. thread'[t].pc = "finish" /\ Finished(thread'[t]) = {w}
    BY <1>1, <1>8, <2>1
  <2>3. w = QUEUE => \A s \in Slots : request'[QUEUE][s] # "freed"
    BY <1>4, <1>6, Kinds DEF Done, HInv, Handled
  <2>4. Tested(t, {w})
    BY <1>1, <1>6, <1>8, <1>9, <2>2, <2>3 DEF Tested
  <2>. QED  BY <2>4, TestCompletes
<1>10. CASE Advanced(w) # "COMPLETE"
  <2>1. w \in Puts /\ op_state[w] = "INIT" /\ op_state'[w] = "RTS_COMPLETE"
    BY <1>4, <1>6, <1>10 DEF Advanced
  <2>2. i = "cmd" /\ w # QUEUE /\ w \notin Requests
    BY <2>1, <1>2, Kinds DEF Current
  <2>3. \A v \in Range(thread[t].wrs) : op_state'[v] \in {"INIT", "RTS_COMPLETE"}
    BY <2>1, <1>4, <1>5, <1>6
  <2>4. thread'[t].pc = "test"
    BY <2>3, <1>8
  <2>5. \A v \in Wrs : v # w => op_state'[v] = op_state[v] /\ request'[v] = request[v]
    BY <1>6
  <2>6. Typed'
    <3>1. \A v \in Wrs : op_state'[v] \in States
      BY <2>1, <2>5 DEF HInv, Typed, States
    <3>2. \A r \in Requests : op_state'[r] # "RTS_COMPLETE"
      BY <2>2, <2>5, Kinds DEF HInv, Typed
    <3>3. op_state'[QUEUE] \in {"INIT", "COMPLETE"}
      BY <2>2, <2>5, Kinds DEF HInv, Typed
    <3>4. \A u \in Ranks : thread'[u].pc \in {"idle", "test", "finish"}
      BY <2>4, <1>8 DEF HInv, Typed
    <3>. QED  BY <3>1, <3>2, <3>3, <3>4, <1>1, <1>6, <1>8 DEF HInv, Typed
  <2>7. Called'
    BY <1>1, <1>8 DEF HInv, Called
  <2>8. Handled'
    <3>1. \A r \in Requests : op_state'[r] = "INIT" => request'[r]["send"] # "freed"
      BY <2>2, <2>5, Kinds DEF HInv, Handled
    <3>2. request'[w]["data"] = request[w]["data"]
      BY <1>6, <2>1, <2>2, Kinds
    <3>3. \A p \in Puts : /\ op_state'[p] = "INIT" => request'[p]["cmd"] # "freed"
                          /\ op_state'[p] \in {"INIT", "RTS_COMPLETE"} => request'[p]["data"] # "freed"
      BY <3>2, <2>1, <2>5, Kinds DEF HInv, Handled
    <3>4. \A s \in Slots : request'[QUEUE][s] # "freed"
      BY <2>2, <2>5, Kinds DEF HInv, Handled
    <3>. QED  BY <3>1, <3>3, <3>4 DEF Handled
  <2>9. \A u \in Ranks : \A v : (thread[u].pc # "idle" /\ v \in Range(thread[u].wrs)) => v \in Wrs /\ Owner(v) = u
    BY Lists DEF ListOf, HInv
  <2>10. Testing'
    <3>. SUFFICES ASSUME NEW u \in Ranks, u # t, thread[u].pc = "test", NEW v \in Range(thread[u].wrs)
                  PROVE  op_state'[v] \in {"INIT", "RTS_COMPLETE"}
      BY <2>3, <1>8 DEF Testing
    <3>1. v \in Wrs
      BY <2>9
    <3>2. op_state[v] \in {"INIT", "RTS_COMPLETE"}
      BY DEF HInv, Testing
    <3>. QED  BY <3>1, <3>2, <2>1, <2>5
  <2>11. Finishing'
    <3>. SUFFICES ASSUME NEW u \in Ranks, thread'[u].pc = "finish"
                  PROVE  /\ Finished(thread'[u]) \subseteq Range(thread'[u].wrs)
                         /\ \A v \in Finished(thread'[u]) : op_state'[v] = "COMPLETE"
      BY DEF Finishing, Finished
    <3>1. u # t /\ thread'[u] = thread[u]
      BY <2>4, <1>8
    <3>2. /\ Finished(thread[u]) \subseteq Range(thread[u].wrs)
          /\ \A v \in Finished(thread[u]) : op_state[v] = "COMPLETE"
      BY <3>1 DEF HInv, Finishing
    <3>. QED  BY <3>1, <3>2, <2>1, <2>5, <2>9
  <2>12. Completing'
    <3>. SUFFICES ASSUME NEW v \in Wrs, op_state'[v] = "COMPLETE" PROVE FinishedBy(v, Owner(v))'
      BY DEF Completing
    <3>1. FinishedBy(v, Owner(v)) /\ Owner(v) \in Ranks
      BY <2>1, <2>5, Kinds DEF HInv, Completing
    <3>2. thread'[Owner(v)] = thread[Owner(v)]
      BY <3>1, <1>1, <1>8 DEF FinishedBy
    <3>. QED  BY <3>1, <3>2 DEF FinishedBy
  <2>. QED  BY <2>6, <2>7, <2>8, <2>10, <2>11, <2>12 DEF HInv
<1>. QED  BY <1>9, <1>10

(* MPI_Testall completes all sends of a list at once. *)
LEMMA TestAllKeeps ==
    ASSUME OneByOne, HInv, NEW t \in Ranks, TestAll(t)
    PROVE  HInv'
<1>. DEFINE S == Range(thread[t].wrs)
<1>1. /\ thread[t].pc = "test" /\ thread[t].call = "waitall" /\ sends' = sends
      /\ op_state' = [w \in Wrs |-> IF w \in S THEN Advanced(w) ELSE op_state[w]]
      /\ GoOn(t, op_state', thread[t])
  BY DEF TestAll, fabric
<1>2. ListOf(t, thread[t]) /\ DOMAIN thread = Ranks
  BY <1>1, Lists DEF HInv, Typed
<1>3. S \subseteq Requests /\ QUEUE \notin S /\ S \subseteq Wrs
  BY <1>1, <1>2, Kinds DEF ListOf
<1>4. \A w \in S : Advanced(w) = "COMPLETE"
  BY <1>3, Kinds DEF Advanced
<1>5. \A w \in Wrs : op_state'[w] = IF w \in S THEN "COMPLETE" ELSE op_state[w]
  BY <1>1, <1>4
<1>6. DOMAIN op_state' = Wrs
  BY <1>1
<1>7. /\ DOMAIN request' = Wrs /\ \A w \in Wrs : DOMAIN request'[w] = Indexes(w)
      /\ \A w \in Wrs \ S : request'[w] = [i \in Indexes(w) |-> request[w][i]]
  BY DEF TestAll
<1>8. \A w \in Wrs \ S : \A i \in Indexes(w) : request'[w][i] = request[w][i]
  BY <1>7
<1>9. /\ \A u \in Ranks : u # t => thread'[u] = thread[u]
      /\ DOMAIN thread' = Ranks
      /\ thread'[t].call = thread[t].call /\ thread'[t].wrs = thread[t].wrs
      /\ thread'[t].pc = "finish" /\ Finished(thread'[t]) = S
  <2>. DEFINE state == op_state'
  <2>1. GoOn(t, state, thread[t]) /\ \A w \in Range(thread[t].wrs) : state[w] = "COMPLETE"
    BY <1>1, <1>3, <1>5
  <2>. HIDE DEF state
  <2>. QED  BY <2>1, <1>1, <1>2, GoesOn
<1>10. Tested(t, S)
  <2>. HIDE DEF S
  <2>1. S \subseteq Range(thread[t].wrs)
    BY DEF S
  <2>. QED  BY <2>1, <1>1, <1>3, <1>5, <1>6, <1>7, <1>8, <1>9 DEF Tested
<1>. HIDE DEF S
<1>. QED  BY <1>10, TestCompletes

\* A wait ends: what it has completed is S, and is freed or begins again.
Ended(t, S) ==
    /\ thread[t].pc # "idle" /\ (thread[t].pc = "finish" => S = Finished(thread[t])) /\ S \subseteq Wrs
    /\ DOMAIN op_state' = Wrs
    /\ \A w \in Wrs : op_state'[w] = IF w \in S THEN (IF w = QUEUE THEN "INIT" ELSE "freed") ELSE op_state[w]
    /\ UNCHANGED sends
    /\ DOMAIN thread' = Ranks /\ \A u \in Ranks : thread'[u] = IF u = t THEN Idle ELSE thread[u]
    /\ DOMAIN request' = Wrs /\ \A w \in Wrs : DOMAIN request'[w] = Indexes(w)
    /\ \A w \in Wrs : w # QUEUE => request'[w] = request[w]
    /\ \A s \in Slots : request'[QUEUE][s] # "freed"
    /\ \A w \in S : Owner(w) = t

(* When a wait ends nothing of its rank is left complete. *)
LEMMA EndKeeps ==
    ASSUME OneByOne, HInv, NEW t \in Ranks, NEW S, Ended(t, S)
    PROVE  HInv'
<1>1. /\ \A w \in Wrs : op_state'[w] = IF w \in S THEN (IF w = QUEUE THEN "INIT" ELSE "freed") ELSE op_state[w]
      /\ \A u \in Ranks : thread'[u] = IF u = t THEN Idle ELSE thread[u]
      /\ \A w \in S : Owner(w) = t
      /\ thread[t].pc = "finish" => S = Finished(thread[t])
      /\ Idle.pc = "idle"
  BY DEF Ended, Idle
<1>2. \A u \in Ranks : \A w : (thread[u].pc # "idle" /\ w \in Range(thread[u].wrs)) => w \in Wrs /\ Owner(w) = u
  BY Lists DEF ListOf, HInv
<1>3. Typed'
  <2>1. \A w \in Wrs : op_state'[w] \in States
    BY <1>1 DEF HInv, Typed, States
  <2>2. \A r \in Requests : op_state'[r] # "RTS_COMPLETE"
    BY <1>1, Kinds DEF HInv, Typed
  <2>3. op_state'[QUEUE] \in {"INIT", "COMPLETE"}
    BY <1>1, Kinds DEF HInv, Typed
  <2>4. \A u \in Ranks : thread'[u].pc \in {"idle", "test", "finish"}
    BY <1>1 DEF HInv, Typed
  <2>. QED  BY <2>1, <2>2, <2>3, <2>4 DEF Ended, HInv, Typed
<1>4. Called'
  BY <1>1 DEF HInv, Called
<1>5. Handled'
  <2>1. \A w \in Wrs : w # QUEUE /\ op_state'[w] # "freed" => request'[w] = request[w] /\ op_state'[w] = op_state[w]
    BY <1>1 DEF Ended
  <2>2. \A s \in Slots : request'[QUEUE][s] # "freed"
    BY DEF Ended
  <2>. QED  BY <2>1, <2>2, Kinds DEF HInv, Handled
<1>6. Testing'
  <2>. SUFFICES ASSUME NEW u \in Ranks, thread'[u].pc = "test", NEW w \in Range(thread'[u].wrs)
                PROVE  op_state'[w] \in {"INIT", "RTS_COMPLETE"}
    BY DEF Testing
  <2>1. u # t /\ thread'[u] = thread[u]
    BY <1>1
  <2>2. w \in Wrs /\ Owner(w) = u /\ op_state[w] \in {"INIT", "RTS_COMPLETE"}
    BY <2>1, <1>2 DEF HInv, Testing
  <2>. QED  BY <2>1, <2>2, <1>1
<1>7. Finishing'
  <2>. SUFFICES ASSUME NEW u \in Ranks, thread'[u].pc = "finish"
                PROVE  /\ Finished(thread'[u]) \subseteq Range(thread'[u].wrs)
                       /\ \A v \in Finished(thread'[u]) : op_state'[v] = "COMPLETE"
    BY DEF Finishing, Finished
  <2>1. u # t /\ thread'[u] = thread[u]
    BY <1>1
  <2>2. /\ Finished(thread[u]) \subseteq Range(thread[u].wrs)
        /\ \A v \in Finished(thread[u]) : op_state[v] = "COMPLETE"
    BY <2>1 DEF HInv, Finishing
  <2>3. \A v \in Finished(thread[u]) : v \in Wrs /\ Owner(v) = u
    BY <2>1, <2>2, <1>2
  <2>. QED  BY <2>1, <2>2, <2>3, <1>1
<1>8. Completing'
  <2>. SUFFICES ASSUME NEW w \in Wrs, op_state'[w] = "COMPLETE" PROVE FinishedBy(w, Owner(w))'
    BY DEF Completing
  <2>1. w \notin S /\ op_state[w] = "COMPLETE"
    BY <1>1
  <2>2. FinishedBy(w, Owner(w)) /\ Owner(w) \in Ranks
    BY <2>1, Kinds DEF HInv, Completing
  <2>3. Owner(w) # t
    BY <2>1, <2>2, <1>1 DEF FinishedBy
  <2>. QED  BY <2>2, <2>3, <1>1 DEF FinishedBy
<1>. QED  BY <1>3, <1>4, <1>5, <1>6, <1>7, <1>8 DEF HInv

(* A wait that times out, or frees what it waited for, or posts its receive again. *)
LEMMA Ends ==
    ASSUME OneByOne, HInv, NEW t \in Ranks, TimedOut(t) \/ FinishOps(t) \/ FinishReceive(t)
    PROVE  HInv'
<1>1. /\ thread[t].pc # "idle" /\ sends' = sends
      /\ thread' = [thread EXCEPT ![t] = Idle]
  BY DEF TimedOut, FinishOps, FinishReceive, fabric
<1>2. DOMAIN thread' = Ranks /\ \A u \in Ranks : thread'[u] = IF u = t THEN Idle ELSE thread[u]
  BY <1>1 DEF HInv, Typed
<1>3. \A w \in Range(thread[t].wrs) : w \in Wrs /\ Owner(w) = t
  BY <1>1, Lists DEF ListOf, HInv
<1>4. /\ DOMAIN request = Wrs /\ DOMAIN op_state = Wrs /\ \A w \in Wrs : DOMAIN request[w] = Indexes(w)
      /\ \A s \in Slots : request[QUEUE][s] # "freed"
  BY DEF HInv, Typed, Handled
<1>5. CASE TimedOut(t)
  <2>1. thread[t].pc = "test" /\ UNCHANGED <<op_state, request>>
    BY <1>5 DEF TimedOut
  <2>2. Ended(t, {})
    BY <2>1, <1>1, <1>2, <1>4 DEF Ended
  <2>. QED  BY <2>2, EndKeeps
<1>6. ASSUME FinishOps(t) \/ FinishReceive(t) PROVE HInv'
  <2>. DEFINE S == Finished(thread[t])
  <2>1. thread[t].pc = "finish" /\ S \subseteq Range(thread[t].wrs)
    BY <1>6 DEF FinishOps, FinishReceive, HInv, Finishing
  <2>2. \A w \in S : w \in Wrs /\ Owner(w) = t
    BY <2>1, <1>3
  <2>3. /\ DOMAIN op_state' = Wrs
        /\ \A w \in Wrs : op_state'[w] = IF w \in S THEN (IF w = QUEUE THEN "INIT" ELSE "freed") ELSE op_state[w]
        /\ DOMAIN request' = Wrs /\ \A w \in Wrs : DOMAIN request'[w] = Indexes(w)
        /\ \A w \in Wrs : w # QUEUE => request'[w] = request[w]
        /\ \A s \in Slots : request'[QUEUE][s] # "freed"
    <3>1. CASE FinishOps(t)
      <4>1. /\ QUEUE \notin S /\ request' = request
            /\ op_state' = [w \in Wrs |-> IF w \in S THEN "freed" ELSE op_state[w]]
        BY <3>1 DEF FinishOps
      <4>. QED  BY <4>1, <1>4
    <3>2. CASE FinishReceive(t)
      <4>1. /\ S = {QUEUE} /\ op_state' = [op_state EXCEPT ![QUEUE] = "INIT"]
            /\ request' = [request EXCEPT ![QUEUE][request_index] = "active"]
        BY <3>2 DEF FinishReceive, Reposted
      <4>. QED  BY <4>1, <1>4, Kinds
    <3>. QED  BY <1>6, <3>1, <3>2
  <2>. HIDE DEF S
  <2>4. S = Finished(thread[t])
    BY DEF S
  <2>5. Ended(t, S)
    BY <2>1, <2>2, <2>3, <2>4, <1>1, <1>2 DEF Ended
  <2>. QED  BY <2>5, EndKeeps
<1>. QED  BY <1>5, <1>6

(* Every step keeps the handles that are still to be tested. *)
LEMMA NextHInv == ASSUME OneByOne, HInv, [Next]_vars PROVE HInv'
<1>1. CASE UNCHANGED vars
  <2>1. UNCHANGED <<sends, op_state, request, thread>>
    BY <1>1 DEF vars
  <2>2. Typed' /\ Called' /\ Handled'
    BY <2>1 DEF HInv, Typed, Called, Handled
  <2>3. Testing' /\ Finishing' /\ Completing'
    BY <2>1 DEF HInv, Testing, Finishing, Completing, FinishedBy, Finished
  <2>. QED  BY <2>2, <2>3 DEF HInv
<1>2. ASSUME NEW r \in Requests, NNTI_mpi_send(r) PROVE HInv'
  BY <1>2, Starts
<1>3. ASSUME NEW p \in Puts, NNTI_mpi_put(p) PROVE HInv'
  BY <1>3, Starts
<1>4. ASSUME NEW t \in Ranks, NEW l \in Calls[t], Wait(t, l) PROVE HInv'
  BY <1>4, WaitBegins
<1>5. ASSUME NEW t \in Ranks, Waiting(t) PROVE HInv'
  BY <1>5, TestAnyKeeps, TestAllKeeps, Ends DEF Waiting
<1>. QED  BY <1>1, <1>2, <1>3, <1>4, <1>5, Delivers DEF Next

(* A work request is tested only while it is under way, and what of it has been freed is not tested again. *)
THEOREM HandlesAreInductive == ASSUME OneByOne PROVE Spec => []HInv
<1>1. Init => HInv
  BY InitHInv
<1>2. HInv /\ [Next]_vars => HInv'
  BY NextHInv
<1>. QED  BY <1>1, <1>2, PTL DEF Spec

(* No test is given a handle that MPI has freed, though waitany and waitall test copies and leave what has
   completed in the work request. *)
THEOREM HandlesStayLive == ASSUME OneByOne PROVE Spec => []HandlesAreLive
<1>1. HInv => HandlesAreLive
  <2>. SUFFICES ASSUME HInv, NEW t \in Ranks, thread[t].pc = "test", NEW w \in Range(thread[t].wrs), NEW i \in Current(w)
                PROVE  request[w][i] # "freed"
    BY DEF HandlesAreLive
  <2>1. w \in Wrs
    BY Lists DEF HInv, ListOf
  <2>2. op_state[w] \in {"INIT", "RTS_COMPLETE"} /\ (w \in Requests => op_state[w] # "RTS_COMPLETE")
    BY DEF HInv, Testing, Typed
  <2>3. CASE w \in Requests
    BY <2>2, <2>3, Kinds DEF HInv, Handled
  <2>4. CASE w \in Puts
    BY <2>2, <2>4, Kinds DEF HInv, Handled, Current
  <2>5. CASE w = QUEUE
    BY <2>5, Kinds DEF HInv, Handled
  <2>. QED  BY <2>1, <2>3, <2>4, <2>5, Kinds
<1>. QED  BY <1>1, HandlesAreInductive, PTL

-----------------------------------------------------------------------------
(* Slots.                                                                  *)

\* Clients have no more requests under way than the queue has slots.
RoomForAll == Window <= Cardinality(Slots)

Posted == recvs[RequestTag]
Sent(c) == sends[<<c, RequestTag>>]
InChannel == {r \in Requests : r \in Range(Sent(RankOf[r]))}

\* The slots without a posted receive.
Full == {s \in Slots : request[QUEUE][s] # "active"}

Shaped ==
    /\ DOMAIN recvs = Ports /\ Posted \in Seq([from : {ANY_SOURCE}, rcv : Slots])
    /\ DOMAIN in_slot = Slots /\ received \in Seq(Requests)

\* Every slot that is not full has one receive posted.
EachPostedOnce ==
    /\ \A i \in DOMAIN Posted : Posted[i].rcv \notin Full
    /\ \A i, j \in DOMAIN Posted : Posted[i].rcv = Posted[j].rcv => i = j
    /\ \A s \in Slots \ Full : \E i \in DOMAIN Posted : Posted[i].rcv = s

\* The slot of the receive that a wait has tested, and no other, is null.
OneTested ==
    /\ op_state[QUEUE] = "COMPLETE" => held = NoSlot /\ request_index \in Slots
    /\ \A s \in Slots : request[QUEUE][s] = "null" <=> op_state[QUEUE] = "COMPLETE" /\ s = request_index
    /\ thread[SERVER].pc # "idle" /\ QUEUE \in Range(thread[SERVER].wrs) => held = NoSlot

\* A full slot has a request of its own that has not been read.
FullAreApart ==
    /\ \A s \in Full : in_slot[s] \in UnderWay \ InChannel
    /\ \A s, u \in Full : in_slot[s] = in_slot[u] => s = u

\* The slot that is held was posted last, and has its request.
HeldIsLast ==
    held # NoSlot =>
        /\ held \in Slots \ Full /\ Posted # <<>> /\ Posted[Len(Posted)].rcv = held
        /\ in_slot[held] = told /\ told \in UnderWay \ InChannel
        /\ \A s \in Full : in_slot[s] # told

\* A request is sent once.
SentOnce ==
    /\ InChannel \subseteq UnderWay
    /\ \A r \in Requests : op_state[r] = "unposted" => r \notin Range(received)
    /\ \A c \in Ranks : /\ \A i \in DOMAIN Sent(c) : RankOf[Sent(c)[i]] = c
                        /\ \A i, j \in DOMAIN Sent(c) : Sent(c)[i] = Sent(c)[j] => i = j

WithinWindow == Cardinality(UnderWay) <= Window

SInv == HInv /\ Shaped /\ EachPostedOnce /\ OneTested /\ FullAreApart /\ HeldIsLast /\ SentOnce /\ WithinWindow

(* The slots have a receive each when the queue is registered. *)
LEMMA SlotsInOrder ==
    LET R == {ReceiveInto(s) : s \in Slots}
        f == SetToSeq(R)
    IN  /\ f \in Seq(R)
        /\ \A i, j \in DOMAIN f : f[i] = f[j] => i = j
        /\ \A r \in R : \E i \in DOMAIN f : f[i] = r
<1>. DEFINE R == {ReceiveInto(s) : s \in Slots}
            g == [s \in Slots |-> ReceiveInto(s)]
            n == Cardinality(R)
<1>1. IsFiniteSet(Slots)
  BY Assumptions DEF Assumptions
<1>2. g \in Surjection(Slots, R)
  <2>1. g \in [Slots -> R] /\ \A r \in R : \E s \in Slots : g[s] = r
    OBVIOUS
  <2>. QED  BY <2>1 DEF Surjection
<1>3. IsFiniteSet(R)
  BY <1>1, <1>2, FS_Surjection
<1>. HIDE DEF R, g
<1>4. n \in Nat /\ \E f : f \in Bijection(1 .. n, R)
  BY <1>3, FS_CardinalityType, FS_NatBijection, FS_CountingElements DEF ExistsBijection
<1>5. \E f \in [1 .. n -> R] : IsInjective(f) /\ \A r \in R : \E i \in 1 .. n : f[i] = r
  BY <1>4 DEF Bijection, Injection, Surjection, IsInjective
<1>6. SetToSeq(R) \in [1 .. n -> R] /\ IsInjective(SetToSeq(R))
  BY <1>5 DEF SetToSeq
<1>. DEFINE f == SetToSeq(R)
<1>7. f \in Injection(1 .. n, R)
  BY <1>6 DEF Injection, IsInjective
<1>8. IsFiniteSet(1 .. n) /\ Cardinality(1 .. n) = n
  BY <1>4, FS_Interval
<1>9. f \in Surjection(1 .. n, R)
  BY <1>3, <1>7, <1>8, FS_Injection
<1>10. \A r \in R : \E i \in 1 .. n : f[i] = r
  BY <1>9 DEF Surjection
<1>11. f \in Seq(R)
  BY <1>4, <1>6, SeqDef
<1>. HIDE DEF f
<1>12. DOMAIN f = 1 .. n
  BY <1>6 DEF f
<1>13. \A i, j \in DOMAIN f : f[i] = f[j] => i = j
  BY <1>6 DEF f, IsInjective
<1>. QED  BY <1>10, <1>11, <1>12, <1>13 DEF f, R

(* No slot is the mark for none, and the queue's tag is a port. *)
LEMMA SlotsAre ==
    /\ NoSlot \notin Slots /\ RequestTag \in Ports /\ SERVER \in Ranks
    /\ IsFiniteSet(Slots) /\ IsFiniteSet(Requests) /\ Window \in Nat
    /\ \A r \in Requests : RankOf[r] \in Ranks
BY Assumptions DEF Assumptions, NoSlot, Ops

(* Initially no slot is full. *)
LEMMA InitSInv == OneByOne /\ Init => SInv
<1>. SUFFICES ASSUME OneByOne, Init PROVE SInv
  OBVIOUS
<1>. DEFINE R == {ReceiveInto(s) : s \in Slots}
            f == SetToSeq(R)
<1>1. /\ sends = [ch \in Ranks \X Ports |-> <<>>]
      /\ recvs = [port \in Ports |-> f]
      /\ op_state = [w \in Wrs |-> IF w = QUEUE THEN "INIT" ELSE "unposted"]
      /\ request = [w \in Wrs |-> [i \in Indexes(w) |-> IF w = QUEUE THEN "active" ELSE "null"]]
      /\ in_slot = [s \in Slots |-> NONE]
      /\ thread = [t \in Ranks |-> Idle]
      /\ held = NoSlot /\ received = <<>>
  BY DEF Init
<1>2. /\ f \in Seq(R) /\ \A i, j \in DOMAIN f : f[i] = f[j] => i = j
      /\ \A r \in R : \E i \in DOMAIN f : f[i] = r
  BY SlotsInOrder
<1>. HIDE DEF f
<1>3. Posted = f
  BY <1>1, SlotsAre DEF Posted
<1>4. \A r : r \in R <=> \E s \in Slots : r = [from |-> ANY_SOURCE, rcv |-> s]
  BY DEF ReceiveInto
<1>5. \A r \in R : r \in [from : {ANY_SOURCE}, rcv : Slots]
  BY <1>4
<1>6. Full = {} /\ \A s \in Slots : request[QUEUE][s] = "active"
  BY <1>1, Kinds DEF Full
<1>7. \A i \in DOMAIN f : f[i] \in R
  BY <1>2, ElementOfSeq
<1>8. EachPostedOnce
  <2>1. \A i, j \in DOMAIN f : f[i].rcv = f[j].rcv => f[i] = f[j]
    BY <1>4, <1>7
  <2>2. ASSUME NEW s \in Slots PROVE \E i \in DOMAIN f : f[i].rcv = s
    <3>1. ReceiveInto(s) \in R /\ ReceiveInto(s).rcv = s
      BY DEF ReceiveInto
    <3>. QED  BY <3>1, <1>2
  <2>. QED  BY <2>1, <2>2, <1>2, <1>3, <1>6 DEF EachPostedOnce
<1>9. Shaped
  <2>1. f \in Seq([from : {ANY_SOURCE}, rcv : Slots])
    BY <1>2, <1>5, SeqMonotonic
  <2>. QED  BY <2>1, <1>1, <1>3 DEF Shaped
<1>10. \A c \in Ranks : Sent(c) = <<>>
  BY <1>1, SlotsAre DEF Sent
<1>11. UnderWay = {} /\ InChannel = {}
  <2>1. UnderWay = {}
    BY <1>1, Kinds DEF UnderWay
  <2>2. Range(<<>>) = {}
    BY DEF Range
  <2>. QED  BY <2>1, <2>2, <1>10, SlotsAre DEF InChannel
<1>12. OneTested
  BY <1>1, <1>6, Kinds, SlotsAre DEF OneTested, Idle
<1>13. FullAreApart /\ HeldIsLast
  BY <1>1, <1>6 DEF FullAreApart, HeldIsLast
<1>14. SentOnce
  <2>1. Range(received) = {}
    BY <1>1 DEF Range
  <2>. QED  BY <2>1, <1>10, <1>11 DEF SentOnce
<1>15. WithinWindow
  BY <1>11, SlotsAre, FS_EmptySet DEF WithinWindow
<1>. QED  BY InitHInv, <1>8, <1>9, <1>12, <1>13, <1>14, <1>15 DEF SInv

\* Nothing of the queue and nothing of what is under way changes.
Quiet ==
    /\ UNCHANGED <<sends, recvs, request_index, in_slot, held, told, received>>
    /\ \A s \in Slots : request'[QUEUE][s] = request[QUEUE][s]
    /\ op_state'[QUEUE] = op_state[QUEUE]
    /\ \A r \in Requests : op_state'[r] = "unposted" <=> op_state[r] = "unposted"
    /\ thread'[SERVER].pc # "idle" /\ QUEUE \in Range(thread'[SERVER].wrs) => held = NoSlot

(* What does not touch the queue leaves its slots in order. *)
LEMMA QuietKeeps == ASSUME SInv, HInv', Quiet PROVE SInv'
<1>1. UnderWay' = UnderWay /\ Full' = Full /\ Posted' = Posted
  BY DEF UnderWay, Full, Posted, Quiet
<1>2. InChannel' = InChannel /\ \A c : Sent(c)' = Sent(c)
  BY DEF InChannel, Sent, Quiet
<1>3. Shaped' /\ EachPostedOnce'
  BY <1>1 DEF SInv, Shaped, EachPostedOnce, Quiet
<1>4. OneTested'
  BY DEF SInv, OneTested, Quiet
<1>5. FullAreApart' /\ HeldIsLast'
  BY <1>1, <1>2 DEF SInv, FullAreApart, HeldIsLast, Quiet
<1>6. SentOnce' /\ WithinWindow'
  BY <1>1, <1>2 DEF SInv, SentOnce, WithinWindow, Quiet
<1>. QED  BY <1>3, <1>4, <1>5, <1>6 DEF SInv

(* A request that is sent is one more under way. *)
LEMMA SendKeeps == ASSUME SInv, HInv', NEW r \in Requests, NNTI_mpi_send(r) PROVE SInv'
<1>. DEFINE c == RankOf[r]
            ch == <<c, RequestTag>>
            s == Sent(c)
<1>1. /\ op_state[r] = "unposted" /\ Cardinality(UnderWay) < Window
      /\ sends' = [sends EXCEPT ![ch] = Append(s, r)]
      /\ UNCHANGED <<recvs, request_index, in_slot, thread, held, told, received>>
  BY DEF NNTI_mpi_send, Issend, application, Sent
<1>2. /\ op_state' = [op_state EXCEPT ![r] = "INIT"]
      /\ request' = [request EXCEPT ![r]["send"] = "active"]
  BY DEF NNTI_mpi_send
<1>3. /\ \A w \in Wrs : op_state'[w] = IF w = r THEN "INIT" ELSE op_state[w]
      /\ \A u \in Slots : request'[QUEUE][u] = request[QUEUE][u]
      /\ op_state'[QUEUE] = op_state[QUEUE]
  BY <1>2, Kinds DEF SInv, HInv, Typed
<1>4. c \in Ranks /\ ch \in Ranks \X Ports /\ s \in Seq(Requests)
  BY SlotsAre DEF SInv, HInv, Typed, Sent
<1>5. /\ Append(s, r) \in Seq(Requests) /\ Len(Append(s, r)) = Len(s) + 1 /\ Len(s) \in Nat
      /\ \A i \in 1 .. Len(s) : Append(s, r)[i] = s[i]
      /\ Append(s, r)[Len(s) + 1] = r
      /\ DOMAIN s = 1 .. Len(s) /\ DOMAIN Append(s, r) = 1 .. Len(s) + 1
  BY <1>4, AppendProperties, LenProperties
<1>6. Sent(c)' = Append(s, r) /\ \A d \in Ranks : d # c => Sent(d)' = Sent(d)
  BY <1>1, <1>4, SlotsAre DEF SInv, HInv, Typed, Sent
<1>7. r \notin UnderWay /\ r \notin InChannel
  BY <1>1 DEF UnderWay, SInv, SentOnce
<1>8. r \notin Range(received)
  BY <1>1 DEF SInv, SentOnce
<1>9. UnderWay' = UnderWay \cup {r}
  <2>1. ASSUME NEW x PROVE x \in UnderWay' <=> x \in UnderWay \/ x = r
    BY <1>1, <1>3, <1>8, Kinds DEF UnderWay
  <2>. QED  BY <2>1
<1>10. \A x \in Range(Append(s, r)) : x \in Range(s) \/ x = r
  <2>. SUFFICES ASSUME NEW i \in DOMAIN Append(s, r) PROVE Append(s, r)[i] \in Range(s) \/ Append(s, r)[i] = r
    BY DEF Range
  <2>1. i \in 1 .. Len(s) \/ i = Len(s) + 1
    BY <1>5
  <2>. QED  BY <2>1, <1>5 DEF Range
<1>11. \A x \in InChannel' : x \in InChannel \/ x = r
  <2>. SUFFICES ASSUME NEW x \in Requests, x \in Range(Sent(RankOf[x])'), x # r PROVE x \in Range(Sent(RankOf[x]))
    BY DEF InChannel
  <2>. QED  BY <1>6, <1>10, SlotsAre
<1>12. Full' = Full /\ Posted' = Posted
  BY <1>1, <1>3 DEF Full, Posted
<1>13. Shaped' /\ EachPostedOnce'
  BY <1>1, <1>12 DEF SInv, Shaped, EachPostedOnce
<1>14. OneTested'
  BY <1>1, <1>3 DEF SInv, OneTested
<1>15. FullAreApart' /\ HeldIsLast'
  <2>1. \A x \in UnderWay \ InChannel : x \in UnderWay' \ InChannel'
    BY <1>7, <1>9, <1>11
  <2>. QED  BY <2>1, <1>1, <1>12 DEF SInv, FullAreApart, HeldIsLast
<1>16. SentOnce'
  <2>1. InChannel' \subseteq UnderWay'
    BY <1>9, <1>11 DEF SInv, SentOnce
  <2>2. \A x \in Requests : op_state'[x] = "unposted" => x \notin Range(received')
    BY <1>1, <1>3, Kinds DEF SInv, SentOnce
  <2>3. ASSUME NEW d \in Ranks
        PROVE  /\ \A i \in DOMAIN Sent(d)' : RankOf[Sent(d)'[i]] = d
               /\ \A i, j \in DOMAIN Sent(d)' : Sent(d)'[i] = Sent(d)'[j] => i = j
    <3>1. /\ \A i \in DOMAIN Sent(d) : RankOf[Sent(d)[i]] = d
          /\ \A i, j \in DOMAIN Sent(d) : Sent(d)[i] = Sent(d)[j] => i = j
      BY DEF SInv, SentOnce
    <3>2. CASE d # c
      BY <3>1, <3>2, <1>6
    <3>3. CASE d = c
      <4>1. r \notin Range(s)
        BY <1>7 DEF InChannel
      <4>2. \A i \in 1 .. Len(s) : s[i] # r
        BY <4>1, <1>5 DEF Range
      <4>. QED  BY <4>2, <3>1, <3>3, <1>5, <1>6
    <3>. QED  BY <3>2, <3>3
  <2>. QED  BY <2>1, <2>2, <2>3 DEF SentOnce
<1>17. WithinWindow'
  <2>1. IsFiniteSet(UnderWay)
    BY SlotsAre, FS_Subset DEF UnderWay
  <2>2. Cardinality(UnderWay') = Cardinality(UnderWay) + 1 /\ Cardinality(UnderWay) \in Nat
    BY <2>1, <1>7, <1>9, FS_AddElement, FS_CardinalityType
  <2>. QED  BY <2>2, <1>1, SlotsAre DEF WithinWindow
<1>. QED  BY <1>13, <1>14, <1>15, <1>16, <1>17 DEF SInv

(* A request goes to the slot posted first.  That is not the slot the server has been told of: the others
   would be full, and with the request there would be more under way than the window lets. *)
LEMMA TransferKeeps ==
    ASSUME RoomForAll, SInv, HInv', NEW c \in Ranks, Transfer(c)
    PROVE  SInv'
<1>. DEFINE ch == <<c, RequestTag>>
            m == Sent(c)
            p == Posted
            r == Head(m)
            s == p[1].rcv
<1>1. ch \in Ranks \X Ports /\ m \in Seq(Requests) /\ p \in Seq([from : {ANY_SOURCE}, rcv : Slots])
  BY SlotsAre DEF SInv, HInv, Typed, Shaped, Sent
<1>2. m # <<>> /\ Fitting(c, RequestTag) # {}
  BY DEF Transfer, Matchable, Sent
<1>3. Len(p) \in Nat /\ DOMAIN p = 1 .. Len(p) /\ \A i \in DOMAIN p : p[i] \in [from : {ANY_SOURCE}, rcv : Slots]
  BY <1>1, LenProperties, ElementOfSeq
<1>4. Fitting(c, RequestTag) = 1 .. Len(p)
  BY <1>3 DEF Fitting, Posted
<1>5. FirstFitting(c, RequestTag) = 1 /\ 1 \in DOMAIN p
  <2>1. 1 \in 1 .. Len(p)
    BY <1>2, <1>3, <1>4
  <2>2. \A i \in 1 .. Len(p) : 1 <= i
    OBVIOUS
  <2>3. \A i \in 1 .. Len(p) : (\A j \in 1 .. Len(p) : i <= j) => i = 1
    BY <2>1
  <2>4. FirstFitting(c, RequestTag) = CHOOSE i \in 1 .. Len(p) : \A j \in 1 .. Len(p) : i <= j
    BY <1>4 DEF FirstFitting
  <2>. HIDE DEF p
  <2>. QED  BY <1>3, <2>1, <2>2, <2>3, <2>4
<1>6. MatchedMessage(c, RequestTag) = r /\ MatchedReceive(c, RequestTag) = s
  BY <1>5 DEF MatchedMessage, MatchedReceive, Sent, Posted
<1>7. /\ sends' = [sends EXCEPT ![ch] = Tail(m)]
      /\ recvs' = [recvs EXCEPT ![RequestTag] = RemoveAt(p, 1)]
      /\ request' = [request EXCEPT ![r]["send"] = "done", ![QUEUE][s] = "done"]
      /\ in_slot' = [in_slot EXCEPT ![s] = r]
      /\ UNCHANGED <<op_state, request_index, thread, held, told, received>>
  BY <1>5, <1>6 DEF Transfer, Matched, application, Sent, Posted
<1>8. /\ r \in Requests /\ Tail(m) \in Seq(Requests) /\ Len(m) \in Nat /\ DOMAIN m = 1 .. Len(m)
      /\ r = m[1] /\ 1 \in DOMAIN m
      /\ Len(Tail(m)) = Len(m) - 1 /\ DOMAIN Tail(m) = 1 .. Len(m) - 1
      /\ \A i \in 1 .. Len(m) - 1 : Tail(m)[i] = m[i + 1]
  <2>. HIDE DEF m
  <2>1. Len(m) \in Nat /\ DOMAIN m = 1 .. Len(m) /\ Len(m) # 0
    BY <1>1, <1>2, LenProperties, EmptySeq
  <2>2. r \in Requests /\ Tail(m) \in Seq(Requests) /\ Len(Tail(m)) = Len(m) - 1
        /\ \A i \in 1 .. Len(Tail(m)) : Tail(m)[i] = m[i + 1]
    BY <1>1, <1>2, HeadTailProperties DEF m
  <2>3. DOMAIN Tail(m) = 1 .. Len(Tail(m))
    BY <2>2, LenProperties
  <2>. QED  BY <1>1, <2>1, <2>2, <2>3
<1>9. /\ s \in Slots
      /\ RemoveAt(p, 1) \in Seq([from : {ANY_SOURCE}, rcv : Slots])
      /\ Len(RemoveAt(p, 1)) = Len(p) - 1 /\ DOMAIN RemoveAt(p, 1) = 1 .. Len(p) - 1
      /\ \A i \in 1 .. Len(p) - 1 : RemoveAt(p, 1)[i] = p[i + 1]
  <2>. HIDE DEF p
  <2>1. SubSeq(p, 1, 0) = <<>>
    BY <1>1
  <2>2. RemoveAt(p, 1) = <<>> \o SubSeq(p, 2, Len(p))
    BY <2>1, <1>3 DEF RemoveAt
  <2>3. Len(p) >= 1
    BY <1>3, <1>5
  <2>4. /\ SubSeq(p, 2, Len(p)) \in Seq([from : {ANY_SOURCE}, rcv : Slots])
        /\ Len(SubSeq(p, 2, Len(p))) = Len(p) - 1
        /\ \A i \in 1 .. Len(p) - 1 : SubSeq(p, 2, Len(p))[i] = p[i + 1]
    <3>. DEFINE S == [from : {ANY_SOURCE}, rcv : Slots]
                n == Len(p)
    <3>1. p \in Seq(S) /\ n \in Nat /\ n >= 1 /\ n = Len(p)
      BY <1>1, <1>3, <2>3
    <3>. HIDE DEF S, n
    <3>2. /\ 2 \in 1 .. n + 1 /\ n \in 2 - 1 .. n
      BY <3>1
    <3>3. /\ SubSeq(p, 2, n) \in Seq(S)
          /\ Len(SubSeq(p, 2, n)) = n - 2 + 1
          /\ \A i \in 1 .. n - 2 + 1 : SubSeq(p, 2, n)[i] = p[2 + i - 1]
      BY <3>1, <3>2, SubSeqProperties
    <3>4. n - 2 + 1 = n - 1 /\ \A i \in 1 .. n - 1 : 2 + i - 1 = i + 1
      BY <3>1
    <3>. QED  BY <3>3, <3>4 DEF S, n
  <2>5. RemoveAt(p, 1) = SubSeq(p, 2, Len(p))
    BY <2>2, <2>4, ConcatEmptySeq
  <2>6. DOMAIN RemoveAt(p, 1) = 1 .. Len(p) - 1
    BY <2>4, <2>5, LenProperties
  <2>. QED  BY <2>4, <2>5, <2>6, <1>3, <1>5
<1>10. /\ Posted' = RemoveAt(p, 1) /\ Sent(c)' = Tail(m)
       /\ \A d \in Ranks : d # c => Sent(d)' = Sent(d)
  BY <1>1, <1>7, SlotsAre DEF SInv, HInv, Typed, Shaped, Posted, Sent
<1>11. RankOf[r] = c /\ r \in InChannel /\ r \in UnderWay
  <2>1. RankOf[r] = c
    BY <1>8 DEF SInv, SentOnce
  <2>2. r \in Range(m)
    BY <1>8 DEF Range
  <2>. QED  BY <2>1, <2>2, <1>8 DEF InChannel, SInv, SentOnce
<1>. HIDE DEF ch, m, p, r, s
<1>12. /\ \A i, j \in DOMAIN p : p[i].rcv = p[j].rcv => i = j
       /\ \A i \in DOMAIN p : p[i].rcv \notin Full
       /\ \A u \in Slots \ Full : \E i \in DOMAIN p : p[i].rcv = u
  BY DEF SInv, EachPostedOnce, p
<1>13. s \in Slots \ Full /\ \A i \in DOMAIN p : p[i].rcv = s => i = 1
  BY <1>5, <1>9, <1>12 DEF s
<1>14. r # QUEUE /\ QUEUE \in Wrs /\ r \in Wrs
  BY <1>8, Kinds
<1>15. \A u \in Slots : request'[QUEUE][u] = IF u = s THEN "done" ELSE request[QUEUE][u]
  BY <1>7, <1>9, <1>14, Kinds DEF SInv, HInv, Typed
<1>16. Full' = Full \cup {s}
  <2>1. ASSUME NEW u PROVE u \in Full' <=> u \in Full \/ u = s
    BY <1>9, <1>15 DEF Full
  <2>. QED  BY <2>1
<1>17. UnderWay' = UnderWay
  BY <1>7 DEF UnderWay
<1>18. InChannel' = InChannel \ {r}
  <2>1. ASSUME NEW x \in Requests PROVE x \in InChannel' <=> x \in InChannel /\ x # r
    <3>1. x \in InChannel' <=> x \in Range(Sent(RankOf[x])')
      BY DEF InChannel
    <3>2. CASE RankOf[x] # c
      BY <3>1, <3>2, <1>10, <1>11, SlotsAre DEF InChannel
    <3>3. CASE RankOf[x] = c
      <4>1. x \in InChannel <=> x \in Range(m)
        BY <3>3 DEF InChannel, m
      <4>2. x \in InChannel' <=> x \in Range(Tail(m))
        BY <3>1, <3>3, <1>10
      <4>3. x \in Range(Tail(m)) <=> \E i \in 1 .. Len(m) - 1 : m[i + 1] = x
        BY <1>8 DEF Range
      <4>4. x \in Range(m) <=> \E i \in 1 .. Len(m) : m[i] = x
        BY <1>8 DEF Range
      <4>5. \A i, j \in 1 .. Len(m) : m[i] = m[j] => i = j
        BY <1>8 DEF SInv, SentOnce, m
      <4>6. ASSUME NEW i \in 1 .. Len(m), m[i] = x, x # r PROVE \E j \in 1 .. Len(m) - 1 : m[j + 1] = x
        <5>1. i # 1 /\ i - 1 \in 1 .. Len(m) - 1 /\ (i - 1) + 1 = i
          BY <4>6, <1>8
        <5>. QED  BY <5>1, <4>6
      <4>7. ASSUME NEW i \in 1 .. Len(m) - 1, m[i + 1] = x PROVE x # r /\ x \in Range(m)
        <5>1. i + 1 \in 1 .. Len(m) /\ i + 1 # 1 /\ 1 \in 1 .. Len(m)
          BY <1>8
        <5>. QED  BY <5>1, <4>4, <4>5, <4>7, <1>8
      <4>. QED  BY <4>1, <4>2, <4>3, <4>4, <4>6, <4>7
    <3>. QED  BY <3>2, <3>3
  <2>. QED  BY <2>1 DEF InChannel
<1>19. Shaped'
  BY <1>7, <1>8, <1>9, <1>10 DEF SInv, Shaped
<1>20. EachPostedOnce'
  <2>1. \A i \in 1 .. Len(p) - 1 : i + 1 \in 1 .. Len(p) /\ i + 1 # 1
    BY <1>3
  <2>2. \A i \in DOMAIN Posted' : Posted'[i].rcv \notin Full'
    <3>. SUFFICES ASSUME NEW i \in DOMAIN Posted' PROVE Posted'[i].rcv \notin Full \cup {s}
      BY <1>16
    <3>1. i \in 1 .. Len(p) - 1 /\ Posted'[i] = p[i + 1]
      BY <1>3, <1>9, <1>10
    <3>2. i + 1 \in 1 .. Len(p) /\ i + 1 # 1
      BY <3>1, <2>1
    <3>. QED  BY <3>1, <3>2, <1>3, <1>12, <1>13
  <2>3. ASSUME NEW i \in DOMAIN Posted', NEW j \in DOMAIN Posted', Posted'[i].rcv = Posted'[j].rcv PROVE i = j
    <3>1. i \in 1 .. Len(p) - 1 /\ j \in 1 .. Len(p) - 1 /\ p[i + 1].rcv = p[j + 1].rcv
      BY <2>3, <1>9, <1>10
    <3>2. i + 1 = j + 1
      BY <2>1, <3>1, <1>3, <1>12
    <3>. QED  BY <3>1, <3>2
  <2>4. ASSUME NEW u \in Slots \ Full' PROVE \E i \in DOMAIN Posted' : Posted'[i].rcv = u
    <3>1. u \in Slots \ Full /\ u # s
      BY <1>16
    <3>2. PICK i \in DOMAIN p : p[i].rcv = u
      BY <3>1, <1>12
    <3>3. i # 1
      BY <3>1, <3>2 DEF s
    <3>4. i - 1 \in 1 .. Len(p) - 1 /\ (i - 1) + 1 = i
      BY <3>3, <1>3
    <3>. QED  BY <3>2, <3>4, <1>9, <1>10
  <2>. QED  BY <2>2, <2>3, <2>4 DEF EachPostedOnce
<1>21. OneTested'
  <2>1. /\ op_state[QUEUE] = "COMPLETE" => held = NoSlot /\ request_index \in Slots
        /\ \A u \in Slots : request[QUEUE][u] = "null" <=> op_state[QUEUE] = "COMPLETE" /\ u = request_index
        /\ thread[SERVER].pc # "idle" /\ QUEUE \in Range(thread[SERVER].wrs) => held = NoSlot
    BY DEF SInv, OneTested
  <2>2. request[QUEUE][s] = "active"
    BY <1>13 DEF Full
  <2>3. ASSUME NEW u \in Slots PROVE request'[QUEUE][u] = "null" <=> op_state[QUEUE] = "COMPLETE" /\ u = request_index
    BY <2>1, <2>2, <1>15
  <2>. QED  BY <2>1, <2>3, <1>7 DEF OneTested
<1>22. \A u \in Slots : in_slot'[u] = IF u = s THEN r ELSE in_slot[u]
  BY <1>7, <1>9 DEF SInv, Shaped
<1>23. FullAreApart'
  <2>1. /\ \A u \in Full : in_slot[u] \in UnderWay \ InChannel
        /\ \A u, v \in Full : in_slot[u] = in_slot[v] => u = v
    BY DEF SInv, FullAreApart
  <2>2. Full \subseteq Slots
    BY DEF Full
  <2>. QED  BY <2>1, <2>2, <1>11, <1>13, <1>16, <1>17, <1>18, <1>22 DEF FullAreApart
<1>24. HeldIsLast'
  <2>. SUFFICES ASSUME held # NoSlot
                PROVE  /\ held \in Slots \ Full' /\ Posted' # <<>> /\ Posted'[Len(Posted')].rcv = held
                       /\ in_slot'[held] = told /\ told \in UnderWay' \ InChannel'
                       /\ \A u \in Full' : in_slot'[u] # told
    BY <1>7 DEF HeldIsLast
  <2>1. /\ held \in Slots \ Full /\ p[Len(p)].rcv = held
        /\ in_slot[held] = told /\ told \in UnderWay \ InChannel
        /\ \A u \in Full : in_slot[u] # told
    BY DEF SInv, HeldIsLast, p
  <2>2. held # s
    <3>. SUFFICES ASSUME held = s PROVE FALSE
      OBVIOUS
    <3>1. Len(p) = 1
      BY <2>1, <1>3, <1>5, <1>13
    <3>2. ASSUME NEW u \in Slots, u # held PROVE u \in Full
      <4>. SUFFICES ASSUME u \notin Full PROVE FALSE
        OBVIOUS
      <4>1. PICK i \in DOMAIN p : p[i].rcv = u
        BY <1>12
      <4>2. i = 1
        BY <3>1, <1>3
      <4>. QED  BY <4>1, <4>2, <3>2 DEF s
    <3>. DEFINE T == UnderWay \ {r}
                f == [u \in Slots |-> IF u = held THEN told ELSE in_slot[u]]
    <3>3. \A u \in Full : in_slot[u] \in UnderWay \ InChannel
      BY DEF SInv, FullAreApart
    <3>4. f \in [Slots -> T]
      BY <3>2, <3>3, <2>1, <1>11
    <3>5. \A u, v \in Slots : f[u] = f[v] => u = v
      BY <3>2, <2>1 DEF SInv, FullAreApart
    <3>6. f \in Injection(Slots, T)
      BY <3>4, <3>5 DEF Injection, IsInjective
    <3>7. IsFiniteSet(UnderWay)
      BY SlotsAre, FS_Subset DEF UnderWay
    <3>. HIDE DEF T, f
    <3>8. T = UnderWay \ {r}
      BY DEF T
    <3>9. IsFiniteSet(T) /\ Cardinality(T) = Cardinality(UnderWay) - 1
      BY <3>7, <3>8, <1>11, FS_RemoveElement
    <3>10. Cardinality(Slots) <= Cardinality(T)
      BY <3>6, <3>9, FS_Injection
    <3>11. Cardinality(UnderWay) <= Window /\ Window <= Cardinality(Slots)
      BY DEF SInv, WithinWindow, RoomForAll
    <3>12. Cardinality(UnderWay) \in Nat /\ Cardinality(Slots) \in Nat
      BY <3>7, SlotsAre, FS_CardinalityType
    <3>. QED  BY <3>9, <3>10, <3>11, <3>12, SlotsAre
  <2>3. Len(p) # 1
    BY <2>1, <2>2 DEF s
  <2>4. Len(p) - 1 \in 1 .. Len(p) - 1 /\ (Len(p) - 1) + 1 = Len(p)
    BY <2>3, <1>3, <1>5
  <2>5. Posted' # <<>> /\ Posted'[Len(Posted')].rcv = held
    <3>1. Len(Posted') = Len(p) - 1 /\ Posted'[Len(p) - 1] = p[Len(p)]
      BY <2>4, <1>9, <1>10
    <3>2. Len(Posted') # 0
      BY <3>1, <2>3, <2>4, <1>3
    <3>. QED  BY <3>1, <3>2, <2>1
  <2>6. \A u \in Full' : in_slot'[u] # told
    BY <2>1, <1>11, <1>13, <1>16, <1>22 DEF Full
  <2>. QED  BY <2>1, <2>2, <2>5, <2>6, <1>11, <1>16, <1>17, <1>18, <1>22
<1>25. SentOnce'
  <2>1. InChannel' \subseteq UnderWay'
    BY <1>17, <1>18 DEF SInv, SentOnce
  <2>2. \A x \in Requests : op_state'[x] = "unposted" => x \notin Range(received')
    BY <1>7 DEF SInv, SentOnce
  <2>3. ASSUME NEW d \in Ranks
        PROVE  /\ \A i \in DOMAIN Sent(d)' : RankOf[Sent(d)'[i]] = d
               /\ \A i, j \in DOMAIN Sent(d)' : Sent(d)'[i] = Sent(d)'[j] => i = j
    <3>1. /\ \A i \in DOMAIN Sent(d) : RankOf[Sent(d)[i]] = d
          /\ \A i, j \in DOMAIN Sent(d) : Sent(d)[i] = Sent(d)[j] => i = j
      BY DEF SInv, SentOnce
    <3>2. CASE d # c
      BY <3>1, <3>2, <1>10
    <3>3. CASE d = c
      <4>1. /\ \A i \in 1 .. Len(m) : RankOf[m[i]] = c
            /\ \A i, j \in 1 .. Len(m) : m[i] = m[j] => i = j
        BY <3>1, <3>3, <1>8 DEF m
      <4>2. Sent(d)' = Tail(m)
        BY <3>3, <1>10
      <4>3. \A i \in 1 .. Len(m) - 1 : i + 1 \in 1 .. Len(m) /\ Tail(m)[i] = m[i + 1]
        BY <1>8
      <4>4. \A i, j \in 1 .. Len(m) - 1 : i + 1 = j + 1 => i = j
        BY <1>8
      <4>. QED  BY <4>1, <4>2, <4>3, <4>4, <3>3, <1>8
    <3>. QED  BY <3>2, <3>3
  <2>. QED  BY <2>1, <2>2, <2>3 DEF SentOnce
<1>26. WithinWindow'
  BY <1>17 DEF SInv, WithinWindow
<1>. QED  BY <1>19, <1>20, <1>21, <1>23, <1>24, <1>25, <1>26 DEF SInv

(* A wait for the queue is the server's, and is for nothing else. *)
LEMMA QueueAlone ==
    ASSUME OneByOne, HInv, NEW t \in Ranks, thread[t].pc # "idle", QUEUE \in Range(thread[t].wrs)
    PROVE  t = SERVER /\ thread[t].call = "wait" /\ \A w \in Range(thread[t].wrs) : w = QUEUE
<1>. DEFINE l == thread[t].wrs
<1>1. l \in Seq(Wrs) /\ thread[t].call = "wait" /\ Len(l) = 1 /\ Owner(QUEUE) = t
  BY Lists DEF HInv, ListOf
<1>2. DOMAIN l = {1}
  <2>1. DOMAIN l = 1 .. Len(l)
    BY <1>1, LenProperties
  <2>. QED  BY <2>1, <1>1
<1>. QED  BY <1>1, <1>2 DEF Range, Owner

(* A test of the queue's receives takes one slot. *)
LEMMA QueueTested ==
    ASSUME SInv, HInv', UNCHANGED <<sends, recvs, in_slot, held, told, received>>, NEW i \in Slots,
           op_state[QUEUE] = "INIT", held = NoSlot, request[QUEUE][i] = "done",
           \A s \in Slots : request'[QUEUE][s] = IF s = i THEN "null" ELSE request[QUEUE][s],
           op_state'[QUEUE] = "COMPLETE", \A r \in Requests : op_state'[r] = op_state[r],
           request_index' = i
    PROVE  SInv'
<1>1. Full' = Full
  BY DEF Full
<1>2. UnderWay' = UnderWay /\ Posted' = Posted
  BY DEF UnderWay, Posted
<1>3. InChannel' = InChannel /\ \A c : Sent(c)' = Sent(c)
  BY DEF InChannel, Sent
<1>4. Shaped' /\ EachPostedOnce'
  BY <1>1, <1>2 DEF SInv, Shaped, EachPostedOnce
<1>5. OneTested'
  BY DEF SInv, OneTested
<1>6. FullAreApart' /\ HeldIsLast'
  BY <1>1, <1>2, <1>3 DEF SInv, FullAreApart, HeldIsLast
<1>7. SentOnce' /\ WithinWindow'
  BY <1>2, <1>3 DEF SInv, SentOnce, WithinWindow
<1>. QED  BY <1>4, <1>5, <1>6, <1>7 DEF SInv

(* The receive that a wait reports is posted again, after all others. *)
LEMMA ReceiveKeeps ==
    ASSUME OneByOne, SInv, HInv', NEW t \in Ranks, FinishReceive(t)
    PROVE  SInv'
<1>. DEFINE s == request_index
            p == Posted
            x == [from |-> ANY_SOURCE, rcv |-> s]
<1>1. /\ thread[t].pc = "finish" /\ Finished(thread[t]) = {QUEUE}
      /\ op_state' = [op_state EXCEPT ![QUEUE] = "INIT"]
      /\ recvs' = [recvs EXCEPT ![RequestTag] = Append(p, x)]
      /\ request' = [request EXCEPT ![QUEUE][s] = "active"]
      /\ held' = s /\ told' = in_slot[s]
      /\ thread' = [thread EXCEPT ![t] = Idle]
      /\ UNCHANGED <<sends, request_index, in_slot, received>>
  BY DEF FinishReceive, Repost, Reposted, Irecv, Posted
<1>2. op_state[QUEUE] = "COMPLETE" /\ QUEUE \in Range(thread[t].wrs)
  BY <1>1 DEF SInv, HInv, Finishing
<1>3. t = SERVER
  BY <1>1, <1>2, QueueAlone DEF SInv
<1>4. /\ s \in Slots /\ \A u \in Slots : request[QUEUE][u] = "null" <=> u = s
      /\ s \in Full
  BY <1>2 DEF SInv, OneTested, Full
<1>5. \A u \in Slots : request'[QUEUE][u] = IF u = s THEN "active" ELSE request[QUEUE][u]
  BY <1>1, <1>4, Kinds DEF SInv, HInv, Typed
<1>6. Full' = Full \ {s}
  <2>1. ASSUME NEW u PROVE u \in Full' <=> u \in Full /\ u # s
    BY <1>5 DEF Full
  <2>. QED  BY <2>1
<1>7. \A w \in Wrs : op_state'[w] = IF w = QUEUE THEN "INIT" ELSE op_state[w]
  BY <1>1 DEF SInv, HInv, Typed
<1>8. UnderWay' = UnderWay /\ InChannel' = InChannel /\ \A c : Sent(c)' = Sent(c)
  BY <1>1, <1>7, Kinds DEF UnderWay, InChannel, Sent
<1>9. Posted' = Append(p, x)
  BY <1>1, SlotsAre DEF SInv, Shaped, Posted
<1>10. p \in Seq([from : {ANY_SOURCE}, rcv : Slots]) /\ x \in [from : {ANY_SOURCE}, rcv : Slots] /\ x.rcv = s
  BY <1>4 DEF SInv, Shaped
<1>. HIDE DEF p, x
<1>11. /\ Append(p, x) \in Seq([from : {ANY_SOURCE}, rcv : Slots])
       /\ Append(p, x) # <<>> /\ Len(p) \in Nat /\ Len(Append(p, x)) = Len(p) + 1
       /\ DOMAIN p = 1 .. Len(p) /\ DOMAIN Append(p, x) = 1 .. Len(p) + 1
       /\ \A i \in 1 .. Len(p) : Append(p, x)[i] = p[i]
       /\ Append(p, x)[Len(p) + 1] = x
  BY <1>10, AppendProperties, LenProperties
<1>12. Shaped'
  BY <1>1, <1>9, <1>11 DEF SInv, Shaped
<1>13. EachPostedOnce'
  <2>1. /\ \A i \in 1 .. Len(p) : p[i].rcv \notin Full
        /\ \A i, j \in 1 .. Len(p) : p[i].rcv = p[j].rcv => i = j
        /\ \A u \in Slots \ Full : \E i \in 1 .. Len(p) : p[i].rcv = u
    BY <1>11 DEF SInv, EachPostedOnce, p
  <2>2. \A i \in 1 .. Len(p) + 1 : i \in 1 .. Len(p) \/ i = Len(p) + 1
    BY <1>11
  <2>3. \A i \in 1 .. Len(p) : p[i].rcv # s /\ i \in 1 .. Len(p) + 1
    BY <2>1, <1>4, <1>11
  <2>4. \A i \in 1 .. Len(p) + 1 : Append(p, x)[i].rcv \notin Full'
    BY <2>1, <2>2, <1>6, <1>10, <1>11
  <2>5. \A i, j \in 1 .. Len(p) + 1 : Append(p, x)[i].rcv = Append(p, x)[j].rcv => i = j
    BY <2>1, <2>2, <2>3, <1>10, <1>11
  <2>6. ASSUME NEW u \in Slots \ Full' PROVE \E i \in 1 .. Len(p) + 1 : Append(p, x)[i].rcv = u
    <3>1. CASE u = s
      BY <3>1, <1>10, <1>11
    <3>2. CASE u # s
      BY <3>2, <2>1, <2>3, <1>6, <1>11
    <3>. QED  BY <3>1, <3>2
  <2>. QED  BY <2>4, <2>5, <2>6, <1>9, <1>11 DEF EachPostedOnce
<1>14. OneTested'
  <2>1. thread'[SERVER].pc = "idle"
    BY <1>1, <1>3 DEF SInv, HInv, Typed, Idle
  <2>. QED  BY <2>1, <1>4, <1>5, <1>7, Kinds DEF OneTested
<1>15. FullAreApart'
  BY <1>1, <1>6, <1>8 DEF SInv, FullAreApart
<1>16. HeldIsLast'
  BY <1>1, <1>4, <1>6, <1>8, <1>9, <1>10, <1>11 DEF SInv, FullAreApart, HeldIsLast
<1>17. SentOnce' /\ WithinWindow'
  BY <1>1, <1>7, <1>8, Kinds DEF SInv, SentOnce, WithinWindow
<1>. QED  BY <1>12, <1>13, <1>14, <1>15, <1>16, <1>17 DEF SInv

(* A request that has been read is under way no longer, and no slot has another. *)
LEMMA ReadKeeps == ASSUME SInv, HInv', Read PROVE SInv'
<1>. DEFINE r == in_slot[held]
<1>1. /\ held # NoSlot /\ received' = Append(received, r) /\ held' = NoSlot
      /\ UNCHANGED <<sends, recvs, op_state, request, request_index, in_slot, thread, told>>
  BY DEF Read, fabric
<1>2. r = told /\ r \in UnderWay \ InChannel /\ r \in Requests /\ \A s \in Full : in_slot[s] # r
  BY <1>1 DEF SInv, HeldIsLast, UnderWay
<1>. HIDE DEF r
<1>3. received' \in Seq(Requests) /\ \A x : x \in Range(received') <=> x \in Range(received) \/ x = r
  <2>1. received \in Seq(Requests)
    BY DEF SInv, Shaped
  <2>2. /\ received' \in Seq(Requests) /\ Len(received) \in Nat /\ Len(received') = Len(received) + 1
        /\ \A i \in 1 .. Len(received) : received'[i] = received[i]
        /\ received'[Len(received) + 1] = r
        /\ DOMAIN received = 1 .. Len(received) /\ DOMAIN received' = 1 .. Len(received) + 1
    BY <2>1, <1>1, <1>2, AppendProperties, LenProperties
  <2>3. ASSUME NEW i \in 1 .. Len(received) + 1 PROVE received'[i] \in Range(received) \/ received'[i] = r
    <3>1. i \in 1 .. Len(received) \/ i = Len(received) + 1
      BY <2>2
    <3>. QED  BY <3>1, <2>2 DEF Range
  <2>4. \A i \in 1 .. Len(received) : i \in 1 .. Len(received) + 1
    BY <2>2
  <2>5. Len(received) + 1 \in 1 .. Len(received) + 1
    BY <2>2
  <2>. QED  BY <2>2, <2>3, <2>4, <2>5 DEF Range
<1>4. UnderWay' = UnderWay \ {r}
  <2>1. ASSUME NEW x PROVE x \in UnderWay' <=> x \in UnderWay /\ x # r
    BY <1>1, <1>3 DEF UnderWay
  <2>. QED  BY <2>1
<1>5. Full' = Full /\ Posted' = Posted /\ InChannel' = InChannel /\ \A c : Sent(c)' = Sent(c)
  BY <1>1 DEF Full, Posted, InChannel, Sent
<1>6. Shaped' /\ EachPostedOnce'
  BY <1>1, <1>3, <1>5 DEF SInv, Shaped, EachPostedOnce
<1>7. OneTested' /\ HeldIsLast'
  BY <1>1, SlotsAre DEF SInv, OneTested, HeldIsLast
<1>8. FullAreApart'
  BY <1>1, <1>2, <1>4, <1>5 DEF SInv, FullAreApart
<1>9. SentOnce'
  <2>1. op_state[r] # "unposted"
    BY <1>2 DEF UnderWay
  <2>. QED  BY <2>1, <1>1, <1>2, <1>3, <1>4, <1>5 DEF SInv, SentOnce
<1>10. WithinWindow'
  <2>1. IsFiniteSet(UnderWay)
    BY SlotsAre, FS_Subset DEF UnderWay
  <2>2. Cardinality(UnderWay') <= Cardinality(UnderWay) /\ Cardinality(UnderWay) \in Nat /\ Cardinality(UnderWay') \in Nat
    BY <2>1, <1>4, FS_Subset, FS_CardinalityType
  <2>. QED  BY <2>2, SlotsAre DEF SInv, WithinWindow
<1>. QED  BY <1>6, <1>7, <1>8, <1>9, <1>10 DEF SInv

\* A step of a wait that leaves the queue alone, of whose thread the list stays or is given up.
Stays(t) ==
    /\ \A u \in Ranks : u # t => thread'[u] = thread[u]
    /\ thread'[t].pc # "idle" => thread[t].pc # "idle" /\ thread'[t].wrs = thread[t].wrs

(* What waits do with sends and puts leaves the queue alone. *)
LEMMA WaitsAreQuiet ==
    ASSUME OneByOne, SInv, NEW t \in Ranks, TestAny(t) \/ TestAll(t) \/ TimedOut(t) \/ FinishOps(t)
    PROVE  \/ Quiet
           \/ \E i \in Slots :
                /\ UNCHANGED <<sends, recvs, in_slot, held, told, received>>
                /\ op_state[QUEUE] = "INIT" /\ held = NoSlot /\ request[QUEUE][i] = "done"
                /\ \A s \in Slots : request'[QUEUE][s] = IF s = i THEN "null" ELSE request[QUEUE][s]
                /\ op_state'[QUEUE] = "COMPLETE" /\ \A r \in Requests : op_state'[r] = op_state[r]
                /\ request_index' = i
<1>1. /\ DOMAIN thread = Ranks /\ DOMAIN op_state = Wrs /\ DOMAIN request = Wrs
      /\ \A w \in Wrs : DOMAIN request[w] = Indexes(w)
      /\ thread[SERVER].pc # "idle" /\ QUEUE \in Range(thread[SERVER].wrs) => held = NoSlot
      /\ HInv
  BY DEF SInv, HInv, Typed, OneTested
<1>2. thread[t].pc # "idle" /\ UNCHANGED <<sends, recvs, in_slot, held, told, received>>
  BY DEF TestAny, TestAll, TimedOut, FinishOps, fabric, application
<1>3. ListOf(t, thread[t])
  BY <1>1, <1>2, Lists DEF HInv
<1>4. Stays(t)
  <2>1. CASE thread' = [thread EXCEPT ![t] = Idle]
    BY <2>1, <1>1 DEF Stays, Idle
  <2>2. ASSUME NEW state, GoOn(t, state, thread[t]) PROVE Stays(t)
    BY <2>2, <1>1, <1>2, <1>3, GoesOn DEF Stays
  <2>. QED  BY <2>1, <2>2 DEF TestAny, TestAll, TimedOut, FinishOps
<1>5. thread'[SERVER].pc # "idle" /\ QUEUE \in Range(thread'[SERVER].wrs) => held = NoSlot
  BY <1>1, <1>4, SlotsAre DEF Stays
<1>6. CASE TestAny(t)
  <2>1. PICK w \in Range(thread[t].wrs) : \E i \in Current(w) :
          /\ request[w][i] = "done"
          /\ request' = [request EXCEPT ![w][i] = Done(thread[t].call)]
          /\ op_state' = [op_state EXCEPT ![w] = Advanced(w)]
          /\ request_index' = IndexFound(t, w, i)
    BY <1>6 DEF TestAny
  <2>2. PICK i \in Current(w) :
          /\ request[w][i] = "done"
          /\ request' = [request EXCEPT ![w][i] = Done(thread[t].call)]
          /\ op_state' = [op_state EXCEPT ![w] = Advanced(w)]
          /\ request_index' = IndexFound(t, w, i)
    BY <2>1
  <2>3. w \in Wrs /\ op_state[w] \in {"INIT", "RTS_COMPLETE"}
    BY <1>1, <1>3, <1>6 DEF ListOf, HInv, Testing, TestAny
  <2>4. Advanced(w) # "unposted"
    BY DEF Advanced
  <2>5. CASE w # QUEUE
    <3>1. request'[QUEUE] = request[QUEUE] /\ op_state'[QUEUE] = op_state[QUEUE] /\ request_index' = request_index
      BY <2>2, <2>5 DEF IndexFound
    <3>2. \A r \in Requests : op_state'[r] = "unposted" <=> op_state[r] = "unposted"
      BY <2>2, <2>3, <2>4, <1>1, Kinds
    <3>. QED  BY <3>1, <3>2, <1>2, <1>5 DEF Quiet
  <2>6. CASE w = QUEUE
    <3>1. t = SERVER /\ thread[t].call = "wait"
      BY <2>6, <1>1, <1>2, QueueAlone
    <3>2. held = NoSlot
      BY <3>1, <2>6, <1>1, <1>2
    <3>3. op_state[QUEUE] = "INIT"
      BY <2>3, <2>6 DEF SInv, HInv, Typed
    <3>4. i \in Slots /\ request[QUEUE][i] = "done"
      BY <2>2, <2>6, Kinds
    <3>5. \A s \in Slots : request'[QUEUE][s] = IF s = i THEN "null" ELSE request[QUEUE][s]
      BY <2>2, <2>6, <3>1, <1>1, Kinds DEF Done
    <3>6. op_state'[QUEUE] = "COMPLETE" /\ \A r \in Requests : op_state'[r] = op_state[r]
      BY <2>2, <2>6, <1>1, Kinds DEF Advanced
    <3>7. request_index' = i
      BY <2>2, <2>6, <3>1 DEF IndexFound
    <3>. QED  BY <3>2, <3>3, <3>4, <3>5, <3>6, <3>7, <1>2
  <2>. QED  BY <2>5, <2>6
<1>7. CASE TestAll(t)
  <2>1. /\ thread[t].pc = "test" /\ thread[t].call = "waitall" /\ request_index' = request_index
        /\ request' = [w \in Wrs |-> [i \in Indexes(w) |->
                         IF w \in Range(thread[t].wrs) /\ i \in Current(w) /\ request[w][i] = "done"
                         THEN Done(thread[t].call) ELSE request[w][i]]]
        /\ op_state' = [w \in Wrs |-> IF w \in Range(thread[t].wrs) THEN Advanced(w) ELSE op_state[w]]
    BY <1>7 DEF TestAll
  <2>2. QUEUE \notin Range(thread[t].wrs)
    BY <2>1, <1>3 DEF ListOf
  <2>3. \A w \in Range(thread[t].wrs) : op_state[w] # "unposted" /\ Advanced(w) # "unposted"
    BY <2>1, <1>1 DEF HInv, Testing, Advanced
  <2>4. op_state'[QUEUE] = op_state[QUEUE] /\ \A s \in Slots : request'[QUEUE][s] = request[QUEUE][s]
    BY <2>1, <2>2, Kinds
  <2>5. \A r \in Requests : op_state'[r] = "unposted" <=> op_state[r] = "unposted"
    BY <2>1, <2>3, Kinds
  <2>. QED  BY <2>1, <2>4, <2>5, <1>2, <1>5 DEF Quiet
<1>8. CASE TimedOut(t)
  BY <1>2, <1>5, <1>8 DEF TimedOut, Quiet
<1>9. CASE FinishOps(t)
  <2>1. /\ thread[t].pc = "finish" /\ QUEUE \notin Finished(thread[t]) /\ UNCHANGED <<request, request_index>>
        /\ op_state' = [w \in Wrs |-> IF w \in Finished(thread[t]) THEN "freed" ELSE op_state[w]]
    BY <1>9 DEF FinishOps
  <2>2. \A w \in Finished(thread[t]) : op_state[w] = "COMPLETE"
    BY <2>1, <1>1 DEF HInv, Finishing
  <2>3. op_state'[QUEUE] = op_state[QUEUE] /\ \A r \in Requests : op_state'[r] = "unposted" <=> op_state[r] = "unposted"
    BY <2>1, <2>2, Kinds
  <2>. QED  BY <2>1, <2>3, <1>2, <1>5 DEF Quiet
<1>. QED  BY <1>6, <1>7, <1>8, <1>9

(* Puts, their targets and the beginning of a wait leave the queue alone. *)
LEMMA OthersAreQuiet ==
    ASSUME OneByOne, SInv,
           \/ \E p \in Puts : NNTI_mpi_put(p) \/ \E i \in Indexes(p) : TargetTakes(p, i)
           \/ \E t \in Ranks : \E l \in Calls[t] : Wait(t, l)
           \/ UNCHANGED vars
    PROVE  Quiet
<1>1. /\ DOMAIN thread = Ranks /\ DOMAIN op_state = Wrs /\ DOMAIN request = Wrs
      /\ thread[SERVER].pc # "idle" /\ QUEUE \in Range(thread[SERVER].wrs) => held = NoSlot
  BY DEF SInv, HInv, Typed, OneTested
<1>2. ASSUME NEW p \in Puts, NNTI_mpi_put(p) PROVE Quiet
  <2>1. /\ op_state' = [op_state EXCEPT ![p] = "INIT"]
        /\ request' = [request EXCEPT ![p] = [i \in Indexes(p) |-> "active"]]
        /\ UNCHANGED <<sends, recvs, request_index, in_slot, thread, held, told, received>>
    BY <1>2 DEF NNTI_mpi_put, fabric, application
  <2>2. op_state'[QUEUE] = op_state[QUEUE] /\ request'[QUEUE] = request[QUEUE]
    BY <2>1, Kinds
  <2>3. \A r \in Requests : op_state'[r] = op_state[r]
    BY <2>1, Kinds
  <2>. QED  BY <2>1, <2>2, <2>3, <1>1 DEF Quiet
<1>3. ASSUME NEW p \in Puts, NEW i \in Indexes(p), TargetTakes(p, i) PROVE Quiet
  <2>1. /\ request' = [request EXCEPT ![p][i] = "done"]
        /\ UNCHANGED <<sends, recvs, op_state, request_index, in_slot, thread, held, told, received>>
    BY <1>3 DEF TargetTakes, fabric, application
  <2>2. request'[QUEUE] = request[QUEUE]
    BY <2>1, Kinds
  <2>. QED  BY <2>1, <2>2, <1>1 DEF Quiet
<1>4. ASSUME NEW t \in Ranks, NEW l \in Calls[t], Wait(t, l) PROVE Quiet
  <2>1. /\ QUEUE \in Range(l.wrs) => held = NoSlot
        /\ GoOn(t, op_state, l)
        /\ UNCHANGED <<sends, recvs, op_state, request, request_index, in_slot, held, told, received>>
    BY <1>4 DEF Wait, fabric, application
  <2>2. thread'[t].wrs = l.wrs /\ \A u \in Ranks : u # t => thread'[u] = thread[u]
    BY <2>1, <1>1, Lists, GoesOn
  <2>3. thread'[SERVER].pc # "idle" /\ QUEUE \in Range(thread'[SERVER].wrs) => held = NoSlot
    BY <2>1, <2>2, <1>1, SlotsAre
  <2>. QED  BY <2>1, <2>3 DEF Quiet
<1>5. CASE UNCHANGED vars
  BY <1>1, <1>5 DEF vars, Quiet
<1>. QED  BY <1>2, <1>3, <1>4, <1>5

(* Every step keeps the slots in order. *)
LEMMA NextSInv == ASSUME OneByOne, RoomForAll, SInv, [Next]_vars PROVE SInv'
<1>1. HInv'
  BY NextHInv DEF SInv
<1>2. ASSUME NEW r \in Requests, NNTI_mpi_send(r) PROVE SInv'
  BY <1>1, <1>2, SendKeeps
<1>3. ASSUME NEW t \in Ranks, Transfer(t) PROVE SInv'
  BY <1>1, <1>3, TransferKeeps
<1>4. ASSUME NEW t \in Ranks, FinishReceive(t) PROVE SInv'
  BY <1>1, <1>4, ReceiveKeeps
<1>5. CASE Read
  BY <1>1, <1>5, ReadKeeps
<1>6. ASSUME NEW t \in Ranks, TestAny(t) \/ TestAll(t) \/ TimedOut(t) \/ FinishOps(t) PROVE SInv'
  BY <1>1, <1>6, WaitsAreQuiet, QuietKeeps, QueueTested
<1>7. CASE \/ \E p \in Puts : NNTI_mpi_put(p) \/ \E i \in Indexes(p) : TargetTakes(p, i)
           \/ \E t \in Ranks : \E l \in Calls[t] : Wait(t, l)
           \/ UNCHANGED vars
  BY <1>1, <1>7, OthersAreQuiet, QuietKeeps
<1>. QED  BY <1>2, <1>3, <1>4, <1>5, <1>6, <1>7 DEF Next, Waiting

(* When clients leave room for all they send, each slot has one receive posted or one request, and the slot
   the server has been told of is the last that is posted. *)
THEOREM SlotsAreInductive == ASSUME OneByOne, RoomForAll PROVE Spec => []SInv
<1>1. Init => SInv
  BY InitSInv
<1>2. SInv /\ [Next]_vars => SInv'
  BY NextSInv
<1>. QED  BY <1>1, <1>2, PTL DEF Spec

(* The request that NNTI_mpi_wait has reported stays in its slot until the server has read it, although
   repost_recv_work_request has posted the receive for that slot before the wait returned. *)
THEOREM HeldStaysIntact == ASSUME OneByOne, RoomForAll PROVE Spec => []HeldIsIntact
<1>1. SInv => HeldIsIntact
  BY DEF SInv, HeldIsLast, HeldIsIntact, UnderWay
<1>. QED  BY <1>1, SlotsAreInductive, PTL
===============================================================================
