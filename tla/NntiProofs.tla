----------------------------- MODULE NntiProofs -----------------------------
(***************************************************************************)
(* What module Nnti guarantees for any number of threads, buffers and any  *)
(* memory: which calls find their transport open, and that the tables of   *)
(* registrations stay true.                                                *)
(*                                                                         *)
(* The API forbids callers little, and some of what it allows goes wrong;  *)
(* the theorems are of callers that keep away from it.  What exactly they  *)
(* have to keep away from is what Careful and Orderly say.                 *)
(***************************************************************************)
EXTENDS Nnti, FiniteSetTheorems, SequenceTheorems, TLAPS

Steps == {"idle"} \cup LifeSteps \cup CallSteps

-----------------------------------------------------------------------------
(* Calls and the life of the transport.                                     *)

\* Nobody calls after an init that has failed, nor makes MPI, which
\* NNTI_mpi_init opens once, begin again after fini.
Careful ==
    \A x \in Transports : "failed" \notin Habits[x] /\ (x = "mpi" => "again" \notin Habits[x])

\* A thread that opens or closes is alone.
Alone == \A t, u \in Threads : pc[t] \in LifeSteps /\ u # t => pc[u] = "idle"

\* What is marked and has opened is there, up to the end of closing.
OpenIsUp ==
    /\ initialized /\ opened /\ (\A t \in Threads : pc[t] # "clearing") => up
    /\ opened /\ (transport # "mpi" \/ \E t \in Threads : pc[t] = "closing") => up

LifeInv ==
    /\ transport \in Transports /\ pc \in [Threads -> Steps] 
    /\ Alone /\ OpenIsUp /\ CallsAreOfAnOpenTransport

\* At the start nothing is open, and nobody calls.
LEMMA InitLife == Init => LifeInv
BY DEF Init, RegistrationInit, LifeInv, Steps, Alone, OpenIsUp, CallsAreOfAnOpenTransport, LifeSteps, CallSteps

\* A call that looks at the entry returns, or goes on in a transport that is up.
Begins(t, step) ==
    /\ pc[t] = "idle" /\ pc' = [pc EXCEPT ![t] = step] /\ UNCHANGED <<transport, api>>
    /\ step \in CallSteps => Calls(t) /\ initialized

\* Callers that are careful find what is marked to be up.
LEMMA BeginsLife ==
    ASSUME Careful, LifeInv, NEW t \in Threads, NEW step \in CallSteps \cup {"idle"}, Begins(t, step)
    PROVE  LifeInv'
<1>1. CASE step = "idle"
  BY <1>1 DEF LifeInv, Begins, Steps, Alone, OpenIsUp, CallsAreOfAnOpenTransport, LifeSteps, CallSteps, api
<1>2. CASE step \in CallSteps
  <2>1. /\ pc[t] = "idle" /\ \A u \in Threads \ {t} : pc[u] \notin LifeSteps
        /\ initialized /\ opened
    BY <1>2 DEF Begins, Calls, Careful, May, LifeInv, LifeSteps
  <2>2. up
    BY <2>1 DEF LifeInv, OpenIsUp, LifeSteps
  <2>. QED
    BY <1>2, <2>1, <2>2 DEF LifeInv, Begins, Steps, Alone, OpenIsUp, CallsAreOfAnOpenTransport, LifeSteps, CallSteps, api
<1>. QED  BY <1>1, <1>2

\* Calls in a transport go on or return.
Goes(t) ==
    /\ pc[t] \in CallSteps /\ \E step \in CallSteps \cup {"idle"} : pc' = [pc EXCEPT ![t] = step]
    /\ UNCHANGED <<transport, api>>

\* What goes on or returns leaves the life of the transport alone.
LEMMA GoesLife ==
    ASSUME LifeInv, NEW t \in Threads, Goes(t)
    PROVE  LifeInv'
BY DEF LifeInv, Goes, Steps, Alone, OpenIsUp, CallsAreOfAnOpenTransport, LifeSteps, CallSteps, api

\* So does what moves nobody.
LEMMA LifeSame == ASSUME LifeInv, UNCHANGED <<transport, pc, api>> PROVE LifeInv'
BY DEF LifeInv, Alone, OpenIsUp, CallsAreOfAnOpenTransport, api

\* A call that looks at the entry begins, or returns at once.
LEMMA ChecksBegin ==
    ASSUME NEW t \in Threads, Calls(t), NEW asked, NEW step \in CallSteps, Checks(t, asked, step), UNCHANGED <<transport, api>>
    PROVE  \E s \in CallSteps \cup {"idle"} : Begins(t, s)
BY DEF Checks, Calls, At, Begins, Goto, Return, CallSteps

\* So does one that returns whatever the entry says.
LEMMA ReturnsBegin ==
    ASSUME NEW t \in Threads, Calls(t), Return(t), UNCHANGED <<transport, api>>
    PROVE  Begins(t, "idle")
BY DEF Calls, At, Begins, Goto, Return, CallSteps

\* Every step keeps the life of the transport in order.
LEMMA StepLife == ASSUME Careful, LifeInv, [Next]_vars PROVE LifeInv'
<1>1. ASSUME NEW t \in Threads, NNTI_init(t) PROVE LifeInv'
  <2>1. /\ \A u \in Threads : pc[u] = "idle"
        /\ pc' = [pc EXCEPT ![t] = "opening"] /\ initialized' = TRUE
        /\ UNCHANGED <<transport, opened, up>>
        /\ opened => transport # "mpi"
        /\ ~initialized \/ ~up
    BY <1>1 DEF NNTI_init, At, Goto, Rest, May, Careful, LifeInv
  <2>. QED  BY <2>1 DEF LifeInv, Steps, Alone, OpenIsUp, CallsAreOfAnOpenTransport, LifeSteps, CallSteps
<1>2. ASSUME NEW t \in Threads, NNTI_ib_init(t) \/ NNTI_gni_init(t) \/ NNTI_mpi_init(t) PROVE LifeInv'
  <2>1. /\ pc[t] = "opening" /\ pc' = [pc EXCEPT ![t] = "idle"] /\ UNCHANGED <<transport, initialized>>
        /\ UNCHANGED <<opened, up>> \/ (opened' = TRUE /\ up' = TRUE)
    BY <1>2 DEF NNTI_ib_init, NNTI_gni_init, NNTI_mpi_init, Opens, At, Return, Goto, Rest
  <2>. QED  BY <2>1 DEF LifeInv, Steps, Alone, OpenIsUp, CallsAreOfAnOpenTransport, LifeSteps, CallSteps
<1>3. ASSUME NEW t \in Threads, NNTI_fini(t) PROVE LifeInv'
  <2>1. CASE initialized
    <3>1. /\ \A u \in Threads : pc[u] = "idle"
          /\ pc' = [pc EXCEPT ![t] = "closing"]
          /\ opened
          /\ UNCHANGED <<transport, initialized, opened, up>>
      BY <1>3, <2>1 DEF NNTI_fini, Calls, Checks, Goto, Rest, api, Careful, May, LifeInv
    <3>. QED  BY <2>1, <3>1 DEF LifeInv, Steps, Alone, OpenIsUp, CallsAreOfAnOpenTransport, LifeSteps, CallSteps
  <2>2. CASE ~initialized
    BY <1>3, <2>2, ReturnsBegin, BeginsLife DEF NNTI_fini, Checks, Rest
  <2>. QED  BY <2>1, <2>2
<1>4. ASSUME NEW t \in Threads, NNTI_ib_fini(t) \/ NNTI_gni_fini(t) \/ NNTI_mpi_fini(t) PROVE LifeInv'
  <2>1. /\ pc[t] = "closing" /\ pc' = [pc EXCEPT ![t] = "clearing"] /\ up' = FALSE
        /\ UNCHANGED <<transport, initialized>>
        /\ transport # "mpi" => opened' = FALSE
    BY <1>4 DEF NNTI_ib_fini, NNTI_gni_fini, NNTI_mpi_fini, Closes, At, Goto
  <2>. QED  BY <2>1 DEF LifeInv, Steps, Alone, OpenIsUp, CallsAreOfAnOpenTransport, LifeSteps, CallSteps
<1>5. ASSUME NEW t \in Threads, Clears(t) PROVE LifeInv'
  <2>1. /\ pc[t] = "clearing" /\ pc' = [pc EXCEPT ![t] = "idle"] /\ initialized' = FALSE
        /\ UNCHANGED <<transport, opened, up>>
    BY <1>5 DEF Clears, At, Return, Goto, Rest
  <2>. QED  BY <2>1 DEF LifeInv, Steps, Alone, OpenIsUp, CallsAreOfAnOpenTransport, LifeSteps, CallSteps
<1>6. ASSUME NEW t \in Threads,
             NNTI_register_memory(t) \/ NNTI_register_segments(t) \/ NNTI_alloc(t) \/ NNTI_unregister_memory(t) \/ NNTI_free(t)
      PROVE  LifeInv'
  <2>1. /\ Calls(t) /\ UNCHANGED <<transport, api>>
        /\ Return(t) \/ \E asked, step : step \in {"finding", "dropping"} /\ Checks(t, asked, step)
    BY <1>6 DEF NNTI_register_memory, NNTI_register_segments, NNTI_alloc, Allocates, NNTI_unregister_memory, NNTI_free,
                GivesBack, Rest
  <2>. QED  BY <2>1, ChecksBegin, ReturnsBegin, BeginsLife DEF CallSteps
<1>7. ASSUME NEW t \in Threads, Operation(t) \/ ListOperation(t) PROVE LifeInv'
  <2>1. /\ Calls(t) /\ UNCHANGED <<transport, api>>
        /\ Return(t) \/ \E asked : Checks(t, asked, "operating")
    BY <1>7 DEF Operation, ListOperation, Rest
  <2>. QED  BY <2>1, ChecksBegin, ReturnsBegin, BeginsLife DEF CallSteps
<1>8. ASSUME NEW t \in Threads, register_memory(t) \/ register_segments(t) \/ unregister_memory(t), UNCHANGED api PROVE LifeInv'
  <2>1. Goes(t) \/ UNCHANGED <<transport, pc, api>>
    BY <1>8 DEF register_memory, register_segments, unregister_memory, Finds, Mismatch, Takes, Pins, Publishes, Drops, Releases,
                Goes, At, Goto, Return, Aborts, CallSteps
  <2>. QED  BY <2>1, GoesLife, LifeSame
<1>9. ASSUME NEW t \in Threads, Operates(t) PROVE LifeInv'
  <2>1. Goes(t)
    BY <1>9 DEF Operates, Goes, At, Goto, Return, Rest, CallSteps
  <2>. QED  BY <2>1, GoesLife
<1>10. CASE UNCHANGED vars
  BY <1>10, LifeSame DEF vars, reg_vars, api
<1>11. ASSUME NEW t \in Threads, Step(t) PROVE LifeInv'
  BY <1>11, <1>2, <1>4, <1>5, <1>8, <1>9 DEF Step, NNTI_ib_register_memory, NNTI_ib_register_segments, NNTI_ib_unregister_memory,
       NNTI_gni_register_memory, NNTI_gni_register_segments, NNTI_gni_unregister_memory
<1>. QED
  BY <1>1, <1>3, <1>6, <1>7, <1>10, <1>11 DEF Next, NNTI_connect, NNTI_dt_pack, NNTI_dt_unpack, NNTI_put, NNTI_atomic_fop,
     NNTI_create_work_request, NNTI_cancelall, NNTI_wait, NNTI_waitany, NNTI_waitall

(* Callers that do not go on after a failed init never have a call in a transport whose device and locks
   are not there: what NNTI_init marks before it asks is always opened by the time it is looked at, and
   NNTI_fini clears the mark before anyone else looks. *)
THEOREM CallsStayOpen == ASSUME Careful PROVE Spec => []CallsAreOfAnOpenTransport
<1>1. LifeInv => CallsAreOfAnOpenTransport
  BY DEF LifeInv
<1>2. LifeInv /\ [Next]_vars => LifeInv'
  BY StepLife
<1>. QED  BY InitLife, <1>1, <1>2, PTL DEF Spec

-----------------------------------------------------------------------------
(* What registrations keep.                                                 *)

\* Memory at one address begins with one segment.
OneExtent == \A m, n \in Memory : Address(m) = Address(n) => m[1] = n[1]

\* Buffers are registered anew only when the table does not hold them, and
\* segments only once at a time; several threads call together on Gemini,
\* where a lock is taken, and memory that begins like other memory which is
\* registered is not registered there.
Orderly ==
    \A x \in Transports :
        /\ "reuse" \notin Habits[x] /\ "resegment" \notin Habits[x]
        /\ "together" \in Habits[x] => x = "gni"
        /\ "overlap" \in Habits[x] => x # "gni" /\ OneExtent

RegSteps == {"finding", "taking", "pinning", "publishing"}
Working == RegSteps \cup {"dropping", "releasing"}
Inside == {"taking", "pinning", "publishing", "releasing"}

\* What calls ask for, and what a handle and a buffer hold.
Asks == [op : {"memory", "segments", "unregister"}, buf : Buffers, mem : Memory, old : Buffers \cup {None}]
Plain == [op : {None, "init", "fini", "operation"}]
HandleType == [ref_count : Int, mrs : Memory \cup {<<>>}, live : BOOLEAN]
BufType == [hdl : Nat, segments : Seq([address : Nat, length : Nat, key : Nat \X Nat])]

RegTypes ==
    /\ transport \in Transports
    /\ handles \in Seq(HandleType)
    /\ registered \in [Buffers -> Memory \cup {<<>>}]
    /\ buf \in [Buffers -> BufType]
    /\ bufhash \in [DOMAIN bufhash -> Buffers]
    /\ pc \in [Threads -> Steps]
    /\ call \in [Threads -> Asks \cup Plain]
    /\ \A t \in Threads : pc[t] \in Working =>
         /\ call[t] \in Asks
         /\ pc[t] \in RegSteps <=> call[t].op \in {"memory", "segments"}
         /\ call[t].op = "memory" => Len(call[t].mem) = 1

\* A buffer is worked on by one call.
Own ==
    /\ \A t, u \in Threads : t # u /\ pc[t] \in Working /\ pc[u] \in Working => call[t].buf # call[u].buf
    /\ \A t \in Threads : pc[t] \in RegSteps =>
         registered[call[t].buf] = <<>> /\ \A a \in DOMAIN bufhash : bufhash[a] # call[t].buf
    /\ \A t \in Threads : pc[t] = "dropping" => registered[call[t].buf] = call[t].mem
    /\ \A t \in Threads : pc[t] = "releasing" => registered[call[t].buf] = <<>>

\* One thread is between looking in the table and writing to it.
Excl ==
    /\ transport = "gni" => \A t \in Threads : pc[t] \in Inside => mem_lock = t
    /\ transport # "gni" => \A t, u \in Threads : t # u /\ pc[t] # "idle" => pc[u] = "idle"
    /\ \A t \in Threads : pc[t] = "closing" =>
         (\A u \in Threads \ {t} : pc[u] = "idle") /\ \A b \in Buffers : registered[b] = <<>>

\* Memory in use at one address begins with the same segment.
Same ==
    \A m, n \in InUse \ {<<>>} : Address(m) = Address(n) => m[1] = n[1] /\ (transport = "gni" => m = n)

\* Segments that are being registered are in no other use.
Sole ==
    \A t \in Registering : call[t].op = "segments" =>
        /\ \A h \in DOMAIN handles : handles[h].mrs # call[t].mem
        /\ \A u \in Registering \ {t} : call[u].mem # call[t].mem

\* The buffers that a handle is counted for.
Coming == {call[t].buf : t \in {u \in Threads : pc[u] \in {"pinning", "publishing"}}}
Holders(h) == {b \in Buffers : buf[b].hdl = h /\ (registered[b] # <<>> \/ b \in Coming)}

Counted ==
    \A h \in DOMAIN handles :
       /\ handles[h].live => handles[h].ref_count = Cardinality(Holders(h))
       /\ ~handles[h].live => Holders(h) = {} /\ handles[h].mrs = <<>>
       /\ handles[h].live /\ handles[h].ref_count = 0 => \E t \in Threads : pc[t] = "releasing" /\ Hdl(t) = h
       /\ handles[h].live /\ handles[h].mrs = <<>> => \E t \in Threads : pc[t] = "pinning" /\ Hdl(t) = h

\* What a buffer holds, s, names memory m, as the regions of its handle.
Named(s, hs, m) ==
    /\ s.hdl \in DOMAIN hs /\ hs[s.hdl].live
    /\ Len(m) <= Len(hs[s.hdl].mrs) /\ Len(s.segments) = Len(m)
    /\ \A i \in DOMAIN m :
        /\ s.segments[i].address = m[i][1] /\ s.segments[i].length = m[i][2] /\ s.segments[i].key = <<s.hdl, i>>
        /\ hs[s.hdl].mrs[i] = m[i]

HandleOf(b) == handles[buf[b].hdl]

\* Buffers that are registered, that soon will be or were just now, and those
\* in the table name their memory.
Names ==
    /\ \A b \in Buffers : registered[b] # <<>> => Named(buf[b], handles, registered[b])
    /\ \A t \in Threads : pc[t] \in {"publishing", "releasing"} => Named(buf[call[t].buf], handles, call[t].mem)
    /\ \A a \in DOMAIN bufhash :
         HandleOf(bufhash[a]).mrs # <<>> /\ Address(HandleOf(bufhash[a]).mrs) = a
         /\ Named(buf[bufhash[a]], handles, HandleOf(bufhash[a]).mrs)

\* What a thread has found in the table is still so.
Found ==
    /\ \A t \in Threads : pc[t] \in {"taking", "pinning", "publishing"} =>
         /\ call[t].old = None => Address(call[t].mem) \notin DOMAIN bufhash
         /\ call[t].old # None => Address(call[t].mem) \in DOMAIN bufhash /\ bufhash[Address(call[t].mem)] = call[t].old
    /\ \A t \in Threads : pc[t] \in {"pinning", "publishing"} =>
         /\ Hdl(t) \in DOMAIN handles /\ Handle(t).live
         /\ call[t].old = None <=> Handle(t).ref_count = 1
         /\ call[t].old # None => Hdl(t) = buf[call[t].old].hdl /\ call[t].op = "memory"
    /\ \A t \in Threads : pc[t] = "pinning" /\ call[t].old = None => Handle(t).mrs = <<>>
    /\ \A t \in Threads : pc[t] = "publishing" /\ call[t].old = None => Handle(t).mrs = call[t].mem
    /\ \A t \in Threads : pc[t] = "releasing" => Handle(t).ref_count = 0

\* A handle is in the table under its address.
Tabled ==
    \A h \in DOMAIN handles : handles[h].live /\ handles[h].mrs # <<>> =>
      \/ Address(handles[h].mrs) \in DOMAIN bufhash /\ buf[bufhash[Address(handles[h].mrs)]].hdl = h
      \/ \E t \in Threads : pc[t] = "publishing" /\ Hdl(t) = h /\ call[t].old = None

\* The regions are those of the handles.
Regions == \A r : r \in pinned <=> \E h \in DOMAIN handles : \E i \in DOMAIN handles[h].mrs : r = <<h, i>>

Data == Same /\ Sole /\ Counted /\ Names /\ Found /\ Tabled /\ Regions
RegInv == RegTypes /\ Own /\ Excl /\ Data

\* A thread inside, or that may go in, has nobody else inside with it: on
\* Gemini by the lock, elsewhere because calls come one at a time.
LEMMA Exclusive ==
    ASSUME RegInv, NEW t \in Threads,
           pc[t] \in Inside \/ (pc[t] \in {"finding", "dropping"} /\ (transport = "gni" => mem_lock = 0))
    PROVE  \A u \in Threads \ {t} : pc[u] \notin Inside
<1>1. CASE transport = "gni"
  BY <1>1, RegistrationAssumptions DEF RegistrationAssumptions, RegInv, Excl, Inside
<1>2. CASE transport # "gni"
  BY <1>2 DEF RegInv, Excl, Inside
<1>. QED  BY <1>1, <1>2

\* What memory is.
LEMMA MemoryTypes ==
    ASSUME NEW m \in Memory
    PROVE  /\ m \in Seq(Nat \X Nat) /\ m # <<>> /\ Len(m) \in Nat \ {0} /\ DOMAIN m = 1 .. Len(m)
           /\ 1 \in DOMAIN m /\ Address(m) \in Nat
           /\ \A i \in DOMAIN m : m[i] \in Nat \X Nat
<1>1. m \in Seq(Nat \X Nat) /\ m # <<>>
  BY RegistrationAssumptions DEF RegistrationAssumptions
<1>2. Len(m) \in Nat \ {0} /\ DOMAIN m = 1 .. Len(m) /\ 1 \in DOMAIN m
  BY <1>1
<1>3. \A i \in DOMAIN m : m[i] \in Nat \X Nat
  BY <1>1, <1>2, ElementOfSeq
<1>. QED  BY <1>1, <1>2, <1>3 DEF Address

\* What handles are.
LEMMA HandleTypes ==
    ASSUME handles \in Seq(HandleType)
    PROVE  /\ Len(handles) \in Nat /\ DOMAIN handles = 1 .. Len(handles)
           /\ \A h \in DOMAIN handles :
                /\ handles[h].ref_count \in Int /\ handles[h].mrs \in Memory \cup {<<>>} /\ handles[h].live \in BOOLEAN
                /\ handles[h] = [ref_count |-> handles[h].ref_count, mrs |-> handles[h].mrs, live |-> handles[h].live]
<1>1. Len(handles) \in Nat /\ DOMAIN handles = 1 .. Len(handles)
  OBVIOUS
<1>2. \A h \in DOMAIN handles : handles[h] \in HandleType
  BY <1>1, ElementOfSeq
<1>. QED  BY <1>1, <1>2 DEF HandleType

\* A buffer names the same if its handle stays.
LEMMA NamedKept ==
    ASSUME NEW s, NEW hs, NEW hs2, NEW m, Named(s, hs, m),
           s.hdl \in DOMAIN hs2, hs2[s.hdl].live, hs2[s.hdl].mrs = hs[s.hdl].mrs
    PROVE  Named(s, hs2, m)
BY DEF Named

\* At the start there is nothing to keep.
LEMMA InitReg == Init => RegInv
<1>. SUFFICES ASSUME Init PROVE RegInv
  OBVIOUS
<1>. USE DEF Init, RegistrationInit
<1>1. RegTypes
  BY DEF RegTypes, Cleared, NoCall, Plain, BufType, Steps, Working, RegSteps, None
<1>2. Own /\ Excl
  BY DEF Own, Excl, Working, RegSteps, Inside
<1>3. Same /\ Sole
  BY DEF Same, Sole, InUse, Registering
<1>4. Counted /\ Names /\ Found /\ Tabled /\ Regions
  BY DEF Counted, Names, Found, Tabled, Regions
<1>. QED  BY <1>1, <1>2, <1>3, <1>4 DEF RegInv, Data

\* Memory that is in use stays so, or is given back.
LEMMA UseKept ==
    ASSUME RegTypes, Same, Sole, UNCHANGED transport, Registering' \subseteq Registering,
           \A u \in Registering' : call'[u].op = call[u].op /\ call'[u].mem = call[u].mem,
           \A h \in DOMAIN handles' :
               \/ handles'[h].mrs = <<>>
               \/ \E x \in DOMAIN handles : handles'[h].mrs = handles[x].mrs
               \/ \E u \in Registering \ Registering' : handles'[h].mrs = call[u].mem
    PROVE  Same' /\ Sole'
<1>1. InUse' \subseteq InUse \cup {<<>>}
  BY DEF InUse
<1>2. Same'
  BY <1>1 DEF Same
<1>3. ASSUME NEW t \in Registering', call'[t].op = "segments", NEW h \in DOMAIN handles' PROVE handles'[h].mrs # call'[t].mem
  <2>1. t \in Registering /\ call[t].op = "segments" /\ call'[t].mem = call[t].mem
    BY <1>3
  <2>2. call[t].mem # <<>>
    BY <2>1, MemoryTypes DEF Registering, RegTypes, Working, RegSteps, Asks
  <2>. QED  BY <1>3, <2>1, <2>2 DEF Sole
<1>4. Sole'
  BY <1>3 DEF Sole
<1>. QED  BY <1>2, <1>4

\* The holders of a handle are the same.
LEMMA HoldersKept ==
    ASSUME \A b \in Buffers : /\ buf'[b].hdl = buf[b].hdl
                              /\ (registered'[b] # <<>> \/ b \in Coming') <=> (registered[b] # <<>> \/ b \in Coming)
    PROVE  \A h : Holders(h)' = Holders(h)
BY DEF Holders

\* What is found stays so while the table and the handles do, and no thread
\* comes to hold a handle.
LEMMA FoundKept ==
    ASSUME Found, UNCHANGED <<bufhash, handles, buf>>,
           \A u \in Threads : pc'[u] \in {"taking", "pinning", "publishing", "releasing"} =>
               \/ pc'[u] = pc[u] /\ call'[u] = call[u]
               \/ /\ pc'[u] = "taking"
                  /\ call'[u].old = None => Address(call'[u].mem) \notin DOMAIN bufhash
                  /\ call'[u].old # None => Address(call'[u].mem) \in DOMAIN bufhash
                                            /\ bufhash[Address(call'[u].mem)] = call'[u].old
    PROVE  Found'
<1>1. ASSUME NEW u \in Threads, pc'[u] \in {"pinning", "publishing", "releasing"}
      PROVE  /\ pc[u] = pc'[u] /\ call[u] = call'[u]
             /\ Hdl(u)' = Hdl(u) /\ Handle(u)' = Handle(u)
  BY <1>1 DEF Hdl, Handle
<1>2. ASSUME NEW u \in Threads, pc'[u] \in {"taking", "pinning", "publishing"}
      PROVE  /\ call'[u].old = None => Address(call'[u].mem) \notin DOMAIN bufhash
             /\ call'[u].old # None => Address(call'[u].mem) \in DOMAIN bufhash
                                       /\ bufhash[Address(call'[u].mem)] = call'[u].old
  BY <1>2 DEF Found
<1>3. ASSUME NEW u \in Threads, pc'[u] \in {"pinning", "publishing"}
      PROVE  /\ Hdl(u) \in DOMAIN handles /\ Handle(u).live
             /\ call[u].old = None <=> Handle(u).ref_count = 1
             /\ call[u].old # None => Hdl(u) = buf[call[u].old].hdl /\ call[u].op = "memory"
  BY <1>1, <1>3 DEF Found
<1>4. ASSUME NEW u \in Threads
      PROVE  /\ pc'[u] = "pinning" /\ call[u].old = None => Handle(u).mrs = <<>>
             /\ pc'[u] = "publishing" /\ call[u].old = None => Handle(u).mrs = call[u].mem
             /\ pc'[u] = "releasing" => Handle(u).ref_count = 0
  BY <1>1 DEF Found
<1>. QED  BY <1>1, <1>2, <1>3, <1>4 DEF Found

\* Steps of other calls do not touch what registering works on.
Aside(t, step, c) ==
    /\ pc[t] \notin Working /\ step \in Steps \ Working /\ c \in Plain \cup {call[t]}
    /\ pc' = [pc EXCEPT ![t] = step] /\ call' = [call EXCEPT ![t] = c]
    /\ transport # "gni" /\ step # "idle" => \A u \in Threads \ {t} : pc[u] = "idle"
    /\ step # "idle" => \A u \in Threads \ {t} : pc[u] # "closing"
    /\ step = "closing" => (\A u \in Threads \ {t} : pc[u] = "idle") /\ \A b \in Buffers : registered[b] = <<>>
    /\ UNCHANGED <<transport, maps, mem_lock, registered>>

\* So they keep it.
LEMMA AsideReg == ASSUME RegInv, NEW t \in Threads, NEW step, NEW c, Aside(t, step, c), UNCHANGED pinned PROVE RegInv'
<1>1. /\ step \in Steps \ Working
      /\ pc' = [pc EXCEPT ![t] = step]
      /\ transport # "gni" /\ step # "idle" => \A u \in Threads \ {t} : pc[u] = "idle"
      /\ step # "idle" => \A u \in Threads \ {t} : pc[u] # "closing"
      /\ step = "closing" => (\A u \in Threads \ {t} : pc[u] = "idle") /\ \A b \in Buffers : registered[b] = <<>>
  BY DEF Aside
<1>2. c \in Plain \cup {call[t]} /\ call' = [call EXCEPT ![t] = c]
  BY DEF Aside
<1>3. UNCHANGED <<transport, bufhash, handles, buf, pinned, mem_lock, registered>> /\ pc[t] \notin Working
  BY DEF Aside, maps
<1>t. RegTypes
  BY DEF RegInv
<1>4. /\ pc'[t] \notin Working /\ pc'[t] = step
      /\ \A u \in Threads \ {t} : pc'[u] = pc[u] /\ call'[u] = call[u]
  BY <1>1, <1>2, <1>t DEF RegTypes
<1>5. RegTypes'
  <2>1. pc' \in [Threads -> Steps] /\ call' \in [Threads -> Asks \cup Plain]
    BY <1>1, <1>2, <1>t DEF RegTypes
  <2>. QED  BY <2>1, <1>3, <1>4, <1>t DEF RegTypes
<1>6. Own'
  BY <1>3, <1>4 DEF RegInv, Own, Working, RegSteps
<1>7. Excl'
  BY <1>1, <1>3, <1>4 DEF RegInv, Excl, Working, RegSteps, Inside
<1>8. /\ Registering' = Registering /\ Coming' = Coming
      /\ \A u \in Registering : call'[u] = call[u]
  BY <1>3, <1>4 DEF Registering, Coming, Working, RegSteps
<1>9. Same' /\ Sole'
  BY <1>3, <1>8, <1>t, UseKept DEF RegInv, Data
<1>10. \A h : Holders(h)' = Holders(h)
  BY <1>3, <1>8, HoldersKept
<1>11. Counted'
  BY <1>3, <1>4, <1>10 DEF RegInv, Data, Counted, Hdl, Working, RegSteps
<1>12. Names'
  BY <1>3, <1>4 DEF RegInv, Data, Names, HandleOf, Working, RegSteps
<1>13. Found'
  BY <1>3, <1>4, FoundKept DEF RegInv, Data, Working, RegSteps
<1>14. Tabled' /\ Regions'
  BY <1>3, <1>4 DEF RegInv, Data, Tabled, Regions, Hdl, Working, RegSteps
<1>. QED  BY <1>5, <1>6, <1>7, <1>9, <1>11, <1>12, <1>13, <1>14 DEF RegInv, Data

\* Closing has nothing to unpin.
LEMMA NothingPinned ==
    ASSUME RegInv, NEW t \in Threads, pc[t] = "closing"
    PROVE  pinned = {}
<1>1. /\ \A u \in Threads : pc[u] \notin Working
      /\ \A b \in Buffers : registered[b] = <<>>
  BY DEF RegInv, Excl, Working, RegSteps
<1>2. \A h : Holders(h) = {}
  BY <1>1 DEF Holders, Coming, Working, RegSteps
<1>3. \A h \in DOMAIN handles : handles[h].mrs = <<>>
  <2>. SUFFICES ASSUME NEW h \in DOMAIN handles, handles[h].live PROVE FALSE
    BY DEF RegInv, Data, Counted, RegTypes, HandleType
  <2>1. handles[h].ref_count = 0
    BY <1>2, FS_EmptySet DEF RegInv, Data, Counted
  <2>. QED  BY <2>1, <1>1 DEF RegInv, Data, Counted, Working
<1>. QED  BY <1>3 DEF RegInv, Data, Regions

\* A call begins to register memory that is in no use, or in the same.
BeginsToRegister(t, op, b, m) ==
    /\ pc[t] = "idle" /\ pc' = [pc EXCEPT ![t] = "finding"]
    /\ call' = [call EXCEPT ![t] = Asked(op, b, m)]
    /\ \A u \in Threads \ {t} : pc[u] # "closing" /\ (transport # "gni" => pc[u] = "idle")
    /\ Registrable(b, m)
    /\ op = "memory" => Len(m) = 1
    /\ op = "segments" => m \notin InUse
    /\ UNCHANGED <<transport, maps, pinned, mem_lock, registered>>

\* Which orderly callers see to.
LEMMA BeginsToRegisterReg ==
    ASSUME Orderly, RegInv, NEW t \in Threads, NEW op \in {"memory", "segments"}, NEW b \in Buffers, NEW m \in Memory,
           BeginsToRegister(t, op, b, m)
    PROVE  RegInv'
<1>1. /\ pc[t] = "idle" /\ pc' = [pc EXCEPT ![t] = "finding"]
      /\ call' = [call EXCEPT ![t] = Asked(op, b, m)]
      /\ UNCHANGED <<transport, bufhash, handles, buf, pinned, mem_lock, registered>>
      /\ op = "memory" => Len(m) = 1
  BY DEF BeginsToRegister, maps
<1>t. RegTypes
  BY DEF RegInv
<1>2. /\ pc'[t] = "finding" /\ call'[t].op = op /\ call'[t].buf = b /\ call'[t].mem = m
      /\ call'[t] \in Asks
      /\ \A u \in Threads \ {t} : pc'[u] = pc[u] /\ call'[u] = call[u]
  BY <1>1, <1>t DEF RegTypes, Asked, Asks
<1>3. /\ registered[b] = <<>> /\ \A a \in DOMAIN bufhash : bufhash[a] # b
      /\ \A u \in Threads : pc[u] \in Working => call[u].buf # b
  <2>1. registered[b] = <<>> /\ ~Busy(b) /\ b \notin Range(bufhash)
    BY <1>t DEF BeginsToRegister, Registrable, May, Orderly, RegTypes
  <2>2. \A u \in Threads : pc[u] \in Working => pc[u] # "idle" /\ "buf" \in DOMAIN call[u]
    BY <1>t DEF RegTypes, Asks, Working, RegSteps
  <2>. QED  BY <2>1, <2>2 DEF Busy, Range
<1>4. /\ \A n \in InUse \ {<<>>} : Address(n) = Address(m) => m[1] = n[1] /\ (transport = "gni" => m = n)
      /\ \A u \in Registering : call[u].op = "segments" => call[u].mem # m
  <2>1. \A u \in Registering : call[u].op = "segments" => call[u].mem # m
    BY <1>t DEF BeginsToRegister, Registrable, May, Orderly, RegTypes
  <2>2. InUse \ {<<>>} \subseteq Memory
    <3>1. \A h \in DOMAIN handles : handles[h].mrs \in Memory \cup {<<>>}
      BY <1>t, HandleTypes DEF RegTypes
    <3>2. \A u \in Registering : call[u].mem \in Memory
      BY <1>t DEF RegTypes, Asks, Registering, Working, RegSteps
    <3>. QED  BY <3>1, <3>2 DEF InUse
  <2>3. ASSUME NEW n \in InUse \ {<<>>}, Address(n) = Address(m) PROVE m[1] = n[1] /\ (transport = "gni" => m = n)
    <3>1. CASE Shares(m) \subseteq {m}
      BY <2>3, <3>1 DEF Shares
    <3>2. CASE May("overlap")
      BY <2>2, <2>3, <3>2, <1>t DEF May, Orderly, OneExtent, RegTypes
    <3>. QED  BY <3>1, <3>2 DEF BeginsToRegister, Registrable
  <2>. QED  BY <2>1, <2>3
<1>5. RegTypes'
  <2>1. pc' \in [Threads -> Steps] /\ call' \in [Threads -> Asks \cup Plain]
    BY <1>1, <1>2, <1>t DEF RegTypes, Steps, CallSteps
  <2>2. \A u \in Threads : pc'[u] \in Working =>
         /\ call'[u] \in Asks
         /\ pc'[u] \in RegSteps <=> call'[u].op \in {"memory", "segments"}
         /\ call'[u].op = "memory" => Len(call'[u].mem) = 1
    BY <1>1, <1>2, <1>t DEF RegTypes, RegSteps
  <2>. QED  BY <2>1, <2>2, <1>1, <1>t DEF RegTypes
<1>6. Own'
  BY <1>1, <1>2, <1>3 DEF RegInv, Own, Working, RegSteps
<1>7. Excl'
  BY <1>1, <1>2 DEF RegInv, Excl, Inside, BeginsToRegister
<1>8. Registering' = Registering \cup {t} /\ InUse' = InUse \cup {m} /\ Coming' = Coming
  <2>1. Registering' = Registering \cup {t} /\ t \notin Registering
    BY <1>1, <1>2 DEF Registering
  <2>2. Coming' = Coming
    BY <1>1, <1>2 DEF Coming
  <2>. QED  BY <2>1, <2>2, <1>1, <1>2 DEF InUse
<1>9. Same'
  BY <1>1, <1>4, <1>8 DEF RegInv, Data, Same
<1>10. Sole'
  <2>1. op = "segments" => /\ \A h \in DOMAIN handles : handles[h].mrs # m
                           /\ \A u \in Registering : call[u].mem # m
    BY DEF BeginsToRegister, InUse
  <2>. QED  BY <2>1, <1>1, <1>2, <1>4, <1>8 DEF RegInv, Data, Sole
<1>11. \A h : Holders(h)' = Holders(h)
  BY <1>1, <1>8, HoldersKept
<1>12. Counted'
  BY <1>1, <1>2, <1>11 DEF RegInv, Data, Counted, Hdl
<1>13. Names' /\ Tabled' /\ Regions'
  BY <1>1, <1>2 DEF RegInv, Data, Names, HandleOf, Tabled, Regions, Hdl
<1>14. Found'
  BY <1>1, <1>2, FoundKept DEF RegInv, Data
<1>. QED  BY <1>5, <1>6, <1>7, <1>9, <1>10, <1>12, <1>13, <1>14 DEF RegInv, Data

\* A call begins to give a buffer back.
BeginsToUnregister(t, b) ==
    /\ pc[t] = "idle" /\ pc' = [pc EXCEPT ![t] = "dropping"]
    /\ call' = [call EXCEPT ![t] = Asked("unregister", b, registered[b])]
    /\ \A u \in Threads \ {t} : pc[u] # "closing" /\ (transport # "gni" => pc[u] = "idle")
    /\ registered[b] \in Memory /\ ~Busy(b)
    /\ UNCHANGED <<transport, maps, pinned, mem_lock, registered>>

\* The buffer is its own until then.
LEMMA BeginsToUnregisterReg ==
    ASSUME RegInv, NEW t \in Threads, NEW b \in Buffers, BeginsToUnregister(t, b)
    PROVE  RegInv'
<1>1. /\ pc[t] = "idle" /\ pc' = [pc EXCEPT ![t] = "dropping"]
      /\ call' = [call EXCEPT ![t] = Asked("unregister", b, registered[b])]
      /\ UNCHANGED <<transport, bufhash, handles, buf, pinned, mem_lock, registered>>
      /\ registered[b] \in Memory
  BY DEF BeginsToUnregister, maps
<1>t. RegTypes
  BY DEF RegInv
<1>2. /\ pc'[t] = "dropping" /\ call'[t].op = "unregister" /\ call'[t].buf = b /\ call'[t].mem = registered[b]
      /\ call'[t] \in Asks
      /\ \A u \in Threads \ {t} : pc'[u] = pc[u] /\ call'[u] = call[u]
  BY <1>1, <1>t DEF RegTypes, Asked, Asks
<1>3. \A u \in Threads : pc[u] \in Working => call[u].buf # b
  <2>1. \A u \in Threads : pc[u] \in Working => pc[u] # "idle" /\ "buf" \in DOMAIN call[u]
    BY <1>t DEF RegTypes, Asks, Working, RegSteps
  <2>. QED  BY <2>1 DEF Busy, BeginsToUnregister
<1>5. RegTypes'
  <2>1. pc' \in [Threads -> Steps] /\ call' \in [Threads -> Asks \cup Plain]
    BY <1>1, <1>2, <1>t DEF RegTypes, Steps, CallSteps
  <2>2. \A u \in Threads : pc'[u] \in Working =>
         /\ call'[u] \in Asks
         /\ pc'[u] \in RegSteps <=> call'[u].op \in {"memory", "segments"}
         /\ call'[u].op = "memory" => Len(call'[u].mem) = 1
    BY <1>1, <1>2, <1>t DEF RegTypes, RegSteps
  <2>. QED  BY <2>1, <2>2, <1>1, <1>t DEF RegTypes
<1>6. Own'
  BY <1>1, <1>2, <1>3 DEF RegInv, Own, Working, RegSteps
<1>7. Excl'
  BY <1>1, <1>2 DEF RegInv, Excl, Inside, BeginsToUnregister
<1>8. /\ Registering' = Registering /\ Coming' = Coming
      /\ \A u \in Registering : call'[u] = call[u]
  BY <1>1, <1>2 DEF Registering, Coming
<1>9. Same' /\ Sole'
  BY <1>1, <1>8, <1>t, UseKept DEF RegInv, Data
<1>11. \A h : Holders(h)' = Holders(h)
  BY <1>1, <1>8, HoldersKept
<1>12. Counted'
  BY <1>1, <1>2, <1>11 DEF RegInv, Data, Counted, Hdl
<1>13. Names' /\ Tabled' /\ Regions'
  BY <1>1, <1>2 DEF RegInv, Data, Names, HandleOf, Tabled, Regions, Hdl
<1>14. Found'
  BY <1>1, <1>2, FoundKept DEF RegInv, Data
<1>. QED  BY <1>5, <1>6, <1>7, <1>9, <1>12, <1>13, <1>14 DEF RegInv, Data

-----------------------------------------------------------------------------
(* The steps of a registration.                                            *)

\* Nothing that matters here changes.
LEMMA SameReg ==
    ASSUME RegInv, UNCHANGED <<transport, bufhash, handles, buf, pinned, mem_lock, pc, call, registered>>
    PROVE  RegInv'
<1>1. RegTypes' /\ Own' /\ Excl'
  BY DEF RegInv, RegTypes, Own, Excl
<1>2. Registering' = Registering /\ Coming' = Coming /\ InUse' = InUse
  BY DEF Registering, Coming, InUse
<1>3. \A h : Holders(h)' = Holders(h)
  BY <1>2 DEF Holders
<1>4. Same' /\ Sole' /\ Counted'
  BY <1>2, <1>3 DEF RegInv, Data, Same, Sole, Counted, Hdl
<1>5. Found'
  BY FoundKept DEF RegInv, Data
<1>6. Names'
  BY DEF RegInv, Data, Names, HandleOf
<1>7. Tabled' /\ Regions'
  BY DEF RegInv, Data, Tabled, Regions, Hdl
<1>. QED  BY <1>1, <1>4, <1>5, <1>6, <1>7 DEF RegInv, Data

\* What names two memories names one.
LEMMA SameMemory ==
    ASSUME NEW s, NEW m \in Memory, NEW n \in Memory, Len(s) = Len(m), Len(s) = Len(n),
           \A i \in DOMAIN m : s[i].address = m[i][1] /\ s[i].length = m[i][2],
           \A i \in DOMAIN n : s[i].address = n[i][1] /\ s[i].length = n[i][2]
    PROVE  m = n
<1>1. /\ m \in Seq(Nat \X Nat) /\ n \in Seq(Nat \X Nat) /\ Len(m) = Len(n)
      /\ DOMAIN m = 1 .. Len(m) /\ DOMAIN n = DOMAIN m
  BY MemoryTypes
<1>2. ASSUME NEW i \in DOMAIN m PROVE m[i] = n[i]
  <2>1. m[i] \in Nat \X Nat /\ n[i] \in Nat \X Nat
    BY <1>1, MemoryTypes
  <2>2. m[i][1] = n[i][1] /\ m[i][2] = n[i][2]
    BY <1>1
  <2>. QED  BY <2>1, <2>2
<1>. QED  BY <1>1, <1>2, SeqEqual

\* The thread looks in the table, which nobody changes then.
LEMMA FindsReg == ASSUME RegInv, NEW t \in Threads, Finds(t) PROVE RegInv'
<1>. DEFINE a == Address(call[t].mem)
            found == IF a \in DOMAIN bufhash THEN bufhash[a] ELSE None
<1>1. /\ pc[t] = "finding" /\ pc' = [pc EXCEPT ![t] = "taking"]
      /\ call' = [call EXCEPT ![t].old = found]
      /\ transport = "gni" => mem_lock = 0 /\ mem_lock' = t
      /\ UNCHANGED <<transport, bufhash, handles, buf, pinned, registered>>
  BY DEF Finds, At, Goto, maps
<1>t. RegTypes
  BY DEF RegInv
<1>a. call[t] \in Asks /\ found \in Buffers \cup {None}
  BY <1>1, <1>t DEF RegTypes, Working, RegSteps
<1>2. /\ call'[t].op = call[t].op /\ call'[t].buf = call[t].buf /\ call'[t].mem = call[t].mem /\ call'[t].old = found
      /\ call'[t] \in Asks /\ pc'[t] = "taking"
      /\ \A u \in Threads \ {t} : pc'[u] = pc[u] /\ call'[u] = call[u]
  <2>. HIDE DEF found
  <2>. QED  BY <1>1, <1>a, <1>t DEF RegTypes, Asks
<1>3. \A u \in Threads \ {t} : pc[u] \notin Inside
  BY <1>1, Exclusive
<1>. HIDE DEF found
<1>4. RegTypes'
  <2>1. pc' \in [Threads -> Steps] /\ call' \in [Threads -> Asks \cup Plain]
    BY <1>1, <1>2, <1>t DEF RegTypes, Steps, CallSteps
  <2>2. \A u \in Threads : pc'[u] \in Working =>
         /\ call'[u] \in Asks
         /\ pc'[u] \in RegSteps <=> call'[u].op \in {"memory", "segments"}
         /\ call'[u].op = "memory" => Len(call'[u].mem) = 1
    BY <1>1, <1>2, <1>t DEF RegTypes, RegSteps, Working
  <2>. QED  BY <2>1, <2>2, <1>1, <1>t DEF RegTypes
<1>5. Own'
  BY <1>1, <1>2 DEF RegInv, Own, Working, RegSteps
<1>6. Excl'
  BY <1>1, <1>2, <1>3 DEF RegInv, Excl
<1>7. Registering' = Registering /\ Coming' = Coming
  BY <1>1, <1>2 DEF Registering, Coming
<1>8. Same' /\ Sole'
  BY <1>1, <1>2, <1>7, <1>t, UseKept DEF RegInv, Data, Registering
<1>9. \A h : Holders(h)' = Holders(h)
  BY <1>1, <1>7, HoldersKept
<1>10. Counted'
  BY <1>1, <1>2, <1>9 DEF RegInv, Data, Counted, Hdl
<1>11. Names' /\ Tabled' /\ Regions'
  BY <1>1, <1>2 DEF RegInv, Data, Names, HandleOf, Tabled, Regions, Hdl
<1>12. Found'
  <2>1. /\ found = None => a \notin DOMAIN bufhash
        /\ found # None => a \in DOMAIN bufhash /\ bufhash[a] = found
    BY <1>t, RegistrationAssumptions DEF RegTypes, RegistrationAssumptions, found
  <2>. QED  BY <2>1, <1>1, <1>2, FoundKept DEF RegInv, Data
<1>. QED  BY <1>4, <1>5, <1>6, <1>8, <1>10, <1>11, <1>12 DEF RegInv, Data

\* A thread that returns from a call, which leaves the rest as it was.
LEMMA MismatchReg == ASSUME RegInv, NEW t \in Threads, Mismatch(t) PROVE RegInv'
<1>1. /\ pc[t] = "taking" /\ pc' = [pc EXCEPT ![t] = "idle"]
      /\ call' = [call EXCEPT ![t] = NoCall]
      /\ UNCHANGED <<transport, bufhash, handles, buf, pinned, mem_lock, registered>>
  BY DEF Mismatch, At, Goto, Return, maps
<1>t. RegTypes
  BY DEF RegInv
<1>2. /\ call'[t] \in Plain /\ pc'[t] = "idle"
      /\ \A u \in Threads \ {t} : pc'[u] = pc[u] /\ call'[u] = call[u]
  BY <1>1, <1>t DEF RegTypes, NoCall, Plain
<1>4. RegTypes'
  <2>1. pc' \in [Threads -> Steps] /\ call' \in [Threads -> Asks \cup Plain]
    BY <1>1, <1>2, <1>t DEF RegTypes, Steps
  <2>. QED  BY <2>1, <1>1, <1>2, <1>t DEF RegTypes, Working, RegSteps
<1>5. Own' /\ Excl'
  BY <1>1, <1>2 DEF RegInv, Own, Excl, Working, RegSteps, Inside
<1>7. Registering' \subseteq Registering /\ Coming' = Coming /\ \A u \in Registering' : call'[u] = call[u]
  BY <1>1, <1>2 DEF Registering, Coming
<1>8. Same' /\ Sole'
  BY <1>1, <1>2, <1>7, <1>t, UseKept DEF RegInv, Data
<1>9. \A h : Holders(h)' = Holders(h)
  BY <1>1, <1>7, HoldersKept
<1>10. Counted'
  BY <1>1, <1>2, <1>9 DEF RegInv, Data, Counted, Hdl
<1>11. Names' /\ Tabled' /\ Regions'
  BY <1>1, <1>2 DEF RegInv, Data, Names, HandleOf, Tabled, Regions, Hdl
<1>12. Found'
  BY <1>1, <1>2, FoundKept DEF RegInv, Data
<1>. QED  BY <1>4, <1>5, <1>8, <1>10, <1>11, <1>12 DEF RegInv, Data

\* Nobody else is inside; the thread comes to hold handle h.
LEMMA TakesReg == ASSUME RegInv, NEW t \in Threads, Takes(t) PROVE RegInv'
<1>t. RegTypes
  BY DEF RegInv
<1>d. PICK old, b, h : old = call[t].old /\ b = call[t].buf /\ h = IF old = None THEN Len(handles) + 1 ELSE buf[old].hdl
  OBVIOUS
<1>. DEFINE new == [ref_count |-> 1, mrs |-> <<>>, live |-> TRUE]
<1>a. call[t] \in Asks /\ pc[t] = "taking" /\ b \in Buffers /\ old \in Buffers \cup {None}
  BY <1>d, <1>t DEF RegTypes, Working, RegSteps, Takes, At, Asks
<1>h. /\ Len(handles) \in Nat /\ DOMAIN handles = 1 .. Len(handles) /\ handles \in Seq(HandleType)
      /\ \A x \in DOMAIN handles : handles[x].ref_count \in Int /\ handles[x].mrs \in Memory \cup {<<>>} /\ handles[x].live \in BOOLEAN
  BY <1>t, HandleTypes DEF RegTypes
<1>o. \A u \in Threads \ {t} : pc[u] \notin Inside
  BY <1>a, Exclusive DEF Inside
<1>0. CASE UNCHANGED <<transport, bufhash, handles, buf, pinned, mem_lock, pc, call, registered>>
  BY <1>0, SameReg
<1>. SUFFICES ASSUME ~ UNCHANGED <<transport, bufhash, handles, buf, pinned, mem_lock, pc, call, registered>>
              PROVE  RegInv'
  BY <1>0
<1>1. /\ pc' = [pc EXCEPT ![t] = "pinning"]
      /\ buf' = [buf EXCEPT ![b] = [Cleared EXCEPT !.hdl = h]]
      /\ handles' = IF old = None THEN Append(handles, new) ELSE [handles EXCEPT ![h].ref_count = handles[h].ref_count + 1]
      /\ old # None => h # 0 /\ handles[h].live
      /\ call[t].op = "segments" /\ old # None => Matches(t, call[t].mem)
      /\ UNCHANGED <<transport, bufhash, pinned, mem_lock, call, registered>>
  BY <1>d DEF Takes, At, Aborts, maps, Goto, Counts
<1>2. pc'[t] = "pinning" /\ \A u \in Threads \ {t} : pc'[u] = pc[u]
  BY <1>1, <1>t DEF RegTypes
<1>3. old # None =>
        /\ Address(call[t].mem) \in DOMAIN bufhash /\ bufhash[Address(call[t].mem)] = old
        /\ h \in DOMAIN handles /\ handles[h].live /\ handles[h].mrs # <<>> /\ Address(handles[h].mrs) = Address(call[t].mem)
        /\ Named(buf[old], handles, handles[h].mrs)
  <2>. SUFFICES ASSUME old # None
                PROVE  /\ Address(call[t].mem) \in DOMAIN bufhash /\ bufhash[Address(call[t].mem)] = old
                       /\ h \in DOMAIN handles /\ handles[h].live /\ handles[h].mrs # <<>>
                       /\ Address(handles[h].mrs) = Address(call[t].mem) /\ Named(buf[old], handles, handles[h].mrs)
    OBVIOUS
  <2>1. Address(call[t].mem) \in DOMAIN bufhash /\ bufhash[Address(call[t].mem)] = old
    BY <1>a, <1>d DEF RegInv, Data, Found
  <2>2. HandleOf(old) = handles[h] /\ buf[old].hdl = h
    BY <1>d DEF HandleOf
  <2>3. /\ handles[h].mrs # <<>> /\ Address(handles[h].mrs) = Address(call[t].mem)
        /\ Named(buf[old], handles, handles[h].mrs)
    BY <2>1, <2>2 DEF RegInv, Data, Names
  <2>4. h \in DOMAIN handles /\ handles[h].live
    BY <2>2, <2>3 DEF Named
  <2>. QED  BY <2>1, <2>3, <2>4
<1>4. old # None => call[t].op = "memory"
  <2>. SUFFICES ASSUME old # None, call[t].op = "segments" PROVE FALSE
    BY <1>a, <1>t DEF RegTypes, Working, RegSteps
  <2>1. handles[h].mrs \in Memory /\ call[t].mem \in Memory /\ handles[h].mrs # call[t].mem
    BY <1>3, <1>h, <1>a DEF RegInv, Data, Sole, Registering, Asks
  <2>2. Matches(t, call[t].mem)
    BY <1>1
  <2>3. /\ Len(buf[old].segments) = Len(call[t].mem) /\ Len(buf[old].segments) = Len(handles[h].mrs)
        /\ \A i \in DOMAIN call[t].mem :
             buf[old].segments[i].address = call[t].mem[i][1] /\ buf[old].segments[i].length = call[t].mem[i][2]
        /\ \A i \in DOMAIN handles[h].mrs :
             buf[old].segments[i].address = handles[h].mrs[i][1] /\ buf[old].segments[i].length = handles[h].mrs[i][2]
    <3>1. /\ Len(buf[old].segments) = Len(call[t].mem)
          /\ \A i \in DOMAIN call[t].mem :
               buf[old].segments[i].address = call[t].mem[i][1] /\ buf[old].segments[i].length = call[t].mem[i][2]
      BY <1>d, <2>2 DEF Matches
    <3>2. /\ Len(buf[old].segments) = Len(handles[h].mrs)
          /\ \A i \in DOMAIN handles[h].mrs :
               buf[old].segments[i].address = handles[h].mrs[i][1] /\ buf[old].segments[i].length = handles[h].mrs[i][2]
      BY <1>3 DEF Named
    <3>. QED  BY <3>1, <3>2
  <2>4. handles[h].mrs = call[t].mem
    <3>. DEFINE s == buf[old].segments
                m == handles[h].mrs
                n == call[t].mem
    <3>1. /\ m \in Memory /\ n \in Memory /\ Len(s) = Len(m) /\ Len(s) = Len(n)
          /\ \A i \in DOMAIN m : s[i].address = m[i][1] /\ s[i].length = m[i][2]
          /\ \A i \in DOMAIN n : s[i].address = n[i][1] /\ s[i].length = n[i][2]
      BY <2>1, <2>3
    <3>2. m = n
      <4>. HIDE DEF s, m, n
      <4>. QED  BY <3>1, SameMemory
    <3>. QED  BY <3>2
  <2>. QED  BY <2>1, <2>4
<1>n. old = None => h = Len(handles) + 1 /\ h \notin DOMAIN handles
  BY <1>d, <1>h
<1>5. /\ h \in Nat \ {0} /\ h \in DOMAIN handles' /\ handles'[h].live
      /\ DOMAIN handles \subseteq DOMAIN handles' /\ DOMAIN handles' \subseteq DOMAIN handles \cup {h}
      /\ \A x \in DOMAIN handles \ {h} : handles'[x] = handles[x]
      /\ handles' \in Seq(HandleType)
      /\ handles'[h].mrs = IF old = None THEN <<>> ELSE handles[h].mrs
      /\ handles'[h].ref_count = IF old = None THEN 1 ELSE handles[h].ref_count + 1
  <2>1. CASE old = None
    <3>1. new \in HandleType /\ new.ref_count = 1 /\ new.mrs = <<>> /\ new.live
      BY DEF HandleType
    <3>2. handles' = Append(handles, new)
      BY <2>1, <1>1
    <3>. HIDE DEF new
    <3>3. /\ handles' \in Seq(HandleType) /\ Len(handles') = Len(handles) + 1
          /\ \A x \in 1 .. Len(handles) : handles'[x] = handles[x]
          /\ handles'[Len(handles) + 1] = new
      <4>. DEFINE more == Append(handles, new)
      <4>1. /\ more \in Seq(HandleType) /\ Len(more) = Len(handles) + 1
            /\ \A x \in 1 .. Len(handles) : more[x] = handles[x]
            /\ more[Len(handles) + 1] = new
        BY <3>1, <1>h, AppendProperties
      <4>. HIDE DEF more
      <4>2. handles' = more
        BY <3>2 DEF more
      <4>. QED  BY <4>1, <4>2
    <3>4. DOMAIN handles' = 1 .. Len(handles) + 1
      BY <3>3
    <3>. QED  BY <2>1, <3>1, <3>3, <3>4, <1>n, <1>h
  <2>2. CASE old # None
    <3>. DEFINE more == [handles[h] EXCEPT !.ref_count = handles[h].ref_count + 1]
    <3>1. h \in 1 .. Len(handles) /\ handles[h] \in HandleType
      BY <2>2, <1>3, <1>h, ElementOfSeq
    <3>2. more \in HandleType /\ more.ref_count = handles[h].ref_count + 1 /\ more.mrs = handles[h].mrs /\ more.live = handles[h].live
      BY <3>1 DEF HandleType
    <3>3. handles' = [handles EXCEPT ![h] = more]
      BY <2>2, <1>1
    <3>. HIDE DEF more
    <3>4. /\ handles' \in Seq(HandleType) /\ Len(handles') = Len(handles)
          /\ \A j \in 1 .. Len(handles) : handles'[j] = IF j = h THEN more ELSE handles[j]
      BY <3>1, <3>2, <3>3, <1>h, ExceptSeq
    <3>5. DOMAIN handles' = 1 .. Len(handles)
      BY <3>4
    <3>6. h \in Nat \ {0}
      BY <3>1, <1>h
    <3>. QED  BY <2>2, <3>1, <3>2, <3>4, <3>5, <3>6, <1>h, <1>3
  <2>. QED  BY <2>1, <2>2
<1>6. /\ buf'[b] = [Cleared EXCEPT !.hdl = h] /\ buf'[b].hdl = h /\ \A x \in Buffers \ {b} : buf'[x] = buf[x]
      /\ buf' \in [Buffers -> BufType]
  <2>. DEFINE c == [hdl |-> h, segments |-> <<>>]
  <2>1. c = [Cleared EXCEPT !.hdl = h] /\ c.hdl = h /\ c \in BufType
    BY <1>5 DEF Cleared, BufType
  <2>. HIDE DEF c
  <2>. QED  BY <2>1, <1>1, <1>a, <1>t DEF RegTypes
<1>7. /\ registered[b] = <<>> /\ \A a \in DOMAIN bufhash : bufhash[a] # b
      /\ \A u \in Threads \ {t} : pc[u] \in Working => call[u].buf # b
  BY <1>a, <1>d DEF RegInv, Own, Working, RegSteps
<1>8. RegTypes'
  <2>1. pc' \in [Threads -> Steps]
    BY <1>1, <1>t DEF RegTypes, Steps, CallSteps
  <2>2. \A u \in Threads : pc'[u] \in Working =>
         /\ call'[u] \in Asks
         /\ pc'[u] \in RegSteps <=> call'[u].op \in {"memory", "segments"}
         /\ call'[u].op = "memory" => Len(call'[u].mem) = 1
    BY <1>1, <1>2, <1>a, <1>t DEF RegTypes, RegSteps, Working
  <2>. QED  BY <2>1, <2>2, <1>1, <1>5, <1>6, <1>t DEF RegTypes
<1>9. Own' /\ Excl'
  BY <1>1, <1>2, <1>a DEF RegInv, Own, Excl, Working, RegSteps, Inside
<1>10. Registering' = Registering /\ Coming' = Coming \cup {b} /\ b \notin Coming
  <2>1. Registering' = Registering
    BY <1>1, <1>2, <1>a DEF Registering
  <2>2. \A u \in Threads : pc'[u] \in {"pinning", "publishing"} <=> u = t \/ pc[u] \in {"pinning", "publishing"}
    BY <1>2
  <2>3. \A u \in Threads : pc[u] \in {"pinning", "publishing"} => call[u].buf # b
    BY <1>7, <1>a DEF Working, RegSteps
  <2>4. Coming' = Coming \cup {b} /\ b \notin Coming
    BY <2>2, <2>3, <1>1, <1>d DEF Coming
  <2>. QED  BY <2>1, <2>4
<1>11. Same' /\ Sole'
  <2>1. \A x \in DOMAIN handles' : handles'[x].mrs = <<>> \/ \E y \in DOMAIN handles : handles'[x].mrs = handles[y].mrs
    BY <1>3, <1>5
  <2>. QED  BY <1>1, <1>2, <1>10, <1>t, <2>1, UseKept DEF RegInv, Data
<1>12. /\ Holders(h)' = Holders(h) \cup {b} /\ b \notin Holders(h) /\ (old = None => Holders(h) = {})
       /\ \A x \in DOMAIN handles \ {h} : Holders(x)' = Holders(x)
  <2>1. Holders(h)' = Holders(h) \cup {b} /\ b \notin Holders(h)
    BY <1>1, <1>6, <1>7, <1>10, <1>a DEF Holders
  <2>2. \A x \in DOMAIN handles \ {h} : Holders(x)' = Holders(x)
    BY <1>1, <1>6, <1>7, <1>10, <1>a DEF Holders
  <2>3. ASSUME old = None, NEW x \in Holders(h) PROVE FALSE
    <3>1. buf[x].hdl \in DOMAIN handles
      <4>1. CASE registered[x] # <<>>
        BY <4>1 DEF RegInv, Data, Names, Named, Holders
      <4>2. CASE x \in Coming
        BY <4>2 DEF RegInv, Data, Found, Hdl, Coming
      <4>. QED  BY <4>1, <4>2 DEF Holders
    <3>. QED  BY <3>1, <2>3, <1>n DEF Holders
  <2>. QED  BY <2>1, <2>2, <2>3
<1>13. Counted'
  <2>1. IsFiniteSet(Holders(h))
    BY RegistrationAssumptions, FS_Subset DEF RegistrationAssumptions, Holders
  <2>2. Cardinality(Holders(h)') = Cardinality(Holders(h)) + 1 /\ Cardinality(Holders(h)) \in Nat
        /\ (old = None => Cardinality(Holders(h)) = 0)
    BY <2>1, <1>12, FS_AddElement, FS_CardinalityType, FS_EmptySet
  <2>3. /\ handles'[h].ref_count = Cardinality(Holders(h)') /\ handles'[h].ref_count # 0
    BY <2>2, <1>3, <1>5 DEF RegInv, Data, Counted
  <2>4. handles'[h].mrs = <<>> => pc'[t] = "pinning" /\ Hdl(t)' = h
    BY <1>1, <1>2, <1>d, <1>6 DEF Hdl
  <2>5. ASSUME NEW x \in DOMAIN handles' \ {h}
        PROVE  /\ handles'[x].live => handles'[x].ref_count = Cardinality(Holders(x)')
               /\ ~handles'[x].live => Holders(x)' = {} /\ handles'[x].mrs = <<>>
               /\ handles'[x].live /\ handles'[x].ref_count = 0 => \E u \in Threads : pc'[u] = "releasing" /\ Hdl(u)' = x
               /\ handles'[x].live /\ handles'[x].mrs = <<>> => \E u \in Threads : pc'[u] = "pinning" /\ Hdl(u)' = x
    <3>1. x \in DOMAIN handles /\ handles'[x] = handles[x] /\ Holders(x)' = Holders(x)
      BY <1>5, <1>12
    <3>2. \A u \in Threads : pc[u] \in {"releasing", "pinning"} => FALSE
      BY <1>o, <1>a DEF Inside
    <3>. QED  BY <3>1, <3>2 DEF RegInv, Data, Counted
  <2>. QED  BY <2>3, <2>4, <2>5, <1>5 DEF Counted
<1>14. Names'
  <2>1. ASSUME NEW x \in Buffers, NEW m, Named(buf[x], handles, m), x # b PROVE Named(buf'[x], handles', m)
    <3>1. buf'[x] = buf[x] /\ buf[x].hdl \in DOMAIN handles /\ handles[buf[x].hdl].live
      BY <2>1, <1>6 DEF Named
    <3>2. /\ buf[x].hdl \in DOMAIN handles' /\ handles'[buf[x].hdl].live
          /\ handles'[buf[x].hdl].mrs = handles[buf[x].hdl].mrs
      BY <3>1, <1>5, <1>n
    <3>. QED  BY <2>1, <3>1, <3>2, NamedKept
  <2>2. \A x \in Buffers : registered'[x] # <<>> => Named(buf'[x], handles', registered'[x])
    BY <2>1, <1>1, <1>7 DEF RegInv, Data, Names
  <2>3. \A u \in Threads : pc'[u] \notin {"publishing", "releasing"}
    BY <1>2, <1>o DEF Inside
  <2>4. ASSUME NEW a \in DOMAIN bufhash
        PROVE  /\ HandleOf(bufhash[a])'.mrs # <<>> /\ Address(HandleOf(bufhash[a])'.mrs) = a
               /\ Named(buf'[bufhash[a]], handles', HandleOf(bufhash[a])'.mrs)
    <3>1. bufhash[a] \in Buffers /\ bufhash[a] # b /\ Named(buf[bufhash[a]], handles, HandleOf(bufhash[a]).mrs)
      BY <1>7, <1>t DEF RegTypes, RegInv, Data, Names
    <3>2. HandleOf(bufhash[a])'.mrs = HandleOf(bufhash[a]).mrs
      BY <3>1, <1>1, <1>5, <1>6, <1>n DEF Named, HandleOf
    <3>. QED  BY <3>1, <3>2, <2>1 DEF RegInv, Data, Names
  <2>. QED  BY <1>1, <2>2, <2>3, <2>4 DEF Names
<1>15. Found'
  <2>1. Hdl(t)' = h /\ Handle(t)' = handles'[h]
    BY <1>1, <1>d, <1>6 DEF Hdl, Handle
  <2>2. \A u \in Threads \ {t} : pc'[u] \notin Inside
    BY <1>2, <1>o
  <2>3. /\ old = None => Address(call[t].mem) \notin DOMAIN bufhash
        /\ old # None => Address(call[t].mem) \in DOMAIN bufhash /\ bufhash[Address(call[t].mem)] = old
    BY <1>a, <1>d DEF RegInv, Data, Found
  <2>4. old = None <=> handles'[h].ref_count = 1
    <3>1. CASE old # None
      <4>1. handles[h].ref_count = Cardinality(Holders(h)) /\ handles[h].ref_count # 0
        BY <3>1, <1>3, <1>o, <1>a DEF RegInv, Data, Counted, Inside
      <4>. QED  BY <3>1, <4>1, <1>3, <1>5, <1>h
    <3>. QED  BY <3>1, <1>5
  <2>5. old # None => buf'[old] = buf[old] /\ h = buf[old].hdl
    BY <1>3, <1>6, <1>7, <1>a, <1>d
  <2>6. old = None => handles'[h].mrs = <<>>
    BY <1>5
  <2>7. \A u \in Threads : pc'[u] \in {"taking", "pinning", "publishing"} =>
         /\ call'[u].old = None => Address(call'[u].mem) \notin DOMAIN bufhash'
         /\ call'[u].old # None => Address(call'[u].mem) \in DOMAIN bufhash' /\ bufhash'[Address(call'[u].mem)] = call'[u].old
    BY <2>2, <2>3, <1>1, <1>2, <1>d DEF Inside
  <2>8. \A u \in Threads : pc'[u] \in {"pinning", "publishing"} =>
         /\ Hdl(u)' \in DOMAIN handles' /\ Handle(u)'.live
         /\ call'[u].old = None <=> Handle(u)'.ref_count = 1
         /\ call'[u].old # None => Hdl(u)' = buf'[call'[u].old].hdl /\ call'[u].op = "memory"
    <3>1. \A u \in Threads : pc'[u] \in {"pinning", "publishing"} => u = t
      BY <2>2 DEF Inside
    <3>2. Hdl(t)' \in DOMAIN handles' /\ Handle(t)'.live /\ (call'[t].old = None <=> Handle(t)'.ref_count = 1)
      BY <2>1, <2>4, <1>1, <1>5, <1>d
    <3>3. call'[t].old # None => Hdl(t)' = buf'[call'[t].old].hdl /\ call'[t].op = "memory"
      BY <2>1, <2>5, <1>1, <1>4, <1>d
    <3>. QED  BY <3>1, <3>2, <3>3
  <2>9. \A u \in Threads : pc'[u] = "pinning" /\ call'[u].old = None => Handle(u)'.mrs = <<>>
    BY <2>1, <2>2, <2>6, <1>1, <1>d DEF Inside
  <2>10. \A u \in Threads : pc'[u] \notin {"publishing", "releasing"}
    BY <2>2, <1>2 DEF Inside
  <2>. QED  BY <2>7, <2>8, <2>9, <2>10 DEF Found
<1>16. Tabled'
  <2>. SUFFICES ASSUME NEW x \in DOMAIN handles', handles'[x].live, handles'[x].mrs # <<>>
                PROVE  Address(handles'[x].mrs) \in DOMAIN bufhash /\ buf'[bufhash[Address(handles'[x].mrs)]].hdl = x
    BY <1>1 DEF Tabled
  <2>1. x \in DOMAIN handles /\ handles'[x].mrs = handles[x].mrs /\ handles[x].live
    BY <1>3, <1>5
  <2>2. Address(handles[x].mrs) \in DOMAIN bufhash /\ buf[bufhash[Address(handles[x].mrs)]].hdl = x
    BY <2>1, <1>o, <1>a DEF RegInv, Data, Tabled, Inside
  <2>. QED  BY <2>1, <2>2, <1>6, <1>7, <1>t DEF RegTypes
<1>17. Regions'
  <2>1. \A x \in DOMAIN handles : handles'[x].mrs = handles[x].mrs
    BY <1>3, <1>5, <1>n
  <2>2. \A x \in DOMAIN handles' : x \in DOMAIN handles \/ handles'[x].mrs = <<>>
    BY <1>3, <1>5
  <2>. QED  BY <1>1, <1>5, <2>1, <2>2 DEF RegInv, Data, Regions
<1>. QED  BY <1>8, <1>9, <1>11, <1>13, <1>14, <1>15, <1>16, <1>17 DEF RegInv, Data

\* What Seq makes of a function on an interval.
LEMMA Listed ==
    ASSUME NEW S, NEW n \in Nat, NEW f, f \in [1 .. n -> S]
    PROVE  f \in Seq(S) /\ Len(f) = n
BY SMT

\* The thread pins its memory, or names that of the handle.
LEMMA PinsReg == ASSUME RegInv, NEW t \in Threads, Pins(t) PROVE RegInv'
<1>0. CASE UNCHANGED <<transport, bufhash, handles, buf, pinned, mem_lock, pc, call, registered>>
  BY <1>0, SameReg
<1>. SUFFICES ASSUME ~ UNCHANGED <<transport, bufhash, handles, buf, pinned, mem_lock, pc, call, registered>>
              PROVE  RegInv'
  BY <1>0
<1>t. RegTypes
  BY DEF RegInv
<1>d. PICK b, h, m, old : b = call[t].buf /\ h = Hdl(t) /\ m = call[t].mem /\ old = call[t].old
  OBVIOUS
<1>. DEFINE first == handles[h].ref_count = 1
            mrs == IF first THEN m ELSE handles[h].mrs
<1>1. /\ pc[t] = "pinning" /\ pc' = [pc EXCEPT ![t] = "publishing"]
      /\ first \/ call[t].op = "memory"
      /\ handles' = [handles EXCEPT ![h].mrs = mrs]
      /\ pinned' = IF first THEN pinned \cup {<<h, i>> : i \in DOMAIN m} ELSE pinned
      /\ buf' = [buf EXCEPT ![b].segments = Segments(t, mrs)]
      /\ UNCHANGED <<transport, bufhash, mem_lock, call, registered>>
  BY <1>d DEF Pins, At, Aborts, maps, Goto, Handle, register_memory_segment
<1>a. /\ call[t] \in Asks /\ b \in Buffers /\ m \in Memory /\ old \in Buffers \cup {None}
      /\ call[t].op = "memory" => Len(m) = 1
      /\ buf[b].hdl = h
  BY <1>1, <1>d, <1>t DEF RegTypes, Working, RegSteps, Asks, Hdl
<1>m. /\ m # <<>> /\ Len(m) \in Nat \ {0} /\ DOMAIN m = 1 .. Len(m) /\ m \in Seq(Nat \X Nat)
      /\ \A i \in DOMAIN m : m[i] \in Nat \X Nat
  BY <1>a, MemoryTypes
<1>h. /\ Len(handles) \in Nat /\ DOMAIN handles = 1 .. Len(handles) /\ handles \in Seq(HandleType)
      /\ \A x \in DOMAIN handles : handles[x].ref_count \in Int /\ handles[x].mrs \in Memory \cup {<<>>} /\ handles[x].live \in BOOLEAN
  BY <1>t, HandleTypes DEF RegTypes
<1>o. \A u \in Threads \ {t} : pc[u] \notin Inside
  BY <1>1, Exclusive DEF Inside
<1>2. pc'[t] = "publishing" /\ \A u \in Threads \ {t} : pc'[u] = pc[u]
  BY <1>1, <1>t DEF RegTypes
<1>3. /\ h \in DOMAIN handles /\ h \in Nat \ {0} /\ handles[h].live /\ (old = None <=> first)
      /\ old # None => /\ h = buf[old].hdl /\ call[t].op = "memory"
                       /\ Address(m) \in DOMAIN bufhash /\ bufhash[Address(m)] = old
      /\ old = None => handles[h].mrs = <<>> /\ Address(m) \notin DOMAIN bufhash
  BY <1>1, <1>d, <1>h DEF RegInv, Data, Found, Handle
<1>4. ~first => /\ handles[h].mrs \in Memory /\ Address(handles[h].mrs) = Address(m)
                /\ m[1] = handles[h].mrs[1] /\ (transport = "gni" => m = handles[h].mrs)
                /\ Len(m) = 1 /\ Len(handles[h].mrs) >= 1
  <2>. SUFFICES ASSUME ~first
                PROVE  /\ handles[h].mrs \in Memory /\ Address(handles[h].mrs) = Address(m)
                       /\ m[1] = handles[h].mrs[1] /\ (transport = "gni" => m = handles[h].mrs)
                       /\ Len(m) = 1 /\ Len(handles[h].mrs) >= 1
    OBVIOUS
  <2>1. handles[h].mrs # <<>> /\ Address(handles[h].mrs) = Address(m)
    BY <1>3 DEF RegInv, Data, Names, HandleOf
  <2>2. handles[h].mrs \in Memory
    BY <2>1, <1>3, <1>h
  <2>3. handles[h].mrs \in InUse \ {<<>>} /\ m \in InUse \ {<<>>}
    BY <2>1, <1>1, <1>3, <1>d, <1>m DEF InUse, Registering
  <2>4. m[1] = handles[h].mrs[1] /\ (transport = "gni" => m = handles[h].mrs)
    BY <2>1, <2>3 DEF RegInv, Data, Same
  <2>5. Len(handles[h].mrs) >= 1
    BY <2>2, MemoryTypes
  <2>. QED  BY <2>1, <2>2, <2>4, <2>5, <1>1, <1>a
<1>5. /\ mrs \in Memory /\ Address(mrs) = Address(m) /\ Len(m) <= Len(mrs)
      /\ \A i \in DOMAIN m : mrs[i] = m[i]
      /\ (transport = "gni" /\ call[t].op = "memory" => Len(mrs) = 1)
      /\ \A i \in DOMAIN m : ~first => i = 1
  <2>1. CASE first
    <3>1. mrs = m
      BY <2>1
    <3>. HIDE DEF mrs
    <3>. QED  BY <2>1, <3>1, <1>a, <1>m
  <2>2. CASE ~first
    <3>1. mrs = handles[h].mrs
      BY <2>2
    <3>2. DOMAIN m = {1}
      BY <2>2, <1>4, <1>m
    <3>. HIDE DEF mrs
    <3>. QED  BY <2>2, <3>1, <3>2, <1>4
  <2>. QED  BY <2>1, <2>2
<1>n. first \/ mrs = handles[h].mrs
  OBVIOUS
<1>z. first => handles[h].mrs = <<>>
  BY <1>3
<1>p. mrs # <<>> /\ (first => mrs = m)
  BY <1>5, MemoryTypes
<1>. DEFINE segs == Segments(t, mrs)
<1>6. /\ segs \in Seq([address : Nat, length : Nat, key : Nat \X Nat]) /\ Len(segs) = Len(m)
      /\ \A i \in DOMAIN m : segs[i].address = m[i][1] /\ segs[i].length = m[i][2] /\ segs[i].key = <<h, i>>
  <2>. HIDE DEF mrs
  <2>1. segs = [i \in DOMAIN m |-> [address |-> m[i][1], length |-> m[i][2], key |-> <<h, i>>]]
    BY <1>5, <1>d DEF Segments
  <2>2. segs \in [1 .. Len(m) -> [address : Nat, length : Nat, key : Nat \X Nat]]
    <3>. HIDE DEF segs
    <3>. QED  BY <2>1, <1>m, <1>3
  <2>. HIDE DEF segs
  <2>3. segs \in Seq([address : Nat, length : Nat, key : Nat \X Nat]) /\ Len(segs) = Len(m)
    <3>. DEFINE S == [address : Nat, length : Nat, key : Nat \X Nat]
    <3>1. segs \in [1 .. Len(m) -> S]
      BY <2>2
    <3>. HIDE DEF S
    <3>2. segs \in Seq(S) /\ Len(segs) = Len(m)
      BY <3>1, <1>m, Listed
    <3>. QED  BY <3>2 DEF S
  <2>4. \A i \in DOMAIN m : segs[i].address = m[i][1] /\ segs[i].length = m[i][2] /\ segs[i].key = <<h, i>>
    BY <2>1
  <2>. QED  BY <2>3, <2>4
<1>. HIDE DEF segs
<1>7. /\ buf' \in [Buffers -> BufType] /\ buf'[b].hdl = h /\ buf'[b].segments = segs
      /\ \A x \in Buffers \ {b} : buf'[x] = buf[x]
      /\ \A x \in Buffers : buf'[x].hdl = buf[x].hdl
  <2>1. buf' = [buf EXCEPT ![b].segments = segs]
    BY <1>1 DEF segs
  <2>2. buf[b] \in BufType
    BY <1>a, <1>t DEF RegTypes
  <2>. QED  BY <2>1, <2>2, <1>6, <1>a, <1>t DEF RegTypes, BufType
<1>8. /\ handles' \in Seq(HandleType) /\ DOMAIN handles' = DOMAIN handles
      /\ handles'[h].mrs = mrs
      /\ \A x \in DOMAIN handles : handles'[x].ref_count = handles[x].ref_count /\ handles'[x].live = handles[x].live
      /\ \A x \in DOMAIN handles \ {h} : handles'[x] = handles[x]
  <2>. DEFINE more == [handles[h] EXCEPT !.mrs = mrs]
  <2>1. h \in 1 .. Len(handles) /\ handles[h] \in HandleType
    BY <1>3, <1>h, ElementOfSeq
  <2>2. more \in HandleType /\ more.mrs = mrs /\ more.ref_count = handles[h].ref_count /\ more.live = handles[h].live
    <3>. HIDE DEF mrs
    <3>. QED  BY <2>1, <1>5 DEF HandleType
  <2>3. handles' = [handles EXCEPT ![h] = more]
    BY <1>1
  <2>. HIDE DEF more, mrs
  <2>4. /\ handles' \in Seq(HandleType) /\ Len(handles') = Len(handles)
        /\ \A j \in 1 .. Len(handles) : handles'[j] = IF j = h THEN more ELSE handles[j]
    BY <2>1, <2>2, <2>3, <1>h, ExceptSeq
  <2>. QED  BY <2>1, <2>2, <2>4, <1>h
<1>. HIDE DEF mrs
<1>9. RegTypes'
  <2>1. pc' \in [Threads -> Steps]
    BY <1>1, <1>t DEF RegTypes, Steps, CallSteps
  <2>2. \A u \in Threads : pc'[u] \in Working =>
         /\ call'[u] \in Asks
         /\ pc'[u] \in RegSteps <=> call'[u].op \in {"memory", "segments"}
         /\ call'[u].op = "memory" => Len(call'[u].mem) = 1
    BY <1>1, <1>2, <1>t DEF RegTypes, RegSteps, Working
  <2>. QED  BY <2>1, <2>2, <1>1, <1>7, <1>8, <1>t DEF RegTypes
<1>10. Own' /\ Excl'
  BY <1>1, <1>2 DEF RegInv, Own, Excl, Working, RegSteps, Inside
<1>11. Registering' = Registering \ {t} /\ t \in Registering /\ Coming' = Coming
  BY <1>1, <1>2 DEF Registering, Coming
<1>12. Same' /\ Sole'
  <2>1. \A x \in DOMAIN handles' : \/ \E y \in DOMAIN handles : handles'[x].mrs = handles[y].mrs
                                   \/ \E u \in Registering \ Registering' : handles'[x].mrs = call[u].mem
    BY <1>n, <1>p, <1>8, <1>11, <1>3, <1>d
  <2>. QED  BY <2>1, <1>1, <1>11, <1>t, UseKept DEF RegInv, Data
<1>13. \A x : Holders(x)' = Holders(x)
  BY <1>1, <1>7, <1>11, HoldersKept
<1>14. Counted'
  <2>. SUFFICES ASSUME NEW x \in DOMAIN handles
                PROVE  /\ handles'[x].live => handles'[x].ref_count = Cardinality(Holders(x))
                       /\ ~handles'[x].live => Holders(x) = {} /\ handles'[x].mrs = <<>>
                       /\ ~ (handles'[x].live /\ handles'[x].ref_count = 0)
                       /\ ~ (handles'[x].live /\ handles'[x].mrs = <<>>)
    BY <1>8, <1>13 DEF Counted
  <2>1. \A u \in Threads : pc[u] # "releasing" /\ (pc[u] = "pinning" => u = t)
    BY <1>o, <1>1 DEF Inside
  <2>2. /\ handles[x].live => handles[x].ref_count = Cardinality(Holders(x))
        /\ ~handles[x].live => Holders(x) = {} /\ handles[x].mrs = <<>>
        /\ ~ (handles[x].live /\ handles[x].ref_count = 0)
        /\ handles[x].live /\ handles[x].mrs = <<>> => x = h
    BY <2>1, <1>d DEF RegInv, Data, Counted
  <2>. QED  BY <2>2, <1>3, <1>8, <1>p
<1>15. ASSUME NEW x \in Buffers, NEW n, n # <<>>, Len(n) \in Nat \ {0}, Named(buf[x], handles, n), x # b PROVE Named(buf'[x], handles', n)
  <2>1. /\ buf'[x] = buf[x] /\ buf[x].hdl \in DOMAIN handles /\ handles[buf[x].hdl].live
        /\ Len(n) <= Len(handles[buf[x].hdl].mrs)
    BY <1>15, <1>7 DEF Named
  <2>2. handles[buf[x].hdl].mrs # <<>>
    BY <2>1, <1>15
  <2>3. handles'[buf[x].hdl].live /\ handles'[buf[x].hdl].mrs = handles[buf[x].hdl].mrs
    BY <2>1, <2>2, <1>8, <1>n, <1>z, <1>3
  <2>. QED  BY <1>15, <2>1, <2>3, <1>8, NamedKept
<1>16. Named(buf'[b], handles', m)
  BY <1>3, <1>5, <1>6, <1>7, <1>8 DEF Named
<1>17. Names'
  <2>1. \A x \in Buffers : registered'[x] # <<>> => Named(buf'[x], handles', registered'[x])
    <3>. SUFFICES ASSUME NEW x \in Buffers, registered[x] # <<>> PROVE Named(buf'[x], handles', registered[x])
      BY <1>1
    <3>1. registered[x] \in Memory /\ Named(buf[x], handles, registered[x])
      BY <1>t DEF RegInv, Data, Names, RegTypes
    <3>2. x # b
      BY <1>1, <1>d DEF RegInv, Own, RegSteps
    <3>. QED  BY <3>1, <3>2, <1>15, MemoryTypes
  <2>2. \A u \in Threads : pc'[u] \in {"publishing", "releasing"} => u = t
    BY <1>2, <1>o DEF Inside
  <2>3. ASSUME NEW a \in DOMAIN bufhash
        PROVE  /\ HandleOf(bufhash[a])'.mrs # <<>> /\ Address(HandleOf(bufhash[a])'.mrs) = a
               /\ Named(buf'[bufhash[a]], handles', HandleOf(bufhash[a])'.mrs)
    <3>0. PICK x, n : x = bufhash[a] /\ n = handles[buf[x].hdl].mrs
      OBVIOUS
    <3>1. x \in Buffers /\ x # b /\ Named(buf[x], handles, n) /\ n # <<>> /\ Address(n) = a
      BY <3>0, <1>t, <1>1, <1>d DEF RegTypes, RegInv, Data, Names, HandleOf, Own, RegSteps
    <3>2. buf[x].hdl \in DOMAIN handles /\ n \in Memory
      BY <3>0, <3>1, <1>h DEF Named
    <3>3. handles'[buf[x].hdl].mrs = n /\ buf'[x].hdl = buf[x].hdl
      BY <3>0, <3>1, <3>2, <1>n, <1>z, <1>8, <1>7, <1>3
    <3>4. Named(buf'[x], handles', n)
      BY <3>1, <3>2, <1>15, MemoryTypes
    <3>. QED  BY <3>0, <3>1, <3>3, <3>4, <1>1 DEF HandleOf
  <2>. QED  BY <2>1, <2>2, <2>3, <1>1, <1>d, <1>16 DEF Names
<1>18. Found'
  <2>1. Hdl(t)' = h /\ Handle(t)' = handles'[h]
    BY <1>1, <1>d, <1>7, <1>a DEF Hdl, Handle
  <2>2. \A u \in Threads \ {t} : pc'[u] \notin Inside
    BY <1>2, <1>o
  <2>3. \A u \in Threads : pc'[u] \in {"taking", "pinning", "publishing"} =>
         /\ call'[u].old = None => Address(call'[u].mem) \notin DOMAIN bufhash'
         /\ call'[u].old # None => Address(call'[u].mem) \in DOMAIN bufhash' /\ bufhash'[Address(call'[u].mem)] = call'[u].old
    BY <2>2, <1>1, <1>2, <1>3, <1>d DEF Inside
  <2>4. \A u \in Threads : pc'[u] \in {"pinning", "publishing"} =>
         /\ Hdl(u)' \in DOMAIN handles' /\ Handle(u)'.live
         /\ call'[u].old = None <=> Handle(u)'.ref_count = 1
         /\ call'[u].old # None => Hdl(u)' = buf'[call'[u].old].hdl /\ call'[u].op = "memory"
    <3>1. \A u \in Threads : pc'[u] \in {"pinning", "publishing"} => u = t
      BY <2>2 DEF Inside
    <3>2. Hdl(t)' \in DOMAIN handles' /\ Handle(t)'.live /\ (call'[t].old = None <=> Handle(t)'.ref_count = 1)
      <4>1. handles'[h].live /\ handles'[h].ref_count = handles[h].ref_count
        BY <1>3, <1>8
      <4>2. call'[t].old = old /\ h \in DOMAIN handles'
        BY <1>1, <1>3, <1>8, <1>d
      <4>. HIDE DEF first
      <4>. QED  BY <2>1, <4>1, <4>2, <1>3 DEF first
    <3>3. call'[t].old # None => Hdl(t)' = buf'[call'[t].old].hdl /\ call'[t].op = "memory"
      BY <2>1, <1>1, <1>3, <1>7, <1>a, <1>d
    <3>. QED  BY <3>1, <3>2, <3>3
  <2>5. \A u \in Threads : pc'[u] \notin {"pinning", "releasing"}
    BY <2>2, <1>2 DEF Inside
  <2>6. \A u \in Threads : pc'[u] = "publishing" /\ call'[u].old = None => Handle(u)'.mrs = call'[u].mem
    <3>1. \A u \in Threads : pc'[u] = "publishing" => u = t
      BY <2>2 DEF Inside
    <3>2. call'[t].old = None => Handle(t)'.mrs = call'[t].mem
      BY <2>1, <1>1, <1>3, <1>8, <1>p, <1>d
    <3>. QED  BY <3>1, <3>2
  <2>. QED  BY <2>3, <2>4, <2>5, <2>6 DEF Found
<1>19. Tabled'
  <2>. SUFFICES ASSUME NEW x \in DOMAIN handles, handles'[x].live, handles'[x].mrs # <<>>
                PROVE  \/ Address(handles'[x].mrs) \in DOMAIN bufhash /\ buf'[bufhash[Address(handles'[x].mrs)]].hdl = x
                       \/ \E u \in Threads : pc'[u] = "publishing" /\ Hdl(u)' = x /\ call'[u].old = None
    BY <1>1, <1>8 DEF Tabled
  <2>1. CASE x = h /\ first
    BY <2>1, <1>1, <1>2, <1>3, <1>d, <1>7, <1>a DEF Hdl
  <2>2. CASE ~ (x = h /\ first)
    <3>1. handles'[x].mrs = handles[x].mrs /\ handles[x].live
      BY <2>2, <1>8, <1>n
    <3>2. Address(handles[x].mrs) \in DOMAIN bufhash /\ buf[bufhash[Address(handles[x].mrs)]].hdl = x
      BY <3>1, <1>o, <1>1 DEF RegInv, Data, Tabled, Inside
    <3>. QED  BY <3>1, <3>2, <1>7, <1>t DEF RegTypes
  <2>. QED  BY <2>1, <2>2
<1>20. Regions'
  <2>1. CASE first
    BY <2>1, <1>1, <1>3, <1>8, <1>p DEF RegInv, Data, Regions
  <2>2. CASE ~first
    <3>1. \A x \in DOMAIN handles : handles'[x].mrs = handles[x].mrs
      BY <2>2, <1>8, <1>n
    <3>. QED  BY <2>2, <3>1, <1>1, <1>8 DEF RegInv, Data, Regions
  <2>. QED  BY <2>1, <2>2
<1>. QED  BY <1>9, <1>10, <1>12, <1>14, <1>17, <1>18, <1>19, <1>20 DEF RegInv, Data

\* What a table holds with one more entry, for an address that it had nothing for.
LEMMA Inserted ==
    ASSUME NEW f, NEW a, NEW b, NEW S, f \in [DOMAIN f -> S], b \in S, a \notin DOMAIN f, NEW g,
           g = [x \in DOMAIN f \cup {a} |-> IF x = a THEN b ELSE f[x]]
    PROVE  /\ DOMAIN g = DOMAIN f \cup {a} /\ g[a] = b /\ g \in [DOMAIN g -> S]
           /\ \A x \in DOMAIN f : g[x] = f[x]
OBVIOUS

\* The buffer is in the table if it is the first, and the caller has it.
LEMMA PublishesReg == ASSUME RegInv, NEW t \in Threads, Publishes(t) PROVE RegInv'
<1>0. CASE UNCHANGED <<transport, bufhash, handles, buf, pinned, mem_lock, pc, call, registered>>
  BY <1>0, SameReg
<1>. SUFFICES ASSUME ~ UNCHANGED <<transport, bufhash, handles, buf, pinned, mem_lock, pc, call, registered>>
              PROVE  RegInv'
  BY <1>0
<1>t. RegTypes
  BY DEF RegInv
<1>d. PICK b, h, m, old, a : b = call[t].buf /\ h = Hdl(t) /\ m = call[t].mem /\ old = call[t].old /\ a = buf[b].segments[1].address
  OBVIOUS
<1>1. /\ pc[t] = "publishing" /\ pc' = [pc EXCEPT ![t] = "idle"] /\ call' = [call EXCEPT ![t] = NoCall]
      /\ handles[h].ref_count = 1 => a \notin DOMAIN bufhash
      /\ bufhash' = IF handles[h].ref_count = 1 THEN [x \in DOMAIN bufhash \cup {a} |-> IF x = a THEN b ELSE bufhash[x]] ELSE bufhash
      /\ registered' = [registered EXCEPT ![b] = m]
      /\ mem_lock' = 0
      /\ UNCHANGED <<transport, handles, buf, pinned>>
  BY <1>d DEF Publishes, At, Aborts, maps, Goto, Return, Handle, insert_buf_bufhash
<1>a. /\ call[t] \in Asks /\ b \in Buffers /\ m \in Memory /\ buf[b].hdl = h
  BY <1>1, <1>d, <1>t DEF RegTypes, Working, RegSteps, Asks, Hdl
<1>m. /\ m # <<>> /\ 1 \in DOMAIN m
  BY <1>a, MemoryTypes
<1>o. \A u \in Threads \ {t} : pc[u] \notin Inside
  BY <1>1, Exclusive DEF Inside
<1>2. /\ pc'[t] = "idle" /\ call'[t] \in Plain
      /\ \A u \in Threads \ {t} : pc'[u] = pc[u] /\ call'[u] = call[u]
  BY <1>1, <1>t DEF RegTypes, NoCall, Plain
<1>3. /\ Named(buf[b], handles, m) /\ a = Address(m) /\ h \in DOMAIN handles
      /\ (old = None <=> handles[h].ref_count = 1)
      /\ old = None => handles[h].mrs = m /\ a \notin DOMAIN bufhash
  <2>1. Named(buf[b], handles, m)
    BY <1>1, <1>d DEF RegInv, Data, Names
  <2>2. a = Address(m)
    BY <2>1, <1>m, <1>d DEF Named, Address
  <2>. QED  BY <2>1, <2>2, <1>1, <1>d DEF RegInv, Data, Found, Handle
<1>4. /\ bufhash' \in [DOMAIN bufhash' -> Buffers]
      /\ \A x \in DOMAIN bufhash : x \in DOMAIN bufhash' /\ bufhash'[x] = bufhash[x]
      /\ \A x \in DOMAIN bufhash' : x \in DOMAIN bufhash \/ (x = a /\ old = None)
      /\ old = None => a \in DOMAIN bufhash' /\ bufhash'[a] = b
  <2>1. CASE old = None
    <3>1. bufhash' = [x \in DOMAIN bufhash \cup {a} |-> IF x = a THEN b ELSE bufhash[x]] /\ a \notin DOMAIN bufhash /\ bufhash \in [DOMAIN bufhash -> Buffers]
      BY <2>1, <1>1, <1>3, <1>t DEF RegTypes
    <3>2. /\ DOMAIN bufhash' = DOMAIN bufhash \cup {a} /\ bufhash'[a] = b /\ bufhash' \in [DOMAIN bufhash' -> Buffers]
          /\ \A x \in DOMAIN bufhash : bufhash'[x] = bufhash[x]
      BY <3>1, <1>a, Inserted
    <3>. QED  BY <2>1, <3>2
  <2>2. CASE old # None
    BY <2>2, <1>1, <1>3, <1>t DEF RegTypes
  <2>. QED  BY <2>1, <2>2
<1>5. /\ registered' \in [Buffers -> Memory \cup {<<>>}] /\ registered'[b] = m
      /\ \A x \in Buffers \ {b} : registered'[x] = registered[x]
      /\ \A u \in Threads \ {t} : pc[u] \in Working => call[u].buf # b
  BY <1>1, <1>d, <1>a, <1>t DEF RegTypes, RegInv, Own, Working, RegSteps
<1>6. RegTypes'
  <2>1. pc' \in [Threads -> Steps] /\ call' \in [Threads -> Asks \cup Plain]
    BY <1>1, <1>2, <1>t DEF RegTypes, Steps
  <2>. QED  BY <2>1, <1>1, <1>2, <1>4, <1>5, <1>t DEF RegTypes, Working, RegSteps
<1>7. Own'
  <2>1. \A u \in Threads : pc'[u] \in Working => u # t /\ pc[u] \in Working
    BY <1>2 DEF Working, RegSteps
  <2>2. ASSUME NEW u \in Threads \ {t}, pc[u] \in RegSteps
        PROVE  registered'[call[u].buf] = <<>> /\ \A x \in DOMAIN bufhash' : bufhash'[x] # call[u].buf
    <3>1. call[u] \in Asks /\ call[u].buf # b /\ call[u].buf \in Buffers
      BY <2>2, <1>5, <1>t DEF RegTypes, Working, Asks
    <3>2. registered[call[u].buf] = <<>> /\ \A x \in DOMAIN bufhash : bufhash[x] # call[u].buf
      BY <2>2 DEF RegInv, Own
    <3>. QED  BY <3>1, <3>2, <1>4, <1>5
  <2>3. \A u \in Threads \ {t} : pc[u] = "dropping" => registered'[call[u].buf] = call[u].mem
    BY <1>5, <1>t DEF RegTypes, Working, Asks, RegInv, Own
  <2>4. \A u \in Threads \ {t} : pc[u] # "releasing"
    BY <1>o DEF Inside
  <2>. QED  BY <2>1, <2>2, <2>3, <2>4, <1>2 DEF RegInv, Own, Working, RegSteps
<1>8. Excl'
  BY <1>1, <1>2, <1>o DEF RegInv, Excl, Inside
<1>9. /\ Registering' = Registering /\ Coming' = Coming \ {b} /\ b \in Coming
      /\ \A u \in Registering : call'[u] = call[u]
  <2>1. t \notin Registering /\ \A u \in Registering : u # t
    BY <1>1 DEF Registering
  <2>2. Registering' = Registering
    BY <1>1, <1>2 DEF Registering
  <2>3. \A u \in Threads : pc'[u] \in {"pinning", "publishing"} <=> u # t /\ pc[u] \in {"pinning", "publishing"}
    BY <1>2
  <2>4. \A u \in Threads : u # t /\ pc[u] \in {"pinning", "publishing"} => call'[u] = call[u] /\ call[u].buf # b
    BY <1>2, <1>5 DEF Working, RegSteps
  <2>5. b \in Coming
    BY <1>1, <1>d DEF Coming
  <2>6. \A x : x \in Coming' <=> \E u \in Threads : pc'[u] \in {"pinning", "publishing"} /\ x = call'[u].buf
    BY DEF Coming
  <2>7. \A x : x \in Coming <=> \E u \in Threads : pc[u] \in {"pinning", "publishing"} /\ x = call[u].buf
    BY DEF Coming
  <2>8. \A x : x \in Coming' => x \in Coming \ {b}
    BY <2>3, <2>4, <2>6, <2>7
  <2>9. \A x : x \in Coming /\ x # b => x \in Coming'
    <3>. SUFFICES ASSUME NEW x \in Coming, x # b PROVE x \in Coming'
      OBVIOUS
    <3>1. PICK u \in Threads : pc[u] \in {"pinning", "publishing"} /\ x = call[u].buf
      BY <2>7
    <3>2. u # t
      BY <3>1, <1>d
    <3>. QED  BY <3>1, <3>2, <2>3, <2>4, <2>6
  <2>10. Coming' = Coming \ {b}
    BY <2>8, <2>9
  <2>. QED  BY <2>1, <2>2, <2>5, <2>10, <1>2 DEF Registering
<1>10. Same' /\ Sole'
  BY <1>1, <1>9, <1>t, UseKept DEF RegInv, Data
<1>11. \A x : Holders(x)' = Holders(x)
  BY <1>1, <1>5, <1>9, <1>m, HoldersKept
<1>12. Counted'
  BY <1>1, <1>2, <1>11, <1>o DEF RegInv, Data, Counted, Inside, Hdl
<1>13. Names'
  <2>1. \A x \in Buffers : registered'[x] # <<>> => Named(buf[x], handles, registered'[x])
    BY <1>3, <1>5 DEF RegInv, Data, Names
  <2>2. \A u \in Threads : pc'[u] \notin {"publishing", "releasing"}
    BY <1>2, <1>o DEF Inside
  <2>3. \A x \in DOMAIN bufhash' :
         HandleOf(bufhash'[x]).mrs # <<>> /\ Address(HandleOf(bufhash'[x]).mrs) = x
         /\ Named(buf[bufhash'[x]], handles, HandleOf(bufhash'[x]).mrs)
    BY <1>3, <1>4, <1>a, <1>m DEF RegInv, Data, Names, HandleOf
  <2>4. \A x : HandleOf(x)' = HandleOf(x)
    BY <1>1 DEF HandleOf
  <2>. QED  BY <1>1, <2>1, <2>2, <2>3, <2>4 DEF Names
<1>14. Found'
  BY <1>1, <1>2, <1>o DEF Found, Inside
<1>15. Tabled'
  <2>. SUFFICES ASSUME NEW x \in DOMAIN handles, handles[x].live, handles[x].mrs # <<>>
                PROVE  Address(handles[x].mrs) \in DOMAIN bufhash' /\ buf[bufhash'[Address(handles[x].mrs)]].hdl = x
    BY <1>1 DEF Tabled
  <2>1. CASE Address(handles[x].mrs) \in DOMAIN bufhash /\ buf[bufhash[Address(handles[x].mrs)]].hdl = x
    BY <2>1, <1>4
  <2>2. CASE x = h /\ old = None
    BY <2>2, <1>3, <1>4, <1>a
  <2>3. \A u \in Threads : pc[u] = "publishing" => u = t
    BY <1>o DEF Inside
  <2>. QED  BY <2>1, <2>2, <2>3, <1>d DEF RegInv, Data, Tabled
<1>16. Regions'
  BY <1>1 DEF RegInv, Data, Regions
<1>. QED  BY <1>6, <1>7, <1>8, <1>10, <1>12, <1>13, <1>14, <1>15, <1>16 DEF RegInv, Data

-----------------------------------------------------------------------------
(* The steps of giving a buffer back.                                       *)

\* A handle is counted for one buffer less; at the last one the thread goes on to release it.
LEMMA DropsReg == ASSUME RegInv, NEW t \in Threads, Drops(t) PROVE RegInv'
<1>t. RegTypes
  BY DEF RegInv
<1>d. PICK b, h, m : b = call[t].buf /\ h = Hdl(t) /\ m = call[t].mem
  OBVIOUS
<1>. DEFINE less == [handles[h] EXCEPT !.ref_count = @ - 1]
            last == handles[h].ref_count - 1 = 0
<1>1. /\ pc[t] = "dropping" /\ (transport = "gni" => mem_lock = 0)
      /\ handles' = [handles EXCEPT ![h] = less]
      /\ registered' = [registered EXCEPT ![b] = <<>>]
      /\ UNCHANGED <<transport, bufhash, buf, pinned>>
  BY <1>d DEF Drops, At, maps
<1>a. /\ call[t] \in Asks /\ b \in Buffers /\ m \in Memory /\ buf[b].hdl = h /\ registered[b] = m
  BY <1>1, <1>d, <1>t DEF RegTypes, Working, RegSteps, Asks, Hdl, RegInv, Own
<1>m. m # <<>>
  BY <1>a, MemoryTypes
<1>h. /\ Len(handles) \in Nat /\ DOMAIN handles = 1 .. Len(handles) /\ handles \in Seq(HandleType)
      /\ \A x \in DOMAIN handles : handles[x].ref_count \in Int /\ handles[x].mrs \in Memory \cup {<<>>} /\ handles[x].live \in BOOLEAN
  BY <1>t, HandleTypes DEF RegTypes
<1>o. \A u \in Threads \ {t} : pc[u] \notin Inside
  BY <1>1, Exclusive DEF Inside
<1>3. Named(buf[b], handles, m) /\ h \in DOMAIN handles /\ handles[h].live
  <2>1. Named(buf[b], handles, registered[b])
    BY <1>a, <1>m DEF RegInv, Data, Names
  <2>. QED  BY <2>1, <1>a DEF Named
<1>4. /\ handles' \in Seq(HandleType) /\ DOMAIN handles' = DOMAIN handles
      /\ handles'[h].ref_count = handles[h].ref_count - 1
      /\ \A x \in DOMAIN handles : handles'[x].mrs = handles[x].mrs /\ handles'[x].live = handles[x].live
      /\ \A x \in DOMAIN handles \ {h} : handles'[x] = handles[x]
  <2>1. h \in 1 .. Len(handles) /\ handles[h] \in HandleType
    BY <1>3, <1>h, ElementOfSeq
  <2>2. less \in HandleType /\ less.mrs = handles[h].mrs /\ less.ref_count = handles[h].ref_count - 1 /\ less.live = handles[h].live
    BY <2>1 DEF HandleType
  <2>3. handles' = [handles EXCEPT ![h] = less]
    BY <1>1
  <2>. HIDE DEF less
  <2>4. /\ handles' \in Seq(HandleType) /\ Len(handles') = Len(handles)
        /\ \A j \in 1 .. Len(handles) : handles'[j] = IF j = h THEN less ELSE handles[j]
    BY <2>1, <2>2, <2>3, <1>h, ExceptSeq
  <2>. QED  BY <2>1, <2>2, <2>4, <1>h
<1>. HIDE DEF less
<1>2. /\ \A u \in Threads \ {t} : pc'[u] = pc[u] /\ call'[u] = call[u]
      /\ last => pc'[t] = "releasing" /\ call'[t] = call[t] /\ (transport = "gni" => mem_lock' = t)
      /\ ~last => pc'[t] = "idle" /\ call'[t] \in Plain
      /\ pc' \in [Threads -> Steps] /\ call' \in [Threads -> Asks \cup Plain]
  <2>1. handles'[Hdl(t)].ref_count = 0 <=> last
    BY <1>4, <1>d
  <2>2. CASE last
    BY <2>1, <2>2, <1>t DEF Drops, Goto, RegTypes, Steps, CallSteps
  <2>3. CASE ~last
    BY <2>1, <2>3, <1>t DEF Drops, Goto, Return, RegTypes, Steps, NoCall, Plain
  <2>. QED  BY <2>2, <2>3
<1>. HIDE DEF last
<1>5. /\ registered' \in [Buffers -> Memory \cup {<<>>}] /\ registered'[b] = <<>>
      /\ \A x \in Buffers \ {b} : registered'[x] = registered[x]
      /\ \A u \in Threads \ {t} : pc[u] \in Working => call[u].buf # b
  BY <1>1, <1>d, <1>a, <1>t DEF RegTypes, RegInv, Own, Working, RegSteps
<1>6. RegTypes'
  <2>1. \A u \in Threads : pc'[u] \in Working =>
         /\ call'[u] \in Asks
         /\ pc'[u] \in RegSteps <=> call'[u].op \in {"memory", "segments"}
         /\ call'[u].op = "memory" => Len(call'[u].mem) = 1
    <3>1. \A u \in Threads \ {t} : pc'[u] \in Working =>
         /\ call'[u] \in Asks
         /\ pc'[u] \in RegSteps <=> call'[u].op \in {"memory", "segments"}
         /\ call'[u].op = "memory" => Len(call'[u].mem) = 1
      BY <1>2, <1>t DEF RegTypes
    <3>2. pc'[t] \in Working =>
         /\ call'[t] \in Asks
         /\ pc'[t] \in RegSteps <=> call'[t].op \in {"memory", "segments"}
         /\ call'[t].op = "memory" => Len(call'[t].mem) = 1
      BY <1>1, <1>2, <1>t DEF RegTypes, Working, RegSteps
    <3>. QED  BY <3>1, <3>2
  <2>. QED  BY <2>1, <1>1, <1>2, <1>4, <1>5, <1>t DEF RegTypes
<1>7. Own'
  <2>1. /\ \A u \in Threads : pc'[u] \in Working => pc[u] \in Working /\ call'[u] = call[u]
        /\ \A u \in Threads : pc'[u] \in RegSteps => pc[u] \in RegSteps /\ u # t
        /\ \A u \in Threads : pc'[u] = "dropping" => pc[u] = "dropping" /\ u # t
        /\ \A u \in Threads : pc'[u] = "releasing" => u = t
    BY <1>1, <1>2, <1>o DEF Working, RegSteps, Inside
  <2>2. \A u, w \in Threads : u # w /\ pc'[u] \in Working /\ pc'[w] \in Working => call'[u].buf # call'[w].buf
    BY <2>1 DEF RegInv, Own
  <2>3. \A u \in Threads \ {t} : pc[u] \in Working => call[u].buf \in Buffers \ {b}
    BY <1>5, <1>t DEF RegTypes, Asks
  <2>4. \A u \in Threads : pc'[u] \in RegSteps => registered'[call'[u].buf] = <<>> /\ \A x \in DOMAIN bufhash : bufhash[x] # call'[u].buf
    BY <2>1, <2>3, <1>2, <1>5 DEF RegInv, Own, Working
  <2>5. \A u \in Threads : pc'[u] = "dropping" => registered'[call'[u].buf] = call'[u].mem
    BY <2>1, <2>3, <1>2, <1>5 DEF RegInv, Own, Working
  <2>6. \A u \in Threads : pc'[u] = "releasing" => registered'[call'[u].buf] = <<>>
    BY <2>1, <1>5, <1>2, <1>d DEF Working
  <2>. QED  BY <2>2, <2>4, <2>5, <2>6, <1>1 DEF Own
<1>8. Excl'
  <2>1. transport = "gni" => \A u \in Threads : pc'[u] \in Inside => mem_lock' = u
    BY <1>1, <1>2, <1>o DEF Inside
  <2>2. \A u \in Threads : pc'[u] # "closing"
    BY <1>1, <1>2 DEF RegInv, Excl
  <2>. QED  BY <2>1, <2>2, <1>1, <1>2 DEF RegInv, Excl
<1>9. /\ Registering' = Registering /\ Coming' = Coming /\ b \notin Coming
      /\ \A u \in Registering : call'[u] = call[u]
  <2>1. b \notin Coming
    BY <1>1, <1>5 DEF Coming, Working, RegSteps
  <2>2. \A u \in Threads : pc'[u] \in RegSteps <=> pc[u] \in RegSteps /\ u # t
    BY <1>1, <1>2 DEF RegSteps
  <2>. QED  BY <2>1, <1>1, <1>2 DEF Registering, Coming
<1>10. Same' /\ Sole'
  BY <1>1, <1>4, <1>9, <1>t, UseKept DEF RegInv, Data
<1>11. /\ b \in Holders(h) /\ Holders(h)' = Holders(h) \ {b}
       /\ \A x : x # h => Holders(x)' = Holders(x)
  BY <1>1, <1>5, <1>9, <1>a, <1>m DEF Holders
<1>12. Cardinality(Holders(h)') = Cardinality(Holders(h)) - 1 /\ handles[h].ref_count = Cardinality(Holders(h))
  <2>1. IsFiniteSet(Holders(h))
    BY RegistrationAssumptions, FS_Subset DEF RegistrationAssumptions, Holders
  <2>2. Cardinality(Holders(h)') = Cardinality(Holders(h)) - 1
    BY <2>1, <1>11, FS_RemoveElement
  <2>. QED  BY <2>2, <1>3 DEF RegInv, Data, Counted
<1>13. Counted'
  <2>. SUFFICES ASSUME NEW x \in DOMAIN handles
                PROVE  /\ handles'[x].live => handles'[x].ref_count = Cardinality(Holders(x)')
                       /\ ~handles'[x].live => Holders(x)' = {} /\ handles'[x].mrs = <<>>
                       /\ handles'[x].live /\ handles'[x].ref_count = 0 => x = h /\ last
                       /\ ~ (handles'[x].live /\ handles'[x].mrs = <<>>)
    <3>1. Hdl(t)' = h \/ ~last
      BY <1>1, <1>2, <1>d DEF Hdl
    <3>. QED  BY <3>1, <1>2, <1>4 DEF Counted
  <2>1. \A u \in Threads : pc[u] # "releasing" /\ pc[u] # "pinning"
    BY <1>o, <1>1 DEF Inside
  <2>2. /\ handles[x].live => handles[x].ref_count = Cardinality(Holders(x))
        /\ ~handles[x].live => Holders(x) = {} /\ handles[x].mrs = <<>>
        /\ ~ (handles[x].live /\ handles[x].ref_count = 0)
        /\ ~ (handles[x].live /\ handles[x].mrs = <<>>)
    BY <2>1 DEF RegInv, Data, Counted
  <2>3. CASE x = h
    BY <2>2, <2>3, <1>3, <1>4, <1>12, <1>h DEF last
  <2>4. CASE x # h
    BY <2>2, <2>4, <1>4, <1>11
  <2>. QED  BY <2>3, <2>4
<1>14. \A x, n : Named(buf[x], handles, n) => Named(buf[x], handles', n)
  <2>. SUFFICES ASSUME NEW x, NEW n, Named(buf[x], handles, n) PROVE Named(buf[x], handles', n)
    OBVIOUS
  <2>1. buf[x].hdl \in DOMAIN handles /\ handles[buf[x].hdl].live
    BY DEF Named
  <2>. QED  BY <2>1, <1>4, NamedKept
<1>15. Names'
  <2>1. \A x \in Buffers : registered'[x] # <<>> => Named(buf[x], handles', registered'[x])
    BY <1>5, <1>14 DEF RegInv, Data, Names
  <2>2. \A u \in Threads : pc'[u] \in {"publishing", "releasing"} => u = t /\ call'[u] = call[u]
    BY <1>2, <1>o DEF Inside
  <2>3. Named(buf[b], handles', m)
    BY <1>3, <1>14
  <2>4. ASSUME NEW a \in DOMAIN bufhash
        PROVE  /\ HandleOf(bufhash[a])'.mrs # <<>> /\ Address(HandleOf(bufhash[a])'.mrs) = a
               /\ Named(buf[bufhash[a]], handles', HandleOf(bufhash[a])'.mrs)
    <3>1. /\ HandleOf(bufhash[a]).mrs # <<>> /\ Address(HandleOf(bufhash[a]).mrs) = a
          /\ Named(buf[bufhash[a]], handles, HandleOf(bufhash[a]).mrs)
      BY DEF RegInv, Data, Names
    <3>2. HandleOf(bufhash[a])'.mrs = HandleOf(bufhash[a]).mrs
      BY <3>1, <1>1, <1>4 DEF Named, HandleOf
    <3>. QED  BY <3>1, <3>2, <1>14
  <2>. QED  BY <2>1, <2>2, <2>3, <2>4, <1>1, <1>d DEF Names
<1>16. Found'
  <2>1. \A u \in Threads : pc'[u] \in Inside => u = t /\ pc'[u] = "releasing" /\ last
    BY <1>2, <1>o DEF Inside
  <2>2. last => Handle(t)' = handles'[h] /\ handles'[h].ref_count = 0
    BY <1>1, <1>2, <1>4, <1>d DEF Hdl, Handle, last
  <2>. QED  BY <2>1, <2>2 DEF Found, Inside
<1>17. Tabled'
  <2>. SUFFICES ASSUME NEW x \in DOMAIN handles, handles'[x].live, handles'[x].mrs # <<>>
                PROVE  Address(handles'[x].mrs) \in DOMAIN bufhash /\ buf[bufhash[Address(handles'[x].mrs)]].hdl = x
    BY <1>1, <1>4 DEF Tabled
  <2>1. Address(handles[x].mrs) \in DOMAIN bufhash /\ buf[bufhash[Address(handles[x].mrs)]].hdl = x
    BY <1>o, <1>1, <1>4 DEF RegInv, Data, Tabled, Inside
  <2>. QED  BY <2>1, <1>4
<1>18. Regions'
  BY <1>1, <1>4 DEF RegInv, Data, Regions
<1>. QED  BY <1>6, <1>7, <1>8, <1>10, <1>13, <1>15, <1>16, <1>17, <1>18 DEF RegInv, Data

\* The handle of the last buffer goes: nobody holds it, and the table named it by its address.
LEMMA ReleasesReg == ASSUME RegInv, NEW t \in Threads, Releases(t) PROVE RegInv'
<1>t. RegTypes
  BY DEF RegInv
<1>d. PICK b, h, m, a : b = call[t].buf /\ h = Hdl(t) /\ m = call[t].mem /\ a = buf[b].segments[1].address
  OBVIOUS
<1>1. /\ pc[t] = "releasing" /\ pc' = [pc EXCEPT ![t] = "idle"] /\ call' = [call EXCEPT ![t] = NoCall]
      /\ pinned' = {r \in pinned : r[1] # h}
      /\ handles' = [handles EXCEPT ![h].live = FALSE, ![h].mrs = <<>>]
      /\ bufhash' = [x \in DOMAIN bufhash \ {a} |-> bufhash[x]]
      /\ buf' = [buf EXCEPT ![b] = Cleared]
      /\ mem_lock' = 0
      /\ UNCHANGED <<transport, registered>>
  BY <1>d DEF Releases, At, Goto, Return, del_buf_bufhash
<1>a. /\ call[t] \in Asks /\ b \in Buffers /\ m \in Memory /\ buf[b].hdl = h /\ registered[b] = <<>>
  BY <1>1, <1>d, <1>t DEF RegTypes, Working, RegSteps, Asks, Hdl, RegInv, Own
<1>m. m # <<>> /\ 1 \in DOMAIN m
  BY <1>a, MemoryTypes
<1>h. /\ Len(handles) \in Nat /\ DOMAIN handles = 1 .. Len(handles) /\ handles \in Seq(HandleType)
      /\ \A x \in DOMAIN handles : handles[x].ref_count \in Int /\ handles[x].mrs \in Memory \cup {<<>>} /\ handles[x].live \in BOOLEAN
  BY <1>t, HandleTypes DEF RegTypes
<1>o. \A u \in Threads \ {t} : pc[u] \notin Inside
  BY <1>1, Exclusive DEF Inside
<1>2. /\ pc'[t] = "idle" /\ call'[t] \in Plain
      /\ \A u \in Threads \ {t} : pc'[u] = pc[u] /\ call'[u] = call[u]
  BY <1>1, <1>t DEF RegTypes, NoCall, Plain
<1>3. /\ h \in DOMAIN handles /\ h # 0 /\ handles[h].live /\ handles[h].ref_count = 0
      /\ a = Address(m) /\ Address(handles[h].mrs) = a /\ handles[h].mrs # <<>>
  <2>1. Named(buf[b], handles, m)
    BY <1>1, <1>d DEF RegInv, Data, Names
  <2>2. a = Address(m) /\ h \in DOMAIN handles /\ handles[h].live /\ handles[h].mrs[1] = m[1]
    BY <2>1, <1>m, <1>a, <1>d DEF Named, Address
  <2>3. handles[h].mrs # <<>>
    <3>1. Len(m) <= Len(handles[h].mrs) /\ Len(m) \in Nat \ {0}
      BY <2>1, <1>a, MemoryTypes DEF Named
    <3>. QED  BY <3>1
  <2>. QED  BY <2>2, <2>3, <1>1, <1>d, <1>h DEF RegInv, Data, Found, Handle, Address
<1>4. Holders(h) = {}
  <2>1. IsFiniteSet(Holders(h))
    BY RegistrationAssumptions, FS_Subset DEF RegistrationAssumptions, Holders
  <2>2. Cardinality(Holders(h)) = 0
    BY <1>3 DEF RegInv, Data, Counted
  <2>. QED  BY <2>1, <2>2, FS_EmptySet
<1>5. a \in DOMAIN bufhash /\ buf[bufhash[a]].hdl = h
  BY <1>3, <1>1, <1>o DEF RegInv, Data, Tabled, Inside
<1>6. /\ handles' \in Seq(HandleType) /\ DOMAIN handles' = DOMAIN handles
      /\ handles'[h].mrs = <<>> /\ ~handles'[h].live
      /\ \A x \in DOMAIN handles \ {h} : handles'[x] = handles[x]
  <2>. DEFINE gone == [handles[h] EXCEPT !.live = FALSE, !.mrs = <<>>]
  <2>1. h \in 1 .. Len(handles) /\ handles[h] \in HandleType
    BY <1>3, <1>h, ElementOfSeq
  <2>2. gone \in HandleType /\ gone.mrs = <<>> /\ ~gone.live
    BY <2>1 DEF HandleType
  <2>3. handles' = [handles EXCEPT ![h] = gone]
    BY <1>1, <1>h, <2>1 DEF HandleType
  <2>. HIDE DEF gone
  <2>4. /\ handles' \in Seq(HandleType) /\ Len(handles') = Len(handles)
        /\ \A j \in 1 .. Len(handles) : handles'[j] = IF j = h THEN gone ELSE handles[j]
    BY <2>1, <2>2, <2>3, <1>h, ExceptSeq
  <2>. QED  BY <2>1, <2>2, <2>4, <1>h
<1>7. /\ buf' \in [Buffers -> BufType] /\ buf'[b].hdl = 0 /\ \A x \in Buffers \ {b} : buf'[x] = buf[x]
  <2>1. Cleared \in BufType /\ Cleared.hdl = 0
    BY DEF Cleared, BufType
  <2>. QED  BY <2>1, <1>1, <1>a, <1>t DEF RegTypes
<1>8. /\ bufhash' \in [DOMAIN bufhash' -> Buffers] /\ DOMAIN bufhash' = DOMAIN bufhash \ {a}
      /\ \A x \in DOMAIN bufhash' : bufhash'[x] = bufhash[x] /\ bufhash[x] # b /\ buf[bufhash[x]].hdl # h
  <2>1. bufhash' \in [DOMAIN bufhash' -> Buffers] /\ DOMAIN bufhash' = DOMAIN bufhash \ {a}
        /\ \A x \in DOMAIN bufhash' : bufhash'[x] = bufhash[x]
    BY <1>1, <1>t DEF RegTypes
  <2>2. ASSUME NEW x \in DOMAIN bufhash \ {a} PROVE buf[bufhash[x]].hdl # h
    BY <1>3 DEF RegInv, Data, Names, HandleOf
  <2>. QED  BY <2>1, <2>2, <1>a
<1>9. RegTypes'
  <2>1. pc' \in [Threads -> Steps] /\ call' \in [Threads -> Asks \cup Plain]
    BY <1>1, <1>2, <1>t DEF RegTypes, Steps
  <2>. QED  BY <2>1, <1>1, <1>2, <1>6, <1>7, <1>8, <1>t DEF RegTypes, Working, RegSteps
<1>10. Own'
  BY <1>1, <1>2, <1>8 DEF RegInv, Own, Working, RegSteps
<1>11. Excl'
  BY <1>1, <1>2, <1>o DEF RegInv, Excl, Inside
<1>12. /\ Registering' = Registering /\ Coming' = Coming
       /\ \A u \in Registering : call'[u] = call[u]
  BY <1>1, <1>2 DEF Registering, Coming
<1>13. Same' /\ Sole'
  <2>1. \A x \in DOMAIN handles' : handles'[x].mrs = <<>> \/ \E y \in DOMAIN handles : handles'[x].mrs = handles[y].mrs
    BY <1>6
  <2>. QED  BY <2>1, <1>1, <1>12, <1>t, UseKept DEF RegInv, Data
<1>14. Holders(h)' = {} /\ \A x \in DOMAIN handles \ {h} : Holders(x)' = Holders(x)
  <2>1. Holders(h)' = {}
    BY <1>1, <1>3, <1>4, <1>7, <1>12 DEF Holders
  <2>2. ASSUME NEW x \in DOMAIN handles \ {h} PROVE Holders(x)' = Holders(x)
    <3>1. x # 0
      BY <1>h
    <3>. QED  BY <3>1, <1>1, <1>7, <1>12, <1>a DEF Holders
  <2>. QED  BY <2>1, <2>2
<1>15. Counted'
  <2>. SUFFICES ASSUME NEW x \in DOMAIN handles
                PROVE  /\ handles'[x].live => handles'[x].ref_count = Cardinality(Holders(x)')
                       /\ ~handles'[x].live => Holders(x)' = {} /\ handles'[x].mrs = <<>>
                       /\ ~ (handles'[x].live /\ handles'[x].ref_count = 0)
                       /\ ~ (handles'[x].live /\ handles'[x].mrs = <<>>)
    BY <1>6 DEF Counted
  <2>1. CASE x = h
    BY <2>1, <1>6, <1>14
  <2>2. CASE x # h
    <3>1. \A u \in Threads : (pc[u] = "releasing" => Hdl(u) # x) /\ pc[u] # "pinning"
      BY <2>2, <1>1, <1>o, <1>d DEF Inside
    <3>2. handles'[x] = handles[x] /\ Holders(x)' = Holders(x)
      BY <2>2, <1>6, <1>14
    <3>. QED  BY <3>1, <3>2 DEF RegInv, Data, Counted
  <2>. QED  BY <2>1, <2>2
<1>16. ASSUME NEW x \in Buffers, NEW n, Named(buf[x], handles, n), x # b, buf[x].hdl # h PROVE Named(buf'[x], handles', n)
  <2>1. buf'[x] = buf[x] /\ buf[x].hdl \in DOMAIN handles /\ handles[buf[x].hdl].live
    BY <1>16, <1>7 DEF Named
  <2>2. handles'[buf[x].hdl] = handles[buf[x].hdl]
    BY <2>1, <1>16, <1>6
  <2>. QED  BY <1>16, <2>1, <2>2, <1>6, NamedKept
<1>17. Names'
  <2>1. ASSUME NEW x \in Buffers, registered[x] # <<>> PROVE Named(buf'[x], handles', registered[x])
    <3>1. x # b /\ buf[x].hdl # h /\ Named(buf[x], handles, registered[x])
      BY <2>1, <1>a, <1>4 DEF RegInv, Data, Names, Holders
    <3>. QED  BY <3>1, <1>16
  <2>2. \A u \in Threads : pc'[u] \notin {"publishing", "releasing"}
    BY <1>2, <1>o DEF Inside
  <2>3. ASSUME NEW x \in DOMAIN bufhash'
        PROVE  /\ handles'[buf'[bufhash'[x]].hdl].mrs # <<>> /\ Address(handles'[buf'[bufhash'[x]].hdl].mrs) = x
               /\ Named(buf'[bufhash'[x]], handles', handles'[buf'[bufhash'[x]].hdl].mrs)
    <3>0. PICK y, n : y = bufhash[x] /\ n = HandleOf(bufhash[x]).mrs
      OBVIOUS
    <3>4. n = handles[buf[y].hdl].mrs
      BY <3>0 DEF HandleOf
    <3>1. /\ n # <<>> /\ Address(n) = x /\ Named(buf[y], handles, n)
          /\ y \in Buffers /\ y # b /\ buf[y].hdl # h /\ bufhash'[x] = y
      BY <3>0, <1>8, <1>t DEF RegInv, Data, Names, RegTypes
    <3>2. buf'[y] = buf[y] /\ handles'[buf[y].hdl] = handles[buf[y].hdl]
      BY <3>1, <1>6, <1>7 DEF Named
    <3>3. Named(buf'[y], handles', n)
      BY <3>1, <1>16
    <3>. QED  BY <3>1, <3>2, <3>3, <3>4
  <2>. QED  BY <2>1, <2>2, <2>3, <1>1 DEF Names, HandleOf
<1>18. Found'
  BY <1>1, <1>2, <1>o DEF Found, Inside
<1>19. Tabled'
  <2>. SUFFICES ASSUME NEW x \in DOMAIN handles, handles'[x].live, handles'[x].mrs # <<>>
                PROVE  Address(handles'[x].mrs) \in DOMAIN bufhash' /\ buf'[bufhash'[Address(handles'[x].mrs)]].hdl = x
    BY <1>6 DEF Tabled
  <2>1. x # h /\ handles'[x] = handles[x]
    BY <1>6
  <2>2. Address(handles[x].mrs) \in DOMAIN bufhash /\ buf[bufhash[Address(handles[x].mrs)]].hdl = x
    BY <2>1, <1>o, <1>1 DEF RegInv, Data, Tabled, Inside
  <2>3. Address(handles[x].mrs) \in DOMAIN bufhash'
    BY <2>1, <2>2, <1>5, <1>8
  <2>. QED  BY <2>1, <2>2, <2>3, <1>7, <1>8, <1>t DEF RegTypes
<1>20. Regions'
  <2>1. ASSUME NEW r \in pinned' PROVE \E x \in DOMAIN handles' : \E i \in DOMAIN handles'[x].mrs : r = <<x, i>>
    <3>1. r \in pinned /\ r[1] # h
      BY <2>1, <1>1
    <3>2. PICK x \in DOMAIN handles : \E i \in DOMAIN handles[x].mrs : r = <<x, i>>
      BY <3>1 DEF RegInv, Data, Regions
    <3>. QED  BY <3>1, <3>2, <1>6
  <2>2. ASSUME NEW x \in DOMAIN handles', NEW i \in DOMAIN handles'[x].mrs PROVE <<x, i>> \in pinned'
    <3>1. x # h
      BY <2>2, <1>6
    <3>2. handles'[x] = handles[x]
      BY <3>1, <1>6
    <3>3. <<x, i>> \in pinned
      BY <3>2, <1>6 DEF RegInv, Data, Regions
    <3>. QED  BY <3>1, <3>3, <1>1
  <2>. QED  BY <2>1, <2>2 DEF Regions
<1>. QED  BY <1>9, <1>10, <1>11, <1>13, <1>15, <1>17, <1>18, <1>19, <1>20 DEF RegInv, Data

-----------------------------------------------------------------------------
(* Every step, and what it shows.                                          *)

\* A call that only returns.
LEMMA ReturnsReg ==
    ASSUME RegInv, NEW t \in Threads, pc[t] \notin Working, Return(t),
           UNCHANGED <<transport, maps, mem_lock, registered, pinned>>
    PROVE  RegInv'
<1>1. Aside(t, "idle", NoCall)
  BY DEF Return, Goto, Aside, Steps, Working, RegSteps, NoCall, Plain
<1>. QED  BY <1>1, AsideReg

\* What holds of the others when a call begins.
LEMMA CallsApart ==
    ASSUME Orderly, RegInv, NEW t \in Threads, Calls(t)
    PROVE  pc[t] = "idle" /\ \A u \in Threads \ {t} : pc[u] # "closing" /\ (transport # "gni" => pc[u] = "idle")
<1>1. transport \in Transports
  BY DEF RegInv, RegTypes
<1>. QED  BY <1>1 DEF Calls, At, May, Orderly, LifeSteps

\* Every step keeps the tables true.
LEMMA StepReg == ASSUME Orderly, RegInv, [Next]_vars PROVE RegInv'
<1>t. RegTypes
  BY DEF RegInv
<1>1. ASSUME NEW t \in Threads, NNTI_init(t) PROVE RegInv'
  <2>1. Aside(t, "opening", [op |-> "init"])
    BY <1>1 DEF NNTI_init, At, Goto, Rest, Aside, Steps, LifeSteps, Working, RegSteps, Plain
  <2>. QED  BY <1>1, <2>1, AsideReg DEF NNTI_init, Rest
<1>2. ASSUME NEW t \in Threads, NNTI_ib_init(t) \/ NNTI_gni_init(t) \/ NNTI_mpi_init(t) PROVE RegInv'
  <2>1. pc[t] = "opening" /\ Return(t) /\ Rest
    BY <1>2 DEF NNTI_ib_init, NNTI_gni_init, NNTI_mpi_init, Opens, At
  <2>. QED  BY <2>1, ReturnsReg DEF Rest, Working, RegSteps
<1>3. ASSUME NEW t \in Threads, NNTI_fini(t) PROVE RegInv'
  <2>1. CASE initialized
    <3>1. Aside(t, "closing", [op |-> "fini"])
      BY <1>3, <2>1 DEF NNTI_fini, Calls, Checks, At, Goto, Rest, Aside, Steps, LifeSteps, Working, RegSteps, Plain
    <3>. QED  BY <1>3, <3>1, AsideReg DEF NNTI_fini, Rest
  <2>2. CASE ~initialized
    BY <1>3, <2>2, ReturnsReg DEF NNTI_fini, Calls, At, Checks, Rest, Working, RegSteps
  <2>. QED  BY <2>1, <2>2
<1>4. ASSUME NEW t \in Threads, NNTI_ib_fini(t) \/ NNTI_gni_fini(t) \/ NNTI_mpi_fini(t) PROVE RegInv'
  <2>1. /\ pc[t] = "closing" /\ pc' = [pc EXCEPT ![t] = "clearing"] /\ pinned' = {}
        /\ UNCHANGED <<transport, maps, mem_lock, call, registered>>
    BY <1>4 DEF NNTI_ib_fini, NNTI_gni_fini, NNTI_mpi_fini, Closes, At, Goto
  <2>2. UNCHANGED pinned
    BY <2>1, NothingPinned
  <2>3. /\ \A u \in Threads \ {t} : pc[u] = "idle"
        /\ call' = [call EXCEPT ![t] = call[t]]
    BY <2>1, <1>t DEF RegTypes, RegInv, Excl
  <2>4. Aside(t, "clearing", call[t])
    BY <2>1, <2>3 DEF Aside, Steps, LifeSteps, Working, RegSteps
  <2>. QED  BY <2>2, <2>4, AsideReg
<1>5. ASSUME NEW t \in Threads, Clears(t) \/ Operates(t) PROVE RegInv'
  <2>1. pc[t] \in {"clearing", "operating"} /\ Return(t) /\ Rest
    BY <1>5 DEF Clears, Operates, At
  <2>. QED  BY <2>1, ReturnsReg DEF Rest, Working, RegSteps
<1>6. ASSUME NEW t \in Threads, Calls(t), Return(t), Rest PROVE RegInv'
  BY <1>6, ReturnsReg DEF Calls, At, Rest, Working, RegSteps
<1>7. ASSUME NEW t \in Threads, Operation(t) \/ ListOperation(t) PROVE RegInv'
  <2>1. Calls(t) /\ Rest /\ (Return(t) \/ (Goto(t, "operating") /\ call' = [call EXCEPT ![t] = [op |-> "operation"]]))
    BY <1>7 DEF Operation, ListOperation, Checks
  <2>2. CASE Return(t)
    BY <2>1, <2>2, <1>6
  <2>3. CASE Goto(t, "operating") /\ call' = [call EXCEPT ![t] = [op |-> "operation"]]
    <3>1. Aside(t, "operating", [op |-> "operation"])
      BY <2>1, <2>3, CallsApart DEF Goto, Rest, Aside, Steps, CallSteps, Working, RegSteps, Plain
    <3>. QED  BY <2>1, <3>1, AsideReg DEF Rest
  <2>. QED  BY <2>1, <2>2, <2>3
<1>8. ASSUME NEW t \in Threads, NNTI_register_memory(t) \/ NNTI_register_segments(t) \/ NNTI_alloc(t) PROVE RegInv'
  <2>1. CASE Return(t)
    BY <1>8, <2>1, <1>6 DEF NNTI_register_memory, NNTI_register_segments, NNTI_alloc
  <2>2. CASE ~Return(t)
    <3>1. PICK op \in {"memory", "segments"}, b \in Buffers, m \in Memory :
             /\ Registrable(b, m) /\ Checks(t, Asked(op, b, m), "finding")
             /\ op = "memory" => Len(m) = 1
             /\ op = "segments" => m \notin InUse \/ May("resegment")
      <4>1. CASE NNTI_register_memory(t)
        BY <4>1, <2>2 DEF NNTI_register_memory
      <4>2. CASE NNTI_register_segments(t)
        BY <4>2 DEF NNTI_register_segments
      <4>3. CASE NNTI_alloc(t)
        BY <4>3, HeapAssumption DEF NNTI_alloc, Malloc, Allocates, HeapAssumption
      <4>. QED  BY <1>8, <4>1, <4>2, <4>3
    <3>2. Calls(t) /\ Rest
      BY <1>8 DEF NNTI_register_memory, NNTI_register_segments, NNTI_alloc
    <3>3. ~ May("resegment")
      BY <1>t DEF May, Orderly, RegTypes
    <3>4. BeginsToRegister(t, op, b, m)
      BY <2>2, <3>1, <3>2, <3>3, CallsApart DEF BeginsToRegister, Checks, Goto, Rest
    <3>. QED  BY <3>4, BeginsToRegisterReg
  <2>. QED  BY <2>1, <2>2
<1>9. ASSUME NEW t \in Threads, NNTI_unregister_memory(t) \/ NNTI_free(t) PROVE RegInv'
  <2>1. PICK b \in Buffers : registered[b] \in Memory /\ ~Busy(b) /\ Checks(t, Asked("unregister", b, registered[b]), "dropping")
    BY <1>9, HeapAssumption DEF NNTI_unregister_memory, NNTI_free, GivesBack, HeapAssumption
  <2>2. Calls(t) /\ Rest
    BY <1>9 DEF NNTI_unregister_memory, NNTI_free, GivesBack
  <2>3. CASE initialized
    <3>1. BeginsToUnregister(t, b)
      BY <2>1, <2>2, <2>3, CallsApart DEF BeginsToUnregister, Checks, Goto, Rest
    <3>. QED  BY <3>1, BeginsToUnregisterReg
  <2>4. CASE ~initialized
    BY <2>1, <2>2, <2>4, <1>6 DEF Checks
  <2>. QED  BY <2>3, <2>4
<1>10. ASSUME NEW t \in Threads, register_memory(t) \/ register_segments(t) \/ unregister_memory(t) PROVE RegInv'
  BY <1>10, FindsReg, MismatchReg, TakesReg, PinsReg, PublishesReg, DropsReg, ReleasesReg
     DEF register_memory, register_segments, unregister_memory
<1>11. CASE UNCHANGED vars
  BY <1>11, SameReg DEF vars, reg_vars, maps
<1>12. ASSUME NEW t \in Threads, Step(t) PROVE RegInv'
  BY <1>12, <1>2, <1>4, <1>5, <1>10 DEF Step, NNTI_ib_register_memory, NNTI_ib_register_segments, NNTI_ib_unregister_memory,
       NNTI_gni_register_memory, NNTI_gni_register_segments, NNTI_gni_unregister_memory
<1>. QED
  BY <1>1, <1>3, <1>7, <1>8, <1>9, <1>11, <1>12 DEF Next, NNTI_connect, NNTI_dt_pack, NNTI_dt_unpack, NNTI_put, NNTI_atomic_fop,
     NNTI_create_work_request, NNTI_cancelall, NNTI_wait, NNTI_waitany, NNTI_waitall

(* The handles, the table of buffers by address, the buffers and the regions always agree, and with what
   each thread has read of them on its way (RegInv), as long as callers are orderly. *)
THEOREM RegistrationIsInductive == ASSUME Orderly PROVE Spec => []RegInv
<1>1. RegInv /\ [Next]_vars => RegInv'
  BY StepReg
<1>. QED  BY InitReg, <1>1, PTL DEF Spec

\* What is registered is named, and what is named is pinned.
LEMMA PinnedFromInv == RegInv => RegisteredIsPinned
<1>. SUFFICES ASSUME RegInv PROVE RegisteredIsPinned
  OBVIOUS
<1>0. ASSUME NEW b \in Buffers, registered[b] # <<>>
      PROVE  registered[b] \in Memory /\ Named(buf[b], handles, registered[b])
  BY <1>0 DEF RegInv, RegTypes, Data, Names
<1>. SUFFICES ASSUME NEW b \in Buffers, registered[b] # <<>>, NEW i \in DOMAIN registered[b]
              PROVE  LET s == buf[b].segments[i] IN
                        /\ <<s.address, s.length>> = registered[b][i]
                        /\ s.key \in pinned /\ s.key[2] \in DOMAIN handles[s.key[1]].mrs
                        /\ handles[s.key[1]].mrs[s.key[2]] = registered[b][i]
  BY <1>0 DEF RegisteredIsPinned, Named
<1>. DEFINE m == registered[b]
            h == buf[b].hdl
            s == buf[b].segments[i]
<1>1. m \in Memory /\ Named(buf[b], handles, m)
  BY <1>0
<1>2. /\ h \in DOMAIN handles /\ Len(m) <= Len(handles[h].mrs) /\ Len(buf[b].segments) = Len(m)
      /\ s.address = m[i][1] /\ s.length = m[i][2] /\ s.key = <<h, i>> /\ handles[h].mrs[i] = m[i]
  BY <1>1 DEF Named
<1>3. m[i] \in Nat \X Nat /\ i \in 1 .. Len(m) /\ Len(m) \in Nat \ {0}
  BY <1>1, MemoryTypes
<1>4. i \in DOMAIN handles[h].mrs
  <2>1. handles[h].mrs \in Memory \cup {<<>>}
    BY <1>2, HandleTypes DEF RegInv, RegTypes
  <2>2. handles[h].mrs \in Memory
    BY <2>1, <1>2, <1>3
  <2>. QED  BY <2>2, <1>2, <1>3, MemoryTypes
<1>5. <<h, i>> \in pinned
  BY <1>2, <1>4 DEF RegInv, Data, Regions
<1>6. <<s.address, s.length>> = m[i]
  BY <1>2, <1>3
<1>. QED  BY <1>2, <1>4, <1>5, <1>6

\* Between calls those that a handle is counted for are those registered with it.
LEMMA CountsFromInv == RegInv => CountsAreRegistrations
<1>. SUFFICES ASSUME RegInv, \A t \in Threads : pc[t] = "idle" PROVE CountsAreRegistrations
  BY DEF CountsAreRegistrations
<1>1. \A h : Holders(h) = {b \in Buffers : registered[b] # <<>> /\ buf[b].hdl = h}
  BY DEF Holders, Coming
<1>2. ASSUME NEW h \in DOMAIN handles, handles[h].live
      PROVE  handles[h].ref_count = Cardinality(Holders(h)) /\ \E b \in Buffers : registered[b] # <<>> /\ buf[b].hdl = h
  <2>1. handles[h].ref_count = Cardinality(Holders(h)) /\ handles[h].ref_count # 0
    BY <1>2 DEF RegInv, Data, Counted
  <2>2. Holders(h) # {}
    BY <2>1, FS_EmptySet
  <2>. QED  BY <2>1, <2>2, <1>1
<1>3. ASSUME NEW r \in pinned PROVE \E b \in Buffers : registered[b] # <<>> /\ buf[b].hdl = r[1]
  <2>1. PICK h \in DOMAIN handles : \E i \in DOMAIN handles[h].mrs : r = <<h, i>>
    BY <1>3 DEF RegInv, Data, Regions
  <2>2. handles[h].live
    BY <2>1 DEF RegInv, Data, Counted, RegTypes, HandleType
  <2>. QED  BY <2>1, <2>2, <1>2
<1>4. ASSUME NEW a \in DOMAIN bufhash PROVE \E b \in Buffers : registered[b] # <<>> /\ Address(registered[b]) = a
  <2>. DEFINE h == buf[bufhash[a]].hdl
  <2>1. /\ h \in DOMAIN handles /\ handles[h].live /\ Address(handles[h].mrs) = a
    BY DEF RegInv, Data, Names, HandleOf, Named
  <2>2. PICK b \in Buffers : registered[b] # <<>> /\ buf[b].hdl = h
    BY <2>1, <1>2
  <2>3. registered[b] \in Memory /\ Named(buf[b], handles, registered[b])
    BY <2>2 DEF RegInv, RegTypes, Data, Names
  <2>4. handles[h].mrs[1] = registered[b][1]
    BY <2>2, <2>3, MemoryTypes DEF Named
  <2>. QED  BY <2>1, <2>2, <2>4 DEF Address
<1>. QED  BY <1>1, <1>2, <1>3, <1>4 DEF CountsAreRegistrations

(* A registered buffer names the caller's memory segment by segment, with keys of regions that are pinned,
   whatever other registrations of the same handle come and go (register_memory, unregister_memory). *)
THEOREM RegisteredStaysPinned == ASSUME Orderly PROVE Spec => []RegisteredIsPinned
BY RegistrationIsInductive, PinnedFromInv, PTL

(* Between calls ref_count is the number of buffers registered with a handle, and neither a region nor an
   entry of buffers_by_bufhash is left of memory that nobody has registered. *)
THEOREM CountsStayTrue == ASSUME Orderly PROVE Spec => []CountsAreRegistrations
BY RegistrationIsInductive, CountsFromInv, PTL

\* What is found is there, room is wanted only where there is some, and the
\* address of a first registration is free.
LEMMA AbortsNot == ASSUME RegInv, ~aborted, [Next]_vars PROVE ~aborted'
<1>1. ASSUME NEW t \in Threads, Takes(t) PROVE ~aborted'
  <2>1. call[t].old # None => buf[call[t].old].hdl # 0 /\ handles[buf[call[t].old].hdl].live
    <3>. SUFFICES ASSUME call[t].old # None PROVE buf[call[t].old].hdl # 0 /\ handles[buf[call[t].old].hdl].live
      OBVIOUS
    <3>1. /\ Address(call[t].mem) \in DOMAIN bufhash /\ bufhash[Address(call[t].mem)] = call[t].old
      BY <1>1 DEF RegInv, Data, Found, Takes, At
    <3>2. buf[call[t].old].hdl \in DOMAIN handles /\ handles[buf[call[t].old].hdl].live
      BY <3>1 DEF RegInv, Data, Names, Named
    <3>3. DOMAIN handles = 1 .. Len(handles)
      BY HandleTypes DEF RegInv, RegTypes
    <3>. QED  BY <3>2, <3>3
  <2>. QED  BY <2>1, <1>1 DEF Takes
<1>2. ASSUME NEW t \in Threads, Pins(t) PROVE ~aborted'
  <2>1. Handle(t).ref_count = 1 \/ call[t].op = "memory"
    BY <1>2 DEF RegInv, Data, Found, Pins, At
  <2>. QED  BY <2>1, <1>2 DEF Pins
<1>3. ASSUME NEW t \in Threads, Publishes(t) PROVE ~aborted'
  <2>. DEFINE a == buf[call[t].buf].segments[1].address
  <2>1. a = Address(call[t].mem)
    <3>1. Named(buf[call[t].buf], handles, call[t].mem) /\ call[t].mem \in Memory
      BY <1>3 DEF RegInv, Data, Names, Publishes, At, RegTypes, Working, RegSteps, Asks
    <3>. QED  BY <3>1, MemoryTypes DEF Named, Address
  <2>2. Handle(t).ref_count = 1 => a \notin DOMAIN bufhash
    BY <2>1, <1>3 DEF RegInv, Data, Found, Publishes, At
  <2>. QED  BY <2>2, <1>3 DEF Publishes
<1>4. ASSUME NEW t \in Threads, Finds(t) \/ Mismatch(t) \/ Drops(t) \/ Releases(t) PROVE ~aborted'
  BY <1>4 DEF Finds, Mismatch, Drops, Releases
<1>5. ASSUME NEW t \in Threads, register_memory(t) \/ register_segments(t) \/ unregister_memory(t) PROVE ~aborted'
  BY <1>5, <1>1, <1>2, <1>3, <1>4 DEF register_memory, register_segments, unregister_memory
<1>6. ASSUME NEW t \in Threads, Step(t) PROVE ~aborted'
  BY <1>6, <1>5 DEF Step, NNTI_ib_register_memory, NNTI_ib_register_segments, NNTI_ib_unregister_memory,
       NNTI_gni_register_memory, NNTI_gni_register_segments, NNTI_gni_unregister_memory, NNTI_ib_init, NNTI_gni_init, NNTI_mpi_init,
       Opens, NNTI_ib_fini, NNTI_gni_fini, NNTI_mpi_fini, Closes, Clears, Operates, Rest
<1>7. CASE UNCHANGED vars
  BY <1>7 DEF vars, reg_vars
<1>. QED
  BY <1>6, <1>7 DEF Next, NNTI_init, NNTI_fini, NNTI_register_memory, NNTI_register_segments, NNTI_alloc, NNTI_unregister_memory,
     NNTI_free, GivesBack, Operation, ListOperation, Rest,
     NNTI_connect, NNTI_dt_pack, NNTI_dt_unpack, NNTI_put, NNTI_atomic_fop,
     NNTI_create_work_request, NNTI_cancelall, NNTI_wait, NNTI_waitany, NNTI_waitall

(* No assertion of registering fails, and no handle is used that was freed: insert_buf_bufhash never meets
   an entry of the same address, and the buffer that the table gives always names a live handle. *)
THEOREM NothingAborts == ASSUME Orderly PROVE Spec => []~aborted
<1>1. RegInv /\ [Next]_vars => RegInv'
  BY StepReg
<1>2. RegInv /\ ~aborted /\ [Next]_vars => ~aborted'
  BY AbortsNot
<1>3. Init => ~aborted
  BY DEF Init, RegistrationInit
<1>. QED  BY InitReg, <1>1, <1>2, <1>3, PTL DEF Spec

=============================================================================
