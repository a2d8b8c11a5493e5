-------------------------------- MODULE Nnti --------------------------------
(***************************************************************************)
(* The public API of nnti/nnti.c: the entry of available_transports that   *)
(* every call looks at before it calls into the transport, how NNTI_init   *)
(* and NNTI_fini mark it, and how the transports open and close.  What a   *)
(* registration does then is module Registration; of other calls it        *)
(* matters only that they use the transport.                               *)
(*                                                                         *)
(* Callers are free to do what the API does not forbid; Habits says what   *)
(* they do.  A call's memory is what it registers.                         *)
(***************************************************************************)
EXTENDS Registration

CONSTANTS
    Transports,     \* those a caller may choose from
    Heap,           \* what NNTI_alloc may get: some of Memory
    Habits          \* transport |-> what its callers do, of the following
                    \* "together"  several threads call at once
                    \* "again"     init after fini
                    \* "failed"    calls after an init that has failed
                    \* "overlap"   register other segments with a first one that is registered
                    \* "resegment" register the same segments twice
                    \* "reuse"     register a buffer that bufhash has for memory of others

\* Allocated memory is one segment.
ASSUME HeapAssumption == Heap \subseteq Memory /\ \A m \in Heap : Len(m) = 1

VARIABLES
    initialized,    \* available_transports[transport].initialized, and its operations
    opened,         \* ib_initialized, gni_initialized, the static flag of NNTI_mpi_init
    up              \* the device is open and the locks are made

vars == <<reg_vars, initialized, opened, up>>
api == <<initialized, opened, up>>

Init ==
    /\ transport \in Transports
    /\ RegistrationInit
    /\ initialized = FALSE /\ opened = FALSE /\ up = FALSE

May(habit) == habit \in Habits[transport]

LifeSteps == {"opening", "closing", "clearing"}
CallSteps == {"finding", "taking", "pinning", "publishing", "dropping", "releasing", "operating"}

\* Thread t makes a call: callers keep init and fini apart from other calls.
Calls(t) ==
    /\ At(t, "idle")
    /\ \A u \in Threads \ {t} : pc[u] = "idle" \/ (May("together") /\ pc[u] \notin LifeSteps)
    /\ opened \/ ~initialized \/ May("failed")

\* As if the entry were not looked at.
ChecksNot(t, asked, step) == Goto(t, step) /\ call' = [call EXCEPT ![t] = asked]

\* The entry is looked at, and then the transport called.
Checks(t, asked, step) ==
    IF initialized
    THEN Goto(t, step) /\ call' = [call EXCEPT ![t] = asked]
    ELSE Return(t)  \* ENOTINIT

Rest == UNCHANGED <<transport, maps, pinned, mem_lock, registered, aborted>>

-----------------------------------------------------------------------------
(* NNTI_init and NNTI_fini.                                                *)

\* The entry is marked before the transport is asked.
NNTI_init(t) ==
    /\ At(t, "idle") /\ \A u \in Threads \ {t} : pc[u] = "idle"
    /\ ~initialized \/ ~up
    /\ opened \/ handles # <<>> => May("again")
    /\ initialized' = TRUE
    /\ Goto(t, "opening") /\ call' = [call EXCEPT ![t] = [op |-> "init"]]
    /\ Rest /\ UNCHANGED <<opened, up>>

\* The transport opens unless it has, or fails.
Opens(t, mayFail) ==
    /\ At(t, "opening") /\ Return(t)
    /\ \/ opened /\ UNCHANGED <<opened, up>>
       \/ ~opened /\ opened' = TRUE /\ up' = TRUE
       \/ ~opened /\ mayFail /\ UNCHANGED <<opened, up>>
    /\ Rest /\ UNCHANGED initialized

NNTI_ib_init(t) == transport = "ib" /\ Opens(t, TRUE)      \* EINVAL or EIO
NNTI_gni_init(t) == transport = "gni" /\ Opens(t, TRUE)    \* EINVAL or EPERM
NNTI_mpi_init(t) == transport = "mpi" /\ Opens(t, FALSE)

NNTI_fini(t) ==
    /\ Calls(t)
    /\ \A u \in Threads : pc[u] = "idle"
    /\ \A b \in Buffers : registered[b] = <<>>
    /\ Checks(t, [op |-> "fini"], "closing")
    /\ Rest /\ UNCHANGED api

\* Devices and locks go, and memory regions with them.
Closes(t, flag) ==
    /\ At(t, "closing")
    /\ opened' = flag /\ up' = FALSE /\ pinned' = {}
    /\ Goto(t, "clearing")
    /\ UNCHANGED <<transport, maps, mem_lock, call, registered, aborted, initialized>>

NNTI_ib_fini(t) == transport = "ib" /\ Closes(t, FALSE)
NNTI_gni_fini(t) == transport = "gni" /\ Closes(t, FALSE)
NNTI_mpi_fini(t) == transport = "mpi" /\ Closes(t, opened)

\* The entry is cleared when the transport has closed.
Clears(t) ==
    /\ At(t, "clearing") /\ Return(t)
    /\ initialized' = FALSE
    /\ Rest /\ UNCHANGED <<opened, up>>

-----------------------------------------------------------------------------
(* Registering.                                                            *)

Busy(b) == \E t \in Threads : pc[t] # "idle" /\ "buf" \in DOMAIN call[t] /\ call[t].buf = b

\* The memory of handles, and of the registrations under way.
Registering == {t \in Threads : pc[t] \in {"finding", "taking", "pinning"}}
InUse == {handles[h].mrs : h \in DOMAIN handles} \cup {call[t].mem : t \in Registering}
Shares(m) == {n \in InUse \ {<<>>} : Address(n) = Address(m)}

\* Buffer b may be registered for m.
Registrable(b, m) ==
    /\ transport # "mpi" /\ Len(handles) < MaxHandles
    /\ registered[b] = <<>> /\ ~Busy(b)
    /\ b \in Range(bufhash) => May("reuse")
    /\ Shares(m) \subseteq {m} \/ May("overlap")
    /\ May("resegment") \/ ~\E t \in Registering : call[t].op = "segments" /\ call[t].mem = m

Asked(op, b, m) == [op |-> op, buf |-> b, mem |-> m, old |-> None]

\* A queue of requests is only allocated.
NNTI_register_memory(t) ==
    /\ Calls(t)
    /\ \/ \E b \in Buffers, m \in Memory \ Heap :
            Len(m) = 1 /\ Registrable(b, m) /\ Checks(t, Asked("memory", b, m), "finding")
       \/ initialized /\ Return(t)  \* EINVAL
    /\ Rest /\ UNCHANGED api

NNTI_register_segments(t) ==
    /\ Calls(t)
    /\ \E b \in Buffers, m \in Memory \ Heap :
         /\ Registrable(b, m) /\ (m \notin InUse \/ May("resegment"))
         /\ Checks(t, Asked("segments", b, m), "finding")
    /\ Rest /\ UNCHANGED api

\* What malloc finds, and the registration that goes with it.
Malloc == {m \in Heap : Shares(m) = {}}
Allocates(t, b, m) == Registrable(b, m) /\ Checks(t, Asked("memory", b, m), "finding")

NNTI_alloc(t) ==
    /\ Calls(t)
    /\ \E b \in Buffers, m \in Malloc : Allocates(t, b, m)
    /\ Rest /\ UNCHANGED api

\* A buffer is given back by one caller.
GivesBack(t, memory) ==
    /\ Calls(t)
    /\ \E b \in Buffers :
         /\ registered[b] \in memory /\ ~Busy(b)
         /\ Checks(t, Asked("unregister", b, registered[b]), "dropping")
    /\ Rest /\ UNCHANGED api

NNTI_unregister_memory(t) == GivesBack(t, Memory \ Heap)
NNTI_free(t) == GivesBack(t, Heap)

-----------------------------------------------------------------------------
(* The other calls.                                                        *)

Operation(t) == Calls(t) /\ Checks(t, [op |-> "operation"], "operating") /\ Rest /\ UNCHANGED api

\* Of a list, the transport of the last work request in it, if there is one.
ListOperation(t) ==
    \/ Operation(t)
    \/ Calls(t) /\ Return(t) /\ Rest /\ UNCHANGED api

NNTI_connect(t) == Operation(t)         \* also get_url and disconnect
NNTI_dt_pack(t) == Operation(t)         \* also sizeof
NNTI_dt_unpack(t) == Operation(t)       \* also free
NNTI_put(t) == Operation(t)             \* also send, get, scatter and gather
NNTI_atomic_fop(t) == Operation(t)      \* also the other atomics
NNTI_create_work_request(t) == Operation(t)  \* also clear, destroy and cancel
NNTI_cancelall(t) == ListOperation(t)
NNTI_wait(t) == Operation(t)            \* also interrupt
NNTI_waitany(t) == ListOperation(t)
NNTI_waitall(t) == ListOperation(t)

Operates(t) ==
    /\ At(t, "operating") /\ Return(t)
    /\ Rest /\ UNCHANGED api

Step(t) ==
    \/ NNTI_ib_init(t) \/ NNTI_gni_init(t) \/ NNTI_mpi_init(t)
    \/ NNTI_ib_fini(t) \/ NNTI_gni_fini(t) \/ NNTI_mpi_fini(t) \/ Clears(t)
    \/ /\ \/ NNTI_ib_register_memory(t) \/ NNTI_ib_register_segments(t) \/ NNTI_ib_unregister_memory(t)
          \/ NNTI_gni_register_memory(t) \/ NNTI_gni_register_segments(t) \/ NNTI_gni_unregister_memory(t)
       /\ UNCHANGED api
    \/ Operates(t)

Next ==
    \E t \in Threads :
        \/ NNTI_init(t) \/ NNTI_fini(t)
        \/ NNTI_register_memory(t) \/ NNTI_register_segments(t) \/ NNTI_alloc(t)
        \/ NNTI_unregister_memory(t) \/ NNTI_free(t)
        \/ NNTI_connect(t) \/ NNTI_dt_pack(t) \/ NNTI_dt_unpack(t) \/ NNTI_put(t) \/ NNTI_atomic_fop(t)
        \/ NNTI_create_work_request(t) \/ NNTI_cancelall(t) \/ NNTI_wait(t) \/ NNTI_waitany(t) \/ NNTI_waitall(t)
        \/ Step(t)

Spec == Init /\ [][Next]_vars
\* The scheduler runs every thread, and the lock is given to those who ask for it.
FairSpec == Spec /\ \A t \in Threads : SF_vars(Step(t))

-----------------------------------------------------------------------------
(* A buffer that is registered names the memory the caller gave, segment by segment, with the keys of
   regions that are pinned, however many share its handle and whoever came first or left first. *)
RegisteredIsPinned ==
    \A b \in Buffers : registered[b] # <<>> /\ up =>
        /\ Len(buf[b].segments) = Len(registered[b])
        /\ \A i \in DOMAIN registered[b] :
             LET s == buf[b].segments[i] IN
             /\ <<s.address, s.length>> = registered[b][i]
             /\ s.key \in pinned /\ s.key[2] \in DOMAIN handles[s.key[1]].mrs
             /\ handles[s.key[1]].mrs[s.key[2]] = registered[b][i]

(* Between calls a handle counts the buffers registered with it, and of memory that nobody has registered
   nothing is left: no region is pinned and buffers_by_bufhash does not name it. *)
CountsAreRegistrations ==
    (\A t \in Threads : pc[t] = "idle") /\ ~aborted =>
        /\ \A h \in DOMAIN handles : handles[h].live =>
             handles[h].ref_count = Cardinality({b \in Buffers : registered[b] # <<>> /\ buf[b].hdl = h})
        /\ \A r \in pinned : \E b \in Buffers : registered[b] # <<>> /\ buf[b].hdl = r[1]
        /\ \A a \in DOMAIN bufhash : \E b \in Buffers : registered[b] # <<>> /\ Address(registered[b]) = a

(* No call goes on in a transport that has not opened, or that has closed: its locks and its device are
   not there (the entry of available_transports). *)
CallsAreOfAnOpenTransport == \A t \in Threads : pc[t] \in CallSteps => up

(* Every call returns: no lock is kept, and no assertion fails or memory is used that was freed. *)
CallsReturn == \A t \in Threads : pc[t] # "idle" ~> pc[t] = "idle"

=============================================================================
