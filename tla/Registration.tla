---------------------------- MODULE Registration ----------------------------
(***************************************************************************)
(* Registering memory with InfiniBand (nnti/nnti_ib.cpp) and Gemini        *)
(* (nnti/nnti_gni.cpp).  A buffer, the caller's NNTI_buffer_t, names a     *)
(* memory handle, which buffers of the same memory share and count; it is  *)
(* found by the address of the first segment in buffers_by_bufhash, which  *)
(* holds the first of those buffers.  Threads take the steps of their      *)
(* calls: on Gemini under nnti_mem_lock, on InfiniBand under no lock but   *)
(* that of the table.  Module Nnti makes the calls.                        *)
(***************************************************************************)
EXTENDS Naturals, Sequences, FiniteSets, SequencesExt, FiniteSetsExt

CONSTANTS
    Threads,
    Buffers,        \* the callers' buffers
    Memory,         \* what is registered: a sequence of segments <<address, length>>
    MaxHandles      \* bound on memory handles

None == "none"

ASSUME RegistrationAssumptions ==
    /\ Memory \subseteq Seq(Nat \X Nat) \ {<<>>}
    /\ IsFiniteSet(Buffers) /\ None \notin Buffers
    /\ 0 \notin Threads

VARIABLES
    transport,      \* "ib", "gni" or "mpi"
    bufhash,        \* buffers_by_bufhash: address |-> buffer
    handles,        \* memory handles, which are not made twice: [ref_count, mrs (mr_list), live]
    buf,            \* buffer |-> [hdl, segments: a sequence of [address, length, key]]
    pinned,         \* the memory regions: <<handle, segment>>
    mem_lock,       \* the thread that holds nnti_mem_lock, or 0
    pc,             \* thread |-> the next step of its call
    call,           \* thread |-> what it asks for
    registered,     \* buffer |-> the memory it was registered for
    aborted         \* an assertion has failed, or NULL or freed memory been used

maps == <<bufhash, handles, buf>>
reg_vars == <<transport, maps, pinned, mem_lock, pc, call, registered, aborted>>

NoCall == [op |-> None]
Cleared == [hdl |-> 0, segments |-> <<>>]

RegistrationInit ==
    /\ bufhash = <<>> /\ handles = <<>>
    /\ buf = [b \in Buffers |-> Cleared]
    /\ pinned = {} /\ mem_lock = 0
    /\ pc = [t \in Threads |-> "idle"]
    /\ call = [t \in Threads |-> NoCall]
    /\ registered = [b \in Buffers |-> <<>>]
    /\ aborted = FALSE

Goto(t, there) == pc' = [pc EXCEPT ![t] = there]

\* A call ends, whatever its result.
Return(t) == Goto(t, "idle") /\ call' = [call EXCEPT ![t] = NoCall]

Address(m) == m[1][1]
Hdl(t) == buf[call[t].buf].hdl
Handle(t) == handles[Hdl(t)]
At(t, step) == pc[t] = step /\ ~aborted
Aborts == aborted' = TRUE /\ UNCHANGED <<transport, maps, pinned, mem_lock, pc, call, registered>>

-----------------------------------------------------------------------------
(* register_memory and register_segments.                                  *)

\* Gemini takes its lock; then the table is looked in.
Finds(t) ==
    /\ At(t, "finding")
    /\ IF transport = "gni" THEN mem_lock = 0 /\ mem_lock' = t ELSE UNCHANGED mem_lock
    /\ LET a == Address(call[t].mem) IN
         call' = [call EXCEPT ![t].old = IF a \in DOMAIN bufhash THEN bufhash[a] ELSE None]
    /\ Goto(t, "taking")
    /\ UNCHANGED <<transport, maps, pinned, registered, aborted>>

\* The buffer found is one of the same segments.
Matches(t, m) ==
    LET s == buf[call[t].old].segments IN
    Len(s) = Len(m) /\ \A i \in DOMAIN m : s[i].address = m[i][1] /\ s[i].length = m[i][2]

\* EINVAL: the segments are others.  Gemini's lock is kept.
Mismatch(t) ==
    /\ At(t, "taking") /\ call[t].op = "segments" /\ call[t].old # None /\ ~Matches(t, call[t].mem)
    /\ Return(t)
    /\ UNCHANGED <<transport, maps, pinned, mem_lock, registered, aborted>>

CountsNot(t, h) == UNCHANGED handles  \* ref_count forgotten
Counts(t, h) == handles' = [handles EXCEPT ![h].ref_count = @ + 1]

\* A handle is made, or that of the buffer found is counted once more.
Takes(t) ==
    /\ At(t, "taking")
    /\ LET old == call[t].old
           h == IF old = None THEN Len(handles) + 1 ELSE buf[old].hdl
       IN /\ call[t].op = "segments" /\ old # None => Matches(t, call[t].mem)
          /\ IF old = None \/ (h # 0 /\ handles[h].live)
             THEN /\ IF old = None
                     THEN handles' = Append(handles, [ref_count |-> 1, mrs |-> <<>>, live |-> TRUE])
                     ELSE Counts(t, h)
                  /\ buf' = [buf EXCEPT ![call[t].buf] = [Cleared EXCEPT !.hdl = h]]
                  /\ Goto(t, "pinning")
                  /\ UNCHANGED <<transport, bufhash, pinned, mem_lock, call, registered, aborted>>
             ELSE Aborts

\* Of the handle InfiniBand gives the regions; Gemini the region made for a
\* single segment, which a handle of several has not, with the caller's extent.
Segments(t, mrs) ==
    LET m == call[t].mem
        extent(i) == IF transport = "ib" THEN mrs[i] ELSE m[i]
        key(i) == IF transport = "gni" /\ call[t].op = "memory" /\ Len(mrs) > 1 THEN <<0, 0>> ELSE <<Hdl(t), i>>
    IN [i \in DOMAIN m |-> [address |-> extent(i)[1], length |-> extent(i)[2], key |-> key(i)]]

\* A region of memory for each segment.
register_memory_segment(t) == {<<Hdl(t), i>> : i \in DOMAIN call[t].mem}

\* The memory is pinned by the first registration.  For further ones of
\* several segments there is no room in the buffer to name them in.
Pins(t) ==
    /\ At(t, "pinning")
    /\ LET m == call[t].mem
           first == Handle(t).ref_count = 1
           mrs == IF first THEN m ELSE Handle(t).mrs
       IN IF first \/ call[t].op = "memory"
          THEN /\ handles' = [handles EXCEPT ![Hdl(t)].mrs = mrs]
               /\ pinned' = IF first THEN pinned \cup register_memory_segment(t) ELSE pinned
               /\ buf' = [buf EXCEPT ![call[t].buf].segments = Segments(t, mrs)]
               /\ Goto(t, "publishing")
               /\ UNCHANGED <<transport, bufhash, mem_lock, call, registered, aborted>>
          ELSE Aborts

insert_buf_bufhash(a, b) == bufhash' = [x \in DOMAIN bufhash \cup {a} |-> IF x = a THEN b ELSE bufhash[x]]

\* The table has to have nothing for this address.  Gemini says EIO of
\* segments whatever happened, which callers in the tests do not read.
Publishes(t) ==
    /\ At(t, "publishing")
    /\ LET b == call[t].buf
           a == buf[b].segments[1].address
           first == Handle(t).ref_count = 1
       IN IF first /\ a \in DOMAIN bufhash THEN Aborts
          ELSE /\ IF first THEN insert_buf_bufhash(a, b) ELSE UNCHANGED bufhash
               /\ registered' = [registered EXCEPT ![b] = call[t].mem]
               /\ Return(t)
               /\ mem_lock' = 0
               /\ UNCHANGED <<transport, handles, buf, pinned, aborted>>

register_memory(t) == call[t].op = "memory" /\ (Finds(t) \/ Takes(t) \/ Pins(t) \/ Publishes(t))
register_segments(t) == call[t].op = "segments" /\ (Finds(t) \/ Mismatch(t) \/ Takes(t) \/ Pins(t) \/ Publishes(t))

NNTI_ib_register_memory(t) == transport = "ib" /\ register_memory(t)
NNTI_ib_register_segments(t) == transport = "ib" /\ register_segments(t)
NNTI_gni_register_memory(t) == transport = "gni" /\ register_memory(t)
NNTI_gni_register_segments(t) == transport = "gni" /\ register_segments(t)

-----------------------------------------------------------------------------
(* unregister_memory.                                                      *)

\* One registration less; the last one goes on to release the handle.
Drops(t) ==
    /\ At(t, "dropping")
    /\ IF transport = "gni" THEN mem_lock = 0 ELSE TRUE
    /\ LET b == call[t].buf IN
         /\ handles' = [handles EXCEPT ![Hdl(t)].ref_count = @ - 1]
         /\ registered' = [registered EXCEPT ![b] = <<>>]
         /\ IF handles'[Hdl(t)].ref_count = 0
            THEN /\ Goto(t, "releasing")
                 /\ mem_lock' = IF transport = "gni" THEN t ELSE mem_lock
                 /\ UNCHANGED call
            ELSE Return(t) /\ UNCHANGED mem_lock
    /\ UNCHANGED <<transport, bufhash, buf, pinned, aborted>>

\* del_buf_bufhash of the address, whichever buffer the table has for it.
del_buf_bufhashOwn(b) == [a \in {x \in DOMAIN bufhash : bufhash[x] # b} |-> bufhash[a]]  \* only its own entry
del_buf_bufhash(b) == [a \in DOMAIN bufhash \ {buf[b].segments[1].address} |-> bufhash[a]]

\* The regions are given back, and the buffer is cleared.
Releases(t) ==
    /\ At(t, "releasing")
    /\ LET b == call[t].buf IN
         /\ pinned' = {r \in pinned : r[1] # Hdl(t)}
         /\ handles' = [handles EXCEPT ![Hdl(t)].live = FALSE, ![Hdl(t)].mrs = <<>>]
         /\ bufhash' = del_buf_bufhash(b)
         /\ buf' = [buf EXCEPT ![b] = Cleared]
    /\ mem_lock' = 0
    /\ Return(t)
    /\ UNCHANGED <<transport, registered, aborted>>

unregister_memory(t) == call[t].op = "unregister" /\ (Drops(t) \/ Releases(t))
NNTI_ib_unregister_memory(t) == transport = "ib" /\ unregister_memory(t)
NNTI_gni_unregister_memory(t) == transport = "gni" /\ unregister_memory(t)

=============================================================================
