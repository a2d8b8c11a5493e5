---------------------------- MODULE BufferQueue ----------------------------
(***************************************************************************)
(* The pool of registered buffers of nnti/buffer_queue.cpp.                *)
(*                                                                         *)
(* A trios_buffer_queue_t keeps a deque of buffers that were allocated and *)
(* registered with NNTI_alloc.  Clients pop a buffer, use it and push it   *)
(* back.  The pool grows on demand up to max_size buffers; beyond that it  *)
(* creates buffers on the fly when create_on_fly is set, and a push into a *)
(* full deque destroys the buffer.  Every operation holds bq->mutex from   *)
(* its first to its last line, so each is one action here.                 *)
(*                                                                         *)
(* A buffer is an NNTI_buffer_t structure: Structs is the set of the       *)
(* addresses malloc can return.  An address is in use while the pool or a  *)
(* client can reach it.                                                    *)
(***************************************************************************)
EXTENDS Naturals, Sequences, FiniteSets, Functions

CONSTANTS
    Clients,        \* the threads that use the pool
    Structs,        \* addresses of NNTI_buffer_t structures
    InitialSize,    \* bq->initial_size
    MaxSize         \* bq->max_size

ASSUME SizesAssumption == InitialSize \in Nat /\ MaxSize \in Nat
ASSUME StructsAssumption == IsFiniteSet(Structs)

VARIABLES
    open,           \* the pool is between its init and its fini
    queue,          \* bq->queue
    current_size,   \* bq->current_size
    create_on_fly,  \* bq->create_on_fly
    held,           \* what each client popped and has not pushed yet
    allocated,     \* buffers whose NNTI_alloc succeeded
    reduced,        \* buffers whose payload_size a client reduced
    failed          \* history: the library calls, "alloc" and "free", that have failed

pool_vars == <<open, queue, current_size, create_on_fly, held, allocated, reduced, failed>>

AllHeld == UNION {held[c] : c \in Clients}
Reachable == Range(queue) \union AllHeld
Unused == Structs \ Reachable

PoolInit ==
    /\ open = FALSE
    /\ queue = <<>>
    /\ current_size = 0
    /\ create_on_fly = FALSE
    /\ held = [c \in Clients |-> {}]
    /\ allocated = {}
    /\ reduced = {}
    /\ failed = {}

\* A library call goes well, or it does not.
Works == UNCHANGED failed
Fails(call) == failed' = failed \union {call}

(***************************************************************************)
(* trios_buffer_queue_init: the loop stops at the first create_buffer that *)
(* fails, and leaves the n buffers it has in the pool.  It does not clear  *)
(* bq->queue.  A caller that starts the pool again has given up the        *)
(* buffers of the pool's earlier life.                                     *)
(***************************************************************************)
trios_buffer_queue_init ==
    /\ ~open
    /\ AllHeld = {}
    /\ \E n \in 0..InitialSize :
         /\ IF n = InitialSize THEN Works ELSE Fails("alloc")
         /\ \E new \in [1..n -> Unused] :
              /\ IsInjective(new)
              /\ queue' = queue \o new
              /\ allocated' = allocated \union Range(new)
         /\ current_size' = n
    /\ open' = TRUE
    /\ create_on_fly' \in BOOLEAN
    /\ UNCHANGED <<held, reduced>>

\* Client c leaves trios_buffer_queue_pop with buffer b.
Take(c, b) == held' = [held EXCEPT ![c] = @ \union {b}]

(***************************************************************************)
(* trios_buffer_queue_pop, one action per way out of it.                   *)
(***************************************************************************)
\* Mistake: reading the front without removing it.
PopFrontKeeps(c) ==
    /\ open
    /\ queue # <<>>
    /\ Take(c, Head(queue))
    /\ UNCHANGED <<open, queue, current_size, create_on_fly, allocated, reduced, failed>>

PopFront(c) ==
    /\ open
    /\ queue # <<>>
    /\ queue' = Tail(queue)
    /\ Take(c, Head(queue))
    /\ UNCHANGED <<open, current_size, create_on_fly, allocated, reduced, failed>>

\* Mistake: not counting the buffer that expands the pool.
PopExpandUncounted(c) ==
    /\ open
    /\ queue = <<>>
    /\ current_size < MaxSize
    /\ \E b \in Unused :
         /\ Take(c, b)
         /\ allocated' = allocated \union {b}
    /\ UNCHANGED <<open, queue, current_size, create_on_fly, reduced, failed>>

PopExpand(c) ==
    /\ open
    /\ queue = <<>>
    /\ current_size < MaxSize
    /\ \E b \in Unused :
         /\ Take(c, b)
         /\ \/ /\ Works
               /\ allocated' = allocated \union {b}
               /\ current_size' = current_size + 1
            \* The structure is returned although NNTI_alloc failed.
            \/ /\ Fails("alloc")
               /\ UNCHANGED <<allocated, current_size>>
    /\ UNCHANGED <<open, queue, create_on_fly, reduced>>

\* When NNTI_alloc fails here the pop returns NULL and changes nothing.
PopOnTheFly(c) ==
    /\ open
    /\ queue = <<>>
    /\ current_size = MaxSize
    /\ create_on_fly
    /\ \E b \in Unused :
         /\ Take(c, b)
         /\ allocated' = allocated \union {b}
    /\ UNCHANGED <<open, queue, current_size, create_on_fly, reduced, failed>>

\* A client that pops may shrink the payload before it transfers it.
ReduceSize(c, b) ==
    /\ b \in held[c]
    /\ reduced' = reduced \union {b}
    /\ UNCHANGED <<open, queue, current_size, create_on_fly, held, allocated, failed>>

(***************************************************************************)
(* trios_buffer_queue_push: back to the front of the deque with its full   *)
(* size, or destroyed when the deque has max_size entries.                 *)
(***************************************************************************)
\* Mistake: not resetting the payload size.
PushFrontReduced(c, b) ==
    /\ open
    /\ b \in held[c]
    /\ Len(queue) < MaxSize
    /\ queue' = <<b>> \o queue
    /\ held' = [held EXCEPT ![c] = @ \ {b}]
    /\ UNCHANGED <<open, current_size, create_on_fly, allocated, reduced, failed>>

PushFront(c, b) ==
    /\ open
    /\ b \in held[c]
    /\ Len(queue) < MaxSize
    /\ queue' = <<b>> \o queue
    /\ held' = [held EXCEPT ![c] = @ \ {b}]
    /\ reduced' = reduced \ {b}
    /\ UNCHANGED <<open, current_size, create_on_fly, allocated, failed>>

PushDestroy(c, b) ==
    /\ open
    /\ b \in held[c]
    /\ Len(queue) >= MaxSize
    /\ Works \/ Fails("free")
    /\ held' = [held EXCEPT ![c] = @ \ {b}]
    /\ allocated' = allocated \ {b}
    /\ reduced' = reduced \ {b}
    /\ UNCHANGED <<open, queue, current_size, create_on_fly>>

(***************************************************************************)
(* trios_buffer_queue_fini destroys from the front; destroy_buffer frees   *)
(* the structure even when NNTI_free fails, and then the loop stops.       *)
(***************************************************************************)
trios_buffer_queue_fini ==
    /\ open
    /\ \E n \in 0..Len(queue) :
         /\ \/ n = Len(queue) /\ Works
            \/ n > 0 /\ Fails("free")
         /\ queue' = SubSeq(queue, n + 1, Len(queue))
         /\ allocated' = allocated \ {queue[i] : i \in 1..n}
    /\ open' = FALSE
    /\ UNCHANGED <<current_size, create_on_fly, held, reduced>>

\* A buffer that was still out when its pool ended: its client frees it.
DropAfterFini(c, b) ==
    /\ ~open
    /\ Works \/ Fails("free")
    /\ b \in held[c]
    /\ held' = [held EXCEPT ![c] = @ \ {b}]
    /\ allocated' = allocated \ {b}
    /\ reduced' = reduced \ {b}
    /\ UNCHANGED <<open, queue, current_size, create_on_fly>>

PoolNext ==
    \/ trios_buffer_queue_init
    \/ trios_buffer_queue_fini
    \/ \E c \in Clients :
         \/ PopFront(c)
         \/ PopExpand(c)
         \/ PopOnTheFly(c)
         \/ \E b \in held[c] :
              \/ ReduceSize(c, b)
              \/ PushFront(c, b)
              \/ PushDestroy(c, b)
              \/ DropAfterFini(c, b)

PoolSpec == PoolInit /\ [][PoolNext]_pool_vars

-----------------------------------------------------------------------------

SizeLimit == IF InitialSize > MaxSize THEN InitialSize ELSE MaxSize

\* The types of the pool's fields and of what the clients hold.
TypeOK ==
    /\ open \in BOOLEAN
    /\ queue \in Seq(Structs)
    /\ current_size \in 0..SizeLimit
    /\ create_on_fly \in BOOLEAN
    /\ held \in [Clients -> SUBSET Structs]
    /\ allocated \in SUBSET Structs
    /\ reduced \in SUBSET Structs
    /\ failed \in SUBSET {"alloc", "free"}

(***************************************************************************)
(* A buffer has one owner: it is in the deque once, or one client holds    *)
(* it.  Were it in two places, two clients would transfer into the same    *)
(* memory, or push would free memory a client still uses.                  *)
(***************************************************************************)
ExclusiveOwnership ==
    /\ IsInjective(queue)
    /\ \A c \in Clients : held[c] \intersect Range(queue) = {}
    /\ \A c, d \in Clients : c # d => held[c] \intersect held[d] = {}

(***************************************************************************)
(* What the pool counts is what exists: when no library call has failed,   *)
(* current_size is the number of buffers in the deque and with the         *)
(* clients, and only a pool at max_size has buffers beyond the count, the  *)
(* ones it made on the fly.  So a pop comes back empty-handed only when    *)
(* max_size buffers are out, and at quiescence the deque is whole, which   *)
(* is what trios_buffer_queue_fini warns about otherwise.                  *)
(***************************************************************************)
Population == Len(queue) + Cardinality(AllHeld)

CountIsPopulation ==
    (open /\ failed = {} /\ InitialSize <= MaxSize) =>
        /\ current_size <= MaxSize
        /\ current_size <= Population
        /\ Population > current_size => create_on_fly /\ current_size = MaxSize

(***************************************************************************)
(* The memory the pool has registered with the transport is bounded by     *)
(* max_size when it may not create buffers on the fly, also when           *)
(* allocations fail: registered memory is pinned.                          *)
(***************************************************************************)
PinnedMemoryBounded ==
    (~create_on_fly /\ "free" \notin failed /\ InitialSize <= MaxSize) =>
        Cardinality(allocated) <= MaxSize

\* A buffer in the deque has its full payload_size: the reduction a client
\* made for its own transfer does not reach the next client.
QueuedBuffersAreFullSize == reduced \intersect Range(queue) = {}

=============================================================================
