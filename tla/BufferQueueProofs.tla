------------------------- MODULE BufferQueueProofs -------------------------
(***************************************************************************)
(* Theorems about BufferQueue, for every number of clients and buffers and *)
(* every size of the pool.                                                 *)
(***************************************************************************)
EXTENDS BufferQueue, TLAPS, FiniteSetTheorems, SequenceTheorems

(***************************************************************************)
(* Whatever the clients do and whichever library calls fail, the deque     *)
(* holds only buffer structures, and the count stays between 0 and the     *)
(* larger of initial_size and max_size: push and fini never bring it below *)
(* zero, pop never beyond.  TypeOK is inductive by itself.                 *)
(***************************************************************************)
THEOREM Typing == PoolSpec => []TypeOK
<1> USE SizesAssumption DEF SizesAssumption
<1>1. PoolInit => TypeOK
  <2> SUFFICES ASSUME PoolInit PROVE TypeOK
    OBVIOUS
  <2>1. queue \in Seq(Structs) /\ current_size \in 0..SizeLimit
    BY DEF PoolInit, SizeLimit
  <2>2. held \in [Clients -> SUBSET Structs]
    BY DEF PoolInit
  <2> QED
    BY <2>1, <2>2 DEF PoolInit, TypeOK
<1>2. TypeOK /\ [PoolNext]_pool_vars => TypeOK'
  <2> SUFFICES ASSUME TypeOK, [PoolNext]_pool_vars PROVE TypeOK'
    OBVIOUS
  <2> USE DEF TypeOK, SizeLimit, Works, Fails
  <2>1. CASE trios_buffer_queue_init
    <3>1. PICK n \in 0..InitialSize :
            /\ current_size' = n
            /\ \E new \in [1..n -> Unused] :
                 /\ queue' = queue \o new
                 /\ allocated' = allocated \union Range(new)
      BY <2>1 DEF trios_buffer_queue_init
    <3>2. PICK new \in [1..n -> Unused] :
            queue' = queue \o new /\ allocated' = allocated \union Range(new)
      BY <3>1
    <3>3. new \in [1..n -> Structs] /\ n \in Nat
      BY <3>2 DEF Unused
    <3>4. new \in Seq(Structs) /\ Range(new) \subseteq Structs
      BY <3>3 DEF Range
    <3>5. /\ open' \in BOOLEAN /\ create_on_fly' \in BOOLEAN
          /\ held' = held /\ reduced' = reduced
          /\ failed' \in SUBSET {"alloc", "free"}
      BY <2>1 DEF trios_buffer_queue_init
    <3> QED
      BY <3>1, <3>2, <3>4, <3>5
  <2>2. CASE trios_buffer_queue_fini
    <3>1. PICK n \in 0..Len(queue) :
            /\ queue' = SubSeq(queue, n + 1, Len(queue))
            /\ allocated' = allocated \ {queue[i] : i \in 1..n}
      BY <2>2 DEF trios_buffer_queue_fini
    <3>2. queue' \in Seq(Structs)
      BY <3>1
    <3> QED
      BY <3>1, <3>2, <2>2 DEF trios_buffer_queue_fini
  <2>3. ASSUME NEW c \in Clients, PopFront(c) PROVE TypeOK'
    <3>1. Head(queue) \in Structs /\ Tail(queue) \in Seq(Structs)
      BY <2>3 DEF PopFront
    <3> QED
      BY <3>1, <2>3 DEF PopFront, Take
  <2>4. ASSUME NEW c \in Clients, PopExpand(c) PROVE TypeOK'
    <3>1. PICK b \in Unused :
            /\ held' = [held EXCEPT ![c] = @ \union {b}]
            /\ allocated' = allocated \union {b} \/ allocated' = allocated
            /\ failed' = failed \union {"alloc"} \/ failed' = failed
            /\ current_size' = current_size + 1 \/ current_size' = current_size
      BY <2>4 DEF PopExpand, Take
    <3>2. /\ open' = open /\ queue' = queue /\ create_on_fly' = create_on_fly
          /\ reduced' = reduced /\ current_size < MaxSize
      BY <2>4 DEF PopExpand
    <3>3. current_size' \in 0..SizeLimit /\ queue' \in Seq(Structs)
      BY <3>1, <3>2
    <3>4. b \in Structs
      BY DEF Unused
    <3>5. held' \in [Clients -> SUBSET Structs] /\ allocated' \in SUBSET Structs
      BY <3>1, <3>4
    <3>6. failed' \in SUBSET {"alloc", "free"}
      BY <3>1
    <3> QED
      BY <3>2, <3>3, <3>5, <3>6
  <2>5. ASSUME NEW c \in Clients, PopOnTheFly(c) PROVE TypeOK'
    BY <2>5 DEF PopOnTheFly, Take, Unused
  <2>6. ASSUME NEW c \in Clients, NEW b \in held[c], ReduceSize(c, b) PROVE TypeOK'
    BY <2>6 DEF ReduceSize
  <2>7. ASSUME NEW c \in Clients, NEW b \in held[c], PushFront(c, b) PROVE TypeOK'
    BY <2>7 DEF PushFront
  <2>8. ASSUME NEW c \in Clients, NEW b \in held[c], PushDestroy(c, b) PROVE TypeOK'
    BY <2>8 DEF PushDestroy
  <2>9. ASSUME NEW c \in Clients, NEW b \in held[c], DropAfterFini(c, b) PROVE TypeOK'
    BY <2>9 DEF DropAfterFini
  <2>10. CASE UNCHANGED pool_vars
    BY <2>10 DEF pool_vars
  <2> QED
    BY <2>1, <2>2, <2>3, <2>4, <2>5, <2>6, <2>7, <2>8, <2>9, <2>10 DEF PoolNext
<1> QED
  BY <1>1, <1>2, PTL DEF PoolSpec

-----------------------------------------------------------------------------

(***************************************************************************)
(* A buffer is never in two places: the deque and the clients share        *)
(* nothing, whatever fails and however the clients interleave.             *)
(***************************************************************************)
THEOREM OneOwner == PoolSpec => []ExclusiveOwnership
<1>1. PoolInit => ExclusiveOwnership
  BY DEF PoolInit, ExclusiveOwnership, IsInjective, Range
<1>2. TypeOK /\ ExclusiveOwnership /\ [PoolNext]_pool_vars => ExclusiveOwnership'
  <2> SUFFICES ASSUME TypeOK, ExclusiveOwnership, [PoolNext]_pool_vars
               PROVE  ExclusiveOwnership'
    OBVIOUS
  <2> USE DEF TypeOK, ExclusiveOwnership
  <2>1. CASE trios_buffer_queue_init
    <3>0. PICK n \in 0..InitialSize : \E new \in [1..n -> Unused] :
            IsInjective(new) /\ queue' = queue \o new
      BY <2>1 DEF trios_buffer_queue_init
    <3>1. PICK new \in [1..n -> Unused] :
            IsInjective(new) /\ queue' = queue \o new
      BY <3>0
    <3>2. n \in Nat /\ new \in Seq(Unused) /\ Len(new) = n
      BY <3>1, SizesAssumption DEF SizesAssumption
    <3>3. \A i \in 1..Len(queue), j \in 1..n : queue[i] # new[j]
      BY <3>1 DEF Unused, Reachable, Range
    <3>4. IsInjective(queue')
      BY <3>1, <3>2, <3>3, SMTT(30) DEF IsInjective
    <3>5. held' = held /\ AllHeld = {}
      BY <2>1 DEF trios_buffer_queue_init
    <3>6. \A c \in Clients : held[c] = {}
      BY <3>5 DEF AllHeld
    <3> QED
      BY <3>4, <3>5, <3>6
  <2>2. CASE trios_buffer_queue_fini
    <3>1. PICK n \in 0..Len(queue) : queue' = SubSeq(queue, n + 1, Len(queue))
      BY <2>2 DEF trios_buffer_queue_fini
    <3>2. /\ DOMAIN queue' = 1..(Len(queue) - n)
          /\ \A i \in 1..(Len(queue) - n) : queue'[i] = queue[n + i]
      BY <3>1
    <3>3. IsInjective(queue')
      BY <3>2 DEF IsInjective
    <3>4. Range(queue') \subseteq Range(queue)
      BY <3>2 DEF Range
    <3> QED
      BY <3>3, <3>4, <2>2 DEF trios_buffer_queue_fini
  <2>3. ASSUME NEW c \in Clients, PopFront(c) PROVE ExclusiveOwnership'
    <3>1. queue # <<>> /\ queue' = Tail(queue) /\ Head(queue) = queue[1]
      BY <2>3 DEF PopFront
    <3>2. /\ DOMAIN queue' = 1..(Len(queue) - 1)
          /\ \A i \in 1..(Len(queue) - 1) : queue'[i] = queue[i + 1]
      BY <3>1
    <3>3. IsInjective(queue')
      BY <3>2, SMTT(30) DEF IsInjective
    <3>4. Head(queue) \in Range(queue) /\ Head(queue) \notin Range(queue')
      <4>1. 1 \in DOMAIN queue
        BY <3>1
      <4>2. \A i \in DOMAIN queue' : queue'[i] # queue[1]
        <5> TAKE i \in DOMAIN queue'
        <5>1. i + 1 \in DOMAIN queue /\ i + 1 # 1 /\ queue'[i] = queue[i + 1]
          BY <3>2
        <5> QED
          BY <4>1, <5>1 DEF IsInjective
      <4> QED
        BY <3>1, <4>1, <4>2 DEF Range
    <3>5. Range(queue') \subseteq Range(queue)
      BY <3>2 DEF Range
    <3>6. held' = [held EXCEPT ![c] = held[c] \union {Head(queue)}]
      BY <2>3 DEF PopFront, Take
    <3> QED
      BY <3>3, <3>4, <3>5, <3>6
  <2>4. ASSUME NEW c \in Clients, NEW b \in Unused,
               held' = [held EXCEPT ![c] = held[c] \union {b}], queue' = queue
        PROVE  ExclusiveOwnership'
    <3>1. b \notin Range(queue) /\ \A d \in Clients : b \notin held[d]
      BY <2>4 DEF Unused, Reachable, AllHeld
    <3> QED
      BY <2>4, <3>1
  <2>5. ASSUME NEW c \in Clients, PopExpand(c) PROVE ExclusiveOwnership'
    BY <2>4, <2>5 DEF PopExpand, Take
  <2>6. ASSUME NEW c \in Clients, PopOnTheFly(c) PROVE ExclusiveOwnership'
    BY <2>4, <2>6 DEF PopOnTheFly, Take
  <2>7. ASSUME NEW c \in Clients, NEW b \in held[c], PushFront(c, b)
        PROVE  ExclusiveOwnership'
    <3>1. queue' = <<b>> \o queue /\ held' = [held EXCEPT ![c] = held[c] \ {b}]
      BY <2>7 DEF PushFront
    <3>2. b \in Structs /\ b \notin Range(queue)
      BY <2>7
    <3>3. /\ DOMAIN queue' = 1..(Len(queue) + 1)
          /\ queue'[1] = b
          /\ \A i \in 2..(Len(queue) + 1) : queue'[i] = queue[i - 1]
      BY <3>1, <3>2
    <3>4. IsInjective(queue')
      BY <3>2, <3>3 DEF IsInjective, Range
    <3>5. Range(queue') \subseteq Range(queue) \union {b}
      BY <3>3 DEF Range
    <3> QED
      BY <3>1, <3>4, <3>5
  <2>8. ASSUME NEW c \in Clients, NEW b \in held[c],
               held' = [held EXCEPT ![c] = held[c] \ {b}], queue' = queue
        PROVE  ExclusiveOwnership'
    BY <2>8
  <2>9. ASSUME NEW c \in Clients, NEW b \in held[c],
               ReduceSize(c, b) \/ PushDestroy(c, b) \/ DropAfterFini(c, b)
        PROVE  ExclusiveOwnership'
    BY <2>8, <2>9 DEF ReduceSize, PushDestroy, DropAfterFini
  <2>10. CASE UNCHANGED pool_vars
    BY <2>10 DEF pool_vars
  <2> QED
    BY <2>1, <2>2, <2>3, <2>5, <2>6, <2>7, <2>9, <2>10 DEF PoolNext
<1> QED
  BY <1>1, <1>2, Typing, PTL DEF PoolSpec

-----------------------------------------------------------------------------

\* What pushing a buffer to the front does to the buffers in a deque.
LEMMA PushingAddsOne ==
    ASSUME NEW S, NEW q \in Seq(S), NEW b \in S
    PROVE  Range(<<b>> \o q) = Range(q) \union {b}
<1> DEFINE s == <<b>> \o q
<1>1. /\ DOMAIN s = 1..(Len(q) + 1) /\ DOMAIN q = 1..Len(q) /\ Len(q) \in Nat
      /\ s[1] = b /\ \A i \in 1..Len(q) : s[i + 1] = q[i]
  OBVIOUS
<1> HIDE DEF s
<1>2. ASSUME NEW i \in DOMAIN s PROVE s[i] \in Range(q) \union {b}
  <2>1. CASE i = 1
    BY <1>1, <2>1
  <2>2. CASE i # 1
    <3>1. i - 1 \in DOMAIN q /\ s[i] = q[i - 1]
      BY <1>1, <1>2, <2>2
    <3> QED
      BY <3>1 DEF Range
  <2> QED
    BY <2>1, <2>2
<1>3. b \in Range(s)
  BY <1>1 DEF Range
<1>4. ASSUME NEW i \in DOMAIN q PROVE q[i] \in Range(s)
  <2>1. i + 1 \in DOMAIN s /\ s[i + 1] = q[i]
    BY <1>1, <1>4
  <2> QED
    BY <2>1 DEF Range
<1>5. Range(s) = Range(q) \union {b}
  BY <1>2, <1>3, <1>4 DEF Range
<1> QED
  BY <1>5 DEF s

(***************************************************************************)
(* The number of buffers out with the clients changes by one when a client *)
(* takes a buffer nobody holds, and when the one client that holds a       *)
(* buffer gives it away.                                                   *)
(***************************************************************************)
LEMMA HeldIsFinite ==
  ASSUME TypeOK
  PROVE  IsFiniteSet(AllHeld) /\ Cardinality(AllHeld) \in Nat
<1>1. AllHeld \subseteq Structs
  BY DEF TypeOK, AllHeld
<1> QED
  BY <1>1, StructsAssumption, FS_Subset, FS_CardinalityType DEF StructsAssumption

LEMMA TakingAddsOne ==
  ASSUME TypeOK, NEW c \in Clients, NEW b \in Structs \ AllHeld,
         held' = [held EXCEPT ![c] = held[c] \union {b}]
  PROVE  Cardinality(AllHeld') = Cardinality(AllHeld) + 1
<1>1. AllHeld' = AllHeld \union {b}
  BY DEF TypeOK, AllHeld
<1> QED
  BY <1>1, HeldIsFinite, FS_AddElement

LEMMA GivingRemovesOne ==
  ASSUME TypeOK, ExclusiveOwnership, NEW c \in Clients, NEW b \in held[c],
         held' = [held EXCEPT ![c] = held[c] \ {b}]
  PROVE  /\ Cardinality(AllHeld') = Cardinality(AllHeld) - 1
         /\ Cardinality(AllHeld) > 0
<1>1. \A d \in Clients : d # c => b \notin held[d]
  BY DEF ExclusiveOwnership
<1>2. AllHeld' = AllHeld \ {b} /\ b \in AllHeld
  BY <1>1 DEF TypeOK, AllHeld
<1>3. Cardinality(AllHeld') = Cardinality(AllHeld) - 1
  BY <1>2, HeldIsFinite, FS_RemoveElement
<1>4. Cardinality(AllHeld) # 0
  BY <1>2, HeldIsFinite, FS_EmptySet
<1> QED
  BY <1>3, <1>4, HeldIsFinite

\* failed is a history: what failed once stays in it.
LEMMA NothingUnfails ==
  ASSUME [PoolNext]_pool_vars
  PROVE  failed \subseteq failed'
<1> USE DEF Works, Fails
<1>1. CASE trios_buffer_queue_init \/ trios_buffer_queue_fini
  BY <1>1 DEF trios_buffer_queue_init, trios_buffer_queue_fini
<1>2. ASSUME NEW c \in Clients, PopFront(c) \/ PopExpand(c) \/ PopOnTheFly(c)
      PROVE  failed \subseteq failed'
  BY <1>2 DEF PopFront, PopExpand, PopOnTheFly
<1>3. ASSUME NEW c \in Clients, NEW b \in held[c],
             ReduceSize(c, b) \/ PushFront(c, b) \/ PushDestroy(c, b) \/ DropAfterFini(c, b)
      PROVE  failed \subseteq failed'
  BY <1>3 DEF ReduceSize, PushFront, PushDestroy, DropAfterFini
<1>4. CASE UNCHANGED pool_vars
  BY <1>4 DEF pool_vars
<1> QED
  BY <1>1, <1>2, <1>3, <1>4 DEF PoolNext

(***************************************************************************)
(* CountIsPopulation speaks of an open pool.  It is inductive together     *)
(* with what fini leaves to the next init: an empty deque.                 *)
(***************************************************************************)
CountInv ==
    /\ CountIsPopulation
    /\ (failed = {} /\ InitialSize <= MaxSize) =>
         /\ ~open => queue = <<>>
         /\ current_size <= MaxSize

(***************************************************************************)
(* As long as no library call fails, current_size is the number of live    *)
(* buffers up to max_size, so the pool neither leaks capacity nor exceeds  *)
(* it except on the fly.                                                   *)
(***************************************************************************)
THEOREM CountIsExact == PoolSpec => []CountIsPopulation
<1> USE SizesAssumption DEF SizesAssumption
<1>1. PoolInit => CountInv
  BY DEF PoolInit, CountInv, CountIsPopulation
<1>2. TypeOK /\ ExclusiveOwnership /\ CountInv /\ [PoolNext]_pool_vars => CountInv'
  <2> SUFFICES ASSUME TypeOK, ExclusiveOwnership, CountInv, [PoolNext]_pool_vars,
                      failed' = {}, InitialSize <= MaxSize
               PROVE  CountInv'
    BY DEF CountInv, CountIsPopulation
  <2> failed = {}
    BY NothingUnfails
  <2> USE HeldIsFinite
  <2>0. /\ current_size \in Nat /\ Len(queue) \in Nat /\ queue \in Seq(Structs)
        /\ current_size <= MaxSize
        /\ ~open => queue = <<>>
        /\ open => /\ current_size <= Len(queue) + Cardinality(AllHeld)
                   /\ Len(queue) + Cardinality(AllHeld) > current_size
                        => create_on_fly /\ current_size = MaxSize
    BY DEF TypeOK, CountInv, CountIsPopulation, Population
  <2>1. CASE trios_buffer_queue_init
    <3>0. PICK n \in 0..InitialSize :
            /\ n = InitialSize
            /\ \E new \in [1..n -> Unused] : queue' = queue \o new
            /\ current_size' = n
      BY <2>1 DEF trios_buffer_queue_init, Fails
    <3>1. PICK new \in [1..n -> Unused] : queue' = queue \o new
      BY <3>0
    <3>2. queue = <<>> /\ AllHeld = {} /\ AllHeld' = {} /\ open'
      BY <2>0, <2>1 DEF trios_buffer_queue_init, AllHeld
    <3>3. n \in Nat /\ new \in Seq(Unused) /\ Len(new) = n
      BY <3>1
    <3>4. Len(queue') = n
      BY <3>1, <3>2, <3>3
    <3>5. Cardinality(AllHeld') = 0
      BY <3>2, FS_EmptySet
    <3> QED
      BY <3>0, <3>2, <3>4, <3>5 DEF CountInv, CountIsPopulation, Population
  <2>2. CASE trios_buffer_queue_fini
    <3>1. queue' = SubSeq(queue, Len(queue) + 1, Len(queue)) /\ ~open'
      BY <2>2 DEF trios_buffer_queue_fini, Fails
    <3>2. queue' = <<>> /\ current_size' = current_size
      BY <2>0, <2>2, <3>1 DEF trios_buffer_queue_fini
    <3> QED
      BY <2>0, <3>1, <3>2 DEF CountInv, CountIsPopulation
  <2>3. ASSUME NEW c \in Clients, PopFront(c) PROVE CountInv'
    <3>1. /\ open /\ open' /\ queue # <<>> /\ queue' = Tail(queue)
          /\ current_size' = current_size /\ create_on_fly' = create_on_fly
          /\ held' = [held EXCEPT ![c] = held[c] \union {Head(queue)}]
      BY <2>3 DEF PopFront, Take
    <3>2. Head(queue) = queue[1] /\ 1 \in DOMAIN queue /\ queue[1] \in Structs
      BY <2>0, <3>1
    <3>3. queue[1] \in Structs \ AllHeld
      BY <3>2 DEF ExclusiveOwnership, AllHeld, Range
    <3>4. Cardinality(AllHeld') = Cardinality(AllHeld) + 1
      BY <3>1, <3>2, <3>3, TakingAddsOne
    <3>5. Len(queue') = Len(queue) - 1 /\ Len(queue) > 0
      BY <2>0, <3>1
    <3> QED
      BY <2>0, <3>1, <3>4, <3>5 DEF CountInv, CountIsPopulation, Population
  <2>4. ASSUME NEW c \in Clients, PopExpand(c) \/ PopOnTheFly(c) PROVE CountInv'
    <3>1. PICK b \in Unused : held' = [held EXCEPT ![c] = held[c] \union {b}]
      BY <2>4 DEF PopExpand, PopOnTheFly, Take
    <3>2. Cardinality(AllHeld') = Cardinality(AllHeld) + 1
      BY <3>1, TakingAddsOne DEF Unused, Reachable
    <3>3. /\ open /\ open' /\ queue' = queue /\ queue = <<>>
          /\ \/ current_size < MaxSize /\ current_size' = current_size + 1
             \/ current_size = MaxSize /\ create_on_fly /\ create_on_fly' /\ current_size' = current_size
      BY <2>4 DEF PopExpand, PopOnTheFly, Fails
    <3> QED
      BY <2>0, <3>2, <3>3 DEF CountInv, CountIsPopulation, Population
  <2>5. ASSUME NEW c \in Clients, NEW b \in held[c],
               PushFront(c, b) \/ PushDestroy(c, b) \/ DropAfterFini(c, b)
        PROVE  CountInv'
    <3>1. /\ held' = [held EXCEPT ![c] = held[c] \ {b}]
          /\ open' = open /\ current_size' = current_size
          /\ create_on_fly' = create_on_fly
          /\ \/ ~open /\ queue' = queue
             \/ open /\ queue' = queue /\ Len(queue) >= MaxSize
             \/ open /\ queue' = <<b>> \o queue
      BY <2>5 DEF PushFront, PushDestroy, DropAfterFini
    <3>2. Cardinality(AllHeld') = Cardinality(AllHeld) - 1 /\ Cardinality(AllHeld) > 0
      BY <3>1, GivingRemovesOne
    <3>3. CASE ~open
      BY <2>0, <3>1, <3>3 DEF CountInv, CountIsPopulation
    <3>4. CASE open /\ queue' = queue /\ Len(queue) >= MaxSize
      BY <2>0, <3>1, <3>2, <3>4 DEF CountInv, CountIsPopulation, Population
    <3>5. CASE open /\ queue' = <<b>> \o queue
      <4>1. b \in Structs
        BY DEF TypeOK
      <4>2. Len(queue') = Len(queue) + 1
        BY <2>0, <3>5, <4>1
      <4> QED
        BY <2>0, <3>1, <3>2, <3>5, <4>2 DEF CountInv, CountIsPopulation, Population
    <3> QED
      BY <3>1, <3>3, <3>4, <3>5
  <2>6. ASSUME NEW c \in Clients, NEW b \in held[c], ReduceSize(c, b) PROVE CountInv'
    BY <2>6 DEF ReduceSize, CountInv, CountIsPopulation, Population, AllHeld
  <2>7. CASE UNCHANGED pool_vars
    BY <2>7 DEF pool_vars, CountInv, CountIsPopulation, Population, AllHeld
  <2> QED
    BY <2>1, <2>2, <2>3, <2>4, <2>5, <2>6, <2>7 DEF PoolNext
<1>3. CountInv => CountIsPopulation
  BY DEF CountInv
<1> QED
  BY <1>1, <1>2, <1>3, Typing, OneOwner, PTL DEF PoolSpec

-----------------------------------------------------------------------------

(***************************************************************************)
(* Memory stays registered only while the pool or a client can reach it,   *)
(* and a pool that may not create on the fly has counted what is           *)
(* registered.  A buffer whose registration failed is not counted, so the  *)
(* count may be smaller than the population but never than the             *)
(* registrations.                                                          *)
(***************************************************************************)
PinnedInv ==
    ("free" \notin failed /\ InitialSize <= MaxSize) =>
        /\ ~open => queue = <<>>
        /\ allocated \subseteq Reachable
        /\ current_size <= MaxSize
        /\ ~create_on_fly => Cardinality(allocated) <= current_size

(***************************************************************************)
(* Pinned memory is bounded by max_size for every number of clients and    *)
(* every pattern of failing allocations, as long as frees succeed and the  *)
(* pool may not create buffers on the fly.                                 *)
(***************************************************************************)
THEOREM PinnedMemory == PoolSpec => []PinnedMemoryBounded
<1> USE SizesAssumption DEF SizesAssumption
<1>1. PoolInit => PinnedInv
  BY FS_EmptySet DEF PoolInit, PinnedInv
<1>2. TypeOK /\ ExclusiveOwnership /\ PinnedInv /\ [PoolNext]_pool_vars => PinnedInv'
  <2> SUFFICES ASSUME TypeOK, ExclusiveOwnership, PinnedInv, [PoolNext]_pool_vars,
                      "free" \notin failed', InitialSize <= MaxSize
               PROVE  PinnedInv'
    BY DEF PinnedInv
  <2>a. "free" \notin failed
    BY NothingUnfails
  <2>b. /\ current_size \in Nat /\ queue \in Seq(Structs) /\ Len(queue) \in Nat
        /\ allocated \subseteq Structs
        /\ ~open => queue = <<>>
        /\ allocated \subseteq Range(queue) \union AllHeld
        /\ current_size <= MaxSize
        /\ ~create_on_fly => Cardinality(allocated) <= current_size
    BY <2>a DEF TypeOK, PinnedInv, Reachable
  <2>c. IsFiniteSet(allocated) /\ Cardinality(allocated) \in Nat
    BY <2>b, StructsAssumption, FS_Subset, FS_CardinalityType DEF StructsAssumption
  <2>d. \A b : /\ Cardinality(allocated \ {b}) \in Nat
               /\ Cardinality(allocated \ {b}) <= Cardinality(allocated)
    <3> TAKE b
    <3>1. allocated \ {b} \subseteq allocated
      OBVIOUS
    <3> QED
      BY <3>1, <2>c, FS_Subset, FS_CardinalityType
  <2>1. CASE trios_buffer_queue_init
    <3>1. PICK n \in 0..InitialSize : \E new \in [1..n -> Unused] :
            /\ IsInjective(new)
            /\ queue' = queue \o new
            /\ allocated' = allocated \union Range(new)
            /\ current_size' = n
      BY <2>1 DEF trios_buffer_queue_init
    <3>2. PICK new \in [1..n -> Unused] :
            /\ IsInjective(new)
            /\ queue' = queue \o new
            /\ allocated' = allocated \union Range(new)
            /\ current_size' = n
      BY <3>1
    <3>3. queue = <<>> /\ AllHeld = {} /\ open'
      BY <2>b, <2>1 DEF trios_buffer_queue_init
    <3>4. allocated = {}
      BY <2>b, <3>3 DEF Range
    <3>5. n \in Nat /\ new \in Seq(Unused) /\ queue' = new /\ allocated' = Range(new)
      BY <3>2, <3>3, <3>4
    <3>6. Cardinality(Range(new)) <= n
      <4>1. IsFiniteSet(1..n) /\ Cardinality(1..n) = n
        BY <3>5, FS_Interval
      <4>2. new \in Surjection(1..n, Range(new))
        BY <3>2 DEF Surjection, Range
      <4> QED
        BY <4>1, <4>2, FS_Surjection
    <3>7. allocated' \subseteq Reachable'
      BY <3>5 DEF Reachable
    <3>8. Cardinality(allocated') = Cardinality(Range(new))
      BY <3>5
    <3>9. Cardinality(allocated') <= current_size' /\ current_size' <= MaxSize
      BY <3>1, <3>6, <3>8, SMT
    <3> QED
      BY <3>3, <3>7, <3>9 DEF PinnedInv
  <2>2. CASE trios_buffer_queue_fini
    <3>1. /\ queue' = SubSeq(queue, Len(queue) + 1, Len(queue))
          /\ allocated' = allocated \ {queue[i] : i \in 1..Len(queue)}
          /\ ~open' /\ current_size' = current_size /\ held' = held
          /\ create_on_fly' = create_on_fly
      BY <2>2 DEF trios_buffer_queue_fini, Fails
    <3>2. queue' = <<>>
      BY <2>b, <3>1
    <3>3. allocated' \subseteq AllHeld /\ AllHeld' = AllHeld /\ allocated' \subseteq allocated
      BY <2>b, <3>1 DEF Range, AllHeld
    <3>4. Cardinality(allocated') \in Nat /\ Cardinality(allocated') <= Cardinality(allocated)
      BY <3>3, <2>c, FS_Subset, FS_CardinalityType
    <3> QED
      BY <2>b, <2>c, <3>1, <3>2, <3>3, <3>4 DEF PinnedInv, Reachable
  <2>3. ASSUME NEW c \in Clients, PopFront(c) PROVE PinnedInv'
    <3>1. /\ open' = open /\ queue # <<>> /\ queue' = Tail(queue) /\ open
          /\ current_size' = current_size /\ create_on_fly' = create_on_fly
          /\ allocated' = allocated
          /\ held' = [held EXCEPT ![c] = held[c] \union {Head(queue)}]
      BY <2>3 DEF PopFront, Take
    <3>2. Range(queue) \subseteq Range(queue') \union {Head(queue)}
      <4>1. \A i \in DOMAIN queue : i = 1 \/ (i - 1 \in DOMAIN queue' /\ queue[i] = queue'[i - 1])
        BY <2>b, <3>1
      <4>2. Head(queue) = queue[1]
        BY <2>b, <3>1
      <4> QED
        BY <4>1, <4>2 DEF Range
    <3>3. AllHeld' = AllHeld \union {Head(queue)}
      BY <3>1 DEF TypeOK, AllHeld
    <3> QED
      BY <2>b, <3>1, <3>2, <3>3 DEF PinnedInv, Reachable
  <2>4. ASSUME NEW c \in Clients, PopExpand(c) \/ PopOnTheFly(c) PROVE PinnedInv'
    <3>1. PICK b \in Unused :
            /\ held' = [held EXCEPT ![c] = held[c] \union {b}]
            /\ \/ allocated' = allocated \union {b} /\ current_size' = current_size + 1
                  /\ current_size < MaxSize
               \/ allocated' = allocated /\ current_size' = current_size
               \/ /\ allocated' = allocated \union {b} /\ current_size' = current_size
                  /\ create_on_fly
      BY <2>4 DEF PopExpand, PopOnTheFly, Take
    <3>2. open' = open /\ open /\ queue' = queue /\ create_on_fly' = create_on_fly
      BY <2>4 DEF PopExpand, PopOnTheFly
    <3>3. AllHeld' = AllHeld \union {b}
      BY <3>1 DEF TypeOK, AllHeld
    <3>4. b \notin allocated
      BY <2>b DEF Unused, Reachable
    <3>5. Cardinality(allocated \union {b}) = Cardinality(allocated) + 1
      BY <2>c, <3>4, FS_AddElement
    <3>6. allocated' \subseteq Reachable'
      BY <2>b, <3>1, <3>2, <3>3 DEF Reachable
    <3>7. current_size' <= MaxSize
      BY <2>b, <3>1
    <3>8. ~create_on_fly => Cardinality(allocated') <= current_size'
      <4>1. CASE allocated' = allocated /\ current_size' = current_size
        BY <2>b, <4>1
      <4>2. CASE allocated' = allocated \union {b} /\ current_size' = current_size + 1
        <5>1. Cardinality(allocated') = Cardinality(allocated) + 1
          BY <3>5, <4>2
        <5> QED
          BY <2>b, <2>c, <4>2, <5>1
      <4> QED
        BY <3>1, <4>1, <4>2
    <3> QED
      BY <3>2, <3>6, <3>7, <3>8 DEF PinnedInv
  <2>5. ASSUME NEW c \in Clients, NEW b \in held[c], PushFront(c, b) PROVE PinnedInv'
    <3>1. /\ open' = open /\ open /\ queue' = <<b>> \o queue
          /\ current_size' = current_size /\ create_on_fly' = create_on_fly
          /\ allocated' = allocated
          /\ held' = [held EXCEPT ![c] = held[c] \ {b}]
      BY <2>5 DEF PushFront
    <3>2. Range(queue') = Range(queue) \union {b}
      <4>1. b \in Structs
        BY DEF TypeOK
      <4> QED
        BY <2>b, <3>1, <4>1, PushingAddsOne
    <3>3. AllHeld \subseteq AllHeld' \union {b}
      BY <3>1 DEF TypeOK, AllHeld
    <3> QED
      BY <2>b, <3>1, <3>2, <3>3 DEF PinnedInv, Reachable
  <2>6. ASSUME NEW c \in Clients, NEW b \in held[c], PushDestroy(c, b) \/ DropAfterFini(c, b)
        PROVE  PinnedInv'
    <3>1. /\ open' = open /\ queue' = queue
          /\ current_size' = current_size /\ create_on_fly' = create_on_fly
          /\ allocated' = allocated \ {b}
          /\ held' = [held EXCEPT ![c] = held[c] \ {b}]
      BY <2>6 DEF PushDestroy, DropAfterFini
    <3>2. AllHeld \subseteq AllHeld' \union {b}
      BY <3>1 DEF TypeOK, AllHeld
    <3>3. allocated' \subseteq Reachable'
      BY <2>b, <3>1, <3>2 DEF Reachable
    <3>4. /\ current_size' <= MaxSize
          /\ ~create_on_fly => Cardinality(allocated') <= current_size'
      BY <2>b, <2>c, <2>d, <3>1
    <3> QED
      BY <2>b, <3>1, <3>3, <3>4 DEF PinnedInv
  <2>7. ASSUME NEW c \in Clients, NEW b \in held[c], ReduceSize(c, b) PROVE PinnedInv'
    BY <2>7, <2>b DEF ReduceSize, PinnedInv, Reachable, AllHeld
  <2>8. CASE UNCHANGED pool_vars
    BY <2>8, <2>b DEF pool_vars, PinnedInv, Reachable, AllHeld
  <2> QED
    BY <2>1, <2>2, <2>3, <2>4, <2>5, <2>6, <2>7, <2>8 DEF PoolNext
<1>3. TypeOK /\ PinnedInv => PinnedMemoryBounded
  <2> SUFFICES ASSUME TypeOK, PinnedInv, ~create_on_fly, "free" \notin failed,
                      InitialSize <= MaxSize
               PROVE  Cardinality(allocated) <= MaxSize
    BY DEF PinnedMemoryBounded
  <2>1. Cardinality(allocated) \in Nat
    BY StructsAssumption, FS_Subset, FS_CardinalityType DEF TypeOK, StructsAssumption
  <2> QED
    BY <2>1 DEF PinnedInv, TypeOK
<1> QED
  BY <1>1, <1>2, <1>3, Typing, OneOwner, PTL DEF PoolSpec

-----------------------------------------------------------------------------

\* A reduced size belongs to a client's transfer: the buffer is still out.
\* Without it a buffer that init or pop takes from malloc might be a reduced
\* one, and the invariant would not be inductive.
ReducedIsHeld == reduced \subseteq AllHeld

(***************************************************************************)
(* A client that pops a buffer finds its full payload_size, whoever had it *)
(* before and shrank it, for every number of clients and all sizes: push   *)
(* and the destruction of a buffer restore the size on every way back.     *)
(***************************************************************************)
THEOREM FullSize == PoolSpec => []QueuedBuffersAreFullSize
<1>1. PoolInit => ReducedIsHeld
  BY DEF PoolInit, ReducedIsHeld
<1>2. TypeOK /\ ReducedIsHeld /\ [PoolNext]_pool_vars => ReducedIsHeld'
  <2> SUFFICES ASSUME TypeOK, ReducedIsHeld, [PoolNext]_pool_vars
               PROVE  ReducedIsHeld'
    OBVIOUS
  <2> USE DEF ReducedIsHeld, AllHeld, TypeOK
  <2>1. CASE trios_buffer_queue_init \/ trios_buffer_queue_fini
    BY <2>1 DEF trios_buffer_queue_init, trios_buffer_queue_fini
  <2>2. ASSUME NEW c \in Clients, NEW b,
               held' = [held EXCEPT ![c] = held[c] \union {b}], reduced' = reduced
        PROVE  ReducedIsHeld'
    BY <2>2
  <2>3. ASSUME NEW c \in Clients, PopFront(c) \/ PopExpand(c) \/ PopOnTheFly(c)
        PROVE  ReducedIsHeld'
    BY <2>2, <2>3 DEF PopFront, PopExpand, PopOnTheFly, Take
  <2>4. ASSUME NEW c \in Clients, NEW b \in held[c],
               held' = [held EXCEPT ![c] = held[c] \ {b}], reduced' = reduced \ {b}
        PROVE  ReducedIsHeld'
    BY <2>4
  <2>5. ASSUME NEW c \in Clients, NEW b \in held[c],
               PushFront(c, b) \/ PushDestroy(c, b) \/ DropAfterFini(c, b)
        PROVE  ReducedIsHeld'
    BY <2>4, <2>5 DEF PushFront, PushDestroy, DropAfterFini
  <2>6. ASSUME NEW c \in Clients, NEW b \in held[c], ReduceSize(c, b)
        PROVE  ReducedIsHeld'
    BY <2>6 DEF ReduceSize
  <2>7. CASE UNCHANGED pool_vars
    BY <2>7 DEF pool_vars
  <2> QED
    BY <2>1, <2>3, <2>5, <2>6, <2>7 DEF PoolNext
<1>3. ExclusiveOwnership /\ ReducedIsHeld => QueuedBuffersAreFullSize
  BY DEF ExclusiveOwnership, ReducedIsHeld, QueuedBuffersAreFullSize, AllHeld
<1> QED
  BY <1>1, <1>2, <1>3, Typing, OneOwner, PTL DEF PoolSpec

=============================================================================
