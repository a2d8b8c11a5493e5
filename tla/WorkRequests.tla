---------------------------- MODULE WorkRequests ----------------------------
(***************************************************************************)
(* The work requests of InfiniBand (nnti/nnti_ib.cpp) and Gemini           *)
(* (nnti/nnti_gni.cpp) for puts, gets and atomics: how a transfer between  *)
(* buffers registered in segments is taken apart into chunks, each within  *)
(* one segment of either side, how the completions of the chunks find the  *)
(* work request they are of, and what is left when the wait has returned.  *)
(*                                                                         *)
(* Threads of a process each make one transfer, to or from buffers of      *)
(* their own, with the same peer.  A buffer is the sequence of the sizes   *)
(* of its segments; a byte of it is <<segment, offset>>, and an atomic     *)
(* moves one.  Every poll is made by a thread that waits: module           *)
(* IbProgress is about who polls.                                          *)
(***************************************************************************)
EXTENDS Integers, Sequences, FiniteSets, SequencesExt, FiniteSetsExt, Functions

CONSTANTS
    Threads,
    Jobs,           \* transport |-> what its threads may ask of it: thread |-> job
    MaxFaults,      \* bound on chunks that cannot be posted or moved
    Cancelers,      \* the threads whose transfer may be cancelled
    Reuses          \* malloc returns memory that was freed

Wrs == 1 .. Cardinality(Threads)        \* memory of work requests

Size(b) == FoldLeft(LAMBDA x, y : x + y, 0, b)
Before(b, i) == Size(SubSeq(b, 1, i - 1))
Place(b, n) == CHOOSE p \in (DOMAIN b) \X (0 .. Size(b)) :
                   p[2] < b[p[1]] /\ Before(b, p[1]) + p[2] = n

\* The destination has room for all of the source: the code does not look for
\* its end.
ASSUME JobsFit ==
    \A j \in UNION {Range(f) : f \in UNION Range(Jobs)} :
        /\ j.length > 0 /\ j.soff + j.length <= Size(j.src)
        /\ j.doff + Size(j.src) - j.soff <= Size(j.dst)

VARIABLES
    transport, job,     \* the transport in use, and what each thread asks of it
    pc,                 \* thread |-> "idle", "building", "posting", "started", "waiting", "done", "gave up"
    at,                 \* thread |-> where the next chunk begins
    wr,                 \* thread |-> its work request
    rc,                 \* thread |-> what posting has answered, then the result in the status
    counter,            \* nnti_wrmap_counter; on Gemini a chunk's own address is its key
    keys,               \* wrmap, sge_by_sgehash: key |-> the memory of the work request
    posted,             \* the chunks the adapter has
    cq,                 \* their completions
    broken,             \* the queue pair is in the error state
    moved,              \* thread |-> the bytes moved: <<from, to>>
    faults,
    aborted             \* an assertion has failed

asked == <<transport, job>>
adapter == <<posted, cq, broken, moved, faults>>
vars == <<asked, pc, at, wr, rc, counter, keys, adapter, aborted>>

Unused == [mem |-> 0, key |-> 0, state |-> "none", result |-> "OK", chunks |-> <<>>, count |-> 0, completed |-> 0]

Init ==
    /\ transport \in DOMAIN Jobs
    /\ job \in Jobs[transport]
    /\ pc = [t \in Threads |-> "idle"]
    /\ at = [t \in Threads |-> <<>>]
    /\ wr = [t \in Threads |-> Unused]
    /\ rc = [t \in Threads |-> "OK"]
    /\ counter = 0
    /\ keys = <<>>
    /\ posted = <<>> /\ cq = <<>> /\ broken = FALSE
    /\ moved = [t \in Threads |-> {}]
    /\ faults = 0 /\ aborted = FALSE

Goto(t, there) == pc' = [pc EXCEPT ![t] = there]

-----------------------------------------------------------------------------
(* Taking a transfer apart.                                                *)

Remote(j) == IF j.op = "put" THEN j.dst ELSE j.src
Local(j) == IF j.op = "put" THEN j.src ELSE j.dst
RemoteOff(j) == IF j.op = "put" THEN j.doff ELSE j.soff
LocalOff(j) == IF j.op = "put" THEN j.soff ELSE j.doff

\* Of a contiguous remote buffer, one request with a list of the local
\* segments from the first to be used.  Only when that is the last one is the
\* length of the transfer looked at, and the offset is added in every segment.
Gather(j) ==
    LET b == Local(j)
        past == {i \in DOMAIN b : LocalOff(j) <= Before(b, i + 1)}
        i0 == Min(past)
        first == IF LocalOff(j) = Before(b, i0 + 1) THEN i0 + 1 ELSE i0
        offset == LocalOff(j) - Before(b, first)
        length(i) == CASE first = Len(b) -> j.length
                       [] i = first -> b[i] - offset
                       [] OTHER -> b[i]
        before(i) == Size([k \in 1 .. i - first |-> length(first + k - 1)])
        local(i) == <<i, offset>>
        remote(i) == <<1, RemoteOff(j) + before(i)>>
    IN [k \in 1 .. Len(b) - first + 1 |->
          LET i == first + k - 1 IN
          [from |-> IF j.op = "put" THEN local(i) ELSE remote(i),
           to |-> IF j.op = "put" THEN remote(i) ELSE local(i),
           length |-> length(i)]]

\* The first segment to be used, where in it, and how much of it there is.
FirstSegment(b, offset) ==
    LET i == Min({k \in DOMAIN b : offset <= Before(b, k + 1)})
    IN [segment |-> i, offset |-> offset - Before(b, i), remaining |-> Before(b, i + 1) - offset]

\* The last one is counted from the start of the first.
LastSegment(b, first, length) ==
    Min({i \in first .. Len(b) : length <= Before(b, i + 1) - Before(b, first)})

Params(j) ==
    LET src == FirstSegment(j.src, j.soff)
    IN [src |-> src, dst |-> FirstSegment(j.dst, j.doff), last |-> LastSegment(j.src, src.segment, j.length)]

\* What remains of a segment when n bytes of it are used: perhaps the next one.
Used(b, c, n) ==
    IF n < c.remaining THEN [c EXCEPT !.offset = @ + n, !.remaining = @ - n]
    ELSE [segment |-> c.segment + 1, offset |-> 0,
          remaining |-> IF c.segment < Len(b) THEN b[c.segment + 1] ELSE 0]

ChunkLength(c) == Min({c.src.remaining, c.dst.remaining})

Chunk(c) == <<[from |-> <<c.src.segment, c.src.offset>>, to |-> <<c.dst.segment, c.dst.offset>>,
               length |-> ChunkLength(c)]>>

NextChunk(j, c) == [c EXCEPT !.src = Used(j.src, @, ChunkLength(c)), !.dst = Used(j.dst, @, ChunkLength(c))]
More(c) == c.src.segment <= c.last

Bytes(pieces) ==
    UNION {{<<<<p.from[1], p.from[2] + k>>, <<p.to[1], p.to[2] + k>>>> : k \in 0 .. p.length - 1}
             : p \in Range(pieces)}

-----------------------------------------------------------------------------
(* InfiniBand: all chunks are made, each with a key of its own in wrmap,   *)
(* and then all are posted.  The key of the work request itself is set     *)
(* only when there is one chunk for a contiguous remote buffer.            *)

ib == transport = "ib" /\ ~aborted
gni == transport = "gni" /\ ~aborted

\* calloc of a work request.
New ==
    LET free == IF Reuses THEN Wrs \ {wr[u].mem : u \in Threads}
                ELSE {1 + Cardinality({u \in Threads : pc[u] # "idle"})}
    IN {[Unused EXCEPT !.mem = m, !.state = "STARTED"] : m \in free}

\* A key names the memory of a work request.
insert_key(k, mem) == keys' = [x \in DOMAIN keys \cup {k} |-> IF x = k THEN mem ELSE keys[x]]

\* As if the counter were not counted on.
AddChunkSameKey(t, w, pieces) ==
    /\ UNCHANGED counter
    /\ insert_key(counter, w.mem)
    /\ wr' = [wr EXCEPT ![t] = [w EXCEPT !.chunks = Append(@, [of |-> t, key |-> counter, pieces |-> pieces]),
                                         !.count = @ + 1]]

\* wrmap gets the next chunk of work request w under a new key.
AddChunk(t, w, pieces) ==
    /\ counter' = counter + 1
    /\ insert_key(counter, w.mem)
    /\ wr' = [wr EXCEPT ![t] = [w EXCEPT !.chunks = Append(@, [of |-> t, key |-> counter, pieces |-> pieces]),
                                         !.count = @ + 1]]

IbBegins(t, op) ==
    /\ ib /\ pc[t] = "idle" /\ job[t].op = op
    /\ \E w \in New :
         \/ /\ Len(Remote(job[t])) = 1
            /\ AddChunk(t, [w EXCEPT !.key = counter], Gather(job[t]))
            /\ Goto(t, "posting") /\ UNCHANGED at
         \/ /\ Len(Remote(job[t])) > 1
            /\ wr' = [wr EXCEPT ![t] = w]
            /\ at' = [at EXCEPT ![t] = Params(job[t])]
            /\ Goto(t, "building") /\ UNCHANGED <<counter, keys>>
    /\ UNCHANGED <<asked, rc, adapter, aborted>>

IbChunk(t, op) ==
    /\ ib /\ pc[t] = "building" /\ job[t].op = op
    /\ AddChunk(t, wr[t], Chunk(at[t]))
    /\ at' = [at EXCEPT ![t] = NextChunk(job[t], @)]
    /\ IF More(at'[t]) THEN UNCHANGED pc ELSE Goto(t, "posting")
    /\ UNCHANGED <<asked, rc, adapter, aborted>>

\* A chunk that cannot be posted does not keep the others from being posted.
IbPosts(t, op) ==
    /\ ib /\ pc[t] = "posting" /\ job[t].op = op
    /\ wr' = [wr EXCEPT ![t].chunks = Tail(@)]
    /\ \/ posted' = Append(posted, Head(wr[t].chunks)) /\ UNCHANGED <<rc, faults>>
       \/ /\ faults < MaxFaults /\ faults' = faults + 1
          /\ rc' = [rc EXCEPT ![t] = "EIO"]
          /\ UNCHANGED posted
    /\ CASE Len(wr[t].chunks) > 1 -> UNCHANGED pc
         [] rc'[t] = "OK" -> Goto(t, "started")
         [] OTHER -> Goto(t, "gave up")
    /\ UNCHANGED <<asked, at, counter, keys, cq, broken, moved, aborted>>

\* An atomic is one chunk; the operation asked for is not looked at.
IbAtomic(t, op) ==
    /\ ib /\ pc[t] = "idle" /\ job[t].op = op
    /\ \E w \in New : AddChunk(t, [w EXCEPT !.key = counter], Gather(job[t]))
    /\ Goto(t, "posting")
    /\ UNCHANGED <<asked, at, rc, adapter, aborted>>

NNTI_ib_atomic_fop(t) == IbAtomic(t, "fop") \/ IbPosts(t, "fop")
NNTI_ib_atomic_cswap(t) == IbAtomic(t, "cswap") \/ IbPosts(t, "cswap")

NNTI_ib_put(t) == IbBegins(t, "put")
PutChunk(t) == IbChunk(t, "put")
PutPosts(t) == IbPosts(t, "put")
NNTI_ib_get(t) == IbBegins(t, "get")
GetChunk(t) == IbChunk(t, "get")
GetPosts(t) == IbPosts(t, "get")

-----------------------------------------------------------------------------
(* Gemini: each chunk is posted when it is made.                           *)

\* A key is entered in sge_by_sgehash.
insert_sge_sgehash(k, mem) == insert_key(k, mem)

GniBegins(t, op) ==
    /\ gni /\ pc[t] = "idle" /\ job[t].op = op
    /\ \E w \in New : wr' = [wr EXCEPT ![t] = w]
    /\ at' = [at EXCEPT ![t] = Params(job[t])]
    /\ Goto(t, "building")
    /\ UNCHANGED <<asked, rc, counter, keys, adapter, aborted>>

\* What posting answers is what posting the last chunk answers.
GniPosts(t, op) ==
    /\ gni /\ pc[t] = "building" /\ job[t].op = op
    /\ LET c == [of |-> t, key |-> counter, pieces |-> Chunk(at[t])] IN
         \/ posted' = Append(posted, c) /\ rc' = [rc EXCEPT ![t] = "OK"] /\ UNCHANGED faults
         \/ /\ faults < MaxFaults /\ faults' = faults + 1
            /\ rc' = [rc EXCEPT ![t] = "EIO"]
            /\ UNCHANGED posted
    /\ counter' = counter + 1
    /\ insert_sge_sgehash(counter, wr[t].mem)
    /\ wr' = [wr EXCEPT ![t].count = @ + 1]
    /\ at' = [at EXCEPT ![t] = NextChunk(job[t], @)]
    /\ CASE More(at'[t]) -> UNCHANGED pc
         [] rc'[t] = "OK" -> Goto(t, "started")
         [] OTHER -> Goto(t, "gave up")
    /\ UNCHANGED <<asked, cq, broken, moved, aborted>>

\* That an atomic cannot be posted is not told.
GniAtomic(t, op) ==
    /\ gni /\ pc[t] = "idle" /\ job[t].op = op
    /\ \E w \in New :
         /\ wr' = [wr EXCEPT ![t] = [w EXCEPT !.count = 1]]
         /\ insert_sge_sgehash(counter, w.mem)
    /\ counter' = counter + 1
    /\ \/ /\ posted' = Append(posted, [of |-> t, key |-> counter, pieces |-> Gather(job[t])])
          /\ UNCHANGED faults
       \/ faults < MaxFaults /\ faults' = faults + 1 /\ UNCHANGED posted
    /\ Goto(t, "started")
    /\ UNCHANGED <<asked, at, rc, cq, broken, moved, aborted>>

NNTI_gni_atomic_fop(t) == GniAtomic(t, "fop")
NNTI_gni_atomic_cswap(t) == GniAtomic(t, "cswap")

NNTI_gni_put(t) == GniBegins(t, "put")
GniPutPost(t) == GniPosts(t, "put")
NNTI_gni_get(t) == GniBegins(t, "get")
GniGetPost(t) == GniPosts(t, "get")

-----------------------------------------------------------------------------
(* The adapter.  A queue pair carries chunks out in order, and a failure   *)
(* flushes what follows; Gemini's engines finish them in any order.        *)

Finish(i, ok) ==
    /\ posted' = RemoveAt(posted, i)
    /\ cq' = Append(cq, [of |-> posted[i].of, key |-> posted[i].key, ok |-> ok])
    /\ moved' = IF ok THEN [moved EXCEPT ![posted[i].of] = @ \cup Bytes(posted[i].pieces)] ELSE moved
    /\ UNCHANGED <<asked, pc, at, wr, rc, counter, keys, aborted>>

MayFinish(i) == ~aborted /\ i \in DOMAIN posted /\ (transport = "ib" => i = 1)

Moves(i) == MayFinish(i) /\ ~broken /\ Finish(i, TRUE) /\ UNCHANGED <<broken, faults>>
Flushes(i) == MayFinish(i) /\ broken /\ Finish(i, FALSE) /\ UNCHANGED <<broken, faults>>

Fails(i) ==
    /\ MayFinish(i) /\ ~broken /\ faults < MaxFaults /\ faults' = faults + 1
    /\ broken' = (transport = "ib")
    /\ Finish(i, FALSE)

-----------------------------------------------------------------------------
(* Waiting.                                                                *)

is_wr_complete(w) ==
    \/ w.state \in {"RDMA_COMPLETE", "WAIT_COMPLETE"}
    \/ transport = "gni" /\ w.completed = w.count

NNTI_ib_cancel(t) ==
    /\ ib /\ t \in Cancelers /\ pc[t] \in {"started", "waiting"} /\ wr[t].state = "STARTED"
    /\ wr' = [wr EXCEPT ![t].state = "CANCELING"]
    /\ UNCHANGED <<asked, pc, at, rc, counter, keys, adapter, aborted>>

\* Whether a work request is being cancelled is looked at here and not again.
cancel_wr(w) == IF w.state = "CANCELING" THEN [w EXCEPT !.state = "WAIT_COMPLETE", !.result = "ECANCELED"] ELSE w

Waits(t) ==
    /\ pc[t] = "started"
    /\ wr' = [wr EXCEPT ![t] = cancel_wr(@)]
    /\ Goto(t, "waiting")
    /\ UNCHANGED <<asked, at, rc, counter, keys, adapter, aborted>>

NNTI_ib_wait(t) == ib /\ Waits(t)
NNTI_gni_wait(t) == gni /\ Waits(t)

AnyCompleted(w) == w.completed + 1 > 0   \* as if there were one chunk
AllCompleted(w) == w.completed + 1 = w.count

Counted(w) ==
    IF w.state # "STARTED" THEN w
    ELSE [w EXCEPT !.completed = @ + 1,
                   !.state = IF transport = "ib" /\ AllCompleted(w) THEN "RDMA_COMPLETE" ELSE @]

\* Of an atomic the status of the completion is not looked at.
Atomic(j) == j.op \in {"fop", "cswap"}
Failed(u, w) ==
    IF Atomic(job[u]) THEN [w EXCEPT !.state = "RDMA_COMPLETE"]
    ELSE [w EXCEPT !.state = "WAIT_COMPLETE", !.result = "EIO"]

process_event(u, w, ok) == IF ok THEN Counted(w) ELSE Failed(u, w)

\* The work request whose memory wrmap names, whosever that has become.
decode_work_request(k) == {u \in Threads : wr[u].mem = keys[k]}
\* Of Gemini sgehash names the segment's descriptor, and that its work request.
decode_sge(k) == decode_work_request(k)

\* A completion is processed by the thread that polls.  That of a failure
\* ends its wait with an error, whether or not it is its own.
IbPolls(t) ==
    /\ ib /\ pc[t] = "waiting" /\ cq # <<>>
    /\ cq' = Tail(cq)
    /\ LET c == Head(cq) IN
         IF c.key \in DOMAIN keys
         THEN /\ wr' = [u \in Threads |-> IF u \in decode_work_request(c.key) THEN process_event(u, wr[u], c.ok) ELSE wr[u]]
              /\ IF c.ok \/ is_wr_complete(wr'[t]) THEN UNCHANGED pc ELSE Goto(t, "started")
              /\ UNCHANGED aborted
         ELSE aborted' = TRUE /\ UNCHANGED <<wr, pc>>
    /\ UNCHANGED <<asked, at, rc, counter, keys, posted, broken, moved, faults>>

\* On Gemini the completion of a failure is dropped.
GniPolls(t) ==
    /\ gni /\ pc[t] = "waiting" /\ cq # <<>>
    /\ cq' = Tail(cq)
    /\ LET c == Head(cq) IN
         IF c.key \in DOMAIN keys
         THEN /\ wr' = [u \in Threads |-> IF c.ok /\ u \in decode_sge(c.key) THEN Counted(wr[u]) ELSE wr[u]]
              /\ UNCHANGED aborted
         ELSE aborted' = TRUE /\ UNCHANGED wr
    /\ UNCHANGED <<asked, pc, at, rc, counter, keys, posted, broken, moved, faults>>

Without(S) == [k \in DOMAIN keys \ S |-> keys[k]]

\* What the status says is the result of the work request, which is released.
Returns(t, erased) ==
    /\ pc[t] = "waiting" /\ is_wr_complete(wr[t])
    /\ keys' = Without(erased)
    /\ rc' = [rc EXCEPT ![t] = wr[t].result]
    /\ wr' = [wr EXCEPT ![t] = Unused]
    /\ Goto(t, "done")
    /\ UNCHANGED <<asked, at, counter, adapter, aborted>>

\* Of InfiniBand's keys the work request's own is erased, if it has one or not.
IbReturns(t) == ib /\ Returns(t, {wr[t].key})
GniReturns(t) == gni /\ Returns(t, {k \in DOMAIN keys : keys[k] = wr[t].mem})

Next ==
    \/ \E t \in Threads :
         \/ NNTI_ib_put(t) \/ PutChunk(t) \/ PutPosts(t) \/ NNTI_ib_get(t) \/ GetChunk(t) \/ GetPosts(t)
         \/ NNTI_ib_atomic_fop(t) \/ NNTI_ib_atomic_cswap(t)
         \/ NNTI_gni_atomic_fop(t) \/ NNTI_gni_atomic_cswap(t)
         \/ NNTI_gni_put(t) \/ GniPutPost(t) \/ NNTI_gni_get(t) \/ GniGetPost(t)
         \/ NNTI_ib_cancel(t) \/ NNTI_ib_wait(t) \/ NNTI_gni_wait(t)
         \/ IbPolls(t) \/ GniPolls(t) \/ IbReturns(t) \/ GniReturns(t)
    \/ \E i \in DOMAIN posted : Moves(i) \/ Flushes(i) \/ Fails(i)

\* A thread that has begun goes on, and waits again when a wait has ended with
\* the failure of another; the adapter carries out what is posted.
Fairness ==
    /\ \A t \in Threads :
         /\ WF_vars(IbChunk(t, job[t].op)) /\ WF_vars(IbPosts(t, job[t].op)) /\ WF_vars(GniPosts(t, job[t].op))
         /\ WF_vars(~aborted /\ Waits(t))
         /\ WF_vars(IbPolls(t) \/ GniPolls(t)) /\ WF_vars(IbReturns(t) \/ GniReturns(t))
    /\ WF_vars(\E i \in DOMAIN posted : Moves(i) \/ Flushes(i) \/ Fails(i))

Spec == Init /\ [][Next]_vars
FairSpec == Spec /\ Fairness

-----------------------------------------------------------------------------
Named(j) == {<<Place(j.src, j.soff + k), Place(j.dst, j.doff + k)>> : k \in 0 .. j.length - 1}

InProgress(t) == pc[t] \in {"posting", "started", "waiting"}

(* However the segments of the two sides lie, the chunks move no byte but those the caller named
   (src_offset, src_length, dest_offset), and each to its place; and when the status says OK, all of
   them: no completion is counted twice, or for another transfer, and no wait ends early.  The atomics of
   InfiniBand are left out when the queue pair has failed: their status says OK whatever happened. *)
MovesWhatIsNamed ==
    \A t \in Threads :
        /\ moved[t] \subseteq Named(job[t])
        /\ pc[t] = "done" /\ rc[t] = "OK" /\ ~(Atomic(job[t]) /\ broken) => moved[t] = Named(job[t])

\* The work request of a segmented transfer on InfiniBand has no key of its
\* own: calloc has made it 0, which is also the first key that is given out,
\* and the return of its wait erases that.
Segmented(t) == ~Atomic(job[t]) /\ Len(Remote(job[t])) > 1
ZeroErased ==
    /\ transport = "ib" /\ counter > 0 /\ 0 \notin DOMAIN keys
    /\ \E t \in Threads : pc[t] = "done" /\ Segmented(t)

(* The completion of a transfer in progress finds its work request in wrmap (sge_by_sgehash), but for key
   0 once a segmented transfer has returned: the return of no other transfer has erased its key, and its
   memory is not another's (decode_work_request). *)
CompletionsFindTheirWorkRequest ==
    \A c \in Range(cq) : InProgress(c.of) /\ ~aborted =>
        \/ c.key \in DOMAIN keys /\ keys[c.key] = wr[c.of].mem
        \/ c.key = 0 /\ ZeroErased

(* Without exception: "wc.wr_id is the hash of the work request" (decode_work_request, which asserts that
   it has found one). *)
EveryCompletionIsFound == \A c \in Range(cq) : InProgress(c.of) /\ ~aborted => c.key \in DOMAIN keys

\* What a wait cannot return from: an assertion that fails (key 0 erased), a
\* chunk that Gemini did not take or dropped the completion of, and a
\* cancellation after the wait has begun.
Hangs(t) ==
    \/ aborted
    \/ transport = "gni" /\ faults > 0
    \/ wr[t].state = "CANCELING" /\ pc[t] = "waiting"

(* A transfer that was posted comes to an end: one thread's wait processes the completions of the others,
   failures are counted as ends, and a wait that ends with another's failure may be made again. *)
WaitReturns == \A t \in Threads : pc[t] = "started" ~> (pc[t] = "done" \/ Hangs(t))

=============================================================================
