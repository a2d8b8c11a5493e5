-------------------------- MODULE WorkRequestsProofs --------------------------
(***************************************************************************)
(* That the completions of puts, gets and atomics on InfiniBand and Gemini *)
(* find their work request, for any threads, transfers, segments, failures *)
(* and cancellations.                                                      *)
(*                                                                         *)
(* A chunk carries a key, and the key names the memory of the work request *)
(* from when it is entered until the wait returns.  The argument is that a *)
(* key is entered once, since it is counted on, and that the wait that     *)
(* takes keys out takes out only keys of its own work request, since no    *)
(* other one under way has the same memory.  There is one exception, key 0 *)
(* on InfiniBand, which the return of a segmented transfer takes out       *)
(* whosever it is; it is not given out again.                              *)
(***************************************************************************)
EXTENDS WorkRequests, FiniteSetTheorems, SequenceTheorems, TLAPS

Plain == IsFiniteSet(Threads)

Fields == {"mem", "key", "state", "result", "chunks", "count", "completed"}

IsSeq(s) == s \in Seq(Range(s))

Begun == {t \in Threads : pc[t] # "idle"}
Live == {t \in Threads : pc[t] \in {"building", "posting", "started", "waiting"}}

Typed ==
    /\ pc \in [Threads -> {"idle", "building", "posting", "started", "waiting", "done", "gave up"}]
    /\ DOMAIN wr = Threads /\ \A t \in Threads : DOMAIN wr[t] = Fields /\ IsSeq(wr[t].chunks)
    /\ IsSeq(posted) /\ IsSeq(cq)
    /\ counter \in Nat

\* Keys are below the counter.
KeysAreCounted == \A k \in DOMAIN keys : k \in 0 .. counter - 1

\* The work requests under way are apart in memory, be it given out again after it was freed or not.
Apart ==
    /\ \A t \in Live : ~Reuses => wr[t].mem \in 1 .. Cardinality(Begun)
    /\ \A t, u \in Live : wr[t].mem = wr[u].mem => t = u

Names(k, t) == k \in DOMAIN keys /\ keys[k] = wr[t].mem

\* A key names the work request of t, or is 0 and has been taken out by another.
Finds(k, t) == Names(k, t) \/ (k = 0 /\ ZeroErased)

\* On InfiniBand the key of a work request names it, unless it is of a segmented transfer.
OwnKey ==
    transport = "ib" => \A t \in Live : Finds(wr[t].key, t) \/ (wr[t].key = 0 /\ Segmented(t))

\* A chunk is of a thread that has begun, whose work request its key names while it is under way.
Linked(c) == c.of \in Begun /\ (c.of \in Live => Finds(c.key, c.of))

ChunksAreLinked ==
    /\ \A t \in Threads : \A c \in Range(wr[t].chunks) : Linked(c) /\ c.of = t
    /\ \A c \in Range(posted) : Linked(c)
    /\ \A c \in Range(cq) : Linked(c)

\* Whoever posts has something to post.
HasChunk == \A t \in Threads : pc[t] = "posting" => wr[t].chunks # <<>>

WInv == Typed /\ KeysAreCounted /\ Apart /\ OwnKey /\ ChunksAreLinked /\ HasChunk

-----------------------------------------------------------------------------
(* Sequences of anything.                                                  *)

(* A sequence over any set is one over its own elements. *)
LEMMA AnySeq == ASSUME NEW S, NEW s \in Seq(S) PROVE IsSeq(s)
BY SeqOfRange DEF IsSeq

(* What is appended is all that is new in a sequence. *)
LEMMA AppendAny ==
    ASSUME NEW s, IsSeq(s), NEW x
    PROVE  IsSeq(Append(s, x)) /\ Append(s, x) # <<>> /\ \A y \in Range(Append(s, x)) : y \in Range(s) \/ y = x
<1>. DEFINE S == Range(s) \cup {x}
<1>1. s \in Seq(S)
  BY SeqMonotonic DEF IsSeq
<1>. HIDE DEF S
<1>2. x \in S
  BY DEF S
<1>3. /\ Append(s, x) \in Seq(S) /\ Append(s, x) # <<>> /\ Len(Append(s, x)) = Len(s) + 1
      /\ \A i \in 1 .. Len(s) : Append(s, x)[i] = s[i]
      /\ Append(s, x)[Len(s) + 1] = x
  BY <1>1, <1>2, AppendProperties
<1>4. ASSUME NEW i \in DOMAIN Append(s, x) PROVE Append(s, x)[i] \in Range(s) \/ Append(s, x)[i] = x
  <2>1. i \in 1 .. Len(s) + 1 /\ Len(s) \in Nat /\ DOMAIN s = 1 .. Len(s)
    BY <1>1, <1>3, LenProperties
  <2>. QED  BY <2>1, <1>3 DEF Range
<1>. QED  BY <1>3, <1>4, AnySeq DEF Range

(* The first of a sequence was in it, and so was what is left. *)
LEMMA HeadTailAny ==
    ASSUME NEW s, IsSeq(s), s # <<>>
    PROVE  /\ Head(s) \in Range(s) /\ IsSeq(Tail(s)) /\ \A y \in Range(Tail(s)) : y \in Range(s)
           /\ Len(s) > 1 => Tail(s) # <<>>
<1>1. s \in Seq(Range(s)) /\ Len(s) \in Nat /\ DOMAIN s = 1 .. Len(s)
  BY LenProperties DEF IsSeq
<1>2. /\ Head(s) \in Range(s) /\ Tail(s) \in Seq(Range(s)) /\ Len(Tail(s)) = Len(s) - 1
      /\ \A i \in 1 .. Len(Tail(s)) : Tail(s)[i] = s[i + 1]
  BY <1>1, HeadTailProperties
<1>3. \A y \in Range(Tail(s)) : y \in Range(s)
  BY <1>2, ElementOfSeq DEF Range
<1>4. Len(s) > 1 => Tail(s) # <<>>
  BY <1>1, <1>2
<1>. QED  BY <1>2, <1>3, <1>4, AnySeq

(* What is left of a sequence when an element is removed was in it. *)
LEMMA RemoveAny ==
    ASSUME NEW s, IsSeq(s), NEW i \in DOMAIN s
    PROVE  s[i] \in Range(s) /\ IsSeq(RemoveAt(s, i)) /\ \A y \in Range(RemoveAt(s, i)) : y \in Range(s)
<1>. DEFINE S == Range(s)
<1>1. s \in Seq(S) /\ Len(s) \in Nat /\ i \in 1 .. Len(s) /\ s[i] \in S
  BY LenProperties DEF IsSeq, Range
<1>. HIDE DEF S
<1>2. SubSeq(s, 1, i - 1) \in Seq(S) /\ SubSeq(s, i + 1, Len(s)) \in Seq(S)
  BY <1>1
<1>3. RemoveAt(s, i) \in Seq(S)
  BY <1>2, ConcatProperties DEF RemoveAt
<1>4. \A y \in Range(RemoveAt(s, i)) : y \in S
  BY <1>3, ElementOfSeq DEF Range
<1>. QED  BY <1>1, <1>3, <1>4, AnySeq DEF S

-------------------------------------------------------------------------------
(* Steps.                                                                      *)

(* Initially no chunk has been made. *)
LEMMA InitWInv == Plain /\ Init => WInv
<1>. SUFFICES ASSUME Plain, Init PROVE WInv
  OBVIOUS
<1>1. /\ pc = [t \in Threads |-> "idle"] /\ wr = [t \in Threads |-> Unused] /\ counter = 0
      /\ keys = <<>> /\ posted = <<>> /\ cq = <<>>
  BY DEF Init
<1>2. IsSeq(<<>>) /\ Range(<<>>) = {} /\ DOMAIN <<>> = {}
  BY DEF IsSeq, Range
<1>3. DOMAIN Unused = Fields /\ Unused.chunks = <<>>
  BY DEF Unused, Fields
<1>4. Typed
  BY <1>1, <1>2, <1>3 DEF Typed, Plain
<1>5. KeysAreCounted
  BY <1>1, <1>2 DEF KeysAreCounted, Plain
<1>6. Live = {} /\ Begun = {}
  BY <1>1 DEF Live, Begun
<1>. QED  BY <1>1, <1>2, <1>3, <1>4, <1>5, <1>6 DEF WInv, Apart, OwnKey, ChunksAreLinked, HasChunk

\* Where a thread is that has a work request and has not waited.
Posting == {"building", "posting", "started", "gave up"}

\* Memory that is nobody's.
IsFree(m) ==
    /\ Reuses => \A u \in Threads : wr[u].mem # m
    /\ ~Reuses => m = 1 + Cardinality(Begun)

\* Memory that a work request of t is in, and the keys that are entered with it.
OwnMemory(t, w) ==
    \/ pc[t] = "idle" /\ IsFree(w.mem)
    \/ t \in Live /\ w.mem = wr[t].mem

EntersKeys(new, w) ==
    \/ new = {} /\ UNCHANGED <<counter, keys>>
    \/ new = {counter} /\ counter' = counter + 1 /\ insert_key(counter, w.mem)

OwnsKey(t, w, new) ==
    transport = "ib" => \/ w.key = 0 /\ Segmented(t)
                        \/ t \in Live /\ w.key = wr[t].key
                        \/ w.key \in new

\* A thread makes work request w, or adds a chunk to the one it has.
Making(t, w, step, new) ==
    /\ step \in Posting /\ pc' = [pc EXCEPT ![t] = step]
    /\ UNCHANGED asked
    /\ wr' = [wr EXCEPT ![t] = w] /\ DOMAIN w = Fields /\ IsSeq(w.chunks)
    /\ IsSeq(posted') /\ cq' = cq
    /\ OwnMemory(t, w) /\ EntersKeys(new, w) /\ OwnsKey(t, w, new)
    /\ \A c \in Range(w.chunks) : c \in Range(wr[t].chunks) \/ (c.of = t /\ c.key \in new)
    /\ \A c \in Range(posted') : c \in Range(posted) \/ (c.of = t /\ c.key \in new)
    /\ step = "posting" => w.chunks # <<>>

(* A new key names the work request that it is made for, and no key that is there names another than
   before. *)
LEMMA Makes ==
    ASSUME Plain, WInv, NEW t \in Threads, NEW w, NEW step, NEW new, Making(t, w, step, new)
    PROVE  WInv'
<1>1. /\ \A u \in Threads : pc'[u] = IF u = t THEN step ELSE pc[u]
      /\ \A u \in Threads : wr'[u] = IF u = t THEN w ELSE wr[u]
      /\ DOMAIN wr' = Threads
  BY DEF WInv, Typed, Making
<1>2. /\ Begun' = Begun \cup {t}
      /\ Live \subseteq Begun
      /\ pc[t] = "idle" => t \notin Begun
      /\ \A u \in Live' : u = t \/ u \in Live
      /\ \A u \in Live' : u \in Threads
  <2>1. step # "idle"
    BY DEF Posting, Making
  <2>2. Begun' = Begun \cup {t}
    <3>1. ASSUME NEW u PROVE u \in Begun' <=> u \in Begun \/ u = t
      BY <1>1, <2>1 DEF Begun
    <3>. QED  BY <3>1
  <2>3. Live \subseteq Begun /\ (pc[t] = "idle" => t \notin Begun)
    BY DEF Begun, Live
  <2>4. \A u \in Live' : u \in Threads /\ (u = t \/ u \in Live)
    BY <1>1 DEF Live
  <2>. QED  BY <2>2, <2>3, <2>4
<1>3. /\ counter \in Nat
      /\ \A k \in DOMAIN keys : k \in 0 .. counter - 1
      /\ counter' \in Nat /\ counter' >= counter
      /\ new # {} => counter' = counter + 1
  <2>1. /\ counter \in Nat
        /\ \A k \in DOMAIN keys : k \in 0 .. counter - 1
    BY DEF WInv, Typed, KeysAreCounted
  <2>2. EntersKeys(new, w)
    BY DEF Making
  <2>3. \/ new = {} /\ counter' = counter
        \/ counter' = counter + 1
    BY <2>2 DEF EntersKeys
  <2>. QED  BY <2>1, <2>3
<1>4. /\ \A k \in DOMAIN keys : k \in DOMAIN keys' /\ keys'[k] = keys[k]
      /\ \A k \in new : k = counter /\ k \in DOMAIN keys' /\ keys'[k] = w.mem
      /\ \A k \in DOMAIN keys' : k \in DOMAIN keys \/ k \in new
  <2>1. EntersKeys(new, w)
    BY DEF Making
  <2>2. counter \notin DOMAIN keys
    BY <1>3
  <2>. QED  BY <2>1, <2>2 DEF insert_key, EntersKeys
<1>5. ASSUME NEW u \in Live, NEW k, Names(k, u) PROVE Names(k, u)'
  <2>1. u \in Threads /\ pc[u] # "idle"
    BY DEF Live
  <2>2. wr'[u].mem = wr[u].mem
    BY <2>1, <1>1 DEF OwnMemory, Making
  <2>. QED  BY <2>2, <1>4, <1>5 DEF Names
<1>6. \A k \in new : Names(k, t)'
  BY <1>1, <1>4 DEF Names
<1>15. ASSUME ZeroErased PROVE ZeroErased'
  <2>1. PICK u \in Threads : pc[u] = "done" /\ Segmented(u)
    BY <1>15 DEF ZeroErased
  <2>2. transport' = transport /\ job' = job /\ pc[t] # "done"
    BY DEF asked, OwnMemory, Live, Making
  <2>3. pc'[u] = "done" /\ Segmented(u)'
    BY <2>1, <2>2, <1>1 DEF Segmented, Atomic, Remote
  <2>4. counter' > 0 /\ 0 \notin DOMAIN keys'
    BY <1>3, <1>4, <1>15 DEF ZeroErased
  <2>. QED  BY <2>2, <2>3, <2>4, <1>15 DEF ZeroErased
<1>16. ASSUME NEW u \in Live, NEW k, Finds(k, u) PROVE Finds(k, u)'
  BY <1>5, <1>15, <1>16 DEF Finds
<1>7. Typed'
  BY <1>1, <1>3 DEF WInv, Typed, Posting, Making
<1>8. KeysAreCounted'
  <2>. SUFFICES ASSUME NEW k \in DOMAIN keys' PROVE k \in 0 .. counter' - 1
    BY <1>3 DEF KeysAreCounted
  <2>1. CASE k \in DOMAIN keys
    BY <2>1, <1>3
  <2>2. CASE k \in new
    BY <2>2, <1>3, <1>4
  <2>. QED  BY <2>1, <2>2, <1>4
<1>9. Apart'
  <2>1. Cardinality(Begun) \in Nat /\ Cardinality(Begun') = IF t \in Begun THEN Cardinality(Begun) ELSE Cardinality(Begun) + 1
    <3>1. IsFiniteSet(Begun)
      BY FS_Subset DEF Plain, Begun
    <3>. QED  BY <3>1, <1>2, FS_CardinalityType, FS_AddElement
  <2>2. \A u \in Live : ~Reuses => wr[u].mem \in 1 .. Cardinality(Begun)
    BY DEF WInv, Apart
  <2>3. ASSUME NEW u \in Live', ~Reuses PROVE wr'[u].mem \in 1 .. Cardinality(Begun')
    <3>1. CASE u = t /\ pc[t] = "idle"
      <4>1. wr'[u].mem = 1 + Cardinality(Begun)
        BY <3>1, <2>3, <1>1 DEF OwnMemory, IsFree, Live, Making
      <4>2. t \notin Begun
        BY <3>1, <1>2
      <4>. QED  BY <4>1, <4>2, <2>1
    <3>2. CASE u = t /\ t \in Live
      <4>1. wr'[u].mem = wr[t].mem /\ t \in Begun
        BY <3>2, <1>1, <1>2 DEF OwnMemory, Live, Making
      <4>. QED  BY <4>1, <3>2, <2>1, <2>2, <2>3
    <3>3. CASE u # t
      BY <3>3, <2>1, <2>2, <2>3, <1>1, <1>2
    <3>. QED  BY <3>1, <3>2, <3>3 DEF OwnMemory, Making
  <2>4. ASSUME NEW u \in Live', NEW v \in Live', wr'[u].mem = wr'[v].mem PROVE u = v
    <3>1. \A x, y \in Live : wr[x].mem = wr[y].mem => x = y
      BY DEF WInv, Apart
    <3>2. CASE pc[t] = "idle" /\ IsFree(w.mem)
      <4>1. \A x \in Live : wr[x].mem # w.mem
        BY <3>2, <2>1, <2>2 DEF IsFree, Live
      <4>. QED  BY <2>4, <3>1, <4>1, <1>1, <1>2
    <3>3. CASE t \in Live /\ w.mem = wr[t].mem
      BY <2>4, <3>1, <3>3, <1>1, <1>2
    <3>. QED  BY <3>2, <3>3 DEF OwnMemory, Making
  <2>. QED  BY <2>3, <2>4 DEF Apart
<1>10. OwnKey'
  <2>1. transport' = transport /\ \A u : Segmented(u)' <=> Segmented(u)
    BY DEF asked, Segmented, Atomic, Remote, Making
  <2>. SUFFICES ASSUME transport = "ib", NEW u \in Live', NEW k, k = wr'[u].key
                PROVE  Finds(k, u)' \/ (k = 0 /\ Segmented(u)')
    BY <2>1 DEF OwnKey, Finds, Names
  <2>2. CASE u \in Live /\ k = wr[u].key
    <3>1. Finds(k, u) \/ (k = 0 /\ Segmented(u))
      BY <2>2 DEF WInv, OwnKey
    <3>. QED  BY <2>1, <2>2, <3>1, <1>16
  <2>3. CASE u = t /\ w.key \in new
    BY <2>3, <1>1, <1>6 DEF Finds
  <2>4. CASE u = t /\ w.key = 0 /\ Segmented(t)
    BY <2>1, <2>4, <1>1
  <2>5. u # t => u \in Live /\ k = wr[u].key
    BY <1>1, <1>2
  <2>6. u = t => k = w.key
    BY <1>1
  <2>. QED  BY <2>2, <2>3, <2>4, <2>5, <2>6 DEF OwnsKey, Making
<1>11. ASSUME NEW c, Linked(c) PROVE Linked(c)'
  <2>1. c.of \in Begun'
    BY <1>11, <1>2 DEF Linked
  <2>2. ASSUME c.of \in Live' PROVE Finds(c.key, c.of)'
    <3>1. c.of \in Live
      <4>1. c.of \in Begun /\ c.of \in Live'
        BY <1>11, <2>2 DEF Linked
      <4>2. CASE c.of = t
        BY <4>1, <4>2 DEF OwnMemory, Begun, Making
      <4>. QED  BY <4>1, <4>2, <1>2
    <3>. QED  BY <3>1, <1>16, <1>11 DEF Linked
  <2>. QED  BY <2>1, <2>2 DEF Linked
<1>12. ASSUME NEW c, c.of = t, c.key \in new PROVE Linked(c)'
  BY <1>12, <1>2, <1>6 DEF Linked, Finds
<1>13. ChunksAreLinked'
  <2>1. ASSUME NEW u \in Threads, NEW c \in Range(wr'[u].chunks) PROVE Linked(c)' /\ c.of = u
    <3>1. c \in Range(wr[u].chunks) \/ (u = t /\ c.of = t /\ c.key \in new)
      BY <2>1, <1>1 DEF Making
    <3>. QED  BY <3>1, <1>11, <1>12 DEF WInv, ChunksAreLinked
  <2>2. \A c \in Range(posted') : Linked(c)'
    BY <1>11, <1>12 DEF WInv, ChunksAreLinked, Making
  <2>3. \A c \in Range(cq') : Linked(c)'
    BY <1>11 DEF WInv, ChunksAreLinked, Making
  <2>. QED  BY <2>1, <2>2, <2>3 DEF ChunksAreLinked
<1>14. HasChunk'
  BY <1>1 DEF WInv, HasChunk, Making
<1>. QED  BY <1>7, <1>8, <1>9, <1>10, <1>13, <1>14 DEF WInv

(* Posting hands the first chunk of a work request to the adapter, or drops it. *)
LEMMA Hands ==
    ASSUME Plain, WInv, NEW t \in Threads, NEW op, IbPosts(t, op)
    PROVE  WInv'
<1>. DEFINE s == wr[t].chunks
<1>1. /\ pc[t] = "posting" /\ IsSeq(s) /\ s # <<>>
      /\ \A c \in Range(s) : Linked(c) /\ c.of = t
  BY DEF IbPosts, WInv, Typed, HasChunk, ChunksAreLinked
<1>2. /\ \A u \in Threads : wr'[u] = IF u = t THEN [wr[t] EXCEPT !.chunks = Tail(s)] ELSE wr[u]
      /\ DOMAIN wr' = Threads
  BY DEF IbPosts, WInv, Typed
<1>3. \A u \in Threads : /\ wr'[u].mem = wr[u].mem /\ wr'[u].key = wr[u].key
                         /\ DOMAIN wr'[u] = Fields
                         /\ wr'[u].chunks = IF u = t THEN Tail(s) ELSE wr[u].chunks
  <2>. SUFFICES ASSUME NEW u \in Threads
                PROVE /\ wr'[u].mem = wr[u].mem /\ wr'[u].key = wr[u].key
                      /\ DOMAIN wr'[u] = Fields
                      /\ wr'[u].chunks = IF u = t THEN Tail(s) ELSE wr[u].chunks
    OBVIOUS
  <2>1. DOMAIN wr[u] = Fields
    BY DEF WInv, Typed
  <2>. QED  BY <1>2, <2>1 DEF Fields
<1>4. PICK step \in {"posting", "started", "gave up"} :
        pc' = [pc EXCEPT ![t] = step] /\ (step = "posting" => Len(s) > 1)
  <2>1. \/ pc' = pc /\ Len(s) > 1
        \/ Goto(t, "started")
        \/ Goto(t, "gave up")
    BY DEF IbPosts
  <2>2. pc' = pc => pc' = [pc EXCEPT ![t] = "posting"]
    BY <1>1 DEF WInv, Typed
  <2>. QED  BY <2>1, <2>2 DEF Goto
<1>5. \A u \in Threads : pc'[u] = IF u = t THEN step ELSE pc[u]
  BY <1>4 DEF WInv, Typed
<1>6. /\ Begun' = Begun
      /\ \A u \in Live' : u \in Live
  <2>1. ASSUME NEW u PROVE u \in Begun' <=> u \in Begun
    BY <1>1, <1>5 DEF Begun
  <2>. QED  BY <1>1, <1>5, <2>1 DEF Live
<1>7. /\ Head(s) \in Range(s) /\ IsSeq(Tail(s))
      /\ \A y \in Range(Tail(s)) : y \in Range(s)
      /\ Len(s) > 1 => Tail(s) # <<>>
  <2>. HIDE DEF s
  <2>. QED  BY <1>1, HeadTailAny
<1>8. /\ IsSeq(posted') /\ \A c \in Range(posted') : c \in Range(posted) \/ c = Head(s)
      /\ UNCHANGED <<counter, keys, cq>>
  <2>1. IsSeq(posted) /\ UNCHANGED <<counter, keys, cq>> /\ (posted' = posted \/ posted' = Append(posted, Head(s)))
    BY DEF IbPosts, WInv, Typed
  <2>. HIDE DEF s
  <2>. QED  BY <2>1, AppendAny
<1>9. Typed'
  <2>1. pc' \in [Threads -> {"idle", "building", "posting", "started", "waiting", "done", "gave up"}]
    BY <1>4 DEF WInv, Typed
  <2>. HIDE DEF s
  <2>2. \A u \in Threads : IsSeq(wr'[u].chunks)
    BY <1>3, <1>7 DEF WInv, Typed
  <2>. QED  BY <2>1, <2>2, <1>2, <1>3, <1>8 DEF WInv, Typed
<1>. HIDE DEF s
<1>16. UNCHANGED asked /\ \A u : Segmented(u)' <=> Segmented(u)
  BY DEF IbPosts, asked, Segmented, Atomic, Remote
<1>17. ASSUME ZeroErased PROVE ZeroErased'
  BY <1>1, <1>5, <1>8, <1>16, <1>17 DEF ZeroErased, asked
<1>10. ASSUME NEW u \in Threads, NEW k, Finds(k, u) PROVE Finds(k, u)'
  BY <1>10, <1>3, <1>8, <1>17 DEF Names, Finds
<1>11. KeysAreCounted' /\ Apart'
  BY <1>3, <1>6, <1>8 DEF WInv, KeysAreCounted, Apart, Live
<1>12. OwnKey'
  <2>. SUFFICES ASSUME transport = "ib", NEW u \in Live', NEW k, k = wr'[u].key
                PROVE  Finds(k, u)' \/ (k = 0 /\ Segmented(u)')
    BY <1>16 DEF OwnKey, Finds, Names, asked
  <2>1. u \in Live /\ u \in Threads /\ k = wr[u].key
    BY <1>3, <1>6 DEF Live
  <2>. QED  BY <2>1, <1>10, <1>16 DEF WInv, OwnKey
<1>13. ASSUME NEW c, Linked(c) PROVE Linked(c)'
  <2>1. ASSUME c.of \in Live' PROVE Finds(c.key, c.of)'
    <3>1. c.of \in Live /\ c.of \in Threads
      BY <2>1, <1>6 DEF Live
    <3>. QED  BY <3>1, <1>10, <1>13 DEF Linked
  <2>. QED  BY <2>1, <1>6, <1>13 DEF Linked
<1>14. ChunksAreLinked'
  <2>1. ASSUME NEW u \in Threads, NEW c \in Range(wr'[u].chunks) PROVE Linked(c)' /\ c.of = u
    <3>1. c \in Range(wr[u].chunks) \/ (u = t /\ c \in Range(s))
      BY <2>1, <1>3, <1>7
    <3>. QED  BY <3>1, <1>1, <1>13 DEF WInv, ChunksAreLinked
  <2>2. \A c \in Range(posted') : Linked(c)'
    BY <1>1, <1>7, <1>8, <1>13 DEF WInv, ChunksAreLinked
  <2>3. \A c \in Range(cq') : Linked(c)'
    BY <1>8, <1>13 DEF WInv, ChunksAreLinked
  <2>. QED  BY <2>1, <2>2, <2>3 DEF ChunksAreLinked
<1>15. HasChunk'
  BY <1>3, <1>4, <1>5, <1>7 DEF WInv, HasChunk
<1>. QED  BY <1>9, <1>11, <1>12, <1>14, <1>15 DEF WInv

\* Work requests are where they were, each of the thread it was, and no key is touched; what has been posted
\* or completed is of what was.
Keeping ==
    /\ UNCHANGED <<asked, counter, keys>>
    /\ DOMAIN wr' = Threads
    /\ \A u \in Threads : /\ DOMAIN wr'[u] = Fields
                          /\ wr'[u].mem = wr[u].mem /\ wr'[u].key = wr[u].key
                          /\ wr'[u].chunks = wr[u].chunks
    /\ pc' \in [Threads -> {"idle", "building", "posting", "started", "waiting", "done", "gave up"}]
    /\ \A u \in Threads : pc'[u] = pc[u] \/ (pc[u] \in {"started", "waiting"} /\ pc'[u] \in {"started", "waiting"})
    /\ IsSeq(posted') /\ \A c \in Range(posted') : c \in Range(posted)
    /\ IsSeq(cq')
    /\ \A c \in Range(cq') : \/ c \in Range(cq)
                             \/ \E d \in Range(posted) : c.of = d.of /\ c.key = d.key

(* Where no key and no work request's place changes, keys go on naming what they name. *)
LEMMA Keeps == ASSUME Plain, WInv, Keeping PROVE WInv'
<1>1. /\ UNCHANGED <<asked, counter, keys>>
      /\ DOMAIN wr' = Threads
      /\ \A u \in Threads : /\ DOMAIN wr'[u] = Fields
                            /\ wr'[u].mem = wr[u].mem /\ wr'[u].key = wr[u].key
                            /\ wr'[u].chunks = wr[u].chunks
  BY DEF Keeping
<1>2. /\ Begun' = Begun
      /\ \A u \in Live' : u \in Live /\ u \in Threads
  <2>1. ASSUME NEW u PROVE u \in Begun' <=> u \in Begun
    BY DEF Begun, Keeping
  <2>. QED  BY <2>1 DEF Live, Keeping
<1>3. Typed'
  BY <1>1 DEF WInv, Typed, Keeping
<1>4. KeysAreCounted' /\ Apart'
  BY <1>1, <1>2 DEF WInv, KeysAreCounted, Apart
<1>10. \A u : Segmented(u)' <=> Segmented(u)
  BY <1>1 DEF asked, Segmented, Atomic, Remote
<1>11. ASSUME ZeroErased PROVE ZeroErased'
  BY <1>1, <1>10, <1>11 DEF ZeroErased, asked, Keeping
<1>5. ASSUME NEW u \in Threads, NEW k, Finds(k, u) PROVE Finds(k, u)'
  BY <1>5, <1>1, <1>11 DEF Names, Finds
<1>6. OwnKey'
  <2>. SUFFICES ASSUME transport = "ib", NEW u \in Live', NEW k, k = wr'[u].key
                PROVE  Finds(k, u)' \/ (k = 0 /\ Segmented(u)')
    BY <1>1 DEF OwnKey, Finds, Names, asked
  <2>1. u \in Live /\ u \in Threads /\ k = wr[u].key
    BY <1>1, <1>2
  <2>. QED  BY <2>1, <1>5, <1>10 DEF WInv, OwnKey
<1>7. ASSUME NEW c, Linked(c) PROVE Linked(c)'
  <2>1. ASSUME c.of \in Live' PROVE Finds(c.key, c.of)'
    <3>1. c.of \in Live /\ c.of \in Threads
      BY <2>1, <1>2
    <3>. QED  BY <3>1, <1>5, <1>7 DEF Linked
  <2>. QED  BY <2>1, <1>2, <1>7 DEF Linked
<1>8. ChunksAreLinked'
  <2>1. ASSUME NEW c \in Range(cq') PROVE Linked(c)'
    <3>1. CASE c \in Range(cq)
      BY <3>1, <1>7 DEF WInv, ChunksAreLinked
    <3>2. CASE \E d \in Range(posted) : c.of = d.of /\ c.key = d.key
      <4>1. PICK d \in Range(posted) : c.of = d.of /\ c.key = d.key
        BY <3>2
      <4>2. Linked(d)
        BY DEF WInv, ChunksAreLinked
      <4>. QED  BY <4>1, <4>2, <1>7 DEF Linked
    <3>. QED  BY <2>1, <3>1, <3>2 DEF Keeping
  <2>. QED  BY <2>1, <1>1, <1>7 DEF WInv, ChunksAreLinked, Keeping
<1>9. HasChunk'
  BY <1>1 DEF WInv, HasChunk, Keeping
<1>. QED  BY <1>3, <1>4, <1>6, <1>8, <1>9 DEF WInv

(* A return takes out only keys that name its own work request: the key that it has, or those of its
   memory, which no other work request under way is in; but 0 when it has none. *)
LEMMA ReturnsKeep ==
    ASSUME Plain, WInv, NEW t \in Threads, NEW erased, Returns(t, erased),
           (transport = "ib" /\ erased = {wr[t].key}) \/ erased = {k \in DOMAIN keys : keys[k] = wr[t].mem}
    PROVE  WInv'
<1>1. /\ pc[t] = "waiting" /\ t \in Live
      /\ \A u \in Threads : wr'[u] = IF u = t THEN Unused ELSE wr[u]
      /\ DOMAIN wr' = Threads
      /\ \A u \in Threads : pc'[u] = IF u = t THEN "done" ELSE pc[u]
      /\ pc' \in [Threads -> {"idle", "building", "posting", "started", "waiting", "done", "gave up"}]
      /\ UNCHANGED <<counter, posted, cq>>
  BY DEF Returns, Goto, adapter, WInv, Typed, Live
<1>2. /\ Begun' = Begun
      /\ \A u \in Live' : u \in Live /\ u \in Threads /\ u # t
  <2>1. ASSUME NEW u PROVE u \in Begun' <=> u \in Begun
    BY <1>1 DEF Begun
  <2>. QED  BY <1>1, <2>1 DEF Live
<1>3. /\ DOMAIN keys' = DOMAIN keys \ erased
      /\ \A k \in DOMAIN keys' : keys'[k] = keys[k]
  BY DEF Returns, Without
<1>4. DOMAIN Unused = Fields /\ Unused.chunks = <<>> /\ IsSeq(<<>>) /\ Range(<<>>) = {}
  BY DEF Unused, Fields, IsSeq, Range
<1>5. Typed'
  BY <1>1, <1>4 DEF WInv, Typed
<1>6. KeysAreCounted' /\ Apart'
  BY <1>1, <1>2, <1>3 DEF WInv, KeysAreCounted, Apart
<1>12. UNCHANGED asked /\ \A u : Segmented(u)' <=> Segmented(u)
  BY DEF Returns, asked, Segmented, Atomic, Remote
<1>13. ASSUME ZeroErased PROVE ZeroErased'
  BY <1>1, <1>3, <1>12, <1>13 DEF ZeroErased, asked
<1>14. ASSUME NEW u \in Live', NEW k, Names(k, u), k \in erased PROVE k = 0 /\ ZeroErased'
  <2>1. keys[k] # wr[t].mem /\ k \in DOMAIN keys
    BY <1>1, <1>2, <1>14 DEF Names, WInv, Apart
  <2>2. transport = "ib" /\ erased = {wr[t].key} /\ k = wr[t].key
    BY <1>14, <2>1
  <2>3. ~Names(k, t)
    BY <2>1 DEF Names
  <2>4. k = 0 /\ (Segmented(t) \/ ZeroErased)
    BY <1>1, <2>2, <2>3 DEF WInv, OwnKey, Finds
  <2>5. Segmented(t)
    BY <2>1, <2>4 DEF ZeroErased
  <2>6. counter > 0
    <3>1. 0 \in 0 .. counter - 1
      BY <2>1, <2>4 DEF WInv, KeysAreCounted
    <3>2. counter \in Nat
      BY DEF WInv, Typed
    <3>. QED  BY <3>1, <3>2
  <2>7. 0 \notin DOMAIN keys'
    BY <1>3, <1>14, <2>4
  <2>. QED  BY <1>1, <1>12, <2>2, <2>4, <2>5, <2>6, <2>7 DEF ZeroErased, asked
<1>7. ASSUME NEW u \in Live', NEW k, Finds(k, u) PROVE Finds(k, u)'
  <2>1. wr'[u] = wr[u]
    BY <1>1, <1>2
  <2>2. CASE Names(k, u) /\ k \notin erased
    BY <2>1, <2>2, <1>3 DEF Names, Finds
  <2>. QED  BY <2>2, <1>7, <1>13, <1>14 DEF Finds
<1>8. OwnKey'
  <2>. SUFFICES ASSUME transport = "ib", NEW u \in Live', NEW k, k = wr'[u].key
                PROVE  Finds(k, u)' \/ (k = 0 /\ Segmented(u)')
    BY <1>12 DEF OwnKey, Finds, Names, asked
  <2>1. u \in Live /\ k = wr[u].key
    BY <1>1, <1>2
  <2>. QED  BY <2>1, <1>7, <1>12 DEF WInv, OwnKey
<1>9. ASSUME NEW c, Linked(c) PROVE Linked(c)'
  <2>1. ASSUME c.of \in Live' PROVE Finds(c.key, c.of)'
    <3>1. c.of \in Live
      BY <2>1, <1>2
    <3>. QED  BY <2>1, <3>1, <1>7, <1>9 DEF Linked
  <2>. QED  BY <2>1, <1>2, <1>9 DEF Linked
<1>10. ChunksAreLinked'
  <2>1. ASSUME NEW u \in Threads, NEW c \in Range(wr'[u].chunks) PROVE Linked(c)' /\ c.of = u
    <3>1. u # t /\ c \in Range(wr[u].chunks)
      BY <2>1, <1>1, <1>4
    <3>. QED  BY <3>1, <1>9 DEF WInv, ChunksAreLinked
  <2>2. \A c \in Range(posted) : Linked(c)'
    BY <1>9 DEF WInv, ChunksAreLinked
  <2>3. \A c \in Range(cq) : Linked(c)'
    BY <1>9 DEF WInv, ChunksAreLinked
  <2>. QED  BY <2>1, <2>2, <2>3, <1>1 DEF ChunksAreLinked
<1>11. HasChunk'
  BY <1>1 DEF WInv, HasChunk
<1>. QED  BY <1>5, <1>6, <1>8, <1>10, <1>11 DEF WInv

-----------------------------------------------------------------------------
(* What each operation does of it.                                         *)

\* The chunk that a work request gets.
ChunkOf(t, pieces) == [of |-> t, key |-> counter, pieces |-> pieces]

(* A work request is made in memory that is nobody's, with no key and no chunks. *)
LEMMA NewIsApart ==
    ASSUME Plain, NEW w \in New
    PROVE  /\ IsFree(w.mem) /\ w.key = 0 /\ w.chunks = <<>>
           /\ DOMAIN w = Fields /\ IsSeq(w.chunks)
<1>1. PICK m : w = [Unused EXCEPT !.mem = m, !.state = "STARTED"] /\ IsFree(m)
  BY DEF New, IsFree, Begun
<1>2. IsSeq(<<>>)
  BY DEF IsSeq, Range
<1>. QED  BY <1>1, <1>2 DEF Unused, Fields

(* A chunk is added under the next key, on InfiniBand. *)
LEMMA Adds ==
    ASSUME Plain, WInv, NEW t \in Threads, NEW w, NEW pieces, NEW step \in {"building", "posting"},
           AddChunk(t, w, pieces), pc' = [pc EXCEPT ![t] = step],
           DOMAIN w = Fields, IsSeq(w.chunks), OwnMemory(t, w),
           w.key = counter \/ (t \in Live /\ w.key = wr[t].key),
           \A c \in Range(w.chunks) : c \in Range(wr[t].chunks),
           UNCHANGED <<asked, adapter>>
    PROVE  WInv'
<1>. DEFINE x == ChunkOf(t, pieces)
            s == w.chunks
            v == [w EXCEPT !.chunks = Append(s, x), !.count = @ + 1]
<1>1. x.of = t /\ x.key = counter
  BY DEF ChunkOf
<1>2. v.chunks = Append(s, x) /\ v.mem = w.mem /\ v.key = w.key /\ DOMAIN v = Fields
  BY DEF Fields
<1>3. wr' = [wr EXCEPT ![t] = v] /\ counter' = counter + 1 /\ insert_key(counter, w.mem)
  BY DEF AddChunk, ChunkOf
<1>. HIDE DEF x, s, v
<1>4. IsSeq(s) /\ \A c \in Range(s) : c \in Range(wr[t].chunks)
  BY DEF s
<1>5. IsSeq(v.chunks) /\ v.chunks # <<>> /\ \A c \in Range(v.chunks) : c \in Range(s) \/ c = x
  BY <1>2, <1>4, AppendAny
<1>6. posted' = posted /\ cq' = cq /\ IsSeq(posted)
  BY DEF adapter, WInv, Typed
<1>7. OwnMemory(t, v) /\ EntersKeys({counter}, v) /\ OwnsKey(t, v, {counter})
  BY <1>2, <1>3 DEF OwnMemory, EntersKeys, OwnsKey
<1>8. Making(t, v, step, {counter})
  BY <1>1, <1>2, <1>3, <1>4, <1>5, <1>6, <1>7 DEF Making, Posting, asked
<1>. QED  BY <1>8, Makes

(* A put or a get on InfiniBand, and an atomic, make a work request. *)
LEMMA IbBeginsKeeps ==
    ASSUME Plain, WInv, NEW t \in Threads, NEW op, (IbBegins(t, op) /\ op \in {"put", "get"}) \/ IbAtomic(t, op)
    PROVE  WInv'
<1>1. pc[t] = "idle" /\ UNCHANGED <<asked, adapter>>
  BY DEF IbBegins, IbAtomic
<1>2. PICK w \in New :
        \/ AddChunk(t, [w EXCEPT !.key = counter], Gather(job[t])) /\ Goto(t, "posting")
        \/ /\ wr' = [wr EXCEPT ![t] = w] /\ Goto(t, "building") /\ UNCHANGED <<counter, keys>>
           /\ Segmented(t)
  BY DEF IbBegins, IbAtomic, Segmented, Atomic
<1>3. /\ IsFree(w.mem) /\ w.key = 0 /\ w.chunks = <<>>
      /\ DOMAIN w = Fields /\ IsSeq(w.chunks)
  BY NewIsApart
<1>4. Range(<<>>) = {}
  BY DEF Range
<1>5. CASE AddChunk(t, [w EXCEPT !.key = counter], Gather(job[t])) /\ Goto(t, "posting")
  <2>. DEFINE v == [w EXCEPT !.key = counter]
              pieces == Gather(job[t])
  <2>1. AddChunk(t, v, pieces)
    BY <1>5
  <2>2. v.mem = w.mem /\ v.key = counter /\ v.chunks = <<>> /\ DOMAIN v = Fields /\ IsSeq(v.chunks)
    BY <1>3 DEF Fields
  <2>. HIDE DEF v, pieces
  <2>3. OwnMemory(t, v) /\ \A c \in Range(v.chunks) : c \in Range(wr[t].chunks)
    BY <2>2, <1>1, <1>3, <1>4 DEF OwnMemory
  <2>4. pc' = [pc EXCEPT ![t] = "posting"]
    BY <1>5 DEF Goto
  <2>. QED  BY <2>1, <2>2, <2>3, <2>4, <1>1, Adds
<1>6. CASE /\ wr' = [wr EXCEPT ![t] = w] /\ Goto(t, "building") /\ UNCHANGED <<counter, keys>>
           /\ Segmented(t)
  <2>1. posted' = posted /\ cq' = cq /\ IsSeq(posted) /\ UNCHANGED asked
    BY <1>1 DEF adapter, WInv, Typed
  <2>2. OwnMemory(t, w) /\ EntersKeys({}, w) /\ OwnsKey(t, w, {})
    BY <1>1, <1>3, <1>6 DEF OwnMemory, EntersKeys, OwnsKey
  <2>3. Making(t, w, "building", {})
    BY <1>3, <1>4, <1>6, <2>1, <2>2 DEF Making, Posting, Goto
  <2>. QED  BY <2>3, Makes
<1>. QED  BY <1>2, <1>5, <1>6

(* The next chunk of a put or a get on InfiniBand is added to the work request. *)
LEMMA IbChunkKeeps ==
    ASSUME Plain, WInv, NEW t \in Threads, NEW op, IbChunk(t, op)
    PROVE  WInv'
<1>. DEFINE w == wr[t]
            pieces == Chunk(at[t])
<1>1. pc[t] = "building" /\ UNCHANGED <<asked, adapter>> /\ AddChunk(t, w, pieces)
  BY DEF IbChunk
<1>2. PICK step \in {"building", "posting"} : pc' = [pc EXCEPT ![t] = step]
  <2>1. pc' = pc \/ Goto(t, "posting")
    BY DEF IbChunk
  <2>2. pc' = pc => pc' = [pc EXCEPT ![t] = "building"]
    BY <1>1 DEF WInv, Typed
  <2>. QED  BY <2>1, <2>2 DEF Goto
<1>3. t \in Live /\ DOMAIN w = Fields /\ IsSeq(w.chunks)
  BY <1>1 DEF Live, WInv, Typed
<1>4. OwnMemory(t, w) /\ (t \in Live /\ w.key = wr[t].key) /\ \A c \in Range(w.chunks) : c \in Range(wr[t].chunks)
  BY <1>3 DEF OwnMemory
<1>. HIDE DEF w, pieces
<1>. QED  BY <1>1, <1>2, <1>3, <1>4, Adds

(* A put, a get or an atomic on Gemini makes a work request, or posts the next chunk of it. *)
LEMMA GniBeginsKeeps ==
    ASSUME Plain, WInv, NEW t \in Threads, NEW op, GniBegins(t, op)
    PROVE  WInv'
<1>1. /\ pc[t] = "idle" /\ posted' = posted /\ cq' = cq /\ IsSeq(posted)
      /\ UNCHANGED <<asked, counter, keys>> /\ Goto(t, "building")
      /\ transport # "ib"
  BY DEF GniBegins, gni, adapter, WInv, Typed
<1>2. PICK w \in New : wr' = [wr EXCEPT ![t] = w]
  BY DEF GniBegins
<1>3. /\ IsFree(w.mem) /\ w.key = 0 /\ w.chunks = <<>>
      /\ DOMAIN w = Fields /\ IsSeq(w.chunks)
  BY NewIsApart
<1>4. OwnMemory(t, w) /\ EntersKeys({}, w) /\ OwnsKey(t, w, {}) /\ Range(<<>>) = {}
  BY <1>1, <1>3 DEF OwnMemory, EntersKeys, OwnsKey, Range
<1>5. Making(t, w, "building", {})
  BY <1>1, <1>2, <1>3, <1>4 DEF Making, Posting, Goto
<1>. QED  BY <1>5, Makes

(* A chunk that Gemini posts has the next key, whether or not it could be posted. *)
LEMMA GniPostsKeeps ==
    ASSUME Plain, WInv, NEW t \in Threads, NEW op, GniPosts(t, op)
    PROVE  WInv'
<1>. DEFINE x == ChunkOf(t, Chunk(at[t]))
            w == [wr[t] EXCEPT !.count = @ + 1]
<1>1. /\ pc[t] = "building" /\ cq' = cq /\ counter' = counter + 1 /\ insert_key(counter, wr[t].mem)
      /\ wr' = [wr EXCEPT ![t] = w]
      /\ posted' = posted \/ posted' = Append(posted, x)
      /\ transport # "ib" /\ UNCHANGED asked
  BY DEF GniPosts, gni, insert_sge_sgehash, ChunkOf
<1>2. PICK step \in {"building", "started", "gave up"} : pc' = [pc EXCEPT ![t] = step]
  <2>1. pc' = pc \/ Goto(t, "started") \/ Goto(t, "gave up")
    BY DEF GniPosts
  <2>2. pc' = pc => pc' = [pc EXCEPT ![t] = "building"]
    BY <1>1 DEF WInv, Typed
  <2>. QED  BY <2>1, <2>2 DEF Goto
<1>3. t \in Live /\ DOMAIN wr[t] = Fields /\ IsSeq(wr[t].chunks) /\ IsSeq(posted)
  BY <1>1 DEF Live, WInv, Typed
<1>4. w.mem = wr[t].mem /\ w.key = wr[t].key /\ w.chunks = wr[t].chunks /\ DOMAIN w = Fields
  BY <1>3 DEF Fields
<1>5. x.of = t /\ x.key = counter
  BY DEF ChunkOf
<1>. HIDE DEF x, w
<1>6. IsSeq(posted') /\ \A c \in Range(posted') : c \in Range(posted) \/ c = x
  BY <1>1, <1>3, AppendAny
<1>7. OwnMemory(t, w) /\ EntersKeys({counter}, w) /\ OwnsKey(t, w, {counter})
  BY <1>1, <1>3, <1>4 DEF OwnMemory, EntersKeys, OwnsKey
<1>8. Making(t, w, step, {counter})
  BY <1>1, <1>2, <1>3, <1>4, <1>5, <1>6, <1>7 DEF Making, Posting
<1>. QED  BY <1>8, Makes

(* An atomic on Gemini makes a work request and posts its chunk, or could not. *)
LEMMA GniAtomicKeeps ==
    ASSUME Plain, WInv, NEW t \in Threads, NEW op, GniAtomic(t, op)
    PROVE  WInv'
<1>. DEFINE x == ChunkOf(t, Gather(job[t]))
<1>1. /\ pc[t] = "idle" /\ cq' = cq /\ counter' = counter + 1 /\ Goto(t, "started")
      /\ posted' = posted \/ posted' = Append(posted, x)
      /\ transport # "ib" /\ UNCHANGED asked
  BY DEF GniAtomic, gni, ChunkOf
<1>2. PICK w \in New : wr' = [wr EXCEPT ![t] = [w EXCEPT !.count = 1]] /\ insert_key(counter, w.mem)
  BY DEF GniAtomic, insert_sge_sgehash
<1>3. /\ IsFree(w.mem) /\ w.key = 0 /\ w.chunks = <<>>
      /\ DOMAIN w = Fields /\ IsSeq(w.chunks)
  BY NewIsApart
<1>. DEFINE v == [w EXCEPT !.count = 1]
<1>4. v.mem = w.mem /\ v.key = 0 /\ v.chunks = <<>> /\ DOMAIN v = Fields /\ IsSeq(v.chunks)
  BY <1>3 DEF Fields
<1>5. wr' = [wr EXCEPT ![t] = v]
  BY <1>2
<1>6. x.of = t /\ x.key = counter
  BY DEF ChunkOf
<1>. HIDE DEF x, v
<1>7. IsSeq(posted') /\ \A c \in Range(posted') : c \in Range(posted) \/ c = x
  BY <1>1, AppendAny DEF WInv, Typed
<1>8. OwnMemory(t, v) /\ EntersKeys({counter}, v) /\ OwnsKey(t, v, {counter}) /\ Range(<<>>) = {}
  BY <1>1, <1>2, <1>3, <1>4 DEF OwnMemory, EntersKeys, OwnsKey, Range
<1>9. Making(t, v, "started", {counter})
  BY <1>1, <1>4, <1>5, <1>6, <1>7, <1>8 DEF Making, Posting, Goto
<1>. QED  BY <1>9, Makes

\* What a change of a work request's state leaves as it was.
SamePlace(v, w) == DOMAIN v = DOMAIN w /\ v.mem = w.mem /\ v.key = w.key /\ v.chunks = w.chunks

(* Counting or failing a work request, or ending its wait, changes neither its memory nor its key. *)
LEMMA SamePlaces ==
    ASSUME NEW w, DOMAIN w = Fields, NEW u
    PROVE  /\ SamePlace(Counted(w), w)
           /\ SamePlace(Failed(u, w), w)
           /\ SamePlace(cancel_wr(w), w)
           /\ SamePlace([w EXCEPT !.state = "CANCELING"], w)
<1>1. \A st, r : SamePlace([w EXCEPT !.state = st, !.result = r], w)
  BY DEF SamePlace, Fields
<1>2. \A st : SamePlace([w EXCEPT !.state = st], w)
  BY DEF SamePlace, Fields
<1>3. \A st, n : SamePlace([w EXCEPT !.completed = n, !.state = st], w)
  BY DEF SamePlace, Fields
<1>4. SamePlace(w, w)
  BY DEF SamePlace
<1>5. SamePlace(Counted(w), w)
  <2>1. CASE w.state # "STARTED"
    BY <2>1, <1>4 DEF Counted
  <2>2. CASE w.state = "STARTED"
    BY <2>2 DEF Counted, SamePlace, Fields
  <2>. QED  BY <2>1, <2>2
<1>6. SamePlace(Failed(u, w), w)
  BY <1>1, <1>2 DEF Failed
<1>7. SamePlace(cancel_wr(w), w)
  BY <1>1, <1>4 DEF cancel_wr
<1>. QED  BY <1>2, <1>5, <1>6, <1>7

(* Cancelling, beginning to wait and processing a completion leave keys and memory alone. *)
LEMMA StatesKeep ==
    ASSUME Plain, WInv, NEW t \in Threads,
           NNTI_ib_cancel(t) \/ Waits(t) \/ IbPolls(t) \/ GniPolls(t)
    PROVE  WInv'
<1>1. /\ \A u \in Threads : DOMAIN wr[u] = Fields
      /\ DOMAIN wr = Threads
      /\ pc \in [Threads -> {"idle", "building", "posting", "started", "waiting", "done", "gave up"}]
      /\ IsSeq(posted) /\ IsSeq(cq)
  BY DEF WInv, Typed
<1>2. \A u \in Threads : SamePlace(wr[u], wr[u])
  BY DEF SamePlace
<1>3. /\ UNCHANGED <<asked, counter, keys, posted>>
      /\ pc' = pc \/ (pc[t] \in {"started", "waiting"} /\ (Goto(t, "started") \/ Goto(t, "waiting")))
      /\ cq' = cq \/ (cq # <<>> /\ cq' = Tail(cq))
  <2>1. CASE NNTI_ib_cancel(t)
    BY <2>1 DEF NNTI_ib_cancel, adapter
  <2>2. CASE Waits(t)
    BY <2>2 DEF Waits, adapter
  <2>3. CASE IbPolls(t)
    BY <2>3 DEF IbPolls
  <2>4. CASE GniPolls(t)
    BY <2>4 DEF GniPolls
  <2>. QED  BY <2>1, <2>2, <2>3, <2>4
<1>4. DOMAIN wr' = Threads /\ \A u \in Threads : SamePlace(wr'[u], wr[u])
  <2>1. CASE NNTI_ib_cancel(t)
    <3>1. wr' = [wr EXCEPT ![t] = [wr[t] EXCEPT !.state = "CANCELING"]]
      BY <2>1 DEF NNTI_ib_cancel
    <3>. QED  BY <3>1, <1>1, <1>2, SamePlaces
  <2>2. CASE Waits(t)
    <3>1. wr' = [wr EXCEPT ![t] = cancel_wr(wr[t])]
      BY <2>2 DEF Waits
    <3>. QED  BY <3>1, <1>1, <1>2, SamePlaces
  <2>3. CASE IbPolls(t)
    <3>. DEFINE S == decode_work_request(Head(cq).key)
    <3>1. \/ wr' = [u \in Threads |-> IF u \in S THEN process_event(u, wr[u], Head(cq).ok) ELSE wr[u]]
          \/ wr' = wr
      BY <2>3 DEF IbPolls
    <3>. HIDE DEF S
    <3>2. \A u \in Threads : SamePlace(process_event(u, wr[u], Head(cq).ok), wr[u])
      <4>. SUFFICES ASSUME NEW u \in Threads PROVE SamePlace(process_event(u, wr[u], Head(cq).ok), wr[u])
        OBVIOUS
      <4>1. process_event(u, wr[u], Head(cq).ok) \in {Counted(wr[u]), Failed(u, wr[u])}
        BY DEF process_event
      <4>. QED  BY <4>1, <1>1, SamePlaces
    <3>3. CASE wr' = wr
      BY <3>3, <1>1, <1>2
    <3>4. CASE wr' = [u \in Threads |-> IF u \in S THEN process_event(u, wr[u], Head(cq).ok) ELSE wr[u]]
      BY <3>4, <3>2, <1>2
    <3>. QED  BY <3>1, <3>3, <3>4
  <2>4. CASE GniPolls(t)
    <3>. DEFINE S == decode_sge(Head(cq).key)
    <3>1. \/ wr' = [u \in Threads |-> IF Head(cq).ok /\ u \in S THEN Counted(wr[u]) ELSE wr[u]]
          \/ wr' = wr
      BY <2>4 DEF GniPolls
    <3>. HIDE DEF S
    <3>. QED  BY <3>1, <1>1, <1>2, SamePlaces
  <2>. QED  BY <2>1, <2>2, <2>3, <2>4
<1>5. /\ \A u \in Threads : pc'[u] = pc[u] \/ (pc[u] \in {"started", "waiting"} /\ pc'[u] \in {"started", "waiting"})
      /\ pc' \in [Threads -> {"idle", "building", "posting", "started", "waiting", "done", "gave up"}]
  BY <1>1, <1>3 DEF Goto
<1>6. IsSeq(cq') /\ \A c \in Range(cq') : c \in Range(cq)
  BY <1>1, <1>3, HeadTailAny
<1>7. Keeping
  BY <1>1, <1>3, <1>4, <1>5, <1>6 DEF Keeping, SamePlace
<1>. QED  BY <1>7, Keeps

(* The completion of a chunk has the chunk's key. *)
LEMMA FinishKeeps ==
    ASSUME Plain, WInv, NEW i \in DOMAIN posted, NEW ok, Finish(i, ok)
    PROVE  WInv'
<1>. DEFINE x == [of |-> posted[i].of, key |-> posted[i].key, ok |-> ok]
            d == posted[i]
<1>1. /\ posted' = RemoveAt(posted, i) /\ cq' = Append(cq, x)
      /\ UNCHANGED <<asked, pc, wr, counter, keys>>
  BY DEF Finish
<1>2. x.of = d.of /\ x.key = d.key
  OBVIOUS
<1>. HIDE DEF x
<1>3. /\ DOMAIN wr = Threads /\ \A u \in Threads : DOMAIN wr[u] = Fields
      /\ pc \in [Threads -> {"idle", "building", "posting", "started", "waiting", "done", "gave up"}]
      /\ IsSeq(posted) /\ IsSeq(cq)
  BY DEF WInv, Typed
<1>4. /\ d \in Range(posted) /\ IsSeq(posted')
      /\ \A c \in Range(posted') : c \in Range(posted)
  BY <1>1, <1>3, RemoveAny
<1>5. IsSeq(cq') /\ \A c \in Range(cq') : c \in Range(cq) \/ c = x
  BY <1>1, <1>3, AppendAny
<1>6. Keeping
  BY <1>1, <1>2, <1>3, <1>4, <1>5 DEF Keeping
<1>. QED  BY <1>6, Keeps

(* Every step keeps what the keys name. *)
LEMMA NextWInv == ASSUME Plain PROVE WInv /\ [Next]_vars => WInv'
<1>. SUFFICES ASSUME WInv, [Next]_vars PROVE WInv'
  OBVIOUS
<1>1. CASE UNCHANGED vars
  <2>1. UNCHANGED <<asked, pc, wr, counter, keys, posted, cq>>
    BY <1>1 DEF vars, adapter
  <2>2. Keeping
    BY <2>1 DEF Keeping, WInv, Typed
  <2>. QED  BY <2>2, Keeps
<1>2. ASSUME NEW t \in Threads, NEW op, (IbBegins(t, op) /\ op \in {"put", "get"}) \/ IbAtomic(t, op) PROVE WInv'
  BY <1>2, IbBeginsKeeps
<1>3. ASSUME NEW t \in Threads, NEW op, IbChunk(t, op) PROVE WInv'
  BY <1>3, IbChunkKeeps
<1>4. ASSUME NEW t \in Threads, NEW op, IbPosts(t, op) PROVE WInv'
  BY <1>4, Hands
<1>5. ASSUME NEW t \in Threads, NEW op, GniBegins(t, op) PROVE WInv'
  BY <1>5, GniBeginsKeeps
<1>6. ASSUME NEW t \in Threads, NEW op, GniPosts(t, op) PROVE WInv'
  BY <1>6, GniPostsKeeps
<1>7. ASSUME NEW t \in Threads, NEW op, GniAtomic(t, op) PROVE WInv'
  BY <1>7, GniAtomicKeeps
<1>8. ASSUME NEW t \in Threads, NNTI_ib_cancel(t) \/ NNTI_ib_wait(t) \/ NNTI_gni_wait(t) \/ IbPolls(t) \/ GniPolls(t)
      PROVE  WInv'
  BY <1>8, StatesKeep DEF NNTI_ib_wait, NNTI_gni_wait
<1>9. ASSUME NEW t \in Threads, IbReturns(t) \/ GniReturns(t) PROVE WInv'
  BY <1>9, ReturnsKeep DEF IbReturns, GniReturns, ib
<1>10. ASSUME NEW i \in DOMAIN posted, Moves(i) \/ Flushes(i) \/ Fails(i) PROVE WInv'
  BY <1>10, FinishKeeps DEF Moves, Flushes, Fails
<1>. QED
  BY <1>1, <1>2, <1>3, <1>4, <1>5, <1>6, <1>7, <1>8, <1>9, <1>10
     DEF Next, NNTI_ib_put, PutChunk, PutPosts, NNTI_ib_get, GetChunk, GetPosts,
         NNTI_ib_atomic_fop, NNTI_ib_atomic_cswap, NNTI_gni_atomic_fop, NNTI_gni_atomic_cswap,
         NNTI_gni_put, GniPutPost, NNTI_gni_get, GniGetPost

(* From the first key, 0, on: each key that a chunk carries is entered and names the work request of the
   chunk's thread until its wait has returned, also if calloc gives the memory of a work request out again
   after it was freed; but for key 0 on InfiniBand, once a segmented transfer has returned. *)
THEOREM KeysAreInductive == ASSUME Plain PROVE Spec => []WInv
<1>1. Init => WInv
  BY InitWInv
<1>2. WInv /\ [Next]_vars => WInv'
  BY NextWInv
<1>. QED  BY <1>1, <1>2, PTL DEF Spec

(* The completion of a transfer in progress finds its work request (decode_work_request, decode_sge):
   neither the return of another transfer nor the work request of another has taken its key, unless that is
   0 and a segmented transfer has returned. *)
THEOREM CompletionsFindTheirs == ASSUME Plain PROVE Spec => []CompletionsFindTheirWorkRequest
<1>1. WInv => CompletionsFindTheirWorkRequest
  <2>. SUFFICES ASSUME WInv, NEW c \in Range(cq), InProgress(c.of)
                PROVE  \/ c.key \in DOMAIN keys /\ keys[c.key] = wr[c.of].mem
                       \/ c.key = 0 /\ ZeroErased
    BY DEF CompletionsFindTheirWorkRequest
  <2>1. Linked(c) /\ c.of \in Live
    BY DEF WInv, ChunksAreLinked, Linked, InProgress, Live, Begun
  <2>. QED  BY <2>1 DEF Linked, Finds, Names
<1>. QED  BY <1>1, KeysAreInductive, PTL
===============================================================================
