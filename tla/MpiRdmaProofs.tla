---------------------------- MODULE MpiRdmaProofs ----------------------------
(***************************************************************************)
(* The one-sided transfers of the MPI transport, for any ranks, buffers,   *)
(* puts, gets and timeouts: they never start an MPI request that is        *)
(* active, they implement OneSided, and they lose and invent no event.     *)
(* The second half of the module has the invariant of the last two: which  *)
(* command, data message and receive belong to which operation.            *)
(***************************************************************************)
EXTENDS MpiRdma, FiniteSetTheorems, SequenceTheorems, WellFoundedInduction, TLAPS

\* The requests of transfers and targets.
Handles == (Ops \union Targets) \X {"cmd", "data"}
Active(q) == request[q] = "active"

Channels == Ranks \X Ports
IsSeq(s) == s \in Seq(Range(s))

\* The message, or the receive, that a request was started for.
IsSent(q, ch, i) == i \in DOMAIN sends[ch] /\ sends[ch][i].req = q
IsReceive(q, p, i) == i \in DOMAIN recvs[p] /\ recvs[p][i].rcv.req = q

\* A request that is active has one of either.
OneEach ==
    \A q \in Handles :
        /\ \A ch \in Channels : \A i : IsSent(q, ch, i) => Active(q)
        /\ \A p \in Ports : \A i : IsReceive(q, p, i) => Active(q)
        /\ Active(q) => \/ \E ch \in Channels : \E i : IsSent(q, ch, i)
                        \/ \E p \in Ports : \E i : IsReceive(q, p, i)
        /\ \A ch, dh \in Channels : \A i, j : IsSent(q, ch, i) /\ IsSent(q, dh, j) => ch = dh /\ i = j
        /\ \A p, r \in Ports : \A i, j : IsReceive(q, p, i) /\ IsReceive(q, r, j) => p = r /\ i = j
        /\ \A ch \in Channels, p \in Ports : \A i, j : ~(IsSent(q, ch, i) /\ IsReceive(q, p, j))

States == {"unposted", "init", "cmd_done", "done", "freed"}

Typed ==
    /\ DOMAIN sends = Channels /\ \A ch \in Channels : IsSeq(sends[ch])
    /\ DOMAIN recvs = Ports /\ \A p \in Ports : IsSeq(recvs[p])
    /\ DOMAIN phase = Wrs /\ \A w \in Wrs : phase[w] \in States
    /\ \A b \in Targets : phase[b] \in {"init", "cmd_done", "done"}
    /\ DOMAIN request = Wrs \X {"cmd", "data"}
    /\ DOMAIN cmd_msg = Targets
    /\ DOMAIN wr_queue = Buffers

\* A buffer's work requests are of the buffer, and that of a target is among them.
Queued ==
    /\ \A b \in Buffers : IsSeq(wr_queue[b])
    /\ \A b \in Buffers : \A w \in Range(wr_queue[b]) : w = b \/ (w \in Ops /\ OpOf[w].local = b)
    /\ \A b \in Targets : b \in Range(wr_queue[b])

\* A get says where to send its data.
IsCommand(c) == c.op = "get" => c.port \in Ports /\ c.port \in {GetPort(b) : b \in Buffers}

\* A target receives commands and sends none.
IsOfSend(q) == q \in Handles /\ \A b \in Targets : q # <<b, "cmd">>

\* Commands go to the ports of commands, and are received there.
Commands ==
    /\ \A ch \in Channels : \A i \in DOMAIN sends[ch] : IsOfSend(sends[ch][i].req)
    /\ \A b \in Targets : \A r \in Ranks : \A i \in DOMAIN sends[<<r, CmdPort(b)>>] :
            IsCommand(sends[<<r, CmdPort(b)>>][i].data)
    /\ \A p \in Ports : \A i \in DOMAIN recvs[p] :
            /\ recvs[p][i].rcv.req \in Handles
            /\ \A b \in Targets :
                 recvs[p][i].rcv.req = <<b, "cmd">> => p = CmdPort(b) /\ recvs[p][i].rcv.into = NONE
    /\ \A b \in Targets : phase[b] = "init" /\ ~Active(<<b, "cmd">>) => IsCommand(cmd_msg[b].cmd)

\* Of what is not under way, and of what comes next, no request is active.
Inactive ==
    /\ \A o \in Ops : phase[o] = "unposted" => ~Active(<<o, "cmd">>) /\ ~Active(<<o, "data">>)
    /\ \A b \in Targets : /\ phase[b] \in {"init", "done"} => ~Active(<<b, "data">>)
                          /\ phase[b] \in {"cmd_done", "done"} => ~Active(<<b, "cmd">>)

\* The work requests that a thread deals with.
Own(t, w) ==
    \/ w \in Ops /\ OpOf[w].thread = t
    \/ w \in Targets /\ OwnerOf[w] = RankOf[t]

\* No request comes in.
NoRequests == phase[QUEUE] = "init" /\ Active(<<QUEUE, "cmd">>)

\* What a thread in a call has to do with its work request.
InCall(t) ==
    LET w == thread[t].wr
        pc == thread[t].pc
    IN  /\ DOMAIN thread[t] = {"pc", "wr", "timeout", "cursor", "progressed"}
        /\ thread[t].cursor \in Nat \ {0}
        /\ pc \in {"idle", "put", "get", "check", "test", "event", "finish"}
        /\ pc # "idle" => Own(t, w) \/ (w = QUEUE /\ pc \in {"check", "test"})
        /\ pc = "put" => w \in Ops /\ OpOf[w].kind = "put" /\ phase[w] # "unposted" /\ ~Active(<<w, "data">>)
        /\ pc = "get" => w \in Ops /\ OpOf[w].kind = "get" /\ phase[w] # "unposted" /\ ~Active(<<w, "cmd">>)
        /\ pc = "event" => ~Active(Current(w))
        /\ pc = "finish" /\ w \in Targets => phase[w] = "done"

Core == Typed /\ OneEach /\ Queued /\ Commands /\ Inactive /\ NoRequests
InCalls == DOMAIN thread = Threads /\ \A t \in Threads : InCall(t)

RInv == Core /\ InCalls

-----------------------------------------------------------------------------
(* Sequences of anything.                                                  *)

(* Of some natural numbers one is the least. *)
LEMMA Least == ASSUME NEW S, S \subseteq Nat, S # {} PROVE \E n \in S : \A m \in S : n <= m
<1>1. PICK n \in S : \A m \in S : ~(<<m, n>> \in OpToRel(<, Nat))
  BY WFMin, NatLessThanWellFounded
<1>2. ASSUME NEW m \in S PROVE n <= m
  <2>1. ~(m < n)
    BY <1>1 DEF OpToRel
  <2>. QED  BY <2>1
<1>. QED  BY <1>2

(* A sequence over any set is one over its own elements. *)
LEMMA AnySeq == ASSUME NEW S, NEW s \in Seq(S) PROVE IsSeq(s)
BY SeqOfRange DEF IsSeq

(* The indexes of a sequence. *)
LEMMA SeqIndexes == ASSUME NEW s, IsSeq(s) PROVE Len(s) \in Nat /\ DOMAIN s = 1 .. Len(s)
BY LenProperties DEF IsSeq

(* What is appended comes last. *)
LEMMA Appended ==
    ASSUME NEW s, IsSeq(s), NEW x
    PROVE  /\ IsSeq(Append(s, x)) /\ DOMAIN Append(s, x) = 1 .. Len(s) + 1
           /\ \A i \in DOMAIN s : Append(s, x)[i] = s[i]
           /\ Append(s, x)[Len(s) + 1] = x
           /\ Range(Append(s, x)) = Range(s) \union {x}
<1>. DEFINE S == Range(s) \union {x}
            a == Append(s, x)
<1>1. s \in Seq(S) /\ x \in S /\ Len(s) \in Nat /\ DOMAIN s = 1 .. Len(s)
  BY SeqMonotonic, SeqIndexes DEF IsSeq
<1>. HIDE DEF S
<1>2. /\ a \in Seq(S) /\ Len(a) = Len(s) + 1
      /\ \A i \in 1 .. Len(s) : a[i] = s[i]
      /\ a[Len(s) + 1] = x
  BY <1>1, AppendProperties
<1>3. DOMAIN a = 1 .. Len(s) + 1
  BY <1>2, LenProperties
<1>. HIDE DEF a
<1>4. Range(a) = Range(s) \union {x}
  <2>1. ASSUME NEW y \in Range(a) PROVE y \in Range(s) \union {x}
    <3>1. PICK i \in DOMAIN a : y = a[i]
      BY DEF Range
    <3>. QED  BY <3>1, <1>1, <1>2, <1>3 DEF Range
  <2>2. ASSUME NEW y \in Range(s) PROVE y \in Range(a)
    <3>1. PICK i \in DOMAIN s : y = s[i]
      BY DEF Range
    <3>2. i \in DOMAIN a /\ a[i] = y
      BY <3>1, <1>1, <1>2, <1>3
    <3>. QED  BY <3>2 DEF Range
  <2>3. x \in Range(a)
    BY <1>1, <1>2, <1>3 DEF Range
  <2>. QED  BY <2>1, <2>2, <2>3
<1>. QED  BY <1>1, <1>2, <1>3, <1>4, AnySeq DEF a

(* What is left of a sequence when its first element is taken. *)
LEMMA Tailed ==
    ASSUME NEW s, IsSeq(s), s # <<>>
    PROVE  /\ IsSeq(Tail(s)) /\ DOMAIN Tail(s) = 1 .. Len(s) - 1
           /\ 1 \in DOMAIN s /\ Head(s) = s[1]
           /\ \A i \in DOMAIN Tail(s) : i + 1 \in DOMAIN s /\ Tail(s)[i] = s[i + 1]
<1>1. s \in Seq(Range(s)) /\ Len(s) \in Nat /\ DOMAIN s = 1 .. Len(s)
  BY SeqIndexes DEF IsSeq
<1>2. /\ Head(s) = s[1] /\ Tail(s) \in Seq(Range(s)) /\ Len(Tail(s)) = Len(s) - 1
      /\ \A i \in 1 .. Len(Tail(s)) : Tail(s)[i] = s[i + 1]
  BY <1>1, HeadTailProperties
<1>3. DOMAIN Tail(s) = 1 .. Len(s) - 1 /\ IsSeq(Tail(s))
  BY <1>2, LenProperties, AnySeq
<1>4. Len(s) > 0
  BY <1>1, EmptySeq
<1>. QED  BY <1>1, <1>2, <1>3, <1>4

(* What is left of a sequence when an element is removed. *)
LEMMA Removed ==
    ASSUME NEW s, IsSeq(s), NEW k \in DOMAIN s
    PROVE  /\ IsSeq(RemoveAt(s, k)) /\ DOMAIN RemoveAt(s, k) = 1 .. Len(s) - 1
           /\ \A i \in DOMAIN RemoveAt(s, k) :
                RemoveAt(s, k)[i] = (IF i < k THEN s[i] ELSE s[i + 1])
<1>. DEFINE S == Range(s)
            a == SubSeq(s, 1, k - 1)
            b == SubSeq(s, k + 1, Len(s))
<1>1. s \in Seq(S) /\ Len(s) \in Nat /\ DOMAIN s = 1 .. Len(s) /\ k \in 1 .. Len(s)
  BY SeqIndexes DEF IsSeq
<1>. HIDE DEF S
<1>2. a \in Seq(S) /\ Len(a) = k - 1 /\ \A i \in 1 .. k - 1 : a[i] = s[i]
  <2>1. 1 \in Int /\ k - 1 \in Int /\ \A i \in 1 .. k - 1 : s[i] \in S
    BY <1>1, ElementOfSeq
  <2>2. /\ a \in Seq(S)
        /\ Len(a) = (IF 1 <= k - 1 THEN k - 1 - 1 + 1 ELSE 0)
        /\ \A i \in 1 .. k - 1 - 1 + 1 : a[i] = s[1 + i - 1]
    BY <2>1, SubSeqProperties
  <2>. HIDE DEF a
  <2>. QED  BY <1>1, <2>2
<1>3. b \in Seq(S) /\ Len(b) = Len(s) - k /\ \A i \in 1 .. Len(s) - k : b[i] = s[k + i]
  <2>1. k + 1 \in Int /\ Len(s) \in Int /\ \A i \in k + 1 .. Len(s) : s[i] \in S
    BY <1>1, ElementOfSeq
  <2>2. /\ b \in Seq(S)
        /\ Len(b) = (IF k + 1 <= Len(s) THEN Len(s) - (k + 1) + 1 ELSE 0)
        /\ \A i \in 1 .. Len(s) - (k + 1) + 1 : b[i] = s[k + 1 + i - 1]
    BY <2>1, SubSeqProperties, SMTT(30)
  <2>. HIDE DEF b
  <2>3. Len(s) - (k + 1) + 1 = Len(s) - k /\ \A i \in 1 .. Len(s) - k : k + 1 + i - 1 = k + i
    BY <1>1
  <2>. QED  BY <1>1, <2>2, <2>3
<1>4. RemoveAt(s, k) = a \o b
  BY DEF RemoveAt
<1>. HIDE DEF a, b
<1>5. /\ a \o b \in Seq(S) /\ Len(a \o b) = Len(s) - 1
      /\ \A i \in 1 .. Len(s) - 1 : (a \o b)[i] = IF i <= Len(a) THEN a[i] ELSE b[i - Len(a)]
  <2>1. /\ a \o b \in Seq(S) /\ Len(a \o b) = Len(a) + Len(b)
        /\ \A i \in 1 .. Len(a) + Len(b) : (a \o b)[i] = IF i <= Len(a) THEN a[i] ELSE b[i - Len(a)]
    BY <1>2, <1>3, ConcatProperties
  <2>2. Len(a) + Len(b) = Len(s) - 1
    BY <1>1, <1>2, <1>3
  <2>. QED  BY <2>1, <2>2
<1>6. DOMAIN (a \o b) = 1 .. Len(s) - 1 /\ IsSeq(a \o b)
  BY <1>5, LenProperties, AnySeq
<1>7. ASSUME NEW i \in 1 .. Len(s) - 1 PROVE (a \o b)[i] = (IF i < k THEN s[i] ELSE s[i + 1])
  <2>1. CASE i < k
    <3>1. i <= Len(a) /\ i \in 1 .. k - 1
      BY <2>1, <1>1, <1>2
    <3>. QED  BY <3>1, <2>1, <1>2, <1>5
  <2>2. CASE ~(i < k)
    <3>1. ~(i <= Len(a)) /\ i - Len(a) \in 1 .. Len(s) - k /\ k + (i - Len(a)) = i + 1
      BY <2>2, <1>1, <1>2
    <3>2. b[i - Len(a)] = s[i + 1]
      BY <3>1, <1>3
    <3>. QED  BY <3>1, <3>2, <2>2, <1>5
  <2>. QED  BY <2>1, <2>2
<1>. QED  BY <1>4, <1>6, <1>7

(* When an element is removed by its value, the others stay. *)
LEMMA RemovedFirst ==
    ASSUME NEW s, IsSeq(s), NEW e
    PROVE  /\ IsSeq(RemoveFirst(s, e)) /\ Range(RemoveFirst(s, e)) \subseteq Range(s)
           /\ \A x \in Range(s) : x # e => x \in Range(RemoveFirst(s, e))
<1>1. Len(s) \in Nat /\ DOMAIN s = 1 .. Len(s)
  BY SeqIndexes
<1>2. CASE ~\E i \in 1 .. Len(s) : s[i] = e
  BY <1>2 DEF RemoveFirst
<1>3. CASE \E i \in 1 .. Len(s) : s[i] = e
  <2>. DEFINE I == {i \in 1 .. Len(s) : s[i] = e}
              k == CHOOSE n \in I : \A m \in I : n <= m
  <2>1. k \in I
    <3>1. I \subseteq Nat /\ I # {}
      BY <1>1, <1>3
    <3>. HIDE DEF I
    <3>. QED  BY <3>1, Least
  <2>2. SelectInSeq(s, LAMBDA v : v = e) = k
    BY <1>3 DEF SelectInSeq, Min
  <2>3. RemoveFirst(s, e) = RemoveAt(s, k)
    BY <1>3, <2>2 DEF RemoveFirst
  <2>4. k \in DOMAIN s /\ s[k] = e
    BY <1>1, <2>1
  <2>. HIDE DEF I, k
  <2>. DEFINE r == RemoveAt(s, k)
  <2>5. /\ IsSeq(r) /\ DOMAIN r = 1 .. Len(s) - 1
        /\ \A i \in DOMAIN r : r[i] = (IF i < k THEN s[i] ELSE s[i + 1])
    BY <2>4, Removed
  <2>. HIDE DEF r
  <2>6. ASSUME NEW x \in Range(r) PROVE x \in Range(s)
    <3>1. PICK i \in DOMAIN r : x = r[i]
      BY DEF Range
    <3>2. i \in DOMAIN s /\ i + 1 \in DOMAIN s
      BY <3>1, <2>5, <1>1
    <3>. QED  BY <3>1, <3>2, <2>5 DEF Range
  <2>7. ASSUME NEW x \in Range(s), x # e PROVE x \in Range(r)
    <3>1. PICK i \in DOMAIN s : x = s[i]
      BY DEF Range
    <3>2. CASE i < k
      <4>1. i \in DOMAIN r /\ r[i] = x
        BY <3>1, <3>2, <2>4, <2>5, <1>1
      <4>. QED  BY <4>1 DEF Range
    <3>3. CASE ~(i < k)
      <4>1. i # k
        BY <3>1, <2>4, <2>7
      <4>2. i - 1 \in DOMAIN r /\ ~(i - 1 < k)
        BY <3>3, <4>1, <2>4, <2>5, <1>1
      <4>3. r[i - 1] = s[i - 1 + 1] /\ i - 1 + 1 = i
        BY <4>2, <2>5, <1>1
      <4>. QED  BY <4>2, <4>3, <3>1 DEF Range
    <3>. QED  BY <3>2, <3>3
  <2>. QED  BY <2>3, <2>5, <2>6, <2>7 DEF r
<1>. QED  BY <1>2, <1>3

-----------------------------------------------------------------------------
(* Requests.                                                               *)

(* Counting up to n. *)
LEMMA Upto == ASSUME NEW n \in Nat \ {0}, NEW i PROVE i \in 1 .. n <=> i \in 1 .. n - 1 \/ i = n
OBVIOUS

(* Transfers, targets and the receive queue are different. *)
LEMMA Kinds ==
    /\ Ops \subseteq Wrs /\ Targets \subseteq Wrs /\ Targets \subseteq Buffers
    /\ Ops \cap Targets = {} /\ QUEUE \notin Ops /\ QUEUE \notin Targets
    /\ \A w \in Wrs : w \in Ops \/ w \in Targets \/ w = QUEUE
    /\ \A r \in Ranks : /\ Len(TargetBuffers[r]) \in Nat
                        /\ \A i \in 1 .. Len(TargetBuffers[r]) :
                             TargetBuffers[r][i] \in Targets /\ OwnerOf[TargetBuffers[r][i]] = r
<1>1. ASSUME NEW r \in Ranks
      PROVE  /\ Len(TargetBuffers[r]) \in Nat
             /\ \A i \in 1 .. Len(TargetBuffers[r]) :
                  TargetBuffers[r][i] \in Range(TargetBuffers[r]) /\ TargetBuffers[r][i] \in Buffers
                  /\ OwnerOf[TargetBuffers[r][i]] = r
             /\ Range(TargetBuffers[r]) \subseteq Buffers
  <2>. DEFINE s == TargetBuffers[r]
              S == {b \in Buffers : OwnerOf[b] = r}
  <2>1. s \in Seq(S)
    BY Assumptions DEF Assumptions
  <2>2. Len(s) \in Nat /\ DOMAIN s = 1 .. Len(s) /\ \A i \in 1 .. Len(s) : s[i] \in S
    BY <2>1, LenProperties, ElementOfSeq
  <2>3. \A i \in 1 .. Len(s) : s[i] \in Range(s)
    BY <2>2 DEF Range
  <2>4. \A b \in Range(s) : b \in Buffers
    BY <2>2 DEF Range
  <2>. QED  BY <2>2, <2>3, <2>4
<1>2. Targets \subseteq Buffers
  BY <1>1 DEF Targets
<1>3. \A r \in Ranks : Range(TargetBuffers[r]) \subseteq Targets
  BY DEF Targets
<1>. QED  BY <1>1, <1>2, <1>3, Assumptions DEF Assumptions, Wrs

(* A request that is not active may be started with a send. *)
LEMMA StartsSend ==
    ASSUME Typed, OneEach, NEW q \in Handles, ~Active(q), NEW ch \in Channels, NEW m, m.req = q,
           sends' = [sends EXCEPT ![ch] = Append(@, m)], recvs' = recvs,
           \A x \in Handles : Active(x)' <=> x = q \/ Active(x)
    PROVE  /\ OneEach'
           /\ DOMAIN sends' = Channels /\ \A c \in Channels : IsSeq(sends'[c])
           /\ \A c \in Channels : \A i \in DOMAIN sends'[c] :
                (i \in DOMAIN sends[c] /\ sends'[c][i] = sends[c][i]) \/ (c = ch /\ sends'[c][i] = m)
<1>. DEFINE n == Len(sends[ch]) + 1
<1>1. /\ DOMAIN sends' = Channels /\ sends'[ch] = Append(sends[ch], m)
      /\ \A c \in Channels : c # ch => sends'[c] = sends[c]
      /\ \A c \in Channels : IsSeq(sends[c])
  BY DEF Typed
<1>2. /\ IsSeq(sends'[ch]) /\ DOMAIN sends'[ch] = 1 .. n
      /\ \A i \in DOMAIN sends[ch] : sends'[ch][i] = sends[ch][i]
      /\ sends'[ch][n] = m
      /\ DOMAIN sends[ch] = 1 .. n - 1 /\ n \in Nat \ {0}
  BY <1>1, Appended, SeqIndexes
<1>. HIDE DEF n
<1>3. ASSUME NEW x, NEW c \in Channels, NEW i
      PROVE  IsSent(x, c, i)' <=> IsSent(x, c, i) \/ (x = q /\ c = ch /\ i = n)
  <2>1. CASE c # ch
    BY <2>1, <1>1 DEF IsSent
  <2>2. CASE c = ch
    <3>1. i \in DOMAIN sends'[ch] <=> i \in DOMAIN sends[ch] \/ i = n
      <4>1. i \in 1 .. n <=> i \in 1 .. n - 1 \/ i = n
        BY <1>2, Upto
      <4>. QED  BY <1>2, <4>1
    <3>2. n \notin DOMAIN sends[ch]
      BY <1>2
    <3>. QED  BY <2>2, <3>1, <3>2, <1>2 DEF IsSent
  <2>. QED  BY <2>1, <2>2
<1>4. \A x, p, i : IsReceive(x, p, i)' <=> IsReceive(x, p, i)
  BY DEF IsReceive
<1>5. /\ \A c \in Channels : \A i : ~IsSent(q, c, i)
      /\ \A p \in Ports : \A i : ~IsReceive(q, p, i)
  BY DEF OneEach
<1>6. OneEach'
  <2>. SUFFICES ASSUME NEW x \in Handles
       PROVE /\ \A c \in Channels : \A i : IsSent(x, c, i)' => Active(x)'
             /\ \A p \in Ports : \A i : IsReceive(x, p, i)' => Active(x)'
             /\ Active(x)' => \/ \E c \in Channels : \E i : IsSent(x, c, i)'
                              \/ \E p \in Ports : \E i : IsReceive(x, p, i)'
             /\ \A c, d \in Channels : \A i, j : IsSent(x, c, i)' /\ IsSent(x, d, j)' => c = d /\ i = j
             /\ \A p, r \in Ports : \A i, j : IsReceive(x, p, i)' /\ IsReceive(x, r, j)' => p = r /\ i = j
             /\ \A c \in Channels, p \in Ports : \A i, j : ~(IsSent(x, c, i)' /\ IsReceive(x, p, j)')
    BY DEF OneEach
  <2>1. CASE x = q
    <3>1. \A c \in Channels : \A i : IsSent(x, c, i)' <=> c = ch /\ i = n
      BY <2>1, <1>3, <1>5
    <3>2. \A p \in Ports : \A i : ~IsReceive(x, p, i)'
      BY <2>1, <1>4, <1>5
    <3>3. Active(x)'
      BY <2>1
    <3>. QED  BY <3>1, <3>2, <3>3
  <2>2. CASE x # q
    BY <2>2, <1>3, <1>4 DEF OneEach
  <2>. QED  BY <2>1, <2>2
<1>7. \A c \in Channels : IsSeq(sends'[c])
  BY <1>1, <1>2
<1>8. ASSUME NEW c \in Channels, NEW i \in DOMAIN sends'[c]
      PROVE  (i \in DOMAIN sends[c] /\ sends'[c][i] = sends[c][i]) \/ (c = ch /\ sends'[c][i] = m)
  <2>1. CASE c = ch
    <3>1. i \in DOMAIN sends[ch] \/ i = n
      BY <2>1, <1>8, <1>2
    <3>. QED  BY <2>1, <3>1, <1>2
  <2>. QED  BY <2>1, <1>1, <1>8
<1>. QED  BY <1>1, <1>6, <1>7, <1>8

(* Or with a receive. *)
LEMMA StartsReceive ==
    ASSUME Typed, OneEach, NEW q \in Handles, ~Active(q), NEW p \in Ports, NEW m, m.rcv.req = q,
           recvs' = [recvs EXCEPT ![p] = Append(@, m)], sends' = sends,
           \A x \in Handles : Active(x)' <=> x = q \/ Active(x)
    PROVE  /\ OneEach'
           /\ DOMAIN recvs' = Ports /\ \A r \in Ports : IsSeq(recvs'[r])
           /\ \A r \in Ports : \A i \in DOMAIN recvs'[r] :
                (i \in DOMAIN recvs[r] /\ recvs'[r][i] = recvs[r][i]) \/ (r = p /\ recvs'[r][i] = m)
<1>. DEFINE n == Len(recvs[p]) + 1
<1>1. /\ DOMAIN recvs' = Ports /\ recvs'[p] = Append(recvs[p], m)
      /\ \A r \in Ports : r # p => recvs'[r] = recvs[r]
      /\ \A r \in Ports : IsSeq(recvs[r])
  BY DEF Typed
<1>2. /\ IsSeq(recvs'[p]) /\ DOMAIN recvs'[p] = 1 .. n
      /\ \A i \in DOMAIN recvs[p] : recvs'[p][i] = recvs[p][i]
      /\ recvs'[p][n] = m
      /\ DOMAIN recvs[p] = 1 .. n - 1 /\ n \in Nat \ {0}
  BY <1>1, Appended, SeqIndexes
<1>. HIDE DEF n
<1>3. ASSUME NEW x, NEW r \in Ports, NEW i
      PROVE  IsReceive(x, r, i)' <=> IsReceive(x, r, i) \/ (x = q /\ r = p /\ i = n)
  <2>1. CASE r # p
    BY <2>1, <1>1 DEF IsReceive
  <2>2. CASE r = p
    <3>1. i \in DOMAIN recvs'[p] <=> i \in DOMAIN recvs[p] \/ i = n
      <4>1. i \in 1 .. n <=> i \in 1 .. n - 1 \/ i = n
        BY <1>2, Upto
      <4>. QED  BY <1>2, <4>1
    <3>2. n \notin DOMAIN recvs[p]
      BY <1>2
    <3>. QED  BY <2>2, <3>1, <3>2, <1>2 DEF IsReceive
  <2>. QED  BY <2>1, <2>2
<1>4. \A x, c, i : IsSent(x, c, i)' <=> IsSent(x, c, i)
  BY DEF IsSent
<1>5. /\ \A c \in Channels : \A i : ~IsSent(q, c, i)
      /\ \A r \in Ports : \A i : ~IsReceive(q, r, i)
  BY DEF OneEach
<1>6. OneEach'
  <2>. SUFFICES ASSUME NEW x \in Handles
       PROVE /\ \A c \in Channels : \A i : IsSent(x, c, i)' => Active(x)'
             /\ \A r \in Ports : \A i : IsReceive(x, r, i)' => Active(x)'
             /\ Active(x)' => \/ \E c \in Channels : \E i : IsSent(x, c, i)'
                              \/ \E r \in Ports : \E i : IsReceive(x, r, i)'
             /\ \A c, d \in Channels : \A i, j : IsSent(x, c, i)' /\ IsSent(x, d, j)' => c = d /\ i = j
             /\ \A r, u \in Ports : \A i, j : IsReceive(x, r, i)' /\ IsReceive(x, u, j)' => r = u /\ i = j
             /\ \A c \in Channels, r \in Ports : \A i, j : ~(IsSent(x, c, i)' /\ IsReceive(x, r, j)')
    BY DEF OneEach
  <2>1. CASE x = q
    <3>1. \A r \in Ports : \A i : IsReceive(x, r, i)' <=> r = p /\ i = n
      BY <2>1, <1>3, <1>5
    <3>2. \A c \in Channels : \A i : ~IsSent(x, c, i)'
      BY <2>1, <1>4, <1>5
    <3>3. Active(x)'
      BY <2>1
    <3>. QED  BY <3>1, <3>2, <3>3
  <2>2. CASE x # q
    BY <2>2, <1>3, <1>4 DEF OneEach
  <2>. QED  BY <2>1, <2>2
<1>7. \A r \in Ports : IsSeq(recvs'[r])
  BY <1>1, <1>2
<1>8. ASSUME NEW r \in Ports, NEW i \in DOMAIN recvs'[r]
      PROVE  (i \in DOMAIN recvs[r] /\ recvs'[r][i] = recvs[r][i]) \/ (r = p /\ recvs'[r][i] = m)
  <2>1. CASE r = p
    <3>1. i \in DOMAIN recvs[p] \/ i = n
      BY <2>1, <1>8, <1>2
    <3>. QED  BY <2>1, <3>1, <1>2
  <2>. QED  BY <2>1, <1>1, <1>8
<1>. QED  BY <1>1, <1>6, <1>7, <1>8

(* Nothing is started when no message, no receive and no activity changes. *)
LEMMA StartsNothing ==
    ASSUME OneEach, UNCHANGED fabric, \A x \in Handles : Active(x)' <=> Active(x)
    PROVE  OneEach'
<1>1. /\ \A x, c, i : IsSent(x, c, i)' <=> IsSent(x, c, i)
      /\ \A x, p, i : IsReceive(x, p, i)' <=> IsReceive(x, p, i)
  BY DEF IsSent, IsReceive, fabric
<1>. QED  BY <1>1 DEF OneEach

-----------------------------------------------------------------------------
(* Steps.                                                                  *)

(* The library takes a message and a receive that are there, and both requests are done. *)
LEMMA TransferKeeps ==
    ASSUME RInv, NEW from \in Ranks, NEW port \in Ports, Transfer(from, port)
    PROVE  RInv'
<1>. DEFINE ch == <<from, port>>
            s == sends[ch]
            p == recvs[port]
            k == FirstFitting(from, port)
            msg == s[1]
            rcv == p[k].rcv
<1>1. /\ ch \in Channels /\ s # <<>> /\ Fitting(from, port) # {}
      /\ sends' = [sends EXCEPT ![ch] = Tail(s)]
      /\ recvs' = [recvs EXCEPT ![port] = RemoveAt(p, k)]
      /\ UNCHANGED <<phase, last_op, wr_queue, thread, events>>
  BY DEF Transfer, Matchable, Matched, Channels
<1>2. IsSeq(s) /\ IsSeq(p) /\ DOMAIN sends = Channels /\ DOMAIN recvs = Ports
  BY <1>1 DEF RInv, Core, Typed
<1>3. /\ IsSeq(Tail(s)) /\ 1 \in DOMAIN s /\ Head(s) = s[1]
      /\ \A i \in DOMAIN Tail(s) : i + 1 \in DOMAIN s /\ Tail(s)[i] = s[i + 1]
      /\ DOMAIN Tail(s) = 1 .. Len(s) - 1 /\ DOMAIN s = 1 .. Len(s) /\ Len(s) \in Nat
  BY <1>1, <1>2, Tailed, SeqIndexes
<1>4. k \in DOMAIN p /\ DOMAIN p = 1 .. Len(p) /\ Len(p) \in Nat
  <2>1. DOMAIN p = 1 .. Len(p) /\ Len(p) \in Nat
    BY <1>2, SeqIndexes
  <2>. DEFINE F == Fitting(from, port)
  <2>2. F \subseteq DOMAIN p
    BY DEF Fitting
  <2>3. k = CHOOSE i \in F : \A j \in F : i <= j
    BY DEF FirstFitting
  <2>. HIDE DEF F, k
  <2>4. F \subseteq Nat /\ F # {}
    BY <1>1, <2>1, <2>2 DEF F
  <2>5. \E i \in F : \A j \in F : i <= j
    BY <2>4, Least
  <2>6. k \in F
    BY <2>3, <2>5
  <2>. QED  BY <2>1, <2>2, <2>6
<1>5. /\ IsSeq(RemoveAt(p, k)) /\ DOMAIN RemoveAt(p, k) = 1 .. Len(p) - 1
      /\ \A i \in DOMAIN RemoveAt(p, k) : RemoveAt(p, k)[i] = (IF i < k THEN p[i] ELSE p[i + 1])
  BY <1>2, <1>4, Removed
<1>6. /\ request' = [request EXCEPT ![msg.req] = "done", ![rcv.req] = "done"]
      /\ IF rcv.into = NONE
         THEN cmd_msg' = [cmd_msg EXCEPT ![rcv.req[1]] = [from |-> from, cmd |-> msg.data]]
         ELSE UNCHANGED cmd_msg
  BY <1>3 DEF Transfer, MatchedMessage, MatchedReceive
<1>. DEFINE t == Tail(s)
            d == RemoveAt(p, k)
<1>7. /\ sends'[ch] = t /\ \A c \in Channels : c # ch => sends'[c] = sends[c]
      /\ recvs'[port] = d /\ \A r \in Ports : r # port => recvs'[r] = recvs[r]
      /\ DOMAIN sends' = Channels /\ DOMAIN recvs' = Ports
  BY <1>1, <1>2
<1>. HIDE DEF t, d, ch, k
<1>8. \A x \in Handles : Active(x)' <=> Active(x) /\ x # msg.req /\ x # rcv.req
  <2>1. \A x \in Handles : x \in DOMAIN request
    BY Kinds DEF RInv, Core, Typed, Handles
  <2>. QED  BY <2>1, <1>6 DEF Active
<1>9. ASSUME NEW x, NEW c \in Channels, NEW i
      PROVE  IsSent(x, c, i)' <=> IF c = ch THEN i \in 1 .. Len(s) - 1 /\ IsSent(x, c, i + 1) ELSE IsSent(x, c, i)
  <2>1. CASE c = ch
    <3>1. i \in DOMAIN t <=> i \in 1 .. Len(s) - 1
      BY <1>3 DEF t
    <3>2. i \in DOMAIN t => i + 1 \in DOMAIN s /\ t[i] = s[i + 1]
      BY <1>3 DEF t
    <3>. QED  BY <2>1, <3>1, <3>2, <1>7 DEF IsSent
  <2>2. CASE c # ch
    BY <2>2, <1>7 DEF IsSent
  <2>. QED  BY <2>1, <2>2
<1>10. ASSUME NEW x, NEW r \in Ports, NEW i
       PROVE  IsReceive(x, r, i)' <=>
                IF r = port THEN /\ i \in 1 .. Len(p) - 1
                                 /\ IF i < k THEN IsReceive(x, r, i) ELSE IsReceive(x, r, i + 1)
                            ELSE IsReceive(x, r, i)
  <2>1. CASE r = port
    <3>1. i \in DOMAIN d <=> i \in 1 .. Len(p) - 1
      BY <1>5 DEF d
    <3>2. i \in DOMAIN d => i \in DOMAIN p /\ i + 1 \in DOMAIN p /\ d[i] = (IF i < k THEN p[i] ELSE p[i + 1])
      BY <1>4, <1>5 DEF d
    <3>. QED  BY <2>1, <3>1, <3>2, <1>7 DEF IsReceive
  <2>2. CASE r # port
    BY <2>2, <1>7 DEF IsReceive
  <2>. QED  BY <2>1, <2>2
<1>11. IsSent(msg.req, ch, 1) /\ IsReceive(rcv.req, port, k)
  BY <1>3, <1>4 DEF IsSent, IsReceive
<1>12. OneEach'
  <2>. SUFFICES ASSUME NEW x \in Handles
       PROVE /\ \A c \in Channels : \A i : IsSent(x, c, i)' => Active(x)'
             /\ \A r \in Ports : \A i : IsReceive(x, r, i)' => Active(x)'
             /\ Active(x)' => \/ \E c \in Channels : \E i : IsSent(x, c, i)'
                              \/ \E r \in Ports : \E i : IsReceive(x, r, i)'
             /\ \A c, e \in Channels : \A i, j : IsSent(x, c, i)' /\ IsSent(x, e, j)' => c = e /\ i = j
             /\ \A r, u \in Ports : \A i, j : IsReceive(x, r, i)' /\ IsReceive(x, u, j)' => r = u /\ i = j
             /\ \A c \in Channels, r \in Ports : \A i, j : ~(IsSent(x, c, i)' /\ IsReceive(x, r, j)')
    BY DEF OneEach
  <2>1. /\ \A c \in Channels : \A i : IsSent(x, c, i) => Active(x)
        /\ \A r \in Ports : \A i : IsReceive(x, r, i) => Active(x)
        /\ Active(x) => \/ \E c \in Channels : \E i : IsSent(x, c, i)
                        \/ \E r \in Ports : \E i : IsReceive(x, r, i)
        /\ \A c, e \in Channels : \A i, j : IsSent(x, c, i) /\ IsSent(x, e, j) => c = e /\ i = j
        /\ \A r, u \in Ports : \A i, j : IsReceive(x, r, i) /\ IsReceive(x, u, j) => r = u /\ i = j
        /\ \A c \in Channels, r \in Ports : \A i, j : ~(IsSent(x, c, i) /\ IsReceive(x, r, j))
    BY DEF RInv, Core, OneEach
  <2>2. ASSUME NEW c \in Channels, NEW i, IsSent(x, c, i)'
        PROVE  /\ x # msg.req
               /\ \E j : IsSent(x, c, j) /\ (c = ch => i \in Int /\ j = i + 1) /\ (c # ch => j = i)
    <3>1. CASE c = ch
      <4>1. i \in 1 .. Len(s) - 1 /\ IsSent(x, c, i + 1) /\ i + 1 # 1
        BY <3>1, <2>2, <1>9, <1>3
      <4>. QED  BY <3>1, <4>1, <2>1, <1>11, <1>1
    <3>2. CASE c # ch
      BY <3>2, <2>2, <1>9, <2>1, <1>11, <1>1
    <3>. QED  BY <3>1, <3>2
  <2>3. ASSUME NEW r \in Ports, NEW i, IsReceive(x, r, i)'
        PROVE  /\ x # rcv.req
               /\ \E j : /\ IsReceive(x, r, j)
                         /\ r = port => i \in Int /\ j # k /\ j = (IF i < k THEN i ELSE i + 1)
                         /\ r # port => j = i
    <3>1. CASE r = port
      <4>. DEFINE j == IF i < k THEN i ELSE i + 1
      <4>1. i \in 1 .. Len(p) - 1 /\ IsReceive(x, r, j) /\ j # k
        BY <3>1, <2>3, <1>10, <1>4
      <4>. HIDE DEF j
      <4>2. x # rcv.req
        BY <3>1, <4>1, <2>1, <1>11
      <4>. QED  BY <3>1, <4>1, <4>2 DEF j
    <3>2. CASE r # port
      BY <3>2, <2>3, <1>10, <2>1, <1>11
    <3>. QED  BY <3>1, <3>2
  <2>4. ASSUME NEW c \in Channels, NEW i, IsSent(x, c, i), x # msg.req PROVE \E j : IsSent(x, c, j)'
    <3>1. CASE c = ch
      <4>1. i \in DOMAIN s /\ i # 1
        BY <3>1, <2>4 DEF IsSent
      <4>2. i - 1 \in 1 .. Len(s) - 1 /\ (i - 1) + 1 = i
        BY <4>1, <1>3
      <4>. QED  BY <3>1, <4>2, <2>4, <1>9
    <3>2. CASE c # ch
      BY <3>2, <2>4, <1>9
    <3>. QED  BY <3>1, <3>2
  <2>5. ASSUME NEW r \in Ports, NEW i, IsReceive(x, r, i), x # rcv.req PROVE \E j : IsReceive(x, r, j)'
    <3>1. CASE r = port
      <4>1. i \in DOMAIN p /\ i # k
        BY <3>1, <2>5 DEF IsReceive
      <4>2. CASE i < k
        <5>1. i \in 1 .. Len(p) - 1
          BY <4>1, <4>2, <1>4
        <5>. QED  BY <3>1, <4>2, <5>1, <2>5, <1>10
      <4>3. CASE ~(i < k)
        <5>1. i - 1 \in 1 .. Len(p) - 1 /\ ~(i - 1 < k) /\ (i - 1) + 1 = i
          BY <4>1, <4>3, <1>4
        <5>. QED  BY <3>1, <5>1, <2>5, <1>10
      <4>. QED  BY <4>2, <4>3
    <3>2. CASE r # port
      BY <3>2, <2>5, <1>10
    <3>. QED  BY <3>1, <3>2
  <2>6. \A c \in Channels, r \in Ports : \A i, j : ~(IsSent(x, c, i)' /\ IsReceive(x, r, j)')
    BY <2>1, <2>2, <2>3
  <2>7. \A c, e \in Channels : \A i, j : IsSent(x, c, i)' /\ IsSent(x, e, j)' => c = e /\ i = j
    <3>. SUFFICES ASSUME NEW c \in Channels, NEW e \in Channels, NEW i, NEW j, IsSent(x, c, i)', IsSent(x, e, j)'
                  PROVE  c = e /\ i = j
      OBVIOUS
    <3>1. PICK a : IsSent(x, c, a) /\ (c = ch => i \in Int /\ a = i + 1) /\ (c # ch => a = i)
      BY <2>2
    <3>2. PICK b : IsSent(x, e, b) /\ (e = ch => j \in Int /\ b = j + 1) /\ (e # ch => b = j)
      BY <2>2
    <3>3. c = e /\ a = b
      BY <3>1, <3>2, <2>1
    <3>. QED  BY <3>1, <3>2, <3>3
  <2>8. \A r, u \in Ports : \A i, j : IsReceive(x, r, i)' /\ IsReceive(x, u, j)' => r = u /\ i = j
    <3>. SUFFICES ASSUME NEW r \in Ports, NEW u \in Ports, NEW i, NEW j, IsReceive(x, r, i)', IsReceive(x, u, j)'
                  PROVE  r = u /\ i = j
      OBVIOUS
    <3>1. PICK a : /\ IsReceive(x, r, a)
                   /\ r = port => i \in Int /\ a # k /\ a = (IF i < k THEN i ELSE i + 1)
                   /\ r # port => a = i
      BY <2>3
    <3>2. PICK b : /\ IsReceive(x, u, b)
                   /\ u = port => j \in Int /\ b # k /\ b = (IF j < k THEN j ELSE j + 1)
                   /\ u # port => b = j
      BY <2>3
    <3>3. r = u /\ a = b
      BY <3>1, <3>2, <2>1
    <3>4. CASE r = port
      BY <3>1, <3>2, <3>3, <3>4, <1>4
    <3>5. CASE r # port
      BY <3>1, <3>2, <3>3, <3>5
    <3>. QED  BY <3>3, <3>4, <3>5
  <2>9. Active(x)' => \/ \E c \in Channels : \E i : IsSent(x, c, i)'
                      \/ \E r \in Ports : \E i : IsReceive(x, r, i)'
    BY <2>1, <2>4, <2>5, <1>8
  <2>10. /\ \A c \in Channels : \A i : IsSent(x, c, i)' => Active(x)'
         /\ \A r \in Ports : \A i : IsReceive(x, r, i)' => Active(x)'
    <3>1. ASSUME NEW c \in Channels, NEW i, IsSent(x, c, i)' PROVE Active(x)'
      <4>1. x # msg.req /\ \E j : IsSent(x, c, j)
        BY <3>1, <2>2
      <4>2. x # rcv.req
        BY <4>1, <2>1, <1>11
      <4>. QED  BY <4>1, <4>2, <2>1, <1>8
    <3>2. ASSUME NEW r \in Ports, NEW i, IsReceive(x, r, i)' PROVE Active(x)'
      <4>1. x # rcv.req /\ \E j : IsReceive(x, r, j)
        BY <3>2, <2>3
      <4>2. x # msg.req
        BY <4>1, <2>1, <1>11, <1>1
      <4>. QED  BY <4>1, <4>2, <2>1, <1>8
    <3>. QED  BY <3>1, <3>2
  <2>. QED  BY <2>6, <2>7, <2>8, <2>9, <2>10
<1>13. Typed'
  BY <1>1, <1>3, <1>5, <1>6, <1>7 DEF RInv, Core, Typed, t, d
<1>14. Queued' /\ Inactive' /\ NoRequests' /\ InCalls'
  <2>1. \A x \in Handles : Active(x)' => Active(x)
    BY <1>8
  <2>2. \A w \in Wrs, i \in {"cmd", "data"} : Active(<<w, i>>)' => Active(<<w, i>>)
    BY <1>6 DEF Active, RInv, Core, Typed
  <2>3. Queued'
    BY <1>1 DEF RInv, Core, Queued
  <2>4. Inactive'
    BY <1>1, <2>2, Kinds DEF RInv, Core, Inactive
  <2>5. ASSUME NEW u \in Threads PROVE InCall(u)'
    <3>1. thread[u].pc # "idle" => thread[u].wr \in Wrs
      BY Kinds DEF RInv, InCalls, InCall, Own, Wrs
    <3>2. Current(thread[u].wr)' = Current(thread[u].wr)
      BY <1>1 DEF Current
    <3>3. thread[u].pc = "event" => (Active(Current(thread[u].wr))' => Active(Current(thread[u].wr)))
      BY <3>1, <3>2, <2>2 DEF Current
    <3>. QED  BY <1>1, <2>2, <3>1, <3>2, <3>3 DEF RInv, InCalls, InCall, Own, Active
  <2>6. NoRequests'
    <3>1. msg.req \in Handles /\ rcv.req \in Handles
      BY <1>1, <1>3, <1>4 DEF RInv, Core, Commands, IsOfSend
    <3>2. <<QUEUE, "cmd">> \notin Handles
      BY Kinds DEF Handles
    <3>3. request'[<<QUEUE, "cmd">>] = request[<<QUEUE, "cmd">>]
      <4>1. msg.req # <<QUEUE, "cmd">> /\ rcv.req # <<QUEUE, "cmd">>
        BY <3>1, <3>2
      <4>2. <<QUEUE, "cmd">> \in DOMAIN request
        BY DEF RInv, Core, Typed, Wrs
      <4>. QED  BY <4>1, <4>2, <1>6
    <3>. QED  BY <1>1, <3>3 DEF RInv, Core, NoRequests, Active
  <2>. QED  BY <1>1, <2>3, <2>4, <2>5, <2>6 DEF RInv, InCalls
<1>15. Commands'
  <2>1. \A b \in Targets : \A r \in Ranks : \A i \in DOMAIN sends'[<<r, CmdPort(b)>>] :
            IsCommand(sends'[<<r, CmdPort(b)>>][i].data)
    <3>. SUFFICES ASSUME NEW b \in Targets, NEW r \in Ranks, NEW c, c = <<r, CmdPort(b)>>, NEW i \in DOMAIN sends'[c]
                  PROVE  IsCommand(sends'[c][i].data)
      OBVIOUS
    <3>1. \A j \in DOMAIN sends[c] : IsCommand(sends[c][j].data)
      BY DEF RInv, Core, Commands
    <3>2. c \in Channels
      BY Assumptions DEF Assumptions, Channels
    <3>3. \E j \in DOMAIN sends[c] : sends'[c][i] = sends[c][j]
      <4>1. CASE c = ch
        <5>1. i \in DOMAIN t /\ sends'[c][i] = t[i] /\ sends[c] = s
          BY <4>1, <1>7
        <5>2. i + 1 \in DOMAIN s /\ t[i] = s[i + 1]
          BY <5>1, <1>3 DEF t
        <5>. QED  BY <5>1, <5>2
      <4>2. CASE c # ch
        BY <4>2, <3>2, <1>7
      <4>. QED  BY <4>1, <4>2
    <3>. QED  BY <3>1, <3>3
  <2>2. \A r \in Ports : \A i \in DOMAIN recvs'[r] :
            /\ recvs'[r][i].rcv.req \in Handles
            /\ \A b \in Targets :
                 recvs'[r][i].rcv.req = <<b, "cmd">> => r = CmdPort(b) /\ recvs'[r][i].rcv.into = NONE
    <3>. SUFFICES ASSUME NEW r \in Ports, NEW i \in DOMAIN recvs'[r] PROVE \E j \in DOMAIN recvs[r] : recvs'[r][i] = recvs[r][j]
      BY DEF RInv, Core, Commands
    <3>1. CASE r = port
      <4>1. i \in DOMAIN d /\ recvs'[r][i] = d[i] /\ r = port
        BY <3>1, <1>7
      <4>2. i \in DOMAIN p /\ i + 1 \in DOMAIN p /\ d[i] = (IF i < k THEN p[i] ELSE p[i + 1])
        BY <4>1, <1>4, <1>5 DEF d
      <4>. QED  BY <4>1, <4>2
    <3>. QED  BY <3>1, <1>7
  <2>3. ASSUME NEW b \in Targets, phase[b] = "init", ~Active(<<b, "cmd">>)' PROVE IsCommand(cmd_msg'[b].cmd)
    <3>1. <<b, "cmd">> \in Handles /\ <<b, "data">> \in Handles /\ DOMAIN cmd_msg = Targets
      BY DEF Handles, RInv, Core, Typed
    <3>2. CASE ~Active(<<b, "cmd">>) /\ cmd_msg'[b] = cmd_msg[b]
      BY <2>3, <3>2 DEF RInv, Core, Commands
    <3>3. CASE rcv.req = <<b, "cmd">>
      <4>1. port = CmdPort(b) /\ rcv.into = NONE
        BY <3>3, <1>4 DEF RInv, Core, Commands
      <4>2. IsCommand(msg.data)
        BY <4>1, <1>3 DEF ch, RInv, Core, Commands
      <4>3. cmd_msg'[b].cmd = msg.data
        BY <4>1, <3>1, <3>3, <1>6
      <4>. QED  BY <4>2, <4>3
    <3>4. CASE rcv.req # <<b, "cmd">>
      <4>1. msg.req # <<b, "cmd">>
        BY <1>1, <1>3 DEF RInv, Core, Commands, IsOfSend
      <4>2. ~Active(<<b, "cmd">>)
        BY <4>1, <3>1, <3>4, <2>3, <1>8
      <4>3. ~Active(<<b, "data">>)
        BY <2>3 DEF RInv, Core, Inactive
      <4>4. rcv.req # <<b, "data">>
        BY <4>3, <3>1, <1>11 DEF RInv, Core, OneEach
      <4>5. rcv.req \in Handles
        BY <1>4 DEF RInv, Core, Commands
      <4>6. rcv.req[1] # b
        BY <4>4, <4>5, <3>4 DEF Handles
      <4>7. cmd_msg'[b] = cmd_msg[b]
        BY <4>6, <3>1, <1>6
      <4>. QED  BY <4>2, <4>7, <3>2
    <3>. QED  BY <3>2, <3>3, <3>4
  <2>4. \A c \in Channels : \A i \in DOMAIN sends'[c] : IsOfSend(sends'[c][i].req)
    BY <1>1, <1>3, <1>7 DEF RInv, Core, Commands, t
  <2>. QED  BY <2>1, <2>2, <2>3, <2>4, <1>1 DEF Commands, IsOfSend
<1>. QED  BY <1>12, <1>13, <1>14, <1>15 DEF RInv, Core


(* The requests and the phases of other work requests stay. *)
OnlyAt(w) ==
    /\ \A v \in Wrs : v # w => phase'[v] = phase[v]
    /\ \A v \in Wrs, i \in {"cmd", "data"} : v # w => request'[<<v, i>>] = request[<<v, i>>]

(* What is left to show of a step that starts nothing. *)
LEMMA AdvanceKeeps ==
    ASSUME Core, NEW w \in Ops \union Targets, ~Active(Current(w)), phase[w] # "init" \/ w \in Ops, Advance(w)
    PROVE  Core' /\ OnlyAt(w)
<1>0. /\ w \in Wrs /\ DOMAIN phase = Wrs /\ DOMAIN request = Wrs \X {"cmd", "data"}
      /\ Ops \cap Targets = {} /\ QUEUE \in Wrs /\ QUEUE # w
  BY Kinds DEF Core, Typed, Wrs
<1>1. /\ phase' = [phase EXCEPT ![w] = CASE @ = "init" -> "cmd_done" [] @ = "cmd_done" -> "done" [] OTHER -> @]
      /\ request' = [request EXCEPT ![Current(w)] = "null"]
      /\ UNCHANGED <<sends, recvs, last_op, cmd_msg, wr_queue>>
  BY DEF Advance, fabric
<1>2. /\ DOMAIN request' = DOMAIN request
      /\ \A q : Active(q)' <=> Active(q)
      /\ \A v \in Wrs, i \in {"cmd", "data"} : v # w => request'[<<v, i>>] = request[<<v, i>>]
  <2>. DEFINE c == Current(w)
  <2>1. c \in DOMAIN request /\ ~Active(c)
    BY <1>0 DEF Current
  <2>2. \A v \in Wrs, i \in {"cmd", "data"} : v # w => c # <<v, i>>
    BY DEF Current
  <2>. HIDE DEF c
  <2>3. request' = [request EXCEPT ![c] = "null"]
    BY <1>1 DEF c
  <2>4. \A v \in Wrs, i \in {"cmd", "data"} : v # w => request'[<<v, i>>] = request[<<v, i>>]
    BY <1>0, <2>2, <2>3
  <2>. QED  BY <2>1, <2>3, <2>4 DEF Active
<1>3. DOMAIN phase' = Wrs /\ (\A v \in Wrs : v # w => phase'[v] = phase[v])
  BY <1>0, <1>1
<1>4. phase'[w] = (CASE phase[w] = "init" -> "cmd_done" [] phase[w] = "cmd_done" -> "done" [] OTHER -> phase[w])
  BY <1>0, <1>1
<1>5. Typed'
  BY <1>0, <1>1, <1>2, <1>3, <1>4 DEF Core, Typed, States
<1>6. OneEach'
  BY <1>1, <1>2, StartsNothing DEF Core, fabric
<1>7. Queued'
  BY <1>1 DEF Core, Queued
<1>8. Commands'
  <2>1. \A b \in Targets : phase'[b] = "init" => phase[b] = "init"
    BY <1>0, <1>3, <1>4, Kinds DEF Core, Typed
  <2>. QED  BY <1>1, <1>2, <2>1 DEF Core, Commands, IsOfSend
<1>9. Inactive'
  <2>1. ASSUME NEW o \in Ops, phase'[o] = "unposted" PROVE phase[o] = "unposted"
    BY <1>0, <1>3, <1>4, <2>1, Kinds DEF Core, Typed, States
  <2>2. ASSUME NEW b \in Targets
        PROVE  /\ phase'[b] \in {"init", "done"} => ~Active(<<b, "data">>)'
               /\ phase'[b] \in {"cmd_done", "done"} => ~Active(<<b, "cmd">>)'
    <3>1. CASE b = w
      <4>1. phase[b] \in {"cmd_done", "done"} /\ ~Active(<<b, "data">>) /\ ~Active(<<b, "cmd">>)
        BY <3>1, <1>0 DEF Core, Typed, Inactive, Current
      <4>. QED  BY <4>1, <1>2
    <3>2. CASE b # w
      BY <3>2, <1>2, <1>3, Kinds DEF Core, Inactive
    <3>. QED  BY <3>1, <3>2
  <2>. QED  BY <2>1, <2>2, <1>2 DEF Core, Inactive
<1>10. NoRequests'
  BY <1>0, <1>2, <1>3 DEF Core, NoRequests
<1>. QED  BY <1>2, <1>3, <1>5, <1>6, <1>7, <1>8, <1>9, <1>10 DEF Core, OnlyAt

(***************************************************************************)
(* A step starts request i of work request w: the state of the others      *)
(* stays, and that of a target says which of its requests is under way.    *)
(***************************************************************************)
Starts(w, i) ==
    /\ ~Active(<<w, i>>)
    /\ DOMAIN request' = DOMAIN request
    /\ \A x \in DOMAIN request : Active(x)' <=> x = <<w, i>> \/ Active(x)
    /\ DOMAIN phase' = DOMAIN phase /\ phase'[w] \in States \ {"unposted"}
    /\ \A v \in Wrs : v # w => phase'[v] = phase[v]
    /\ w \in Targets => \/ i = "data" /\ phase'[w] = "cmd_done" /\ ~Active(<<w, "cmd">>)
                        \/ i = "cmd" /\ phase'[w] = "init" /\ ~Active(<<w, "data">>)
    /\ cmd_msg' = cmd_msg /\ Queued' /\ DOMAIN wr_queue' = DOMAIN wr_queue

(* What does not depend on whether it is started with a send or a receive. *)
LEMMA StartsAt ==
    ASSUME Core, NEW w \in Ops \union Targets, NEW i \in {"cmd", "data"}, Starts(w, i)
    PROVE  /\ Inactive' /\ NoRequests'
           /\ DOMAIN phase' = Wrs /\ \A v \in Wrs : phase'[v] \in States
           /\ \A b \in Targets : phase'[b] \in {"init", "cmd_done", "done"}
           /\ \A b \in Targets : phase'[b] = "init" /\ ~Active(<<b, "cmd">>)' => IsCommand(cmd_msg'[b].cmd)
           /\ <<w, i>> \in Handles /\ \A x \in Handles : Active(x)' <=> x = <<w, i>> \/ Active(x)
<1>1. w \in Wrs /\ Ops \cap Targets = {} /\ QUEUE \in Wrs /\ QUEUE # w /\ \A v \in Ops \union Targets : v \in Wrs
  BY Kinds DEF Wrs
<1>2. DOMAIN request = Wrs \X {"cmd", "data"} /\ DOMAIN phase = Wrs
  BY DEF Core, Typed
<1>3. \A v \in Wrs, j \in {"cmd", "data"} : Active(<<v, j>>)' <=> (v = w /\ j = i) \/ Active(<<v, j>>)
  BY <1>2 DEF Starts
<1>4. /\ <<w, i>> \in Handles /\ \A x \in Handles : Active(x)' <=> x = <<w, i>> \/ Active(x)
  BY <1>1, <1>2 DEF Handles, Starts
<1>5. /\ DOMAIN phase' = Wrs /\ \A v \in Wrs : phase'[v] \in States
      /\ \A b \in Targets : phase'[b] \in {"init", "cmd_done", "done"}
  BY <1>1, <1>2 DEF Core, Typed, Starts
<1>6. Inactive'
  <2>1. ASSUME NEW o \in Ops, phase'[o] = "unposted" PROVE ~Active(<<o, "cmd">>)' /\ ~Active(<<o, "data">>)'
    <3>1. o # w /\ phase[o] = "unposted"
      BY <1>1, <2>1 DEF Starts
    <3>. QED  BY <1>1, <1>3, <3>1 DEF Core, Inactive
  <2>2. ASSUME NEW b \in Targets
        PROVE  /\ phase'[b] \in {"init", "done"} => ~Active(<<b, "data">>)'
               /\ phase'[b] \in {"cmd_done", "done"} => ~Active(<<b, "cmd">>)'
    <3>1. CASE b = w
      BY <3>1, <1>1, <1>3 DEF Starts
    <3>2. CASE b # w
      BY <3>2, <1>1, <1>3 DEF Core, Inactive, Starts
    <3>. QED  BY <3>1, <3>2
  <2>. QED  BY <2>1, <2>2 DEF Inactive
<1>7. NoRequests'
  BY <1>1, <1>3 DEF Core, NoRequests, Starts
<1>8. ASSUME NEW b \in Targets, phase'[b] = "init", ~Active(<<b, "cmd">>)' PROVE IsCommand(cmd_msg'[b].cmd)
  <2>1. b # w
    BY <1>8, <1>1, <1>3 DEF Starts
  <2>. QED  BY <1>8, <2>1, <1>1, <1>3 DEF Core, Commands, Starts
<1>. QED  BY <1>4, <1>5, <1>6, <1>7, <1>8

(* A send. *)
LEMMA SendKeeps ==
    ASSUME Core, NEW w \in Ops \union Targets, NEW i \in {"cmd", "data"}, Starts(w, i),
           IsOfSend(<<w, i>>), NEW ch \in Channels, NEW m, m.req = <<w, i>>,
           \A b \in Targets, r \in Ranks : ch = <<r, CmdPort(b)>> => IsCommand(m.data),
           sends' = [sends EXCEPT ![ch] = Append(@, m)], recvs' = recvs
    PROVE  Core'
<1>. DEFINE q == <<w, i>>
<1>1. /\ Inactive' /\ NoRequests'
      /\ DOMAIN phase' = Wrs /\ \A v \in Wrs : phase'[v] \in States
      /\ \A b \in Targets : phase'[b] \in {"init", "cmd_done", "done"}
      /\ \A b \in Targets : phase'[b] = "init" /\ ~Active(<<b, "cmd">>)' => IsCommand(cmd_msg'[b].cmd)
      /\ q \in Handles /\ \A x \in Handles : Active(x)' <=> x = q \/ Active(x)
  BY StartsAt
<1>2. ~Active(q) /\ m.req = q /\ IsOfSend(q)
  BY DEF Starts
<1>. HIDE DEF q
<1>3. Typed /\ OneEach /\ ~Active(q) /\ \A x \in Handles : Active(x)' <=> x = q \/ Active(x)
  BY <1>1, <1>2 DEF Core
<1>4. OneEach'
  BY <1>1, <1>2, <1>3, StartsSend
<1>5. DOMAIN sends' = Channels /\ \A c \in Channels : IsSeq(sends'[c])
  BY <1>1, <1>2, <1>3, StartsSend
<1>6. \A c \in Channels : \A j \in DOMAIN sends'[c] :
           (j \in DOMAIN sends[c] /\ sends'[c][j] = sends[c][j]) \/ (c = ch /\ sends'[c][j] = m)
  BY <1>1, <1>2, <1>3, StartsSend
<1>7. Typed'
  BY <1>1, <1>5 DEF Core, Typed, Starts
<1>8. \A b \in Targets : \A r \in Ranks : \A j \in DOMAIN sends'[<<r, CmdPort(b)>>] :
            IsCommand(sends'[<<r, CmdPort(b)>>][j].data)
  <2>. SUFFICES ASSUME NEW b \in Targets, NEW r \in Ranks, NEW c, c = <<r, CmdPort(b)>>, NEW j \in DOMAIN sends'[c]
                PROVE  IsCommand(sends'[c][j].data)
    OBVIOUS
  <2>1. c \in Channels
    BY Assumptions DEF Assumptions, Channels
  <2>2. \A k \in DOMAIN sends[c] : IsCommand(sends[c][k].data)
    BY DEF Core, Commands
  <2>3. (j \in DOMAIN sends[c] /\ sends'[c][j] = sends[c][j]) \/ (c = ch /\ sends'[c][j] = m)
    BY <2>1, <1>6
  <2>. QED  BY <2>2, <2>3
<1>9. \A c \in Channels : \A j \in DOMAIN sends'[c] : IsOfSend(sends'[c][j].req)
  BY <1>2, <1>6 DEF Core, Commands
<1>10. Commands'
  BY <1>1, <1>8, <1>9 DEF Core, Commands, IsOfSend
<1>. QED  BY <1>1, <1>4, <1>7, <1>10 DEF Core, Starts

(* A receive. *)
LEMMA ReceiveKeeps ==
    ASSUME Core, NEW w \in Ops \union Targets, NEW i \in {"cmd", "data"}, Starts(w, i),
           NEW p \in Ports, NEW m, m.rcv.req = <<w, i>>,
           \A b \in Targets : <<w, i>> = <<b, "cmd">> => p = CmdPort(b) /\ m.rcv.into = NONE,
           recvs' = [recvs EXCEPT ![p] = Append(@, m)], sends' = sends
    PROVE  Core'
<1>. DEFINE q == <<w, i>>
<1>1. /\ Inactive' /\ NoRequests'
      /\ DOMAIN phase' = Wrs /\ \A v \in Wrs : phase'[v] \in States
      /\ \A b \in Targets : phase'[b] \in {"init", "cmd_done", "done"}
      /\ \A b \in Targets : phase'[b] = "init" /\ ~Active(<<b, "cmd">>)' => IsCommand(cmd_msg'[b].cmd)
      /\ q \in Handles /\ \A x \in Handles : Active(x)' <=> x = q \/ Active(x)
  BY StartsAt
<1>2. ~Active(q) /\ m.rcv.req = q
      /\ \A b \in Targets : m.rcv.req = <<b, "cmd">> => p = CmdPort(b) /\ m.rcv.into = NONE
  BY DEF Starts
<1>. HIDE DEF q
<1>3. Typed /\ OneEach /\ ~Active(q) /\ \A x \in Handles : Active(x)' <=> x = q \/ Active(x)
  BY <1>1, <1>2 DEF Core
<1>4. OneEach'
  BY <1>1, <1>2, <1>3, StartsReceive
<1>5. DOMAIN recvs' = Ports /\ \A r \in Ports : IsSeq(recvs'[r])
  BY <1>1, <1>2, <1>3, StartsReceive
<1>6. \A r \in Ports : \A j \in DOMAIN recvs'[r] :
           (j \in DOMAIN recvs[r] /\ recvs'[r][j] = recvs[r][j]) \/ (r = p /\ recvs'[r][j] = m)
  BY <1>1, <1>2, <1>3, StartsReceive
<1>7. Typed'
  BY <1>1, <1>5 DEF Core, Typed, Starts
<1>8. \A r \in Ports : \A j \in DOMAIN recvs'[r] :
            /\ recvs'[r][j].rcv.req \in Handles
            /\ \A b \in Targets :
                 recvs'[r][j].rcv.req = <<b, "cmd">> => r = CmdPort(b) /\ recvs'[r][j].rcv.into = NONE
  <2>. SUFFICES ASSUME NEW r \in Ports, NEW j \in DOMAIN recvs'[r]
                PROVE  /\ recvs'[r][j].rcv.req \in Handles
                       /\ \A b \in Targets :
                            recvs'[r][j].rcv.req = <<b, "cmd">> => r = CmdPort(b) /\ recvs'[r][j].rcv.into = NONE
    OBVIOUS
  <2>1. CASE j \in DOMAIN recvs[r] /\ recvs'[r][j] = recvs[r][j]
    BY <2>1 DEF Core, Commands
  <2>2. CASE r = p /\ recvs'[r][j] = m
    BY <2>2, <1>1, <1>2
  <2>. QED  BY <2>1, <2>2, <1>6
<1>9. Commands'
  BY <1>1, <1>8 DEF Core, Commands, IsOfSend
<1>. QED  BY <1>1, <1>4, <1>7, <1>9 DEF Core, Starts

(* A queue changes and keeps what it must have. *)
LEMMA Queues ==
    ASSUME Queued, NEW b \in Buffers, IsSeq(wr_queue'[b]), \A c \in Buffers : c # b => wr_queue'[c] = wr_queue[c],
           \A w \in Range(wr_queue'[b]) : w = b \/ (w \in Ops /\ OpOf[w].local = b),
           b \in Targets => b \in Range(wr_queue'[b])
    PROVE  Queued'
<1>1. \A c \in Buffers : IsSeq(wr_queue'[c])
  BY DEF Queued
<1>2. ASSUME NEW c \in Buffers PROVE \A w \in Range(wr_queue'[c]) : w = c \/ (w \in Ops /\ OpOf[w].local = c)
  BY DEF Queued
<1>3. \A c \in Targets : c \in Range(wr_queue'[c])
  BY Kinds DEF Queued
<1>. QED  BY <1>1, <1>2, <1>3 DEF Queued

(* A target starts on a command that has come, or finds none. *)
LEMMA StartDataKeeps ==
    ASSUME Core, NEW b \in Targets, NEW known, phase[b] = "init", ~Active(<<b, "cmd">>), StartData(b, known)
    PROVE  Core' /\ OnlyAt(b)
<1>. DEFINE op == IF known THEN cmd_msg[b].cmd.op ELSE last_op[b]
            from == IF known THEN cmd_msg[b].from ELSE ANY_SOURCE
            cmd == cmd_msg[b].cmd
<1>1. /\ UNCHANGED <<cmd_msg, wr_queue>>
      /\ IF op = NONE
         THEN /\ request' = [request EXCEPT ![<<b, "cmd">>] = "null"]
              /\ UNCHANGED <<fabric, phase>>
         ELSE /\ phase' = [phase EXCEPT ![b] = "cmd_done"]
              /\ request' = [request EXCEPT ![<<b, "cmd">>] = "null", ![<<b, "data">>] = "active"]
              /\ PostData(b, op, from, cmd)
  BY DEF StartData
<1>2. known => op = cmd.op
  OBVIOUS
<1>3. ~known => from = ANY_SOURCE
  OBVIOUS
<1>. HIDE DEF op, from, cmd
<1>4. /\ b \in Wrs /\ QUEUE \in Wrs /\ QUEUE # b
      /\ DOMAIN request = Wrs \X {"cmd", "data"} /\ DOMAIN phase = Wrs
      /\ <<b, "cmd">> \in DOMAIN request /\ <<b, "data">> \in DOMAIN request
  BY Kinds DEF Core, Typed, Wrs
<1>5. ~Active(<<b, "data">>) /\ IsCommand(cmd)
  BY DEF Core, Inactive, Commands, cmd
<1>6. Queued'
  BY <1>1 DEF Core, Queued
<1>7. CASE op = NONE
  <2>1. request' = [request EXCEPT ![<<b, "cmd">>] = "null"] /\ UNCHANGED <<sends, recvs, phase>>
    BY <1>1, <1>7 DEF fabric
  <2>2. DOMAIN request' = DOMAIN request /\ \A q : Active(q)' <=> Active(q)
    BY <2>1, <1>4 DEF Active
  <2>3. \A v \in Wrs, i \in {"cmd", "data"} : v # b => request'[<<v, i>>] = request[<<v, i>>]
    BY <2>1, <1>4
  <2>4. OneEach'
    BY <2>1, <2>2, StartsNothing DEF Core, fabric
  <2>5. Typed'
    BY <1>1, <2>1, <2>2 DEF Core, Typed
  <2>6. Commands' /\ Inactive' /\ NoRequests'
    BY <1>1, <2>1, <2>2 DEF Core, Commands, Inactive, NoRequests, IsOfSend
  <2>. QED  BY <1>6, <2>1, <2>3, <2>4, <2>5, <2>6 DEF Core, OnlyAt
<1>8. CASE op # NONE
  <2>1. /\ phase' = [phase EXCEPT ![b] = "cmd_done"]
        /\ request' = [request EXCEPT ![<<b, "cmd">>] = "null", ![<<b, "data">>] = "active"]
        /\ PostData(b, op, from, cmd)
    BY <1>1, <1>8
  <2>2. Starts(b, "data")
    <3>1. \A x \in DOMAIN request : Active(x)' <=> x = <<b, "data">> \/ Active(x)
      BY <2>1, <1>4 DEF Active
    <3>2. DOMAIN phase' = DOMAIN phase /\ phase'[b] = "cmd_done" /\ \A v \in Wrs : v # b => phase'[v] = phase[v]
      BY <2>1, <1>4
    <3>. QED  BY <1>1, <1>5, <1>6, <2>1, <3>1, <3>2 DEF Starts, States
  <2>3. OnlyAt(b)
    BY <2>1, <1>4 DEF OnlyAt
  <2>4. CASE op = "put"
    <3>. DEFINE m == [from |-> from, rcv |-> [req |-> <<b, "data">>, into |-> <<b, cmd.offset>>]]
    <3>1. recvs' = [recvs EXCEPT ![PutPort(b)] = Append(@, m)] /\ sends' = sends
      BY <2>1, <2>4 DEF PostData, Irecv
    <3>2. m.rcv.req = <<b, "data">>
      OBVIOUS
    <3>. HIDE DEF m
    <3>3. PutPort(b) \in Ports
      BY Assumptions DEF Assumptions
    <3>4. \A c \in Targets : <<b, "data">> # <<c, "cmd">>
      OBVIOUS
    <3>5. Core'
      BY <2>2, <3>1, <3>2, <3>3, <3>4, ReceiveKeeps
    <3>. QED  BY <2>3, <3>5
  <2>5. CASE op = "get"
    <3>. DEFINE m == [req |-> <<b, "data">>, data |-> <<b, cmd.offset>>]
                ch == <<OwnerOf[b], cmd.port>>
    <3>1. sends' = [sends EXCEPT ![ch] = Append(@, m)] /\ recvs' = recvs /\ from # ANY_SOURCE
      BY <2>1, <2>5 DEF PostData, Issend
    <3>2. cmd.port \in Ports /\ cmd.port \in {GetPort(c) : c \in Buffers}
      BY <3>1, <2>5, <1>2, <1>3, <1>5 DEF IsCommand
    <3>3. ch \in Channels
      BY <3>2, Kinds, Assumptions DEF Channels, Assumptions
    <3>4. \A c \in Targets, r \in Ranks : ch = <<r, CmdPort(c)>> => IsCommand(m.data)
      BY <3>2 DEF GetPort, CmdPort
    <3>5. m.req = <<b, "data">>
      OBVIOUS
    <3>6. IsOfSend(<<b, "data">>)
      BY DEF IsOfSend, Handles
    <3>. HIDE DEF m, ch
    <3>7. b \in Ops \union Targets /\ "data" \in {"cmd", "data"}
      OBVIOUS
    <3>8. Core'
      BY <2>2, <3>1, <3>3, <3>4, <3>5, <3>6, <3>7, SendKeeps
    <3>. QED  BY <2>3, <3>8
  <2>. QED  BY <2>1, <2>4, <2>5 DEF PostData
<1>. QED  BY <1>7, <1>8

(* An event is handled for a work request whose current request is not active. *)
LEMMA ProcessKeeps ==
    ASSUME Core, NEW w \in Ops \union Targets, NEW known, ~Active(Current(w)), process_event(w, known)
    PROVE  Core' /\ OnlyAt(w)
<1>1. CASE w \in Targets /\ phase[w] = "init"
  BY <1>1, StartDataKeeps DEF process_event, Current
<1>2. CASE ~(w \in Targets /\ phase[w] = "init")
  <2>1. Advance(w) /\ (phase[w] # "init" \/ w \in Ops)
    BY <1>2 DEF process_event
  <2>. QED  BY <2>1, AdvanceKeeps
<1>. QED  BY <1>1, <1>2

(* A target whose requests are both done is posted again. *)
LEMMA RepostKeeps ==
    ASSUME Core, NEW b \in Targets, ~Active(<<b, "cmd">>), ~Active(<<b, "data">>),
           NEW queue, IsSeq(queue), Range(queue) \subseteq Range(wr_queue[b]), Repost(b, queue)
    PROVE  Core' /\ OnlyAt(b)
<1>. DEFINE m == [from |-> ANY_SOURCE, rcv |-> [req |-> <<b, "cmd">>, into |-> NONE]]
<1>1. /\ phase' = [phase EXCEPT ![b] = "init"]
      /\ request' = [request EXCEPT ![<<b, "data">>] = "null", ![<<b, "cmd">>] = "active"]
      /\ recvs' = [recvs EXCEPT ![CmdPort(b)] = Append(@, m)]
      /\ wr_queue' = [wr_queue EXCEPT ![b] = Append(queue, b)]
      /\ UNCHANGED <<sends, last_op, cmd_msg>>
  BY DEF Repost, Irecv
<1>2. m.rcv.req = <<b, "cmd">> /\ m.rcv.into = NONE
  OBVIOUS
<1>. HIDE DEF m
<1>3. /\ b \in Wrs /\ b \in Buffers /\ DOMAIN wr_queue = Buffers
      /\ DOMAIN request = Wrs \X {"cmd", "data"} /\ DOMAIN phase = Wrs
      /\ <<b, "cmd">> \in DOMAIN request /\ <<b, "data">> \in DOMAIN request
  BY Kinds DEF Core, Typed
<1>4. Queued'
  <2>1. IsSeq(Append(queue, b)) /\ Range(Append(queue, b)) = Range(queue) \union {b}
    BY Appended
  <2>2. wr_queue'[b] = Append(queue, b) /\ \A c \in Buffers : c # b => wr_queue'[c] = wr_queue[c]
    BY <1>1, <1>3
  <2>3. IsSeq(wr_queue'[b]) /\ b \in Range(wr_queue'[b])
    BY <2>1, <2>2
  <2>4. \A w \in Range(wr_queue'[b]) : w = b \/ (w \in Ops /\ OpOf[w].local = b)
    BY <2>1, <2>2, <1>3 DEF Core, Queued
  <2>5. Queued /\ b \in Buffers
    BY <1>3 DEF Core
  <2>. QED  BY <2>2, <2>3, <2>4, <2>5, Queues
<1>5. Starts(b, "cmd")
  <2>1. \A x \in DOMAIN request : Active(x)' <=> x = <<b, "cmd">> \/ Active(x)
    BY <1>1, <1>3 DEF Active
  <2>2. DOMAIN phase' = DOMAIN phase /\ phase'[b] = "init" /\ \A v \in Wrs : v # b => phase'[v] = phase[v]
    BY <1>1, <1>3
  <2>. QED  BY <1>1, <1>4, <2>1, <2>2 DEF Starts, States
<1>6. OnlyAt(b)
  BY <1>1, <1>3 DEF OnlyAt
<1>7. CmdPort(b) \in Ports
  BY Assumptions DEF Assumptions
<1>8. \A c \in Targets : <<b, "cmd">> = <<c, "cmd">> => CmdPort(b) = CmdPort(c) /\ m.rcv.into = NONE
  BY <1>2
<1>9. Core'
  BY <1>1, <1>2, <1>5, <1>7, <1>8, ReceiveKeeps
<1>. QED  BY <1>6, <1>9

(* Nothing of the transfers changes. *)
LEMMA SameCore == ASSUME Core, UNCHANGED <<fabric, wrs, request>> PROVE Core'
<1>1. UNCHANGED <<sends, recvs, phase, cmd_msg, wr_queue, request>>
  BY DEF fabric, wrs
<1>2. \A x \in Handles : Active(x)' <=> Active(x)
  BY <1>1 DEF Active
<1>3. OneEach'
  BY <1>2, StartsNothing DEF Core
<1>4. Typed' /\ Queued'
  BY <1>1 DEF Core, Typed, Queued
<1>5. Commands' /\ Inactive' /\ NoRequests'
  BY <1>1 DEF Core, Commands, Inactive, NoRequests, IsOfSend, Active
<1>. QED  BY <1>3, <1>4, <1>5 DEF Core

(* Where a thread is depends on the work request it deals with. *)
LEMMA OthersKeep ==
    ASSUME OneThread, InCalls, NEW t \in Threads, NEW w \in Ops \union Targets, Own(t, w), OnlyAt(w),
           NEW u \in Threads, u # t, thread'[u] = thread[u]
    PROVE  InCall(u)'
<1>. DEFINE v == thread[u].wr
            pc == thread[u].pc
<1>1. InCall(u)
  BY DEF InCalls
<1>2. CASE pc = "idle"
  BY <1>1, <1>2 DEF InCall, Own
<1>3. CASE pc # "idle" /\ v = QUEUE /\ pc \in {"check", "test"}
  BY <1>1, <1>3, Kinds DEF InCall, Own
<1>4. CASE pc # "idle" /\ Own(u, v)
  <2>1. v # w /\ v \in Wrs
    BY <1>4, Kinds DEF OneThread, Own
  <2>2. phase'[v] = phase[v] /\ request'[<<v, "cmd">>] = request[<<v, "cmd">>]
        /\ request'[<<v, "data">>] = request[<<v, "data">>]
    BY <2>1 DEF OnlyAt
  <2>. QED  BY <1>1, <1>4, <2>2 DEF InCall, Own, Active, Current
<1>. QED  BY <1>1, <1>2, <1>3, <1>4 DEF InCall

LEMMA OthersStay ==
    ASSUME InCalls, UNCHANGED <<phase, request>>, NEW u \in Threads, thread'[u] = thread[u]
    PROVE  InCall(u)'
<1>1. InCall(u)
  BY DEF InCalls
<1>. QED  BY <1>1 DEF InCall, Own, Active, Current

(* The front of a buffer's queue. *)
LEMMA FirstInQueue ==
    ASSUME OneThread, Core, NEW t \in Threads, NEW b \in Targets, OwnerOf[b] = RankOf[t],
           NEW w, w = Head(wr_queue[b])
    PROVE  w \in Ops \union Targets /\ Own(t, w) /\ (w \in Targets => w = b)
<1>1. b \in Buffers /\ IsSeq(wr_queue[b]) /\ b \in Range(wr_queue[b])
  BY Kinds DEF Core, Queued
<1>2. wr_queue[b] # <<>>
  BY <1>1 DEF Range
<1>3. 1 \in DOMAIN wr_queue[b] /\ w = wr_queue[b][1]
  BY <1>1, <1>2, Tailed
<1>4. w \in Range(wr_queue[b])
  BY <1>3 DEF Range
<1>5. w = b \/ (w \in Ops /\ OpOf[w].local = b)
  BY <1>1, <1>4 DEF Core, Queued
<1>6. ASSUME w \in Ops, OpOf[w].local = b PROVE OpOf[w].thread = t
  <2>1. OpOf[w].thread \in Threads /\ OwnerOf[OpOf[w].local] = RankOf[OpOf[w].thread]
    BY <1>6, Assumptions DEF Assumptions
  <2>. QED  BY <1>6, <2>1 DEF OneThread
<1>. QED  BY <1>5, <1>6, Kinds DEF Own

(* One step of the progress engine is about one work request, and one of the rank's own. *)
LEMMA CheckBufferKeeps ==
    ASSUME OneThread, Core, NEW t \in Threads, NEW b \in Targets, OwnerOf[b] = RankOf[t], CheckBuffer(b)
    PROVE  Core' /\ \E w \in Ops \union Targets : Own(t, w) /\ OnlyAt(w)
<1>. SUFFICES ASSUME NEW w, w = Head(wr_queue[b]) PROVE Core' /\ \E v \in Ops \union Targets : Own(t, v) /\ OnlyAt(v)
  OBVIOUS
<1>1. w \in Ops \union Targets /\ Own(t, w) /\ (w \in Targets => w = b)
  BY FirstInQueue
<1>2. b \in Buffers /\ IsSeq(wr_queue[b])
  BY Kinds DEF Core, Queued
<1>3. \/ UNCHANGED <<fabric, wrs, request>>
      \/ /\ ~Active(Current(w)) /\ w \in Targets /\ phase[w] = "cmd_done"
         /\ Repost(w, RemoveFirst(wr_queue[b], w))
      \/ ~Active(Current(w)) /\ process_event(w, request[Current(w)] = "done")
  BY DEF CheckBuffer, Active
<1>4. CASE UNCHANGED <<fabric, wrs, request>>
  <2>1. OnlyAt(w)
    BY <1>4 DEF OnlyAt, wrs
  <2>. QED  BY <1>1, <1>4, <2>1, SameCore
<1>5. ASSUME ~Active(Current(w)), w \in Targets, phase[w] = "cmd_done", Repost(w, RemoveFirst(wr_queue[b], w))
      PROVE  Core' /\ OnlyAt(w)
  <2>. SUFFICES ASSUME NEW queue, queue = RemoveFirst(wr_queue[b], b) PROVE Core' /\ OnlyAt(b)
    BY <1>1, <1>5
  <2>1. Repost(b, queue) /\ phase[b] = "cmd_done" /\ ~Active(<<b, "data">>)
    BY <1>1, <1>5 DEF Current
  <2>2. ~Active(<<b, "cmd">>)
    BY <2>1 DEF Core, Inactive
  <2>3. IsSeq(queue) /\ Range(queue) \subseteq Range(wr_queue[b])
    BY <1>2, RemovedFirst
  <2>. QED  BY <2>1, <2>2, <2>3, RepostKeeps
<1>6. ASSUME ~Active(Current(w)), process_event(w, request[Current(w)] = "done")
      PROVE  Core' /\ OnlyAt(w)
  <2>. SUFFICES ASSUME NEW v \in Ops \union Targets, v = w, NEW known, known = (request[Current(w)] = "done")
                PROVE  Core' /\ OnlyAt(v)
    BY <1>1
  <2>1. ~Active(Current(v)) /\ process_event(v, known)
    BY <1>6
  <2>. QED  BY <2>1, ProcessKeeps
<1>. QED  BY <1>1, <1>3, <1>4, <1>5, <1>6

(* A call of thread t is about one work request of its own. *)
LEMMA CallsKeep ==
    ASSUME OneThread, InCalls, NEW t \in Threads, NEW w \in Ops \union Targets, Own(t, w), OnlyAt(w),
           DOMAIN thread' = Threads, \A u \in Threads : u # t => thread'[u] = thread[u], InCall(t)'
    PROVE  InCalls'
<1>1. ASSUME NEW u \in Threads PROVE InCall(u)'
  <2>1. CASE u = t
    BY <2>1
  <2>2. CASE u # t
    BY <2>2, OthersKeep
  <2>. QED  BY <2>1, <2>2
<1>. QED  BY <1>1 DEF InCalls

LEMMA CallsStay ==
    ASSUME InCalls, UNCHANGED <<phase, request>>, NEW t \in Threads,
           DOMAIN thread' = Threads, \A u \in Threads : u # t => thread'[u] = thread[u], InCall(t)'
    PROVE  InCalls'
<1>1. ASSUME NEW u \in Threads PROVE InCall(u)'
  <2>1. CASE u = t
    BY <2>1
  <2>2. CASE u # t
    BY <2>2, OthersStay
  <2>. QED  BY <2>1, <2>2
<1>. QED  BY <1>1 DEF InCalls

(* A thread that is in no call. *)
LEMMA IdleThread == ASSUME NEW t \in Threads, thread'[t] = Idle PROVE InCall(t)'
<1>. DEFINE r == [pc |-> "idle", wr |-> NONE, timeout |-> -1, cursor |-> 1, progressed |-> FALSE]
<1>1. DOMAIN r = {"pc", "wr", "timeout", "cursor", "progressed"}
  OBVIOUS
<1>2. r.pc = "idle" /\ r.cursor \in Nat \ {0}
  OBVIOUS
<1>3. thread'[t] = r
  BY DEF Idle
<1>. HIDE DEF r
<1>4. DOMAIN thread'[t] = {"pc", "wr", "timeout", "cursor", "progressed"}
      /\ thread'[t].pc = "idle" /\ thread'[t].cursor \in Nat \ {0}
  BY <1>1, <1>2, <1>3
<1>. QED  BY <1>4 DEF InCall

(* A command is sent. *)
LEMMA CommandKeeps ==
    ASSUME Core, NEW o \in Ops, Starts(o, "cmd"), PostCommand(o), recvs' = recvs
    PROVE  Core'
<1>. DEFINE op == OpOf[o]
            m == Command(o)
            ch == <<RankOf[op.thread], CmdPort(op.remote)>>
<1>1. /\ op.thread \in Threads /\ RankOf[op.thread] \in Ranks /\ op.remote \in Targets /\ op.local \in Buffers
      /\ CmdPort(op.remote) \in Ports
      /\ op.kind = "get" => GetPort(op.local) \in Ports
  BY Assumptions DEF Assumptions
<1>2. ch \in Channels
  BY <1>1 DEF Channels
<1>3. m.req = <<o, "cmd">>
  BY DEF Command
<1>4. IsCommand(m.data)
  BY <1>1 DEF Command, IsCommand
<1>5. IsOfSend(<<o, "cmd">>)
  BY Kinds DEF IsOfSend, Handles
<1>6. sends' = [sends EXCEPT ![ch] = Append(@, m)]
  BY DEF PostCommand, Issend
<1>7. o \in Ops \union Targets /\ "cmd" \in {"cmd", "data"}
  OBVIOUS
<1>. HIDE DEF m, ch
<1>. QED  BY <1>2, <1>3, <1>4, <1>5, <1>6, <1>7, SendKeeps

(* A work request is added to its buffer's queue. *)
LEMMA Enqueues ==
    ASSUME Core, NEW o \in Ops, wr_queue' = [wr_queue EXCEPT ![OpOf[o].local] = Append(@, o)]
    PROVE  Queued' /\ DOMAIN wr_queue' = DOMAIN wr_queue
<1>. SUFFICES ASSUME NEW b, b = OpOf[o].local PROVE Queued' /\ DOMAIN wr_queue' = DOMAIN wr_queue
  OBVIOUS
<1>1. b \in Buffers /\ DOMAIN wr_queue = Buffers
  BY Assumptions DEF Assumptions, Core, Typed
<1>2. IsSeq(wr_queue[b])
  BY <1>1 DEF Core, Queued
<1>3. wr_queue'[b] = Append(wr_queue[b], o) /\ \A c \in Buffers : c # b => wr_queue'[c] = wr_queue[c]
  BY <1>1
<1>4. IsSeq(wr_queue'[b]) /\ Range(wr_queue'[b]) = Range(wr_queue[b]) \union {o}
  BY <1>2, <1>3, Appended
<1>5. \A w \in Range(wr_queue'[b]) : w = b \/ (w \in Ops /\ OpOf[w].local = b)
  BY <1>1, <1>4 DEF Core, Queued
<1>6. b \in Targets => b \in Range(wr_queue'[b])
  BY <1>4 DEF Core, Queued
<1>7. Queued'
  BY <1>1, <1>3, <1>4, <1>5, <1>6, Queues DEF Core
<1>. QED  BY <1>7

(* A request of a transfer is started. *)
LEMMA StartsTransfer ==
    ASSUME Core, NEW o \in Ops, NEW i \in {"cmd", "data"}, ~Active(<<o, i>>),
           request' = [request EXCEPT ![<<o, i>>] = "active"],
           phase' = [phase EXCEPT ![o] = "init"] \/ (phase' = phase /\ phase[o] # "unposted"),
           cmd_msg' = cmd_msg, Queued', DOMAIN wr_queue' = DOMAIN wr_queue
    PROVE  /\ Starts(o, i) /\ OnlyAt(o) /\ phase'[o] # "unposted"
           /\ \A j \in {"cmd", "data"} : j # i => (Active(<<o, j>>)' <=> Active(<<o, j>>))
<1>1. /\ o \in Wrs /\ o \notin Targets /\ DOMAIN phase = Wrs /\ DOMAIN request = Wrs \X {"cmd", "data"}
      /\ <<o, "cmd">> \in DOMAIN request /\ <<o, "data">> \in DOMAIN request
  BY Kinds DEF Core, Typed
<1>2. \A x \in DOMAIN request : Active(x)' <=> x = <<o, i>> \/ Active(x)
  BY <1>1 DEF Active
<1>3. /\ DOMAIN phase' = DOMAIN phase /\ phase'[o] \in States \ {"unposted"}
      /\ \A v \in Wrs : v # o => phase'[v] = phase[v]
  BY <1>1 DEF Core, Typed, States
<1>4. DOMAIN request' = DOMAIN request
      /\ \A v \in Wrs, j \in {"cmd", "data"} : v # o => request'[<<v, j>>] = request[<<v, j>>]
  BY <1>1
<1>. QED  BY <1>1, <1>2, <1>3, <1>4 DEF Starts, OnlyAt

-----------------------------------------------------------------------------
(* The transfers' own steps. *)

LEMMA PutCommandKeeps ==
    ASSUME OneThread, RInv, NEW t \in Threads, NEW o \in Ops, PutCommand(t, o)
    PROVE  RInv'
<1>1. /\ OpOf[o].thread = t /\ OpOf[o].kind = "put" /\ phase[o] = "unposted" /\ PostCommand(o)
      /\ request' = [request EXCEPT ![<<o, "cmd">>] = "active"]
      /\ phase' = [phase EXCEPT ![o] = "init"]
      /\ thread' = [thread EXCEPT ![t].pc = "put", ![t].wr = o]
      /\ UNCHANGED <<recvs, last_op, cmd_msg, wr_queue, moved, events>>
  BY DEF PutCommand
<1>2. Core /\ InCalls /\ InCall(t) /\ DOMAIN thread = Threads
  BY DEF RInv, InCalls
<1>3. ~Active(<<o, "cmd">>) /\ ~Active(<<o, "data">>) /\ Queued' /\ DOMAIN wr_queue' = DOMAIN wr_queue
  BY <1>1, <1>2 DEF Core, Inactive, Queued
<1>4. Starts(o, "cmd") /\ OnlyAt(o) /\ phase'[o] # "unposted" /\ ~Active(<<o, "data">>)'
  BY <1>1, <1>2, <1>3, StartsTransfer
<1>5. Core'
  BY <1>1, <1>2, <1>4, CommandKeeps
<1>6. InCall(t)'
  <2>1. thread'[t] = [thread[t] EXCEPT !.pc = "put", !.wr = o]
    BY <1>1, <1>2
  <2>2. /\ DOMAIN thread'[t] = DOMAIN thread[t] /\ thread'[t].pc = "put" /\ thread'[t].wr = o
        /\ thread'[t].cursor = thread[t].cursor
    BY <1>2, <2>1 DEF InCall
  <2>. QED  BY <1>1, <1>2, <1>4, <2>2 DEF InCall, Own
<1>7. DOMAIN thread' = Threads /\ \A u \in Threads : u # t => thread'[u] = thread[u]
  BY <1>1, <1>2
<1>8. Own(t, o) /\ o \in Ops \union Targets
  BY <1>1 DEF Own
<1>9. InCalls'
  BY <1>2, <1>4, <1>6, <1>7, <1>8, CallsKeep
<1>. QED  BY <1>5, <1>9 DEF RInv

LEMMA PutDataKeeps ==
    ASSUME OneThread, RInv, NEW t \in Threads, PutData(t)
    PROVE  RInv'
<1>. SUFFICES ASSUME NEW o, o = thread[t].wr PROVE RInv'
  OBVIOUS
<1>. DEFINE m == [req |-> <<o, "data">>, data |-> SourcePlace(o)]
            ch == <<RankOf[t], PutPort(OpOf[o].remote)>>
<1>1. /\ thread[t].pc = "put"
      /\ sends' = [sends EXCEPT ![ch] = Append(@, m)]
      /\ request' = [request EXCEPT ![<<o, "data">>] = "active"]
      /\ wr_queue' = [wr_queue EXCEPT ![OpOf[o].local] = Append(@, o)]
      /\ thread' = [thread EXCEPT ![t] = Idle]
      /\ UNCHANGED <<recvs, phase, last_op, cmd_msg, moved, events>>
  BY DEF PutData, Issend
<1>2. Core /\ InCalls /\ InCall(t) /\ DOMAIN thread = Threads
  BY DEF RInv, InCalls
<1>3. o \in Ops /\ phase[o] # "unposted" /\ ~Active(<<o, "data">>) /\ Own(t, o)
  BY <1>1, <1>2, Kinds DEF InCall, Own
<1>4. Queued' /\ DOMAIN wr_queue' = DOMAIN wr_queue
  BY <1>1, <1>2, <1>3, Enqueues
<1>5. Starts(o, "data") /\ OnlyAt(o)
  BY <1>1, <1>2, <1>3, <1>4, StartsTransfer
<1>6. m.req = <<o, "data">> /\ IsOfSend(<<o, "data">>)
  BY <1>3 DEF IsOfSend, Handles
<1>7. ch \in Channels
  BY <1>3, Assumptions DEF Assumptions, Channels
<1>8. \A b \in Targets, r \in Ranks : ch = <<r, CmdPort(b)>> => IsCommand(m.data)
  BY DEF PutPort, CmdPort
<1>. HIDE DEF m, ch
<1>9. Core'
  BY <1>1, <1>2, <1>3, <1>5, <1>6, <1>7, <1>8, SendKeeps
<1>10. thread'[t] = Idle /\ DOMAIN thread' = Threads /\ \A u \in Threads : u # t => thread'[u] = thread[u]
  BY <1>1, <1>2
<1>11. InCall(t)'
  BY <1>10, IdleThread
<1>12. InCalls'
  BY <1>2, <1>3, <1>5, <1>10, <1>11, CallsKeep
<1>. QED  BY <1>9, <1>12 DEF RInv

LEMMA GetReceiveKeeps ==
    ASSUME OneThread, RInv, NEW t \in Threads, NEW o \in Ops, GetReceive(t, o)
    PROVE  RInv'
<1>. DEFINE m == [from |-> OwnerOf[OpOf[o].remote], rcv |-> [req |-> <<o, "data">>, into |-> DestPlace(o)]]
            p == GetPort(OpOf[o].local)
<1>1. /\ OpOf[o].thread = t /\ OpOf[o].kind = "get" /\ phase[o] = "unposted"
      /\ recvs' = [recvs EXCEPT ![p] = Append(@, m)]
      /\ request' = [request EXCEPT ![<<o, "data">>] = "active"]
      /\ phase' = [phase EXCEPT ![o] = "init"]
      /\ thread' = [thread EXCEPT ![t].pc = "get", ![t].wr = o]
      /\ UNCHANGED <<sends, last_op, cmd_msg, wr_queue, moved, events>>
  BY DEF GetReceive, Irecv
<1>2. Core /\ InCalls /\ InCall(t) /\ DOMAIN thread = Threads
  BY DEF RInv, InCalls
<1>3. ~Active(<<o, "cmd">>) /\ ~Active(<<o, "data">>) /\ Queued' /\ DOMAIN wr_queue' = DOMAIN wr_queue
  BY <1>1, <1>2 DEF Core, Inactive, Queued
<1>4. Starts(o, "data") /\ OnlyAt(o) /\ phase'[o] # "unposted" /\ ~Active(<<o, "cmd">>)'
  BY <1>1, <1>2, <1>3, StartsTransfer
<1>5. p \in Ports
  BY <1>1, Assumptions DEF Assumptions
<1>6. m.rcv.req = <<o, "data">> /\ \A b \in Targets : <<o, "data">> = <<b, "cmd">> => p = CmdPort(b) /\ m.rcv.into = NONE
  OBVIOUS
<1>. HIDE DEF m, p
<1>7. Core'
  BY <1>1, <1>2, <1>4, <1>5, <1>6, ReceiveKeeps
<1>8. InCall(t)'
  <2>1. thread'[t] = [thread[t] EXCEPT !.pc = "get", !.wr = o]
    BY <1>1, <1>2
  <2>2. /\ DOMAIN thread'[t] = DOMAIN thread[t] /\ thread'[t].pc = "get" /\ thread'[t].wr = o
        /\ thread'[t].cursor = thread[t].cursor
    BY <1>2, <2>1 DEF InCall
  <2>. QED  BY <1>1, <1>2, <1>4, <2>2 DEF InCall, Own
<1>9. DOMAIN thread' = Threads /\ \A u \in Threads : u # t => thread'[u] = thread[u]
  BY <1>1, <1>2
<1>10. Own(t, o) /\ o \in Ops \union Targets
  BY <1>1 DEF Own
<1>11. InCalls'
  BY <1>2, <1>4, <1>8, <1>9, <1>10, CallsKeep
<1>. QED  BY <1>7, <1>11 DEF RInv

LEMMA GetCommandKeeps ==
    ASSUME OneThread, RInv, NEW t \in Threads, GetCommand(t)
    PROVE  RInv'
<1>. SUFFICES ASSUME NEW o, o = thread[t].wr PROVE RInv'
  OBVIOUS
<1>1. /\ thread[t].pc = "get" /\ PostCommand(o)
      /\ request' = [request EXCEPT ![<<o, "cmd">>] = "active"]
      /\ wr_queue' = [wr_queue EXCEPT ![OpOf[o].local] = Append(@, o)]
      /\ thread' = [thread EXCEPT ![t] = Idle]
      /\ UNCHANGED <<recvs, phase, last_op, cmd_msg, moved, events>>
  BY DEF GetCommand
<1>2. Core /\ InCalls /\ InCall(t) /\ DOMAIN thread = Threads
  BY DEF RInv, InCalls
<1>3. o \in Ops /\ phase[o] # "unposted" /\ ~Active(<<o, "cmd">>) /\ Own(t, o)
  BY <1>1, <1>2, Kinds DEF InCall, Own
<1>4. Queued' /\ DOMAIN wr_queue' = DOMAIN wr_queue
  BY <1>1, <1>2, <1>3, Enqueues
<1>5. Starts(o, "cmd") /\ OnlyAt(o)
  BY <1>1, <1>2, <1>3, <1>4, StartsTransfer
<1>6. Core'
  BY <1>1, <1>2, <1>3, <1>5, CommandKeeps
<1>7. thread'[t] = Idle /\ DOMAIN thread' = Threads /\ \A u \in Threads : u # t => thread'[u] = thread[u]
  BY <1>1, <1>2
<1>8. InCall(t)'
  BY <1>7, IdleThread
<1>9. InCalls'
  BY <1>2, <1>3, <1>5, <1>7, <1>8, CallsKeep
<1>. QED  BY <1>6, <1>9 DEF RInv

-----------------------------------------------------------------------------
(* The steps of a wait.                                                    *)

LEMMA WaitEnterKeeps ==
    ASSUME OneThread, RInv, NEW t \in Threads, NEW w \in Wrs, NEW timeout, WaitEnter(t, w, timeout)
    PROVE  RInv'
<1>. DEFINE r == [pc |-> IF phase[w] = "done" THEN "finish" ELSE "check",
                  wr |-> w, timeout |-> timeout, cursor |-> 1, progressed |-> FALSE]
<1>1. /\ w \in WaitFor(t) /\ thread' = [thread EXCEPT ![t] = r]
      /\ UNCHANGED <<fabric, wrs, request>> /\ UNCHANGED <<phase, request>>
  BY DEF WaitEnter, wrs
<1>2. Core /\ InCalls /\ DOMAIN thread = Threads
  BY DEF RInv, InCalls
<1>3. Core'
  BY <1>1, <1>2, SameCore
<1>4. Own(t, w) \/ w = QUEUE
  <2>1. CASE w \in Ops /\ OpOf[w].thread = t
    BY <2>1 DEF Own
  <2>2. ASSUME NEW b \in WithEvents, EventThread[b] = t, w = Head(wr_queue[b]) PROVE Own(t, w)
    <3>1. b \in Targets /\ OwnerOf[b] = RankOf[t]
      BY <2>2, Assumptions DEF Assumptions
    <3>. QED  BY <3>1, <2>2, <1>2, FirstInQueue
  <2>. QED  BY <1>1, <2>1, <2>2 DEF WaitFor
<1>5. DOMAIN r = {"pc", "wr", "timeout", "cursor", "progressed"} /\ r.wr = w /\ r.cursor = 1
      /\ r.pc = (IF phase[w] = "done" THEN "finish" ELSE "check")
  OBVIOUS
<1>. HIDE DEF r
<1>6. thread'[t] = r /\ DOMAIN thread' = Threads /\ \A u \in Threads : u # t => thread'[u] = thread[u]
  BY <1>1, <1>2
<1>7. InCall(t)'
  <2>1. w = QUEUE => phase[w] # "done"
    BY <1>2 DEF Core, NoRequests
  <2>. QED  BY <1>1, <1>4, <1>5, <1>6, <2>1 DEF InCall, Own
<1>8. InCalls'
  BY <1>1, <1>2, <1>6, <1>7, CallsStay
<1>. QED  BY <1>3, <1>8 DEF RInv

LEMMA CheckTargetKeeps ==
    ASSUME OneThread, RInv, NEW t \in Threads, CheckTarget(t)
    PROVE  RInv'
<1>. DEFINE targets == TargetBuffers[RankOf[t]]
<1>1. Core /\ InCalls /\ InCall(t) /\ DOMAIN thread = Threads
  BY DEF RInv, InCalls
<1>2. /\ thread[t].pc = "check" /\ thread[t].cursor <= Len(targets)
      /\ CheckBuffer(targets[thread[t].cursor])
  BY DEF CheckTarget
<1>3. DOMAIN thread' = Threads /\ \A u \in Threads : u # t => thread'[u] = thread[u]
  BY <1>1 DEF CheckTarget
<1>4. /\ DOMAIN thread'[t] = DOMAIN thread[t] /\ thread'[t].pc = thread[t].pc /\ thread'[t].wr = thread[t].wr
      /\ thread'[t].cursor = thread[t].cursor + 1
  BY <1>1 DEF CheckTarget, InCall
<1>. SUFFICES ASSUME NEW b, b = targets[thread[t].cursor] PROVE RInv'
  OBVIOUS
<1>5. b \in Targets /\ OwnerOf[b] = RankOf[t]
  <2>1. RankOf[t] \in Ranks
    BY Assumptions DEF Assumptions
  <2>2. thread[t].cursor \in Nat \ {0}
    BY <1>1 DEF InCall
  <2>3. thread[t].cursor \in 1 .. Len(targets)
    BY <1>2, <2>1, <2>2, Kinds
  <2>. QED  BY <2>1, <2>3, Kinds
<1>6. Core' /\ \E w \in Ops \union Targets : Own(t, w) /\ OnlyAt(w)
  BY <1>1, <1>2, <1>5, CheckBufferKeeps
<1>7. InCall(t)'
  BY <1>1, <1>2, <1>4 DEF InCall, Own
<1>8. InCalls'
  BY <1>1, <1>3, <1>6, <1>7, CallsKeep
<1>. QED  BY <1>6, <1>8 DEF RInv

LEMMA CheckDoneKeeps ==
    ASSUME OneThread, RInv, NEW t \in Threads, CheckDone(t)
    PROVE  RInv'
<1>1. Core /\ InCalls /\ InCall(t) /\ DOMAIN thread = Threads
  BY DEF RInv, InCalls
<1>2. /\ thread[t].pc = "check"
      /\ UNCHANGED <<fabric, wrs, request>> /\ UNCHANGED <<phase, request>>
  BY DEF CheckDone, wrs
<1>3. /\ DOMAIN thread' = Threads /\ \A u \in Threads : u # t => thread'[u] = thread[u]
      /\ DOMAIN thread'[t] = DOMAIN thread[t] /\ thread'[t].wr = thread[t].wr /\ thread'[t].cursor = 1
      /\ thread'[t].pc \in {"finish", "test"} /\ (thread'[t].pc = "finish" => phase[thread[t].wr] = "done")
  BY <1>1 DEF CheckDone, InCall
<1>4. thread[t].wr = QUEUE => phase[thread[t].wr] # "done"
  BY <1>1 DEF Core, NoRequests
<1>5. InCall(t)'
  BY <1>1, <1>2, <1>3, <1>4 DEF InCall, Own
<1>6. Core' /\ InCalls'
  BY <1>1, <1>2, <1>3, <1>5, CallsStay, SameCore
<1>. QED  BY <1>6 DEF RInv

(* A thread goes to another place of its wait. *)
LEMMA GoesTo ==
    ASSUME InCalls, NEW t \in Threads, NEW pc, GoTo(t, pc)
    PROVE  /\ DOMAIN thread' = Threads /\ \A u \in Threads : u # t => thread'[u] = thread[u]
           /\ DOMAIN thread'[t] = {"pc", "wr", "timeout", "cursor", "progressed"}
           /\ thread'[t].pc = pc /\ thread'[t].wr = thread[t].wr /\ thread'[t].cursor \in Nat \ {0}
<1>1. DOMAIN thread = Threads /\ DOMAIN thread[t] = {"pc", "wr", "timeout", "cursor", "progressed"}
      /\ thread[t].cursor \in Nat \ {0}
  BY DEF InCalls, InCall
<1>. QED  BY <1>1 DEF GoTo

LEMMA TestDoneKeeps ==
    ASSUME OneThread, RInv, NEW t \in Threads, TestDone(t)
    PROVE  RInv'
<1>. SUFFICES ASSUME NEW w, w = thread[t].wr PROVE RInv'
  OBVIOUS
<1>1. Core /\ InCalls /\ InCall(t) /\ DOMAIN thread = Threads
  BY DEF RInv, InCalls
<1>. SUFFICES ASSUME NEW c, c = Current(w) PROVE RInv'
  OBVIOUS
<1>2. /\ thread[t].pc = "test" /\ request[c] = "done"
      /\ request' = [request EXCEPT ![c] = "null"]
      /\ GoTo(t, "event") /\ UNCHANGED <<fabric, wrs>> /\ phase' = phase
  BY DEF TestDone, wrs
<1>3. w # QUEUE
  BY <1>1, <1>2 DEF Core, NoRequests, Current, Active
<1>4. Own(t, w) /\ w \in Ops \union Targets
  BY <1>1, <1>2, <1>3 DEF InCall, Own
<1>5. w \in Wrs /\ c \in DOMAIN request /\ DOMAIN request = Wrs \X {"cmd", "data"}
  BY <1>1, <1>4, Kinds DEF Core, Typed, Current
<1>6. DOMAIN request' = DOMAIN request /\ (\A q : Active(q)' <=> Active(q)) /\ ~Active(c)
  BY <1>2, <1>5 DEF Active
<1>7. OnlyAt(w)
  <2>1. \A v \in Wrs, i \in {"cmd", "data"} : v # w => c # <<v, i>>
    BY DEF Current
  <2>. QED  BY <1>2, <1>5, <2>1 DEF OnlyAt
<1>8. Core'
  <2>1. UNCHANGED <<sends, recvs, phase, cmd_msg, wr_queue>>
    BY <1>2 DEF fabric, wrs
  <2>2. OneEach'
    BY <1>1, <1>2, <1>6, StartsNothing DEF Core
  <2>3. Typed' /\ Queued'
    BY <1>1, <1>6, <2>1 DEF Core, Typed, Queued
  <2>4. Commands' /\ Inactive' /\ NoRequests'
    BY <1>1, <1>6, <2>1 DEF Core, Commands, Inactive, NoRequests, IsOfSend
  <2>. QED  BY <2>2, <2>3, <2>4 DEF Core
<1>9. /\ DOMAIN thread' = Threads /\ \A u \in Threads : u # t => thread'[u] = thread[u]
      /\ DOMAIN thread'[t] = {"pc", "wr", "timeout", "cursor", "progressed"}
      /\ thread'[t].pc = "event" /\ thread'[t].wr = thread[t].wr /\ thread'[t].cursor \in Nat \ {0}
  BY <1>1, <1>2, GoesTo
<1>10. InCall(t)'
  <2>1. thread'[t].wr = w /\ Current(w)' = c
    BY <1>2, <1>9 DEF Current
  <2>2. ~Active(c)'
    BY <1>6
  <2>3. request'[<<w, IF phase'[w] = "init" THEN "cmd" ELSE "data">>] # "active"
    BY <2>1, <2>2 DEF Current, Active
  <2>. QED  BY <1>4, <1>9, <2>1, <2>3 DEF InCall, Own, Current, Active
<1>11. InCalls'
  BY <1>1, <1>4, <1>7, <1>9, <1>10, CallsKeep
<1>. QED  BY <1>8, <1>11 DEF RInv

LEMMA TestAgainKeeps ==
    ASSUME OneThread, RInv, NEW t \in Threads, TestAgain(t)
    PROVE  RInv'
<1>1. Core /\ InCalls /\ InCall(t) /\ DOMAIN thread = Threads
  BY DEF RInv, InCalls
<1>. SUFFICES ASSUME NEW pc, pc = IF request[Current(thread[t].wr)] = "null" /\ phase[thread[t].wr] = "done"
                                  THEN "finish" ELSE "check"
              PROVE RInv'
  OBVIOUS
<1>2. /\ thread[t].pc = "test" /\ GoTo(t, pc)
      /\ UNCHANGED <<fabric, wrs, request>> /\ UNCHANGED <<phase, request>>
  BY DEF TestAgain, wrs
<1>3. /\ DOMAIN thread' = Threads /\ \A u \in Threads : u # t => thread'[u] = thread[u]
      /\ DOMAIN thread'[t] = {"pc", "wr", "timeout", "cursor", "progressed"}
      /\ thread'[t].pc = pc /\ thread'[t].wr = thread[t].wr /\ thread'[t].cursor \in Nat \ {0}
  BY <1>1, <1>2, GoesTo
<1>4. pc \in {"finish", "check"} /\ (pc = "finish" => phase[thread[t].wr] = "done")
  OBVIOUS
<1>5. thread[t].wr = QUEUE => phase[thread[t].wr] # "done"
  BY <1>1 DEF Core, NoRequests
<1>6. InCall(t)'
  BY <1>1, <1>2, <1>3, <1>4, <1>5 DEF InCall, Own
<1>7. Core' /\ InCalls'
  BY <1>1, <1>2, <1>3, <1>6, CallsStay, SameCore
<1>. QED  BY <1>7 DEF RInv

LEMMA TimedOutKeeps ==
    ASSUME OneThread, RInv, NEW t \in Threads, TimedOut(t)
    PROVE  RInv'
<1>1. Core /\ InCalls /\ DOMAIN thread = Threads
  BY DEF RInv, InCalls
<1>2. UNCHANGED <<fabric, wrs, request>> /\ UNCHANGED <<phase, request>>
  BY DEF TimedOut, wrs
<1>3. thread'[t] = Idle /\ DOMAIN thread' = Threads /\ \A u \in Threads : u # t => thread'[u] = thread[u]
  BY <1>1 DEF TimedOut
<1>4. InCall(t)'
  BY <1>3, IdleThread
<1>5. Core' /\ InCalls'
  BY <1>1, <1>2, <1>3, <1>4, CallsStay, SameCore
<1>. QED  BY <1>5 DEF RInv

LEMMA HandleEventKeeps ==
    ASSUME OneThread, RInv, NEW t \in Threads, HandleEvent(t)
    PROVE  RInv'
<1>. SUFFICES ASSUME NEW w, w = thread[t].wr PROVE RInv'
  OBVIOUS
<1>1. Core /\ InCalls /\ InCall(t) /\ DOMAIN thread = Threads
  BY DEF RInv, InCalls
<1>2. thread[t].pc = "event" /\ process_event(w, TRUE)
  BY DEF HandleEvent
<1>3. Own(t, w) /\ w \in Ops \union Targets /\ ~Active(Current(w))
  BY <1>1, <1>2 DEF InCall, Own
<1>4. Core' /\ OnlyAt(w)
  BY <1>1, <1>2, <1>3, ProcessKeeps
<1>5. /\ DOMAIN thread' = Threads /\ \A u \in Threads : u # t => thread'[u] = thread[u]
      /\ DOMAIN thread'[t] = {"pc", "wr", "timeout", "cursor", "progressed"}
      /\ thread'[t].wr = w /\ thread'[t].cursor \in Nat \ {0}
      /\ thread'[t].pc = IF phase'[w] = "done" THEN "finish" ELSE "check"
  <2>1. DOMAIN thread[t] = {"pc", "wr", "timeout", "cursor", "progressed"} /\ thread[t].cursor \in Nat \ {0}
    BY <1>1 DEF InCall
  <2>. QED  BY <1>1, <2>1 DEF HandleEvent, GoTo
<1>6. InCall(t)'
  BY <1>3, <1>5 DEF InCall, Own
<1>7. InCalls'
  BY <1>1, <1>3, <1>4, <1>5, <1>6, CallsKeep
<1>. QED  BY <1>4, <1>7 DEF RInv

LEMMA FinishInitiatorKeeps ==
    ASSUME OneThread, RInv, NEW t \in Threads, FinishInitiator(t)
    PROVE  RInv'
<1>. SUFFICES ASSUME NEW o, o = thread[t].wr PROVE RInv'
  OBVIOUS
<1>. SUFFICES ASSUME NEW b, b = OpOf[o].local PROVE RInv'
  OBVIOUS
<1>1. Core /\ InCalls /\ InCall(t) /\ DOMAIN thread = Threads
  BY DEF RInv, InCalls
<1>2. /\ thread[t].pc = "finish" /\ o \in Ops
      /\ phase' = [phase EXCEPT ![o] = "freed"]
      /\ wr_queue' = [wr_queue EXCEPT ![b] = RemoveFirst(@, o)]
      /\ thread' = [thread EXCEPT ![t] = Idle]
      /\ UNCHANGED <<sends, recvs, last_op, cmd_msg, request>> /\ UNCHANGED fabric
  BY DEF FinishInitiator, fabric
<1>3. /\ o \in Wrs /\ o \notin Targets /\ o # QUEUE /\ \A c \in Targets : c \in Wrs /\ c # o
      /\ DOMAIN phase = Wrs /\ DOMAIN wr_queue = Buffers /\ b \in Buffers /\ QUEUE \in Wrs
  BY <1>1, <1>2, Kinds, Assumptions DEF Assumptions, Core, Typed, Wrs
<1>4. DOMAIN phase' = Wrs /\ phase'[o] = "freed" /\ \A v \in Wrs : v # o => phase'[v] = phase[v]
  BY <1>2, <1>3
<1>5. Queued'
  <2>1. IsSeq(wr_queue[b])
    BY <1>1, <1>3 DEF Core, Queued
  <2>2. wr_queue'[b] = RemoveFirst(wr_queue[b], o) /\ \A c \in Buffers : c # b => wr_queue'[c] = wr_queue[c]
    BY <1>2, <1>3
  <2>3. IsSeq(wr_queue'[b]) /\ Range(wr_queue'[b]) \subseteq Range(wr_queue[b])
        /\ \A x \in Range(wr_queue[b]) : x # o => x \in Range(wr_queue'[b])
    <3>1. \A s : IsSeq(s) => /\ IsSeq(RemoveFirst(s, o)) /\ Range(RemoveFirst(s, o)) \subseteq Range(s)
                             /\ \A x \in Range(s) : x # o => x \in Range(RemoveFirst(s, o))
      BY RemovedFirst
    <3>. QED  BY <2>1, <2>2, <3>1
  <2>4. \A w \in Range(wr_queue'[b]) : w = b \/ (w \in Ops /\ OpOf[w].local = b)
    BY <1>1, <1>3, <2>3 DEF Core, Queued
  <2>5. b \in Targets => b \in Range(wr_queue'[b])
    <3>1. b \in Targets => b # o /\ b \in Range(wr_queue[b])
      BY <1>1, <1>3 DEF Core, Queued
    <3>. QED  BY <2>3, <3>1
  <2>. QED  BY <1>1, <1>3, <2>2, <2>3, <2>4, <2>5, Queues DEF Core
<1>6. \A q : Active(q)' <=> Active(q)
  BY <1>2 DEF Active
<1>7. OneEach'
  BY <1>1, <1>2, <1>6, StartsNothing DEF Core
<1>8. Typed'
  BY <1>1, <1>2, <1>3, <1>4 DEF Core, Typed, States
<1>9. Commands' /\ NoRequests'
  BY <1>1, <1>2, <1>3, <1>4, <1>6 DEF Core, Commands, NoRequests, IsOfSend
<1>10. Inactive'
  <2>1. \A v \in Ops : phase'[v] = "unposted" => phase[v] = "unposted"
    BY <1>4, Kinds
  <2>. QED  BY <1>1, <1>3, <1>4, <1>6, <2>1 DEF Core, Inactive
<1>11. OnlyAt(o)
  BY <1>2, <1>4 DEF OnlyAt
<1>12. thread'[t] = Idle /\ DOMAIN thread' = Threads /\ \A u \in Threads : u # t => thread'[u] = thread[u]
  BY <1>1, <1>2
<1>13. InCall(t)'
  BY <1>12, IdleThread
<1>14. Own(t, o) /\ o \in Ops \union Targets
  BY <1>1, <1>2, Kinds DEF InCall, Own
<1>15. InCalls'
  BY <1>1, <1>11, <1>12, <1>13, <1>14, CallsKeep
<1>. QED  BY <1>5, <1>7, <1>8, <1>9, <1>10, <1>15 DEF RInv, Core

LEMMA FinishTargetKeeps ==
    ASSUME OneThread, RInv, NEW t \in Threads, FinishTarget(t)
    PROVE  RInv'
<1>. SUFFICES ASSUME NEW b, b = thread[t].wr PROVE RInv'
  OBVIOUS
<1>. SUFFICES ASSUME NEW queue, queue = wr_queue[b] PROVE RInv'
  OBVIOUS
<1>1. Core /\ InCalls /\ InCall(t) /\ DOMAIN thread = Threads
  BY DEF RInv, InCalls
<1>2. thread[t].pc = "finish" /\ b \in Targets /\ Repost(b, queue)
  BY DEF FinishTarget
<1>3. phase[b] = "done" /\ Own(t, b)
  BY <1>1, <1>2, Kinds DEF InCall, Own
<1>4. ~Active(<<b, "cmd">>) /\ ~Active(<<b, "data">>)
  BY <1>1, <1>2, <1>3 DEF Core, Inactive
<1>5. IsSeq(queue) /\ Range(queue) \subseteq Range(wr_queue[b])
  BY <1>1, <1>2, Kinds DEF Core, Queued
<1>6. Core' /\ OnlyAt(b)
  BY <1>1, <1>2, <1>4, <1>5, RepostKeeps
<1>7. thread'[t] = Idle /\ DOMAIN thread' = Threads /\ \A u \in Threads : u # t => thread'[u] = thread[u]
  BY <1>1 DEF FinishTarget
<1>8. InCall(t)'
  BY <1>7, IdleThread
<1>9. InCalls'
  BY <1>1, <1>2, <1>3, <1>6, <1>7, <1>8, CallsKeep
<1>. QED  BY <1>6, <1>9 DEF RInv

-----------------------------------------------------------------------------
(* The invariant.                                                          *)

(* Only the commands' receives are there at first. *)
LEMMA InitHolds == Init => RInv
<1>. SUFFICES ASSUME Init PROVE RInv
  OBVIOUS
<1>. DEFINE m(p) == [from |-> ANY_SOURCE, rcv |-> [req |-> <<p[2], "cmd">>, into |-> NONE]]
<1>1. /\ sends = [ch \in Channels |-> <<>>]
      /\ recvs = [p \in Ports |-> IF \E b \in Targets : p = CmdPort(b) THEN <<m(p)>> ELSE <<>>]
  BY DEF Init, Channels
<1>2. /\ phase = [w \in Wrs |-> IF w \in Ops THEN "unposted" ELSE "init"]
      /\ request = [q \in Wrs \X {"cmd", "data"} |-> IF q[1] \notin Ops /\ q[2] = "cmd" THEN "active" ELSE "null"]
      /\ DOMAIN cmd_msg = Targets
      /\ wr_queue = [b \in Buffers |-> IF b \in Targets THEN <<b>> ELSE <<>>]
      /\ thread = [t \in Threads |-> Idle]
  BY DEF Init
<1>3. \A x : IsSeq(<<x>>) /\ DOMAIN <<x>> = {1} /\ <<x>>[1] = x /\ Range(<<x>>) = {x}
  <2>. SUFFICES ASSUME NEW x PROVE IsSeq(<<x>>) /\ DOMAIN <<x>> = {1} /\ <<x>>[1] = x /\ Range(<<x>>) = {x}
    OBVIOUS
  <2>1. DOMAIN <<x>> = {1} /\ <<x>>[1] = x
    OBVIOUS
  <2>2. Range(<<x>>) = {x}
    BY <2>1 DEF Range
  <2>3. <<x>> \in Seq({x})
    OBVIOUS
  <2>. QED  BY <2>1, <2>2, <2>3 DEF IsSeq
<1>4. IsSeq(<<>>) /\ DOMAIN <<>> = {} /\ Range(<<>>) = {}
  <2>1. DOMAIN <<>> = {}
    OBVIOUS
  <2>2. Range(<<>>) = {}
    BY <2>1 DEF Range
  <2>. QED  BY <2>1, <2>2 DEF IsSeq
<1>5. \A q, ch, i : ch \in Channels => ~IsSent(q, ch, i)
  BY <1>1, <1>4 DEF IsSent
<1>6. ASSUME NEW q, NEW p \in Ports, NEW i
      PROVE  IsReceive(q, p, i) <=> i = 1 /\ \E b \in Targets : p = CmdPort(b) /\ q = <<b, "cmd">>
  <2>1. CASE \E b \in Targets : p = CmdPort(b)
    <3>1. PICK b \in Targets : p = CmdPort(b)
      BY <2>1
    <3>2. recvs[p] = <<m(p)>>
      BY <1>1, <2>1
    <3>3. p[2] = b /\ \A c : p = CmdPort(c) => c = b
      BY <3>1 DEF CmdPort
    <3>4. m(p).rcv.req = <<b, "cmd">>
      BY <3>3
    <3>. HIDE DEF m
    <3>5. DOMAIN recvs[p] = {1} /\ recvs[p][1] = m(p)
      BY <3>2, <1>3
    <3>6. IsReceive(q, p, i) <=> i = 1 /\ q = <<b, "cmd">>
      BY <3>4, <3>5 DEF IsReceive
    <3>. QED  BY <3>1, <3>3, <3>6
  <2>2. CASE ~\E b \in Targets : p = CmdPort(b)
    <3>1. recvs[p] = <<>>
      BY <1>1, <2>2
    <3>. QED  BY <3>1, <2>2, <1>4 DEF IsReceive
  <2>. QED  BY <2>1, <2>2
<1>7. ASSUME NEW w \in Wrs, NEW i \in {"cmd", "data"} PROVE Active(<<w, i>>) <=> w \notin Ops /\ i = "cmd"
  BY <1>2 DEF Active
<1>8. ASSUME NEW q \in Handles PROVE Active(q) <=> \E b \in Targets : q = <<b, "cmd">>
  <2>1. PICK w \in Ops \union Targets, i \in {"cmd", "data"} : q = <<w, i>>
    BY DEF Handles
  <2>. QED  BY <2>1, <1>7, Kinds
<1>9. OneEach
  <2>. SUFFICES ASSUME NEW q \in Handles
       PROVE /\ \A p \in Ports : \A i : IsReceive(q, p, i) => Active(q)
             /\ Active(q) => \E p \in Ports : \E i : IsReceive(q, p, i)
             /\ \A p, r \in Ports : \A i, j : IsReceive(q, p, i) /\ IsReceive(q, r, j) => p = r /\ i = j
    BY <1>5 DEF OneEach
  <2>1. \A p \in Ports : \A i : IsReceive(q, p, i) => Active(q)
    BY <1>6, <1>8
  <2>2. ASSUME Active(q) PROVE \E p \in Ports : \E i : IsReceive(q, p, i)
    <3>1. PICK b \in Targets : q = <<b, "cmd">>
      BY <2>2, <1>8
    <3>2. CmdPort(b) \in Ports
      BY Assumptions DEF Assumptions
    <3>3. IsReceive(q, CmdPort(b), 1)
      BY <3>1, <3>2, <1>6
    <3>. QED  BY <3>2, <3>3
  <2>3. ASSUME NEW p \in Ports, NEW r \in Ports, NEW i, NEW j, IsReceive(q, p, i), IsReceive(q, r, j)
        PROVE  p = r /\ i = j
    <3>1. PICK b \in Targets : p = CmdPort(b) /\ q = <<b, "cmd">>
      BY <2>3, <1>6
    <3>2. PICK c \in Targets : r = CmdPort(c) /\ q = <<c, "cmd">>
      BY <2>3, <1>6
    <3>. QED  BY <3>1, <3>2, <2>3, <1>6
  <2>. QED  BY <2>1, <2>2, <2>3
<1>10. Typed
  <2>1. DOMAIN sends = Channels /\ \A ch \in Channels : IsSeq(sends[ch])
    BY <1>1, <1>4
  <2>2. DOMAIN recvs = Ports /\ \A p \in Ports : IsSeq(recvs[p])
    <3>. HIDE DEF m
    <3>. QED  BY <1>1, <1>3, <1>4
  <2>3. DOMAIN phase = Wrs /\ (\A w \in Wrs : phase[w] \in States) /\ \A b \in Targets : phase[b] = "init"
    BY <1>2, Kinds DEF States
  <2>. QED  BY <1>2, <2>1, <2>2, <2>3 DEF Typed
<1>11. Queued
  BY <1>2, <1>3, <1>4, Kinds DEF Queued
<1>12. Commands
  <2>1. ASSUME NEW b \in Targets, NEW r \in Ranks PROVE DOMAIN sends[<<r, CmdPort(b)>>] = {}
    <3>1. <<r, CmdPort(b)>> \in Channels
      BY Assumptions DEF Assumptions, Channels
    <3>. QED  BY <3>1, <1>1, <1>4
  <2>2. ASSUME NEW p \in Ports, NEW i \in DOMAIN recvs[p]
        PROVE  /\ recvs[p][i].rcv.req \in Handles
               /\ \A b \in Targets :
                    recvs[p][i].rcv.req = <<b, "cmd">> => p = CmdPort(b) /\ recvs[p][i].rcv.into = NONE
    <3>1. \E b \in Targets : p = CmdPort(b)
      BY <2>2, <1>1, <1>4
    <3>2. PICK b \in Targets : p = CmdPort(b)
      BY <3>1
    <3>3. recvs[p] = <<m(p)>> /\ p[2] = b
      BY <1>1, <3>1, <3>2 DEF CmdPort
    <3>4. m(p).rcv.req = <<b, "cmd">> /\ m(p).rcv.into = NONE
      BY <3>3
    <3>. HIDE DEF m
    <3>5. recvs[p][i] = m(p)
      BY <2>2, <3>3, <1>3
    <3>. QED  BY <3>2, <3>4, <3>5 DEF Handles
  <2>3. \A b \in Targets : Active(<<b, "cmd">>)
    BY <1>7, Kinds
  <2>4. \A ch \in Channels : DOMAIN sends[ch] = {}
    BY <1>1, <1>4
  <2>. QED  BY <2>1, <2>2, <2>3, <2>4 DEF Commands
<1>13. Inactive /\ NoRequests
  <2>1. \A b \in Targets : phase[b] = "init" /\ ~Active(<<b, "data">>)
    BY <1>2, <1>7, Kinds
  <2>2. \A o \in Ops : ~Active(<<o, "cmd">>) /\ ~Active(<<o, "data">>)
    BY <1>7, Kinds
  <2>3. NoRequests
    BY <1>2, <1>7, Kinds DEF NoRequests, Wrs
  <2>. QED  BY <2>1, <2>2, <2>3 DEF Inactive
<1>14. InCalls
  <2>. DEFINE r == [pc |-> "idle", wr |-> NONE, timeout |-> -1, cursor |-> 1, progressed |-> FALSE]
  <2>1. DOMAIN r = {"pc", "wr", "timeout", "cursor", "progressed"} /\ r.pc = "idle" /\ r.cursor = 1
    OBVIOUS
  <2>2. DOMAIN thread = Threads /\ \A t \in Threads : thread[t] = r
    BY <1>2 DEF Idle
  <2>. HIDE DEF r
  <2>. QED  BY <2>1, <2>2 DEF InCalls, InCall
<1>. QED  BY <1>9, <1>10, <1>11, <1>12, <1>13, <1>14 DEF RInv, Core

LEMMA NextKeeps == ASSUME OneThread, RInv, [Next]_vars PROVE RInv'
<1>1. CASE UNCHANGED vars
  <2>1. UNCHANGED <<fabric, wrs, request>> /\ UNCHANGED <<phase, request, thread>>
    BY <1>1 DEF vars, wrs, fabric
  <2>2. \A t \in Threads : InCall(t)'
    BY <2>1, OthersStay DEF RInv
  <2>. QED  BY <2>1, <2>2, SameCore DEF RInv, InCalls
<1>2. ASSUME NEW from \in Ranks, NEW port \in Ports, Transfer(from, port) PROVE RInv'
  BY <1>2, TransferKeeps
<1>3. ASSUME NEW t \in Threads, InsideCall(t) PROVE RInv'
  <2>1. CASE PutData(t)
    BY <2>1, PutDataKeeps
  <2>2. CASE GetCommand(t)
    BY <2>2, GetCommandKeeps
  <2>3. CASE CheckTarget(t)
    BY <2>3, CheckTargetKeeps
  <2>4. CASE CheckDone(t)
    BY <2>4, CheckDoneKeeps
  <2>5. CASE TestDone(t)
    BY <2>5, TestDoneKeeps
  <2>6. CASE TestAgain(t)
    BY <2>6, TestAgainKeeps
  <2>7. CASE TimedOut(t)
    BY <2>7, TimedOutKeeps
  <2>8. CASE HandleEvent(t)
    BY <2>8, HandleEventKeeps
  <2>9. CASE FinishInitiator(t)
    BY <2>9, FinishInitiatorKeeps
  <2>10. CASE FinishTarget(t)
    BY <2>10, FinishTargetKeeps
  <2>. QED  BY <1>3, <2>1, <2>2, <2>3, <2>4, <2>5, <2>6, <2>7, <2>8, <2>9, <2>10 DEF InsideCall
<1>4. ASSUME NEW t \in Threads, NEW o \in Ops, PutCommand(t, o) \/ GetReceive(t, o) PROVE RInv'
  BY <1>4, PutCommandKeeps, GetReceiveKeeps
<1>5. ASSUME NEW t \in Threads, NEW w \in Wrs, NEW timeout \in Timeouts[t], WaitEnter(t, w, timeout) PROVE RInv'
  BY <1>5, WaitEnterKeeps
<1>. QED  BY <1>1, <1>2, <1>3, <1>4, <1>5 DEF Next

(***************************************************************************)
(* The request that a work request waits for next is the one its phase     *)
(* says, commands go where targets receive them, and a request has one     *)
(* send or receive of its own while it is active: the protocol of          *)
(* commands and data never gets out of step (nnti_mpi.cpp: process_event). *)
(***************************************************************************)
THEOREM TransfersAreInductive == ASSUME OneThread PROVE Spec => []RInv
<1>1. RInv /\ [Next]_vars => RInv'
  BY NextKeeps
<1>. QED  BY <1>1, InitHolds, PTL DEF Spec

(* One send or receive of one request. *)
LEMMA OneOfEach ==
    ASSUME RInv, NEW q \in Handles
    PROVE  Cardinality(PostedSends(q)) + Cardinality(PostedRecvs(q)) = IF Active(q) THEN 1 ELSE 0
<1>1. /\ \A ch \in Channels : \A i : IsSent(q, ch, i) => Active(q)
      /\ \A p \in Ports : \A i : IsReceive(q, p, i) => Active(q)
      /\ Active(q) => \/ \E ch \in Channels : \E i : IsSent(q, ch, i)
                      \/ \E p \in Ports : \E i : IsReceive(q, p, i)
      /\ \A ch, dh \in Channels : \A i, j : IsSent(q, ch, i) /\ IsSent(q, dh, j) => ch = dh /\ i = j
      /\ \A p, r \in Ports : \A i, j : IsReceive(q, p, i) /\ IsReceive(q, r, j) => p = r /\ i = j
      /\ \A ch \in Channels, p \in Ports : \A i, j : ~(IsSent(q, ch, i) /\ IsReceive(q, p, j))
  BY DEF RInv, Core, OneEach
<1>2. DOMAIN sends = Channels /\ DOMAIN recvs = Ports
  BY DEF RInv, Core, Typed
<1>3. \A at : at \in PostedSends(q) <=> \E ch \in Channels : \E i : at = <<ch, i>> /\ IsSent(q, ch, i)
  BY <1>2 DEF PostedSends, IsSent
<1>4. \A at : at \in PostedRecvs(q) <=> \E p \in Ports : \E i : at = <<p, i>> /\ IsReceive(q, p, i)
  BY <1>2 DEF PostedRecvs, IsReceive
<1>5. Cardinality({}) = 0 /\ \A x : Cardinality({x}) = 1
  BY FS_EmptySet, FS_Singleton
<1>6. CASE ~Active(q)
  <2>1. PostedSends(q) = {} /\ PostedRecvs(q) = {}
    BY <1>1, <1>3, <1>4, <1>6
  <2>. QED  BY <2>1, <1>5, <1>6
<1>7. ASSUME Active(q), NEW ch \in Channels, NEW i, IsSent(q, ch, i)
      PROVE  Cardinality(PostedSends(q)) + Cardinality(PostedRecvs(q)) = 1
  <2>1. PostedSends(q) = {<<ch, i>>}
    BY <1>1, <1>3, <1>7
  <2>2. PostedRecvs(q) = {}
    BY <1>1, <1>4, <1>7
  <2>3. Cardinality(PostedSends(q)) = 1 /\ Cardinality(PostedRecvs(q)) = 0
    BY <2>1, <2>2, FS_EmptySet, FS_Singleton
  <2>. QED  BY <2>3
<1>8. ASSUME Active(q), NEW p \in Ports, NEW i, IsReceive(q, p, i)
      PROVE  Cardinality(PostedSends(q)) + Cardinality(PostedRecvs(q)) = 1
  <2>1. PostedRecvs(q) = {<<p, i>>}
    BY <1>1, <1>4, <1>8
  <2>2. PostedSends(q) = {}
    BY <1>1, <1>3, <1>8
  <2>3. Cardinality(PostedRecvs(q)) = 1 /\ Cardinality(PostedSends(q)) = 0
    BY <2>1, <2>2, FS_EmptySet, FS_Singleton
  <2>. QED  BY <2>3
<1>. QED  BY <1>1, <1>6, <1>7, <1>8

(***************************************************************************)
(* No MPI_Request is started anew while it is active, which would lose the *)
(* handle of the send or receive before (nnti_mpi.cpp: NNTI_mpi_put,       *)
(* NNTI_mpi_get, process_event, repost_rdma_target_work_request).          *)
(***************************************************************************)
THEOREM HandlesStayUnique == ASSUME OneThread PROVE Spec => []RequestHandleIsUnique
<1>1. RInv => RequestHandleIsUnique
  <2>1. (Wrs \ {QUEUE}) \X {"cmd", "data"} = Handles
    BY Kinds DEF Handles, Wrs
  <2>. QED  BY <2>1, OneOfEach DEF RequestHandleIsUnique, Active
<1>. QED  BY <1>1, TransfersAreInductive, PTL

-----------------------------------------------------------------------------
(* How messages, receives and data belong together.                        *)

Puts == {o \in Ops : OpOf[o].kind = "put"}
Gets == {o \in Ops : OpOf[o].kind = "get"}
Remote(o) == OpOf[o].remote
Rank(o) == RankOf[OpOf[o].thread]
Cmd(o) == <<o, "cmd">>
Data(o) == <<o, "data">>

\* The channels that the messages of an operation take.
CmdChannel(o) == <<Rank(o), CmdPort(Remote(o))>>
PutChannel(o) == <<Rank(o), PutPort(Remote(o))>>
GetChannel(o) == <<OwnerOf[Remote(o)], GetPort(OpOf[o].local)>>

\* Its thread is between the two halves of the call that starts it.
Midway(o) ==
    LET t == OpOf[o].thread IN thread[t].pc \in {"put", "get"} /\ thread[t].wr = o

CmdSent(o) == phase[o] # "unposted" /\ ~(o \in Gets /\ Midway(o))

\* The target has its command, and the data is not through.
Taken(o) == CmdSent(o) /\ ~Active(Cmd(o)) /\ ~Landed(o)

\* The command of o is received before that of p.
CmdBefore(o, p) ==
    \A i : IsSent(Cmd(o), CmdChannel(o), i) => \E j : IsSent(Cmd(p), CmdChannel(p), j) /\ i < j

\* The data of an operation is through when its request is no longer active.
Through ==
    \A o \in Ops : Landed(o) <=> phase[o] # "unposted" /\ ~Active(Data(o)) /\ ~(o \in Puts /\ Midway(o))

\* The data comes after the command.
CommandFirst == \A o \in Ops : Landed(o) => CmdSent(o) /\ ~Active(Cmd(o))

\* A message is a command, the data of a put, or the data of a get that was taken.
IsACommand(ch, m) == \E o \in Ops : ch = CmdChannel(o) /\ m = Command(o)
IsPutData(ch, m) == \E o \in Puts : ch = PutChannel(o) /\ m = [req |-> Data(o), data |-> SourcePlace(o)]
IsGetData(ch, m) ==
    \E o \in Gets : ch = GetChannel(o) /\ Taken(o) /\ m = [req |-> Data(Remote(o)), data |-> SourcePlace(o)]

Messages ==
    \A ch \in Channels : \A i \in DOMAIN sends[ch] :
        \/ IsACommand(ch, sends[ch][i])
        \/ IsPutData(ch, sends[ch][i])
        \/ IsGetData(ch, sends[ch][i])

\* And so is a receive.
IsForCommand(p, r) ==
    \E b \in Targets : p = CmdPort(b) /\ r = [from |-> ANY_SOURCE, rcv |-> [req |-> Cmd(b), into |-> NONE]]
IsForPut(p, r) ==
    \E o \in Puts : /\ p = PutPort(Remote(o)) /\ Taken(o)
                    /\ r = [from |-> Rank(o), rcv |-> [req |-> Data(Remote(o)), into |-> DestPlace(o)]]
IsForGet(p, r) ==
    \E o \in Gets : /\ p = GetPort(OpOf[o].local)
                    /\ r = [from |-> OwnerOf[Remote(o)], rcv |-> [req |-> Data(o), into |-> DestPlace(o)]]

Receives ==
    \A p \in Ports : \A i \in DOMAIN recvs[p] :
        \/ IsForCommand(p, recvs[p][i])
        \/ IsForPut(p, recvs[p][i])
        \/ IsForGet(p, recvs[p][i])

\* A target serves one operation at a time, and knows which.
HasCommand(b) == phase[b] = "init" /\ ~Active(Cmd(b))
MovesData(b) == phase[b] = "cmd_done" /\ Active(Data(b))

Served ==
    /\ \A o \in Ops : Taken(o) => HasCommand(Remote(o)) \/ MovesData(Remote(o))
    /\ \A o, p \in Ops : Taken(o) /\ Taken(p) /\ Remote(o) = Remote(p) => o = p
    /\ \A b \in Targets : HasCommand(b) =>
         \E o \in Ops : Taken(o) /\ Remote(o) = b /\ cmd_msg[b] = [from |-> Rank(o), cmd |-> Command(o).data]

\* The data of puts is sent in the order of the commands.
PutsInOrder ==
    \A o, p \in Puts : o # p /\ OpOf[o].thread = OpOf[p].thread /\ Remote(o) = Remote(p) =>
        \A i :
            /\ IsSent(Data(o), PutChannel(o), i)
            /\ Midway(p) \/ (\E j : IsSent(Data(p), PutChannel(p), j) /\ i < j)
            => CmdBefore(o, p)

\* The receives of gets are posted in the order of the commands.
GetsInOrder ==
    \A o, p \in Gets : o # p /\ OpOf[o].local = OpOf[p].local /\ Remote(o) = Remote(p) =>
        \A i, j :
            /\ IsReceive(Data(o), GetPort(OpOf[o].local), i)
            /\ IsReceive(Data(p), GetPort(OpOf[p].local), j) /\ i < j
            => CmdSent(o) /\ (CmdSent(p) => CmdBefore(o, p))

\* A target whose command is not done has it handled now, in a wait.
Known ==
    \A b \in Targets : phase[b] = "init" =>
        request[Cmd(b)] \in {"active", "done"} \/ \E t \in Threads : thread[t].pc = "event" /\ thread[t].wr = b

\* What is complete has landed.
Complete ==
    /\ \A o \in Ops : phase[o] \in {"done", "freed"} => Landed(o)
    /\ \A t \in Threads : thread[t].pc = "finish" /\ thread[t].wr \in Ops => phase[thread[t].wr] = "done"

\* The events of a buffer are counted.
Counted ==
    /\ DOMAIN events = Targets
    /\ \A b \in WithEvents :
         /\ IsFiniteSet(LandedOn(b)) /\ events[b] \in Nat
         /\ Cardinality(LandedOn(b)) = events[b] + (IF HoldsEvent(b) THEN 1 ELSE 0)

\* How messages, receives and operations belong together.
Paired == Through /\ CommandFirst /\ Messages /\ Receives /\ Served /\ PutsInOrder /\ GetsInOrder

DInv == Paired /\ Known /\ Complete /\ Counted

-----------------------------------------------------------------------------
(* Which operation a message or a receive is of.                           *)

(* What operations are. *)
LEMMA Operations ==
    /\ \A o \in Ops : /\ (o \in Puts \/ o \in Gets) /\ ~(o \in Puts /\ o \in Gets)
                      /\ OpOf[o].thread \in Threads /\ Rank(o) \in Ranks /\ Remote(o) \in Targets
                      /\ OpOf[o].local \in Buffers /\ OwnerOf[OpOf[o].local] = Rank(o)
                      /\ OwnerOf[Remote(o)] \in Ranks
                      /\ CmdChannel(o) \in Channels /\ PutChannel(o) \in Channels
                      /\ Cmd(o) \in Handles /\ Data(o) \in Handles
    /\ \A o \in Gets : GetPort(OpOf[o].local) \in Ports /\ GetChannel(o) \in Channels
    /\ \A b \in Targets : /\ CmdPort(b) \in Ports /\ PutPort(b) \in Ports /\ OwnerOf[b] \in Ranks
                          /\ Cmd(b) \in Handles /\ Data(b) \in Handles /\ b \notin Ops
    /\ Puts \subseteq Ops /\ Gets \subseteq Ops
    /\ ANY_SOURCE \notin Ranks
<1>1. ASSUME NEW o \in Ops
      PROVE  /\ OpOf[o].kind \in {"put", "get"} /\ OpOf[o].thread \in Threads /\ RankOf[OpOf[o].thread] \in Ranks
             /\ OpOf[o].remote \in Targets /\ OpOf[o].local \in Buffers /\ OwnerOf[OpOf[o].local] = RankOf[OpOf[o].thread]
             /\ OpOf[o].kind = "get" => GetPort(OpOf[o].local) \in Ports
  BY Assumptions DEF Assumptions
<1>2. \A b \in Targets : CmdPort(b) \in Ports /\ PutPort(b) \in Ports /\ OwnerOf[b] \in Ranks /\ b \notin Ops
  BY Assumptions, Kinds DEF Assumptions
<1>3. ASSUME NEW o \in Ops
      PROVE  /\ (o \in Puts \/ o \in Gets) /\ ~(o \in Puts /\ o \in Gets)
             /\ OpOf[o].thread \in Threads /\ Rank(o) \in Ranks /\ Remote(o) \in Targets
             /\ OpOf[o].local \in Buffers /\ OwnerOf[OpOf[o].local] = Rank(o)
             /\ OwnerOf[Remote(o)] \in Ranks
             /\ CmdChannel(o) \in Channels /\ PutChannel(o) \in Channels
             /\ Cmd(o) \in Handles /\ Data(o) \in Handles
  BY <1>1, <1>2 DEF Puts, Gets, Rank, Remote, CmdChannel, PutChannel, Channels, Cmd, Data, Handles
<1>4. ASSUME NEW o \in Gets PROVE GetPort(OpOf[o].local) \in Ports /\ GetChannel(o) \in Channels
  BY <1>1, <1>2 DEF Gets, GetChannel, Channels, Remote
<1>. QED  BY <1>2, <1>3, <1>4, AnySourceAssumption DEF Cmd, Data, Handles, Puts, Gets

(* Tags and requests tell apart what they stand for. *)
LEMMA Tags ==
    /\ \A b, c : /\ CmdPort(b) = CmdPort(c) => b = c
                 /\ PutPort(b) = PutPort(c) => b = c
                 /\ GetPort(b) = GetPort(c) => b = c
                 /\ CmdPort(b) # PutPort(c) /\ CmdPort(b) # GetPort(c) /\ PutPort(b) # GetPort(c)
                 /\ Cmd(b) # Data(c)
                 /\ Cmd(b) = Cmd(c) => b = c
                 /\ Data(b) = Data(c) => b = c
BY DEF CmdPort, PutPort, GetPort, Cmd, Data

(* The requests of operations and targets. *)
LEMMA Requests == \A w \in Ops \union Targets : Cmd(w) \in Handles /\ Data(w) \in Handles
BY DEF Cmd, Data, Handles

(* A message of a channel, and what it is. *)
LEMMA MessageIs ==
    ASSUME Messages, NEW ch \in Channels, NEW i \in DOMAIN sends[ch], NEW m, m = sends[ch][i]
    PROVE  \/ \E o \in Ops : ch = CmdChannel(o) /\ m = Command(o) /\ m.req = Cmd(o)
           \/ \E o \in Puts : /\ ch = PutChannel(o) /\ m.req = Data(o) /\ m.data = SourcePlace(o)
           \/ \E o \in Gets : /\ ch = GetChannel(o) /\ Taken(o)
                              /\ m.req = Data(Remote(o)) /\ m.data = SourcePlace(o)
<1>1. IsACommand(ch, m) \/ IsPutData(ch, m) \/ IsGetData(ch, m)
  BY DEF Messages
<1>2. \A o \in Ops : Command(o).req = Cmd(o)
  BY DEF Command, Cmd
<1>3. CASE IsACommand(ch, m)
  BY <1>2, <1>3 DEF IsACommand
<1>4. CASE IsPutData(ch, m)
  BY <1>4 DEF IsPutData
<1>5. CASE IsGetData(ch, m)
  BY <1>5 DEF IsGetData
<1>. QED  BY <1>1, <1>3, <1>4, <1>5

(* A receive of a port, and what it is for. *)
LEMMA ReceiveIs ==
    ASSUME Receives, NEW p \in Ports, NEW i \in DOMAIN recvs[p], NEW r, r = recvs[p][i]
    PROVE  \/ \E b \in Targets : p = CmdPort(b) /\ r.from = ANY_SOURCE /\ r.rcv.req = Cmd(b) /\ r.rcv.into = NONE
           \/ \E o \in Puts : /\ p = PutPort(Remote(o)) /\ Taken(o) /\ r.from = Rank(o)
                              /\ r.rcv.req = Data(Remote(o)) /\ r.rcv.into = DestPlace(o)
           \/ \E o \in Gets : /\ p = GetPort(OpOf[o].local) /\ r.from = OwnerOf[Remote(o)]
                              /\ r.rcv.req = Data(o) /\ r.rcv.into = DestPlace(o)
<1>1. IsForCommand(p, r) \/ IsForPut(p, r) \/ IsForGet(p, r)
  BY DEF Receives
<1>2. CASE IsForCommand(p, r)
  BY <1>2 DEF IsForCommand
<1>3. CASE IsForPut(p, r)
  BY <1>3 DEF IsForPut
<1>4. CASE IsForGet(p, r)
  BY <1>4 DEF IsForGet
<1>. QED  BY <1>1, <1>2, <1>3, <1>4

(* A command that is under way is in its channel. *)
LEMMA CommandIsSent ==
    ASSUME OneEach, Messages, Receives, NEW o \in Ops, Active(Cmd(o))
    PROVE  \E i : IsSent(Cmd(o), CmdChannel(o), i)
<1>1. Cmd(o) \in Handles
  BY Operations
<1>2. \/ \E ch \in Channels : \E i : IsSent(Cmd(o), ch, i)
      \/ \E p \in Ports : \E i : IsReceive(Cmd(o), p, i)
  BY <1>1 DEF OneEach
<1>3. ASSUME NEW ch \in Channels, NEW i, IsSent(Cmd(o), ch, i) PROVE ch = CmdChannel(o)
  <2>1. i \in DOMAIN sends[ch] /\ sends[ch][i].req = Cmd(o)
    BY <1>3 DEF IsSent
  <2>. QED  BY <2>1, MessageIs, Tags
<1>4. ASSUME NEW p \in Ports, NEW i, IsReceive(Cmd(o), p, i) PROVE FALSE
  <2>1. i \in DOMAIN recvs[p] /\ recvs[p][i].rcv.req = Cmd(o)
    BY <1>4 DEF IsReceive
  <2>2. \E b \in Targets : Cmd(o) = Cmd(b)
    BY <2>1, ReceiveIs, Tags
  <2>. QED  BY <2>2, Tags, Operations
<1>. QED  BY <1>2, <1>3, <1>4

(* The data of a put that is under way is in its channel. *)
LEMMA DataIsSent ==
    ASSUME OneEach, Messages, Receives, NEW o \in Puts, Active(Data(o))
    PROVE  \E i : IsSent(Data(o), PutChannel(o), i)
<1>1. o \in Ops /\ Data(o) \in Handles
  BY Operations
<1>2. \/ \E ch \in Channels : \E i : IsSent(Data(o), ch, i)
      \/ \E p \in Ports : \E i : IsReceive(Data(o), p, i)
  BY <1>1 DEF OneEach
<1>3. ASSUME NEW ch \in Channels, NEW i, IsSent(Data(o), ch, i) PROVE ch = PutChannel(o)
  <2>1. i \in DOMAIN sends[ch] /\ sends[ch][i].req = Data(o)
    BY <1>3 DEF IsSent
  <2>2. \A x \in Gets : Data(Remote(x)) # Data(o)
    BY <1>1, Operations, Tags
  <2>. QED  BY <2>1, <2>2, MessageIs, Tags
<1>4. ASSUME NEW p \in Ports, NEW i, IsReceive(Data(o), p, i) PROVE FALSE
  <2>1. i \in DOMAIN recvs[p] /\ recvs[p][i].rcv.req = Data(o)
    BY <1>4 DEF IsReceive
  <2>2. (\E x \in Puts : Data(o) = Data(Remote(x))) \/ (\E x \in Gets : Data(o) = Data(x))
    <3>1. \A b \in Targets : Data(o) # Cmd(b)
      BY Tags
    <3>. QED  BY <2>1, <3>1, ReceiveIs
  <2>. QED  BY <1>1, <2>2, Tags, Operations
<1>. QED  BY <1>2, <1>3, <1>4

(* A get that is under way has its receive posted. *)
LEMMA DataIsAwaited ==
    ASSUME OneEach, Messages, Receives, NEW o \in Gets, Active(Data(o))
    PROVE  \E i : IsReceive(Data(o), GetPort(OpOf[o].local), i) /\ recvs[GetPort(OpOf[o].local)][i].from = OwnerOf[Remote(o)]
<1>1. o \in Ops /\ Data(o) \in Handles
  BY Operations
<1>2. \/ \E ch \in Channels : \E i : IsSent(Data(o), ch, i)
      \/ \E p \in Ports : \E i : IsReceive(Data(o), p, i)
  BY <1>1 DEF OneEach
<1>3. ASSUME NEW ch \in Channels, NEW i, IsSent(Data(o), ch, i) PROVE FALSE
  <2>1. i \in DOMAIN sends[ch] /\ sends[ch][i].req = Data(o)
    BY <1>3 DEF IsSent
  <2>2. (\E x \in Puts : Data(o) = Data(x)) \/ (\E x \in Gets : Data(o) = Data(Remote(x)))
    BY <2>1, MessageIs, Tags
  <2>. QED  BY <1>1, <2>2, Tags, Operations
<1>4. ASSUME NEW p \in Ports, NEW i, IsReceive(Data(o), p, i)
      PROVE  p = GetPort(OpOf[o].local) /\ recvs[p][i].from = OwnerOf[Remote(o)]
  <2>1. i \in DOMAIN recvs[p] /\ recvs[p][i].rcv.req = Data(o)
    BY <1>4 DEF IsReceive
  <2>2. \A x \in Puts : Data(Remote(x)) # Data(o)
    BY <1>1, Operations, Tags
  <2>3. \A x \in Gets : Data(x) = Data(o) => x = o
    BY Tags
  <2>. QED  BY <2>1, <2>2, <2>3, ReceiveIs, Tags
<1>. QED  BY <1>2, <1>3, <1>4

-----------------------------------------------------------------------------
(* What a step does to channels and ports.                                 *)

\* m is sent, and is number n of its channel.
SentLast(ch, m, n) ==
    /\ \A i \in DOMAIN sends[ch] : i \in Nat /\ i < n
    /\ \A c \in Channels : \A i : i \in DOMAIN sends'[c] <=> i \in DOMAIN sends[c] \/ (c = ch /\ i = n)
    /\ \A c \in Channels : \A i \in DOMAIN sends[c] : sends'[c][i] = sends[c][i]
    /\ sends'[ch][n] = m

\* r is posted, and is number n of its port.
PostedLast(p, r, n) ==
    /\ \A i \in DOMAIN recvs[p] : i \in Nat /\ i < n
    /\ \A c \in Ports : \A i : i \in DOMAIN recvs'[c] <=> i \in DOMAIN recvs[c] \/ (c = p /\ i = n)
    /\ \A c \in Ports : \A i \in DOMAIN recvs[c] : recvs'[c][i] = recvs[c][i]
    /\ recvs'[p][n] = r

(* A send comes after what its channel holds. *)
LEMMA SendAppends ==
    ASSUME Typed, NEW ch \in Channels, NEW m, sends' = [sends EXCEPT ![ch] = Append(@, m)]
    PROVE  \E n \in Nat : SentLast(ch, m, n)
<1>. DEFINE n == Len(sends[ch]) + 1
<1>1. /\ sends'[ch] = Append(sends[ch], m) /\ IsSeq(sends[ch])
      /\ \A c \in Channels : c # ch => sends'[c] = sends[c]
  BY DEF Typed
<1>2. /\ DOMAIN sends'[ch] = 1 .. n /\ DOMAIN sends[ch] = 1 .. n - 1 /\ n \in Nat \ {0}
      /\ \A i \in DOMAIN sends[ch] : sends'[ch][i] = sends[ch][i]
      /\ sends'[ch][n] = m
  BY <1>1, Appended, SeqIndexes
<1>. HIDE DEF n
<1>3. \A i \in DOMAIN sends[ch] : i \in Nat /\ i < n
  BY <1>2
<1>4. ASSUME NEW i PROVE i \in DOMAIN sends'[ch] <=> i \in DOMAIN sends[ch] \/ i = n
  <2>1. i \in 1 .. n <=> i \in 1 .. n - 1 \/ i = n
    BY <1>2, Upto
  <2>. QED  BY <2>1, <1>2
<1>5. ASSUME NEW c \in Channels, NEW i
      PROVE  i \in DOMAIN sends'[c] <=> i \in DOMAIN sends[c] \/ (c = ch /\ i = n)
  BY <1>1, <1>4
<1>6. ASSUME NEW c \in Channels, NEW i \in DOMAIN sends[c] PROVE sends'[c][i] = sends[c][i]
  BY <1>1, <1>2
<1>. QED  BY <1>2, <1>3, <1>5, <1>6 DEF SentLast

(* And so does a receive at its port. *)
LEMMA ReceiveAppends ==
    ASSUME Typed, NEW p \in Ports, NEW r, recvs' = [recvs EXCEPT ![p] = Append(@, r)]
    PROVE  \E n \in Nat : PostedLast(p, r, n)
<1>. DEFINE n == Len(recvs[p]) + 1
<1>1. /\ recvs'[p] = Append(recvs[p], r) /\ IsSeq(recvs[p])
      /\ \A c \in Ports : c # p => recvs'[c] = recvs[c]
  BY DEF Typed
<1>2. /\ DOMAIN recvs'[p] = 1 .. n /\ DOMAIN recvs[p] = 1 .. n - 1 /\ n \in Nat \ {0}
      /\ \A i \in DOMAIN recvs[p] : recvs'[p][i] = recvs[p][i]
      /\ recvs'[p][n] = r
  BY <1>1, Appended, SeqIndexes
<1>. HIDE DEF n
<1>3. \A i \in DOMAIN recvs[p] : i \in Nat /\ i < n
  BY <1>2
<1>4. ASSUME NEW i PROVE i \in DOMAIN recvs'[p] <=> i \in DOMAIN recvs[p] \/ i = n
  <2>1. i \in 1 .. n <=> i \in 1 .. n - 1 \/ i = n
    BY <1>2, Upto
  <2>. QED  BY <2>1, <1>2
<1>5. ASSUME NEW c \in Ports, NEW i
      PROVE  i \in DOMAIN recvs'[c] <=> i \in DOMAIN recvs[c] \/ (c = p /\ i = n)
  BY <1>1, <1>4
<1>6. ASSUME NEW c \in Ports, NEW i \in DOMAIN recvs[c] PROVE recvs'[c][i] = recvs[c][i]
  BY <1>1, <1>2
<1>. QED  BY <1>2, <1>3, <1>5, <1>6 DEF PostedLast

(* The first message of a channel leaves it, and the receive that takes it. *)
LEMMA TransferTakes ==
    ASSUME Typed, NEW from \in Ranks, NEW port \in Ports, Matchable(from, port), Matched(from, port),
           NEW ch, ch = <<from, port>>, NEW k, k = FirstFitting(from, port)
    PROVE  /\ ch \in Channels /\ 1 \in DOMAIN sends[ch] /\ MatchedMessage(from, port) = sends[ch][1]
           /\ k \in DOMAIN recvs[port] /\ MatchedReceive(from, port) = recvs[port][k].rcv
           /\ recvs[port][k].from \in {from, ANY_SOURCE}
           /\ \A i \in DOMAIN recvs[port] : recvs[port][i].from = from => k <= i
           /\ \A c \in Channels : c # ch => sends'[c] = sends[c]
           /\ \A c \in Ports : c # port => recvs'[c] = recvs[c]
           /\ \A i \in DOMAIN sends'[ch] : i \in Nat \ {0} /\ i + 1 \in DOMAIN sends[ch] /\ sends'[ch][i] = sends[ch][i + 1]
           /\ \A i \in DOMAIN sends[ch] : i # 1 => i - 1 \in DOMAIN sends'[ch] /\ i \in Nat
           /\ \A i \in DOMAIN recvs'[port] :
                /\ i \in Nat /\ k \in Nat
                /\ i < k => i \in DOMAIN recvs[port] /\ recvs'[port][i] = recvs[port][i]
                /\ ~(i < k) => i + 1 \in DOMAIN recvs[port] /\ recvs'[port][i] = recvs[port][i + 1]
<1>1. /\ ch \in Channels /\ IsSeq(sends[ch]) /\ IsSeq(recvs[port]) /\ sends[ch] # <<>>
      /\ sends' = [sends EXCEPT ![ch] = Tail(@)] /\ recvs' = [recvs EXCEPT ![port] = RemoveAt(@, k)]
      /\ MatchedMessage(from, port) = Head(sends[ch])
  BY DEF Typed, Channels, Matchable, Matched, MatchedMessage
<1>2. /\ sends'[ch] = Tail(sends[ch]) /\ \A c \in Channels : c # ch => sends'[c] = sends[c]
      /\ recvs'[port] = RemoveAt(recvs[port], k) /\ \A c \in Ports : c # port => recvs'[c] = recvs[c]
  BY <1>1 DEF Typed
<1>3. k \in Fitting(from, port) /\ \A j \in Fitting(from, port) : k <= j
  <2>1. DOMAIN recvs[port] \subseteq Nat
    BY <1>1, SeqIndexes
  <2>2. Fitting(from, port) \subseteq Nat /\ Fitting(from, port) # {}
    BY <2>1 DEF Fitting, Matchable
  <2>3. \E i \in Fitting(from, port) : \A j \in Fitting(from, port) : i <= j
    BY <2>2, Least
  <2>. QED  BY <2>3 DEF FirstFitting
<1>4. /\ k \in DOMAIN recvs[port] /\ recvs[port][k].from \in {from, ANY_SOURCE}
      /\ \A i \in DOMAIN recvs[port] : recvs[port][i].from = from => k <= i
  BY <1>3 DEF Fitting
<1>5. /\ DOMAIN Tail(sends[ch]) = 1 .. Len(sends[ch]) - 1 /\ 1 \in DOMAIN sends[ch] /\ Head(sends[ch]) = sends[ch][1]
      /\ \A i \in DOMAIN Tail(sends[ch]) : i + 1 \in DOMAIN sends[ch] /\ Tail(sends[ch])[i] = sends[ch][i + 1]
  BY <1>1, Tailed
<1>6. Len(sends[ch]) \in Nat /\ DOMAIN sends[ch] = 1 .. Len(sends[ch])
  BY <1>1, SeqIndexes
<1>7. \A i \in DOMAIN sends'[ch] : i \in Nat \ {0} /\ i + 1 \in DOMAIN sends[ch] /\ sends'[ch][i] = sends[ch][i + 1]
  BY <1>2, <1>5, <1>6
<1>8. \A i \in DOMAIN sends[ch] : i # 1 => i - 1 \in DOMAIN sends'[ch] /\ i \in Nat
  BY <1>2, <1>5, <1>6
<1>9. Len(recvs[port]) \in Nat /\ DOMAIN recvs[port] = 1 .. Len(recvs[port])
  BY <1>1, SeqIndexes
<1>10. /\ DOMAIN recvs'[port] = 1 .. Len(recvs[port]) - 1
       /\ \A i \in DOMAIN recvs'[port] : recvs'[port][i] = (IF i < k THEN recvs[port][i] ELSE recvs[port][i + 1])
  BY <1>1, <1>2, <1>4, Removed
<1>11. ASSUME NEW i \in DOMAIN recvs'[port]
       PROVE  /\ i \in Nat /\ k \in Nat
              /\ i < k => i \in DOMAIN recvs[port] /\ recvs'[port][i] = recvs[port][i]
              /\ ~(i < k) => i + 1 \in DOMAIN recvs[port] /\ recvs'[port][i] = recvs[port][i + 1]
  <2>1. i \in 1 .. Len(recvs[port]) - 1 /\ k \in 1 .. Len(recvs[port])
    BY <1>4, <1>9, <1>10
  <2>. QED  BY <2>1, <1>9, <1>10
<1>12. MatchedReceive(from, port) = recvs[port][k].rcv
  BY DEF MatchedReceive
<1>. QED  BY <1>1, <1>2, <1>4, <1>5, <1>7, <1>8, <1>11, <1>12

-----------------------------------------------------------------------------
(* What a step leaves alone.                                               *)

\* The active requests are the same.
SameRequests == \A q \in Handles : Active(q)' <=> Active(q)

\* Neither the operations under way, nor where they are, are others.
SameProgress ==
    \A o \in Ops : ((phase'[o] = "unposted") <=> (phase[o] = "unposted")) /\ (Midway(o)' <=> Midway(o))

(* Then the same operations were taken. *)
LEMMA SameTaken ==
    ASSUME UNCHANGED moved, NEW o \in Ops, CmdSent(o)' <=> CmdSent(o), Active(Cmd(o))' <=> Active(Cmd(o))
    PROVE  (Landed(o)' <=> Landed(o)) /\ (Taken(o)' <=> Taken(o))
BY DEF Landed, Taken

(* A target whose work is the same serves the same operations. *)
LEMMA ServedStays ==
    ASSUME Served, \A o \in Ops : Taken(o)' <=> Taken(o),
           \A b \in Targets : /\ HasCommand(b)' <=> HasCommand(b)
                              /\ MovesData(b)' <=> MovesData(b)
                              /\ HasCommand(b) => cmd_msg'[b] = cmd_msg[b]
    PROVE  Served'
<1>1. /\ \A o \in Ops : Taken(o)' => HasCommand(Remote(o))' \/ MovesData(Remote(o))'
      /\ \A o, p \in Ops : Taken(o)' /\ Taken(p)' /\ Remote(o) = Remote(p) => o = p
  BY Operations DEF Served
<1>2. \A b \in Targets : HasCommand(b)' =>
        \E o \in Ops : Taken(o)' /\ Remote(o) = b /\ cmd_msg'[b] = [from |-> Rank(o), cmd |-> Command(o).data]
  BY DEF Served
<1>. QED  BY <1>1, <1>2 DEF Served

(* What was sent stays what it was. *)
LEMMA MessagesStay ==
    ASSUME Messages,
           \A ch \in Channels : \A i \in DOMAIN sends'[ch] :
             \/ \E j \in DOMAIN sends[ch] :
                  /\ sends'[ch][i] = sends[ch][j]
                  /\ \A o \in Gets : Taken(o) /\ sends[ch][j].req = Data(Remote(o)) => Taken(o)'
             \/ IsACommand(ch, sends'[ch][i])
             \/ IsPutData(ch, sends'[ch][i])
             \/ \E o \in Gets : /\ ch = GetChannel(o) /\ Taken(o)'
                                /\ sends'[ch][i] = [req |-> Data(Remote(o)), data |-> SourcePlace(o)]
    PROVE  Messages'
<1>1. ASSUME NEW ch \in Channels, NEW i \in DOMAIN sends'[ch]
      PROVE  \/ IsACommand(ch, sends'[ch][i])
             \/ IsPutData(ch, sends'[ch][i])
             \/ \E o \in Gets : /\ ch = GetChannel(o) /\ Taken(o)'
                                /\ sends'[ch][i] = [req |-> Data(Remote(o)), data |-> SourcePlace(o)]
  <2>1. ASSUME NEW j \in DOMAIN sends[ch], sends'[ch][i] = sends[ch][j],
               \A o \in Gets : Taken(o) /\ sends[ch][j].req = Data(Remote(o)) => Taken(o)'
        PROVE  \/ IsACommand(ch, sends'[ch][i])
               \/ IsPutData(ch, sends'[ch][i])
               \/ \E o \in Gets : /\ ch = GetChannel(o) /\ Taken(o)'
                                  /\ sends'[ch][i] = [req |-> Data(Remote(o)), data |-> SourcePlace(o)]
    <3>1. IsACommand(ch, sends[ch][j]) \/ IsPutData(ch, sends[ch][j]) \/ IsGetData(ch, sends[ch][j])
      BY DEF Messages
    <3>. QED  BY <2>1, <3>1 DEF IsGetData
  <2>. QED  BY <1>1, <2>1
<1>. QED  BY <1>1 DEF Messages, IsACommand, IsPutData, IsGetData

(* And what was posted. *)
LEMMA ReceivesStay ==
    ASSUME Receives,
           \A p \in Ports : \A i \in DOMAIN recvs'[p] :
             \/ \E j \in DOMAIN recvs[p] :
                  /\ recvs'[p][i] = recvs[p][j]
                  /\ \A o \in Puts : Taken(o) /\ recvs[p][j].rcv.req = Data(Remote(o)) => Taken(o)'
             \/ IsForCommand(p, recvs'[p][i])
             \/ \E o \in Puts : /\ p = PutPort(Remote(o)) /\ Taken(o)'
                                /\ recvs'[p][i] = [from |-> Rank(o),
                                                   rcv |-> [req |-> Data(Remote(o)), into |-> DestPlace(o)]]
             \/ IsForGet(p, recvs'[p][i])
    PROVE  Receives'
<1>1. ASSUME NEW p \in Ports, NEW i \in DOMAIN recvs'[p]
      PROVE  \/ IsForCommand(p, recvs'[p][i])
             \/ \E o \in Puts : /\ p = PutPort(Remote(o)) /\ Taken(o)'
                                /\ recvs'[p][i] = [from |-> Rank(o),
                                                   rcv |-> [req |-> Data(Remote(o)), into |-> DestPlace(o)]]
             \/ IsForGet(p, recvs'[p][i])
  <2>1. ASSUME NEW j \in DOMAIN recvs[p], recvs'[p][i] = recvs[p][j],
               \A o \in Puts : Taken(o) /\ recvs[p][j].rcv.req = Data(Remote(o)) => Taken(o)'
        PROVE  \/ IsForCommand(p, recvs'[p][i])
               \/ \E o \in Puts : /\ p = PutPort(Remote(o)) /\ Taken(o)'
                                  /\ recvs'[p][i] = [from |-> Rank(o),
                                                     rcv |-> [req |-> Data(Remote(o)), into |-> DestPlace(o)]]
               \/ IsForGet(p, recvs'[p][i])
    <3>1. IsForCommand(p, recvs[p][j]) \/ IsForPut(p, recvs[p][j]) \/ IsForGet(p, recvs[p][j])
      BY DEF Receives
    <3>. QED  BY <2>1, <3>1 DEF IsForPut
  <2>. QED  BY <1>1, <2>1
<1>. QED  BY <1>1 DEF Receives, IsForCommand, IsForPut, IsForGet

-----------------------------------------------------------------------------
(* Steps that send and receive nothing.                                    *)

(* A step that neither sends, receives nor starts anything keeps messages and receives paired. *)
LEMMA QuietKeeps ==
    ASSUME Paired, UNCHANGED <<sends, recvs, moved>>, SameRequests, SameProgress,
           \A b \in Targets : /\ HasCommand(b)' <=> HasCommand(b)
                              /\ MovesData(b)' <=> MovesData(b)
                              /\ HasCommand(b) => cmd_msg'[b] = cmd_msg[b]
    PROVE  Paired'
<1>1. \A o \in Ops : /\ CmdSent(o)' <=> CmdSent(o)
                     /\ Active(Cmd(o))' <=> Active(Cmd(o))
                     /\ Active(Data(o))' <=> Active(Data(o))
  <2>1. \A o \in Ops : /\ Active(Cmd(o))' <=> Active(Cmd(o))
                       /\ Active(Data(o))' <=> Active(Data(o))
    BY Operations DEF SameRequests
  <2>2. \A o \in Ops : CmdSent(o)' <=> CmdSent(o)
    BY DEF SameProgress, CmdSent
  <2>. QED  BY <2>1, <2>2
<1>2. \A o \in Ops : (Landed(o)' <=> Landed(o)) /\ (Taken(o)' <=> Taken(o))
  BY <1>1, SameTaken
<1>3. Through' /\ CommandFirst'
  BY <1>1, <1>2 DEF Paired, Through, CommandFirst, SameProgress
<1>4. Messages'
  BY <1>2, Operations, MessagesStay DEF Paired
<1>5. Receives'
  BY <1>2, Operations, ReceivesStay DEF Paired
<1>6. Served'
  BY <1>2, ServedStays DEF Paired
<1>7. /\ \A q, c, i : IsSent(q, c, i)' <=> IsSent(q, c, i)
      /\ \A q, p, i : IsReceive(q, p, i)' <=> IsReceive(q, p, i)
  BY DEF IsSent, IsReceive
<1>8. \A o, p \in Ops : CmdBefore(o, p)' <=> CmdBefore(o, p)
  BY <1>7 DEF CmdBefore
<1>9. PutsInOrder'
  BY <1>7, <1>8, Operations DEF Paired, PutsInOrder, SameProgress
<1>10. GetsInOrder'
  BY <1>1, <1>7, <1>8, Operations DEF Paired, GetsInOrder
<1>. QED  BY <1>3, <1>4, <1>5, <1>6, <1>9, <1>10 DEF Paired

-----------------------------------------------------------------------------
(* Steps that send or receive.                                             *)

(* The order of commands is not changed by what is sent later. *)
LEMMA CmdBeforeStays ==
    ASSUME Typed, NEW ch \in Channels, NEW m, sends' = [sends EXCEPT ![ch] = Append(@, m)],
           NEW o \in Ops, NEW p \in Ops, CmdBefore(o, p), m.req # Cmd(o)
    PROVE  CmdBefore(o, p)'
<1>1. PICK n \in Nat : SentLast(ch, m, n)
  BY SendAppends
<1>2. \A x \in Ops : CmdChannel(x) \in Channels
  BY Operations
<1>3. ASSUME NEW i, IsSent(Cmd(o), CmdChannel(o), i)' PROVE IsSent(Cmd(o), CmdChannel(o), i)
  BY <1>1, <1>2, <1>3 DEF IsSent, SentLast
<1>4. ASSUME NEW i, IsSent(Cmd(p), CmdChannel(p), i) PROVE IsSent(Cmd(p), CmdChannel(p), i)'
  BY <1>1, <1>2, <1>4 DEF IsSent, SentLast
<1>. QED  BY <1>3, <1>4 DEF CmdBefore

(* The last command of a channel comes after all others. *)
LEMMA CmdComesLast ==
    ASSUME Typed, NEW o \in Ops, NEW p \in Ops, o # p, CmdChannel(o) = CmdChannel(p),
           sends' = [sends EXCEPT ![CmdChannel(p)] = Append(@, Command(p))]
    PROVE  CmdBefore(o, p)'
<1>. DEFINE ch == CmdChannel(p)
<1>1. ch \in Channels /\ Command(p).req = Cmd(p) /\ Cmd(o) # Cmd(p)
  BY Operations, Tags DEF Command, Cmd
<1>. HIDE DEF ch
<1>2. sends' = [sends EXCEPT ![ch] = Append(@, Command(p))]
  BY DEF ch
<1>3. PICK n \in Nat : SentLast(ch, Command(p), n)
  BY <1>1, <1>2, SendAppends
<1>4. IsSent(Cmd(p), ch, n)'
  BY <1>1, <1>3 DEF IsSent, SentLast
<1>5. ASSUME NEW i, IsSent(Cmd(o), ch, i)' PROVE i < n
  <2>1. i \in DOMAIN sends'[ch] /\ sends'[ch][i].req = Cmd(o)
    BY <1>5 DEF IsSent
  <2>. QED  BY <1>1, <1>3, <2>1 DEF SentLast
<1>6. CmdChannel(o) = ch /\ CmdChannel(p) = ch
  BY DEF ch
<1>. QED  BY <1>4, <1>5, <1>6 DEF CmdBefore

(* Where threads are in a call that starts an operation. *)
LEMMA MidwayIs ==
    ASSUME RInv, NEW o \in Ops, Midway(o)
    PROVE  /\ phase[o] # "unposted"
           /\ o \in Puts => ~Active(Data(o))
           /\ o \in Gets => ~Active(Cmd(o))
<1>. DEFINE t == OpOf[o].thread
<1>1. t \in Threads /\ thread[t].pc \in {"put", "get"} /\ thread[t].wr = o
  BY Operations DEF Midway
<1>2. InCall(t)
  BY <1>1 DEF RInv, InCalls
<1>3. CASE thread[t].pc = "put"
  BY <1>1, <1>2, <1>3 DEF InCall, Puts, Gets, Data
<1>4. CASE thread[t].pc = "get"
  BY <1>1, <1>2, <1>4 DEF InCall, Puts, Gets, Cmd
<1>. QED  BY <1>1, <1>3, <1>4

(* An operation with a request under way has been started. *)
LEMMA ActiveIsStarted ==
    ASSUME RInv, NEW o \in Ops
    PROVE  /\ Active(Cmd(o)) => CmdSent(o)
           /\ Active(Data(o)) => phase[o] # "unposted"
<1>1. phase[o] = "unposted" => ~Active(Cmd(o)) /\ ~Active(Data(o))
  BY DEF RInv, Core, Inactive, Cmd, Data
<1>. QED  BY <1>1, MidwayIs DEF CmdSent

(* The operations of one thread take the same channels to one buffer. *)
LEMMA OneThreadOfRank ==
    ASSUME OneThread, NEW o \in Ops, NEW p \in Ops, Rank(o) = Rank(p)
    PROVE  OpOf[o].thread = OpOf[p].thread
BY Operations DEF OneThread, Rank

(* Only a step of its thread takes an operation half way. *)
LEMMA MidwayOfThread ==
    ASSUME NEW t \in Threads, \A u \in Threads \ {t} : thread'[u] = thread[u], NEW o \in Ops
    PROVE  /\ OpOf[o].thread # t => (Midway(o)' <=> Midway(o))
           /\ OpOf[o].thread = t => (Midway(o)' <=> thread'[t].pc \in {"put", "get"} /\ thread'[t].wr = o)
           /\ OpOf[o].thread = t => (Midway(o) <=> thread[t].pc \in {"put", "get"} /\ thread[t].wr = o)
BY Operations DEF Midway

(* A message that is not of the target changes no target. *)
LEMMA TargetsStay ==
    ASSUME \A b \in Targets : phase'[b] = phase[b] /\ (Active(Cmd(b))' <=> Active(Cmd(b))) /\ (Active(Data(b))' <=> Active(Data(b)))
    PROVE  \A b \in Targets : (HasCommand(b)' <=> HasCommand(b)) /\ (MovesData(b)' <=> MovesData(b))
BY DEF HasCommand, MovesData

(* The first half of a put: its command is the last of its channel. *)
LEMMA PutCommandPairs ==
    ASSUME RInv, Paired, NEW t \in Threads, NEW o \in Ops, PutCommand(t, o)
    PROVE  Paired'
<1>1. /\ thread[t].pc = "idle" /\ OpOf[o].thread = t /\ o \in Puts /\ o \notin Gets /\ phase[o] = "unposted"
      /\ sends' = [sends EXCEPT ![CmdChannel(o)] = Append(@, Command(o))]
      /\ request' = [request EXCEPT ![Cmd(o)] = "active"]
      /\ phase' = [phase EXCEPT ![o] = "init"]
      /\ thread' = [thread EXCEPT ![t].pc = "put", ![t].wr = o]
      /\ UNCHANGED <<recvs, cmd_msg, moved>>
  BY DEF PutCommand, PostCommand, Issend, CmdChannel, Rank, Remote, Cmd, Puts, Gets
<1>2. /\ DOMAIN phase = Wrs /\ DOMAIN request = Wrs \X {"cmd", "data"} /\ DOMAIN thread = Threads /\ Typed
      /\ DOMAIN thread[t] = {"pc", "wr", "timeout", "cursor", "progressed"}
  BY DEF RInv, Core, Typed, InCalls, InCall
<1>3. ~Active(Cmd(o)) /\ ~Active(Data(o))
  BY <1>1, ActiveIsStarted DEF CmdSent
<1>4. Active(Cmd(o))' /\ \A q \in Handles : q # Cmd(o) => (Active(q)' <=> Active(q))
  <2>1. Cmd(o) \in Handles /\ Handles \subseteq Wrs \X {"cmd", "data"}
    BY Operations, Kinds DEF Handles
  <2>. QED  BY <1>1, <1>2, <2>1 DEF Active
<1>5. thread'[t].pc = "put" /\ thread'[t].wr = o /\ \A u \in Threads \ {t} : thread'[u] = thread[u]
  BY <1>1, <1>2
<1>6. /\ Midway(o)' /\ ~Midway(o) /\ \A p \in Ops : p # o => (Midway(p)' <=> Midway(p))
  BY <1>1, <1>5, MidwayOfThread
<1>7. phase'[o] = "init" /\ \A w \in Ops \union Targets : w # o => phase'[w] = phase[w]
  <2>1. Ops \union Targets \subseteq Wrs
    BY Kinds
  <2>. QED  BY <1>1, <1>2, <2>1
<1>8. \A p \in Ops : p # o => (CmdSent(p)' <=> CmdSent(p)) /\ (Active(Cmd(p))' <=> Active(Cmd(p)))
                              /\ (Active(Data(p))' <=> Active(Data(p)))
  BY <1>4, <1>6, <1>7, Tags, Requests DEF CmdSent
<1>9. /\ ~Landed(o) /\ ~Landed(o)' /\ ~Taken(o) /\ ~Taken(o)' /\ CmdSent(o)'
      /\ \A p \in Ops : (Landed(p)' <=> Landed(p)) /\ (Taken(p)' <=> Taken(p))
  <2>1. ~Landed(o) /\ ~Taken(o)
    BY <1>1 DEF Paired, Through, Taken, CmdSent
  <2>2. ~Landed(o)' /\ ~Taken(o)' /\ CmdSent(o)'
    BY <1>1, <1>4, <1>7, <2>1 DEF Landed, Taken, CmdSent
  <2>3. ASSUME NEW p \in Ops, p # o PROVE (Landed(p)' <=> Landed(p)) /\ (Taken(p)' <=> Taken(p))
    BY <1>1, <1>8, <2>3, SameTaken
  <2>. QED  BY <2>1, <2>2, <2>3
<1>10. Through'
  BY <1>1, <1>6, <1>7, <1>8, <1>9 DEF Paired, Through
<1>11. CommandFirst'
  BY <1>8, <1>9 DEF Paired, CommandFirst
<1>12. CmdChannel(o) \in Channels /\ Command(o).req = Cmd(o)
  BY Operations DEF Command, Cmd
<1>13. PICK n \in Nat : SentLast(CmdChannel(o), Command(o), n)
  BY <1>1, <1>2, <1>12, SendAppends
<1>14. Messages'
  <2>1. ASSUME NEW c \in Channels, NEW i \in DOMAIN sends'[c]
        PROVE  (i \in DOMAIN sends[c] /\ sends'[c][i] = sends[c][i]) \/ IsACommand(c, sends'[c][i])
    BY <1>13 DEF IsACommand, SentLast
  <2>. QED  BY <1>9, <2>1, MessagesStay, Operations DEF Paired
<1>15. Receives'
  BY <1>1, <1>9, ReceivesStay, Operations DEF Paired
<1>16. Served'
  <2>1. \A b \in Targets : phase'[b] = phase[b] /\ (Active(Cmd(b))' <=> Active(Cmd(b))) /\ (Active(Data(b))' <=> Active(Data(b)))
    BY <1>4, <1>7, Operations, Tags
  <2>. QED  BY <1>1, <1>9, <2>1, TargetsStay, ServedStays DEF Paired
<1>17. ASSUME NEW x, x # Cmd(o), NEW c \in Channels, NEW i PROVE IsSent(x, c, i)' <=> IsSent(x, c, i)
  BY <1>12, <1>13, <1>17 DEF IsSent, SentLast
<1>18. PutsInOrder'
  <2>. SUFFICES ASSUME NEW a \in Puts, NEW p \in Puts, a # p, OpOf[a].thread = OpOf[p].thread, Remote(a) = Remote(p),
                       NEW i, IsSent(Data(a), PutChannel(a), i)',
                       Midway(p)' \/ \E j : IsSent(Data(p), PutChannel(p), j)' /\ i < j
       PROVE  CmdBefore(a, p)'
    BY DEF PutsInOrder
  <2>1. a \in Ops /\ p \in Ops /\ PutChannel(a) \in Channels /\ PutChannel(p) \in Channels
    BY Operations
  <2>2. IsSent(Data(a), PutChannel(a), i) /\ \A j : IsSent(Data(p), PutChannel(p), j)' <=> IsSent(Data(p), PutChannel(p), j)
    BY <1>17, <2>1, Tags
  <2>3. a # o
    BY <1>3, <2>1, <2>2, Operations DEF RInv, Core, OneEach
  <2>4. CASE p = o
    <3>1. CmdChannel(a) = CmdChannel(o)
      BY <2>4 DEF CmdChannel, Rank
    <3>. QED  BY <1>1, <1>2, <2>1, <2>3, <2>4, <3>1, CmdComesLast
  <2>5. CASE p # o
    <3>1. CmdBefore(a, p)
      BY <1>6, <2>1, <2>2, <2>5 DEF Paired, PutsInOrder
    <3>2. Cmd(o) # Cmd(a)
      BY <2>3, Tags
    <3>. QED  BY <1>1, <1>2, <1>12, <2>1, <3>1, <3>2, CmdBeforeStays
  <2>. QED  BY <2>4, <2>5
<1>19. GetsInOrder'
  <2>. SUFFICES ASSUME NEW a \in Gets, NEW p \in Gets, a # p, OpOf[a].local = OpOf[p].local, Remote(a) = Remote(p),
                       NEW i, NEW j, IsReceive(Data(a), GetPort(OpOf[a].local), i)',
                       IsReceive(Data(p), GetPort(OpOf[p].local), j)', i < j
       PROVE  CmdSent(a)' /\ (CmdSent(p)' => CmdBefore(a, p)')
    BY DEF GetsInOrder
  <2>1. a \in Ops /\ p \in Ops /\ a # o /\ p # o
    BY <1>1, Operations
  <2>2. CmdSent(a) /\ (CmdSent(p) => CmdBefore(a, p))
    BY <1>1 DEF Paired, GetsInOrder, IsReceive
  <2>3. Cmd(o) # Cmd(a)
    BY <2>1, Tags
  <2>4. CmdBefore(a, p) => CmdBefore(a, p)'
    BY <1>1, <1>2, <1>12, <2>1, <2>3, CmdBeforeStays
  <2>. QED  BY <1>8, <2>1, <2>2, <2>4
<1>. QED  BY <1>10, <1>11, <1>14, <1>15, <1>16, <1>18, <1>19 DEF Paired

(* What is sent for another purpose leaves the order of puts. *)
LEMMA PutsStayInOrder ==
    ASSUME Typed, PutsInOrder, NEW ch \in Channels, NEW m, sends' = [sends EXCEPT ![ch] = Append(@, m)],
           \A o \in Puts : m.req # Data(o) /\ m.req # Cmd(o) /\ (Midway(o)' => Midway(o))
    PROVE  PutsInOrder'
<1>1. PICK n \in Nat : SentLast(ch, m, n)
  BY SendAppends
<1>2. ASSUME NEW x, NEW c \in Channels, NEW i, x # m.req PROVE IsSent(x, c, i)' <=> IsSent(x, c, i)
  BY <1>1, <1>2 DEF IsSent, SentLast
<1>. SUFFICES ASSUME NEW a \in Puts, NEW p \in Puts, a # p, OpOf[a].thread = OpOf[p].thread, Remote(a) = Remote(p),
                     NEW i, IsSent(Data(a), PutChannel(a), i)',
                     Midway(p)' \/ \E j : IsSent(Data(p), PutChannel(p), j)' /\ i < j
     PROVE  CmdBefore(a, p)'
  BY DEF PutsInOrder
<1>3. a \in Ops /\ p \in Ops /\ PutChannel(a) \in Channels /\ PutChannel(p) \in Channels
  BY Operations
<1>4. IsSent(Data(a), PutChannel(a), i) /\ \A j : IsSent(Data(p), PutChannel(p), j)' <=> IsSent(Data(p), PutChannel(p), j)
  BY <1>2, <1>3
<1>5. CmdBefore(a, p)
  BY <1>4 DEF PutsInOrder
<1>. QED  BY <1>3, <1>5, CmdBeforeStays

(* And that of gets. *)
LEMMA GetsStayInOrder ==
    ASSUME Typed, GetsInOrder, recvs' = recvs,
           NEW ch \in Channels, NEW m, sends' = [sends EXCEPT ![ch] = Append(@, m)],
           \A o \in Gets : m.req # Cmd(o) /\ (CmdSent(o)' <=> CmdSent(o))
    PROVE  GetsInOrder'
<1>. SUFFICES ASSUME NEW a \in Gets, NEW p \in Gets, a # p, OpOf[a].local = OpOf[p].local, Remote(a) = Remote(p),
                     NEW i, NEW j, IsReceive(Data(a), GetPort(OpOf[a].local), i)',
                     IsReceive(Data(p), GetPort(OpOf[p].local), j)', i < j
     PROVE  CmdSent(a)' /\ (CmdSent(p)' => CmdBefore(a, p)')
  BY DEF GetsInOrder
<1>1. a \in Ops /\ p \in Ops
  BY Operations
<1>2. CmdSent(a) /\ (CmdSent(p) => CmdBefore(a, p))
  BY DEF GetsInOrder, IsReceive
<1>3. CmdBefore(a, p) => CmdBefore(a, p)'
  BY <1>1, CmdBeforeStays
<1>. QED  BY <1>2, <1>3

(* The second half of a put: its data comes after that of the puts before. *)
LEMMA PutDataPairs ==
    ASSUME RInv, Paired, NEW t \in Threads, PutData(t)
    PROVE  Paired'
<1>. SUFFICES ASSUME NEW o, o = thread[t].wr PROVE Paired'
  OBVIOUS
<1>. DEFINE m == [req |-> Data(o), data |-> SourcePlace(o)]
<1>1. thread[t].pc = "put" /\ InCall(t)
  BY DEF PutData, RInv, InCalls
<1>2. o \in Ops /\ OpOf[o].kind = "put" /\ phase[o] # "unposted" /\ ~Active(Data(o)) /\ OpOf[o].thread = t
  <2>1. o \in Ops /\ OpOf[o].kind = "put" /\ phase[o] # "unposted" /\ ~Active(Data(o)) /\ Own(t, o)
    BY <1>1 DEF InCall, Data
  <2>. QED  BY <2>1, Kinds DEF Own
<1>3. /\ o \in Puts /\ o \notin Gets /\ m.req = Data(o)
      /\ sends' = [sends EXCEPT ![PutChannel(o)] = Append(@, m)]
      /\ request' = [request EXCEPT ![Data(o)] = "active"]
      /\ thread' = [thread EXCEPT ![t] = Idle]
      /\ UNCHANGED <<recvs, phase, cmd_msg, moved>>
  BY <1>2 DEF PutData, Issend, PutChannel, Rank, Remote, Data, Puts, Gets
<1>. HIDE DEF m
<1>4. /\ DOMAIN request = Wrs \X {"cmd", "data"} /\ DOMAIN thread = Threads /\ Typed
  BY DEF RInv, Core, Typed, InCalls
<1>5. Active(Data(o))' /\ \A q \in Handles : q # Data(o) => (Active(q)' <=> Active(q))
  <2>1. Data(o) \in Handles /\ Handles \subseteq Wrs \X {"cmd", "data"}
    BY <1>2, Operations, Kinds DEF Handles
  <2>. QED  BY <1>3, <1>4, <2>1 DEF Active
<1>6. thread'[t].pc = "idle" /\ \A u \in Threads \ {t} : thread'[u] = thread[u]
  BY <1>3, <1>4 DEF Idle
<1>7. Midway(o) /\ \A p \in Ops : /\ OpOf[p].thread = t => ~Midway(p)'
                                  /\ p # o => (Midway(p)' <=> Midway(p))
  <2>1. \A p \in Ops : /\ OpOf[p].thread = t => ~Midway(p)'
                       /\ OpOf[p].thread # t => (Midway(p)' <=> Midway(p))
    BY <1>6, MidwayOfThread
  <2>2. Midway(o) /\ \A p \in Ops : OpOf[p].thread = t /\ p # o => ~Midway(p)
    BY <1>1, <1>2 DEF Midway
  <2>. QED  BY <2>1, <2>2
<1>8. \A p \in Ops : (CmdSent(p)' <=> CmdSent(p)) /\ (Active(Cmd(p))' <=> Active(Cmd(p)))
  BY <1>2, <1>3, <1>5, <1>7, Tags, Requests DEF CmdSent
<1>9. \A p \in Ops : (Landed(p)' <=> Landed(p)) /\ (Taken(p)' <=> Taken(p))
  BY <1>3, <1>8, SameTaken
<1>10. Through'
  <2>1. ~Landed(o)'
    BY <1>2, <1>3, <1>7, <1>9 DEF Paired, Through
  <2>2. \A p \in Ops : p # o => (Active(Data(p))' <=> Active(Data(p)))
    BY <1>5, Tags, Requests
  <2>. QED  BY <1>3, <1>5, <1>7, <1>9, <2>1, <2>2 DEF Paired, Through
<1>11. CommandFirst'
  BY <1>8, <1>9 DEF Paired, CommandFirst
<1>12. PutChannel(o) \in Channels
  BY <1>2, Operations
<1>13. PICK n \in Nat : SentLast(PutChannel(o), m, n)
  BY <1>3, <1>4, <1>12, SendAppends
<1>14. Messages'
  <2>1. ASSUME NEW c \in Channels, NEW i \in DOMAIN sends'[c]
        PROVE  (i \in DOMAIN sends[c] /\ sends'[c][i] = sends[c][i]) \/ IsPutData(c, sends'[c][i])
    BY <1>3, <1>13 DEF IsPutData, SentLast, m
  <2>. QED  BY <1>9, <2>1, MessagesStay, Operations DEF Paired
<1>15. Receives'
  BY <1>3, <1>9, ReceivesStay, Operations DEF Paired
<1>16. Served'
  <2>1. \A b \in Targets : phase'[b] = phase[b] /\ (Active(Cmd(b))' <=> Active(Cmd(b))) /\ (Active(Data(b))' <=> Active(Data(b)))
    <3>1. \A b \in Targets : b # o /\ Cmd(b) \in Handles /\ Data(b) \in Handles
      BY <1>2, Operations
    <3>2. \A b \in Targets : Cmd(b) # Data(o) /\ Data(b) # Data(o)
      BY <3>1, Tags
    <3>. QED  BY <1>3, <1>5, <3>1, <3>2
  <2>. QED  BY <1>3, <1>9, <2>1, TargetsStay, ServedStays DEF Paired
<1>17. PutsInOrder'
  <2>. SUFFICES ASSUME NEW a \in Puts, NEW p \in Puts, a # p, OpOf[a].thread = OpOf[p].thread, Remote(a) = Remote(p),
                       NEW i, IsSent(Data(a), PutChannel(a), i)',
                       Midway(p)' \/ \E j : IsSent(Data(p), PutChannel(p), j)' /\ i < j
       PROVE  CmdBefore(a, p)'
    BY DEF PutsInOrder
  <2>1. /\ a \in Ops /\ p \in Ops /\ PutChannel(a) \in Channels /\ PutChannel(p) = PutChannel(a)
        /\ Cmd(a) # Data(o) /\ Data(a) # Data(p)
    <3>1. PutChannel(p) = PutChannel(a)
      BY DEF PutChannel, Rank
    <3>. QED  BY <3>1, Operations, Tags
  <2>2. ASSUME NEW x \in Ops, NEW c \in Channels, NEW j
        PROVE  IsSent(Data(x), c, j)' <=> IsSent(Data(x), c, j) \/ (x = o /\ c = PutChannel(o) /\ j = n)
    <3>1. Data(x) = Data(o) => x = o
      BY Tags
    <3>2. n \notin DOMAIN sends[PutChannel(o)]
      BY <1>13 DEF SentLast
    <3>3. j \in DOMAIN sends'[c] <=> j \in DOMAIN sends[c] \/ (c = PutChannel(o) /\ j = n)
      BY <1>13 DEF SentLast
    <3>4. j \in DOMAIN sends[c] => sends'[c][j] = sends[c][j]
      BY <1>13 DEF SentLast
    <3>5. sends'[PutChannel(o)][n].req = Data(o)
      BY <1>3, <1>13 DEF SentLast
    <3>. QED  BY <3>1, <3>2, <3>3, <3>4, <3>5 DEF IsSent
  <2>3. a # o
    <3>. SUFFICES ASSUME a = o PROVE FALSE
      OBVIOUS
    <3>1. ~\E j : IsSent(Data(o), PutChannel(o), j)
      BY <1>2, <1>12, Operations DEF RInv, Core, OneEach
    <3>2. i = n /\ ~Midway(p)'
      BY <1>2, <1>7, <2>1, <2>2, <3>1
    <3>3. PICK j : IsSent(Data(p), PutChannel(o), j) /\ i < j
      BY <2>1, <2>2, <3>2
    <3>4. j \in Nat /\ j < n
      BY <1>13, <3>3 DEF SentLast, IsSent
    <3>. QED  BY <3>2, <3>3, <3>4
  <2>4. IsSent(Data(a), PutChannel(a), i)
    BY <2>1, <2>2, <2>3
  <2>5. CmdBefore(a, p)
    <3>1. CASE p = o
      BY <1>7, <2>4, <3>1 DEF Paired, PutsInOrder
    <3>2. CASE p # o
      <4>1. Midway(p) \/ \E j : IsSent(Data(p), PutChannel(p), j) /\ i < j
        BY <1>7, <2>1, <2>2, <3>2
      <4>. QED  BY <2>4, <4>1 DEF Paired, PutsInOrder
    <3>. QED  BY <3>1, <3>2
  <2>. QED  BY <1>3, <1>4, <1>12, <2>1, <2>5, CmdBeforeStays
<1>18. GetsInOrder'
  <2>1. \A x \in Gets : m.req # Cmd(x) /\ (CmdSent(x)' <=> CmdSent(x))
    BY <1>3, <1>8, Operations, Tags
  <2>. QED  BY <1>3, <1>4, <1>12, <2>1, GetsStayInOrder DEF Paired
<1>. QED  BY <1>10, <1>11, <1>14, <1>15, <1>16, <1>17, <1>18 DEF Paired

(* The first half of a get: its receive is posted, and no command is sent yet. *)
LEMMA GetReceivePairs ==
    ASSUME OneThread, RInv, Paired, NEW t \in Threads, NEW o \in Ops, GetReceive(t, o)
    PROVE  Paired'
<1>. DEFINE p == GetPort(OpOf[o].local)
            r == [from |-> OwnerOf[Remote(o)], rcv |-> [req |-> Data(o), into |-> DestPlace(o)]]
<1>1. /\ thread[t].pc = "idle" /\ OpOf[o].thread = t /\ o \in Gets /\ o \notin Puts /\ phase[o] = "unposted"
      /\ recvs' = [recvs EXCEPT ![p] = Append(@, r)]
      /\ request' = [request EXCEPT ![Data(o)] = "active"]
      /\ phase' = [phase EXCEPT ![o] = "init"]
      /\ thread' = [thread EXCEPT ![t].pc = "get", ![t].wr = o]
      /\ UNCHANGED <<sends, cmd_msg, moved>>
  BY DEF GetReceive, Irecv, Remote, Data, Puts, Gets
<1>2. p \in Ports /\ r.rcv.req = Data(o)
  BY <1>1, Operations
<1>3. /\ DOMAIN phase = Wrs /\ DOMAIN request = Wrs \X {"cmd", "data"} /\ DOMAIN thread = Threads /\ Typed
      /\ DOMAIN thread[t] = {"pc", "wr", "timeout", "cursor", "progressed"}
  BY DEF RInv, Core, Typed, InCalls, InCall
<1>. HIDE DEF p, r
<1>4. Active(Data(o))' /\ \A q \in Handles : q # Data(o) => (Active(q)' <=> Active(q))
  <2>1. Data(o) \in Handles /\ Handles \subseteq Wrs \X {"cmd", "data"}
    BY Operations, Kinds DEF Handles
  <2>. QED  BY <1>1, <1>3, <2>1 DEF Active
<1>5. thread'[t].pc = "get" /\ thread'[t].wr = o /\ \A u \in Threads \ {t} : thread'[u] = thread[u]
  <2>1. DOMAIN thread = Threads /\ DOMAIN thread[t] = {"pc", "wr", "timeout", "cursor", "progressed"}
    BY <1>3
  <2>2. thread' = [thread EXCEPT ![t].pc = "get", ![t].wr = o]
    BY <1>1
  <2>. QED  BY <2>1, <2>2
<1>6. /\ Midway(o)' /\ ~Midway(o) /\ \A x \in Ops : x # o => (Midway(x)' <=> Midway(x))
      /\ \A x \in Ops : OpOf[x].thread = t => ~Midway(x)
  <2>1. ASSUME NEW x \in Ops, OpOf[x].thread = t PROVE ~Midway(x) /\ (Midway(x)' <=> x = o)
    <3>1. Midway(x) <=> thread[t].pc \in {"put", "get"} /\ thread[t].wr = x
      BY <2>1 DEF Midway
    <3>2. Midway(x)' <=> thread'[t].pc \in {"put", "get"} /\ thread'[t].wr = x
      BY <2>1 DEF Midway
    <3>. QED  BY <1>1, <1>5, <3>1, <3>2
  <2>2. \A x \in Ops : OpOf[x].thread # t => (Midway(x)' <=> Midway(x))
    BY <1>5, MidwayOfThread
  <2>. QED  BY <1>1, <2>1, <2>2
<1>7. phase'[o] = "init" /\ \A w \in Ops \union Targets : w # o => phase'[w] = phase[w]
  <2>1. Ops \union Targets \subseteq Wrs
    BY Kinds
  <2>. QED  BY <1>1, <1>3, <2>1
<1>8. \A x \in Ops : (CmdSent(x)' <=> CmdSent(x)) /\ (Active(Cmd(x))' <=> Active(Cmd(x)))
  <2>1. \A x \in Ops : x # o => (CmdSent(x)' <=> CmdSent(x))
    BY <1>6, <1>7 DEF CmdSent
  <2>2. ~CmdSent(o) /\ ~CmdSent(o)'
    BY <1>1, <1>6 DEF CmdSent
  <2>3. \A x \in Ops : Active(Cmd(x))' <=> Active(Cmd(x))
    BY <1>4, Tags, Requests
  <2>. QED  BY <2>1, <2>2, <2>3
<1>9. \A x \in Ops : (Landed(x)' <=> Landed(x)) /\ (Taken(x)' <=> Taken(x))
  BY <1>1, <1>8, SameTaken
<1>10. Through'
  <2>1. ~Landed(o)'
    BY <1>1, <1>9 DEF Paired, Through
  <2>2. \A x \in Ops : x # o => (Active(Data(x))' <=> Active(Data(x)))
    BY <1>4, Tags, Requests
  <2>. QED  BY <1>1, <1>4, <1>6, <1>7, <1>9, <2>1, <2>2 DEF Paired, Through
<1>11. CommandFirst'
  BY <1>8, <1>9 DEF Paired, CommandFirst
<1>12. PICK n \in Nat : PostedLast(p, r, n)
  BY <1>1, <1>2, <1>3, ReceiveAppends
<1>13. Messages'
  BY <1>1, <1>9, MessagesStay, Operations DEF Paired
<1>14. Receives'
  <2>1. ASSUME NEW c \in Ports, NEW i \in DOMAIN recvs'[c]
        PROVE  (i \in DOMAIN recvs[c] /\ recvs'[c][i] = recvs[c][i]) \/ IsForGet(c, recvs'[c][i])
    BY <1>1, <1>12 DEF IsForGet, PostedLast, p, r
  <2>. QED  BY <1>9, <2>1, ReceivesStay, Operations DEF Paired
<1>15. Served'
  <2>1. \A b \in Targets : phase'[b] = phase[b] /\ (Active(Cmd(b))' <=> Active(Cmd(b))) /\ (Active(Data(b))' <=> Active(Data(b)))
    BY <1>4, <1>7, Operations, Tags
  <2>. QED  BY <1>1, <1>9, <2>1, TargetsStay, ServedStays DEF Paired
<1>16. \A x, c, i : IsSent(x, c, i)' <=> IsSent(x, c, i)
  BY <1>1 DEF IsSent
<1>17. \A a, x \in Ops : CmdBefore(a, x)' <=> CmdBefore(a, x)
  BY <1>16 DEF CmdBefore
<1>18. PutsInOrder'
  <2>1. \A x \in Puts : Midway(x)' <=> Midway(x)
    BY <1>1, <1>6, Operations
  <2>. QED  BY <1>16, <1>17, <2>1, Operations DEF Paired, PutsInOrder
<1>19. GetsInOrder'
  <2>. SUFFICES ASSUME NEW a \in Gets, NEW x \in Gets, a # x, OpOf[a].local = OpOf[x].local, Remote(a) = Remote(x),
                       NEW i, NEW j, IsReceive(Data(a), GetPort(OpOf[a].local), i)',
                       IsReceive(Data(x), GetPort(OpOf[x].local), j)', i < j
       PROVE  CmdSent(a)' /\ (CmdSent(x)' => CmdBefore(a, x)')
    BY DEF GetsInOrder
  <2>1. a \in Ops /\ x \in Ops /\ GetPort(OpOf[a].local) \in Ports /\ GetPort(OpOf[x].local) \in Ports
    BY Operations
  <2>2. ASSUME NEW y \in Ops, NEW c \in Ports, NEW k
        PROVE  IsReceive(Data(y), c, k)' <=> IsReceive(Data(y), c, k) \/ (y = o /\ c = p /\ k = n)
    <3>1. Data(y) = Data(o) => y = o
      BY Tags
    <3>2. n \notin DOMAIN recvs[p]
      BY <1>12 DEF PostedLast
    <3>. QED  BY <1>2, <1>12, <3>1, <3>2 DEF IsReceive, PostedLast
  <2>3. a # o
    <3>. SUFFICES ASSUME a = o PROVE FALSE
      OBVIOUS
    <3>1. ~\E k : IsReceive(Data(o), p, k)
      <4>1. ~Active(Data(o)) /\ Data(o) \in Handles
        BY <1>1, ActiveIsStarted, Operations
      <4>. QED  BY <1>2, <4>1 DEF RInv, Core, OneEach
    <3>2. i = n
      BY <2>1, <2>2, <3>1 DEF p
    <3>3. IsReceive(Data(x), p, j)
      BY <2>1, <2>2 DEF p
    <3>4. j \in Nat /\ j < n
      BY <1>12, <3>3 DEF PostedLast, IsReceive
    <3>. QED  BY <3>2, <3>4
  <2>4. IsReceive(Data(a), GetPort(OpOf[a].local), i)
    BY <2>1, <2>2, <2>3
  <2>5. CASE x = o
    <3>1. Active(Data(a))
      BY <2>1, <2>4, Operations DEF RInv, Core, OneEach
    <3>2. phase[a] # "unposted"
      BY <2>1, <3>1, ActiveIsStarted
    <3>3. Rank(a) = Rank(x)
      BY <2>1, Operations
    <3>4. OpOf[a].thread = t
      BY <1>1, <2>1, <2>5, <3>3, OneThreadOfRank
    <3>5. CmdSent(a)
      BY <1>6, <2>1, <3>2, <3>4 DEF CmdSent
    <3>6. ~CmdSent(o)'
      BY <1>1, <1>6 DEF CmdSent
    <3>. QED  BY <1>8, <2>1, <2>5, <3>5, <3>6
  <2>6. CASE x # o
    <3>1. IsReceive(Data(x), GetPort(OpOf[x].local), j)
      BY <2>1, <2>2, <2>6
    <3>2. CmdSent(a) /\ (CmdSent(x) => CmdBefore(a, x))
      BY <2>4, <3>1 DEF Paired, GetsInOrder
    <3>. QED  BY <1>8, <1>17, <2>1, <3>2
  <2>. QED  BY <2>5, <2>6
<1>. QED  BY <1>10, <1>11, <1>13, <1>14, <1>15, <1>18, <1>19 DEF Paired

(* The second half of a get: its command comes after those of the gets before. *)
LEMMA GetCommandPairs ==
    ASSUME RInv, Paired, NEW t \in Threads, GetCommand(t)
    PROVE  Paired'
<1>. SUFFICES ASSUME NEW o, o = thread[t].wr PROVE Paired'
  OBVIOUS
<1>1. thread[t].pc = "get" /\ InCall(t)
  BY DEF GetCommand, RInv, InCalls
<1>2. o \in Ops /\ OpOf[o].kind = "get" /\ phase[o] # "unposted" /\ ~Active(Cmd(o)) /\ OpOf[o].thread = t
  <2>1. o \in Ops /\ OpOf[o].kind = "get" /\ phase[o] # "unposted" /\ ~Active(Cmd(o)) /\ Own(t, o)
    BY <1>1 DEF InCall, Cmd
  <2>. QED  BY <2>1, Kinds DEF Own
<1>3. /\ o \in Gets /\ o \notin Puts /\ CmdChannel(o) \in Channels /\ Command(o).req = Cmd(o)
      /\ sends' = [sends EXCEPT ![CmdChannel(o)] = Append(@, Command(o))]
      /\ request' = [request EXCEPT ![Cmd(o)] = "active"]
      /\ thread' = [thread EXCEPT ![t] = Idle]
      /\ UNCHANGED <<recvs, phase, cmd_msg, moved>>
  <2>1. CmdChannel(o) \in Channels
    BY <1>2, Operations
  <2>. QED  BY <1>2, <2>1 DEF GetCommand, PostCommand, Issend, CmdChannel, Rank, Remote, Cmd, Puts, Gets, Command
<1>4. /\ DOMAIN request = Wrs \X {"cmd", "data"} /\ DOMAIN thread = Threads /\ Typed
  BY DEF RInv, Core, Typed, InCalls
<1>5. Active(Cmd(o))' /\ \A q \in Handles : q # Cmd(o) => (Active(q)' <=> Active(q))
  <2>1. Cmd(o) \in Handles /\ Handles \subseteq Wrs \X {"cmd", "data"}
    BY <1>2, Operations, Kinds DEF Handles
  <2>. QED  BY <1>3, <1>4, <2>1 DEF Active
<1>6. thread'[t].pc = "idle" /\ \A u \in Threads \ {t} : thread'[u] = thread[u]
  BY <1>3, <1>4 DEF Idle
<1>7. Midway(o) /\ \A p \in Ops : /\ OpOf[p].thread = t => ~Midway(p)'
                                  /\ p # o => (Midway(p)' <=> Midway(p))
  <2>1. \A p \in Ops : /\ OpOf[p].thread = t => ~Midway(p)'
                       /\ OpOf[p].thread # t => (Midway(p)' <=> Midway(p))
    BY <1>6, MidwayOfThread
  <2>2. Midway(o) /\ \A p \in Ops : OpOf[p].thread = t /\ p # o => ~Midway(p)
    BY <1>1, <1>2 DEF Midway
  <2>. QED  BY <2>1, <2>2
<1>8. /\ CmdSent(o)' /\ ~CmdSent(o)
      /\ \A p \in Ops : p # o => (CmdSent(p)' <=> CmdSent(p)) /\ (Active(Cmd(p))' <=> Active(Cmd(p)))
      /\ \A p \in Ops : Active(Data(p))' <=> Active(Data(p))
  BY <1>2, <1>3, <1>5, <1>7, Tags, Requests DEF CmdSent
<1>9. /\ ~Landed(o) /\ \A p \in Ops : (Landed(p)' <=> Landed(p)) /\ (Taken(p)' <=> Taken(p))
  <2>1. ~Landed(o) /\ ~Taken(o)
    BY <1>2, <1>8 DEF Paired, CommandFirst, Taken
  <2>2. ~Taken(o)' /\ (Landed(o)' <=> Landed(o))
    BY <1>3, <1>5 DEF Taken, Landed
  <2>3. ASSUME NEW p \in Ops, p # o PROVE (Landed(p)' <=> Landed(p)) /\ (Taken(p)' <=> Taken(p))
    BY <1>3, <1>8, <2>3, SameTaken
  <2>. QED  BY <2>1, <2>2, <2>3
<1>10. Through'
  <2>1. \A p \in Puts : Midway(p)' <=> Midway(p)
    BY <1>3, <1>7, Operations
  <2>. QED  BY <1>3, <1>8, <1>9, <2>1 DEF Paired, Through
<1>11. CommandFirst'
  BY <1>8, <1>9 DEF Paired, CommandFirst
<1>12. PICK n \in Nat : SentLast(CmdChannel(o), Command(o), n)
  BY <1>3, <1>4, SendAppends
<1>13. Messages'
  <2>1. ASSUME NEW c \in Channels, NEW i \in DOMAIN sends'[c]
        PROVE  (i \in DOMAIN sends[c] /\ sends'[c][i] = sends[c][i]) \/ IsACommand(c, sends'[c][i])
    BY <1>2, <1>12 DEF IsACommand, SentLast
  <2>. QED  BY <1>9, <2>1, MessagesStay, Operations DEF Paired
<1>14. Receives'
  BY <1>3, <1>9, ReceivesStay, Operations DEF Paired
<1>15. Served'
  <2>1. \A b \in Targets : phase'[b] = phase[b] /\ (Active(Cmd(b))' <=> Active(Cmd(b))) /\ (Active(Data(b))' <=> Active(Data(b)))
    <3>1. \A b \in Targets : b # o /\ Cmd(b) \in Handles /\ Data(b) \in Handles
      BY <1>2, Operations
    <3>2. \A b \in Targets : Cmd(b) # Cmd(o) /\ Data(b) # Cmd(o)
      BY <3>1, Tags
    <3>. QED  BY <1>3, <1>5, <3>1, <3>2
  <2>. QED  BY <1>3, <1>9, <2>1, TargetsStay, ServedStays DEF Paired
<1>16. PutsInOrder'
  <2>1. \A x \in Puts : Command(o).req # Data(x) /\ Command(o).req # Cmd(x) /\ (Midway(x)' => Midway(x))
    BY <1>3, <1>7, Operations, Tags
  <2>. QED  BY <1>3, <1>4, <2>1, PutsStayInOrder DEF Paired
<1>17. GetsInOrder'
  <2>. SUFFICES ASSUME NEW a \in Gets, NEW x \in Gets, a # x, OpOf[a].local = OpOf[x].local, Remote(a) = Remote(x),
                       NEW i, NEW j, IsReceive(Data(a), GetPort(OpOf[a].local), i)',
                       IsReceive(Data(x), GetPort(OpOf[x].local), j)', i < j
       PROVE  CmdSent(a)' /\ (CmdSent(x)' => CmdBefore(a, x)')
    BY DEF GetsInOrder
  <2>1. a \in Ops /\ x \in Ops
    BY Operations
  <2>2. CmdSent(a) /\ (CmdSent(x) => CmdBefore(a, x))
    BY <1>3 DEF Paired, GetsInOrder, IsReceive
  <2>3. a # o
    BY <1>8, <2>2
  <2>4. CASE x = o
    <3>1. Rank(a) = Rank(x)
      BY <2>1, Operations
    <3>2. CmdChannel(a) = CmdChannel(o)
      BY <2>4, <3>1 DEF CmdChannel
    <3>3. CmdBefore(a, o)'
      BY <1>2, <1>3, <1>4, <2>1, <2>3, <3>2, CmdComesLast
    <3>. QED  BY <1>8, <2>1, <2>2, <2>3, <2>4, <3>3
  <2>5. CASE x # o
    <3>1. Cmd(o) # Cmd(a)
      BY <2>3, Tags
    <3>2. CmdBefore(a, x) => CmdBefore(a, x)'
      BY <1>3, <1>4, <2>1, <3>1, CmdBeforeStays
    <3>. QED  BY <1>8, <2>1, <2>2, <2>3, <2>5, <3>2
  <2>. QED  BY <2>4, <2>5
<1>. QED  BY <1>10, <1>11, <1>13, <1>14, <1>15, <1>16, <1>17 DEF Paired

(* A target that has a command moves the data of the operation it serves. *)
LEMMA StartsServed ==
    ASSUME RInv, Paired, NEW b \in Targets, HasCommand(b), NEW known, known = TRUE, StartData(b, known)
    PROVE  /\ phase' = [phase EXCEPT ![b] = "cmd_done"]
           /\ request' = [request EXCEPT ![Cmd(b)] = "null", ![Data(b)] = "active"]
           /\ UNCHANGED cmd_msg
           /\ \E o \in Ops :
                /\ Taken(o) /\ Remote(o) = b
                /\ \/ /\ o \in Puts /\ UNCHANGED sends
                      /\ recvs' = [recvs EXCEPT ![PutPort(b)] = Append(@,
                            [from |-> Rank(o), rcv |-> [req |-> Data(b), into |-> DestPlace(o)]])]
                   \/ /\ o \in Gets /\ UNCHANGED recvs
                      /\ sends' = [sends EXCEPT ![GetChannel(o)] = Append(@,
                            [req |-> Data(b), data |-> SourcePlace(o)])]
<1>1. PICK o \in Ops : Taken(o) /\ Remote(o) = b /\ cmd_msg[b] = [from |-> Rank(o), cmd |-> Command(o).data]
  BY DEF Paired, Served
<1>2. /\ cmd_msg[b].from = Rank(o) /\ cmd_msg[b].cmd.op = OpOf[o].kind /\ cmd_msg[b].cmd.offset = OpOf[o].roff
      /\ cmd_msg[b].cmd.port = GetPort(OpOf[o].local)
  BY <1>1 DEF Command
<1>3. \/ /\ OpOf[o].kind = "put" /\ o \in Puts /\ DestPlace(o) = <<b, OpOf[o].roff>>
      \/ /\ OpOf[o].kind = "get" /\ o \in Gets /\ SourcePlace(o) = <<b, OpOf[o].roff>>
  BY <1>1, Operations DEF Puts, Gets, DestPlace, SourcePlace, Remote
<1>4. cmd_msg[b].cmd.op # NONE
  BY <1>2, <1>3 DEF NONE
<1>5. /\ phase' = [phase EXCEPT ![b] = "cmd_done"]
      /\ request' = [request EXCEPT ![Cmd(b)] = "null", ![Data(b)] = "active"]
      /\ UNCHANGED cmd_msg
      /\ PostData(b, cmd_msg[b].cmd.op, cmd_msg[b].from, cmd_msg[b].cmd)
  BY <1>4 DEF StartData, Cmd, Data
<1>6. CASE OpOf[o].kind = "put"
  <2>1. o \in Puts /\ DestPlace(o) = <<b, OpOf[o].roff>>
    BY <1>3, <1>6
  <2>2. /\ UNCHANGED sends
        /\ recvs' = [recvs EXCEPT ![PutPort(b)] = Append(@,
             [from |-> Rank(o), rcv |-> [req |-> Data(b), into |-> DestPlace(o)]])]
    BY <1>2, <1>5, <1>6, <2>1 DEF PostData, Irecv, Data
  <2>. QED  BY <1>1, <1>5, <2>1, <2>2
<1>7. CASE OpOf[o].kind = "get"
  <2>1. o \in Gets /\ SourcePlace(o) = <<b, OpOf[o].roff>>
    BY <1>3, <1>7
  <2>2. /\ UNCHANGED recvs
        /\ sends' = [sends EXCEPT ![GetChannel(o)] = Append(@, [req |-> Data(b), data |-> SourcePlace(o)])]
    BY <1>1, <1>2, <1>5, <1>7, <2>1 DEF PostData, Issend, Data, GetChannel
  <2>. QED  BY <1>1, <1>5, <2>1, <2>2
<1>. QED  BY <1>3, <1>6, <1>7

(* A target that has a command posts the data of the operation that sent it. *)
LEMMA StartDataPairs ==
    ASSUME RInv, Paired, NEW b \in Targets, HasCommand(b), NEW known, known = TRUE, StartData(b, known),
           UNCHANGED moved, \A o \in Ops : Midway(o)' <=> Midway(o)
    PROVE  Paired'
<1>1. /\ phase' = [phase EXCEPT ![b] = "cmd_done"]
      /\ request' = [request EXCEPT ![Cmd(b)] = "null", ![Data(b)] = "active"]
      /\ UNCHANGED cmd_msg
  BY StartsServed
<1>2. PICK o \in Ops :
        /\ Taken(o) /\ Remote(o) = b
        /\ \/ /\ o \in Puts /\ UNCHANGED sends
              /\ recvs' = [recvs EXCEPT ![PutPort(b)] = Append(@,
                    [from |-> Rank(o), rcv |-> [req |-> Data(b), into |-> DestPlace(o)]])]
           \/ /\ o \in Gets /\ UNCHANGED recvs
              /\ sends' = [sends EXCEPT ![GetChannel(o)] = Append(@, [req |-> Data(b), data |-> SourcePlace(o)])]
  BY StartsServed
<1>3. /\ DOMAIN phase = Wrs /\ DOMAIN request = Wrs \X {"cmd", "data"} /\ Typed
      /\ Cmd(b) \in Handles /\ Data(b) \in Handles /\ Handles \subseteq Wrs \X {"cmd", "data"}
      /\ b \in Wrs /\ b \notin Ops /\ Ops \union Targets \subseteq Wrs
  BY Operations, Kinds DEF RInv, Core, Typed, Handles
<1>4. /\ Active(Data(b))' /\ ~Active(Cmd(b))' /\ ~Active(Cmd(b))
      /\ \A q \in Handles : q # Data(b) => (Active(q)' <=> Active(q))
  <2>1. /\ request'[Data(b)] = "active" /\ request'[Cmd(b)] = "null"
        /\ \A q \in Handles : q # Data(b) /\ q # Cmd(b) => request'[q] = request[q]
    <3>1. Cmd(b) # Data(b)
      BY Tags
    <3>. QED  BY <1>1, <1>3, <3>1
  <2>. QED  BY <2>1 DEF Active, HasCommand
<1>5. phase[b] = "init" /\ phase'[b] = "cmd_done" /\ \A w \in Ops \union Targets : w # b => phase'[w] = phase[w]
  BY <1>1, <1>3 DEF HasCommand
<1>6. \A x \in Ops : /\ CmdSent(x)' <=> CmdSent(x)
                     /\ Active(Cmd(x))' <=> Active(Cmd(x))
                     /\ Active(Data(x))' <=> Active(Data(x))
  BY <1>3, <1>4, <1>5, Tags, Requests DEF CmdSent
<1>7. \A x \in Ops : (Landed(x)' <=> Landed(x)) /\ (Taken(x)' <=> Taken(x))
  BY <1>6, SameTaken
<1>8. Through' /\ CommandFirst'
  BY <1>3, <1>5, <1>6, <1>7 DEF Paired, Through, CommandFirst
<1>9. Served'
  <2>1. \A c \in Targets : c # b => (HasCommand(c)' <=> HasCommand(c)) /\ (MovesData(c)' <=> MovesData(c))
    BY <1>4, <1>5, Tags, Requests DEF HasCommand, MovesData
  <2>2. MovesData(b)' /\ ~HasCommand(b)'
    BY <1>4, <1>5 DEF HasCommand, MovesData
  <2>3. /\ \A x \in Ops : Taken(x)' => HasCommand(Remote(x))' \/ MovesData(Remote(x))'
        /\ \A x, p \in Ops : Taken(x)' /\ Taken(p)' /\ Remote(x) = Remote(p) => x = p
    BY <1>7, <2>1, <2>2, Operations DEF Paired, Served
  <2>4. \A c \in Targets : HasCommand(c)' =>
          \E x \in Ops : Taken(x)' /\ Remote(x) = c /\ cmd_msg'[c] = [from |-> Rank(x), cmd |-> Command(x).data]
    BY <1>1, <1>7, <2>1, <2>2 DEF Paired, Served
  <2>. QED  BY <2>3, <2>4 DEF Served
<1>10. ASSUME o \in Puts, UNCHANGED sends,
              NEW r, r = [from |-> Rank(o), rcv |-> [req |-> Data(b), into |-> DestPlace(o)]],
              recvs' = [recvs EXCEPT ![PutPort(b)] = Append(@, r)]
       PROVE  Messages' /\ Receives' /\ PutsInOrder' /\ GetsInOrder'
  <2>1. PutPort(b) \in Ports /\ r.rcv.req = Data(b)
    BY <1>10, Operations
  <2>2. PICK n \in Nat : PostedLast(PutPort(b), r, n)
    BY <1>3, <1>10, <2>1, ReceiveAppends
  <2>3. Messages'
    BY <1>7, <1>10, MessagesStay, Operations DEF Paired
  <2>4. ASSUME NEW c \in Ports, NEW i \in DOMAIN recvs'[c]
        PROVE  \/ i \in DOMAIN recvs[c] /\ recvs'[c][i] = recvs[c][i]
               \/ /\ c = PutPort(Remote(o)) /\ Taken(o)'
                  /\ recvs'[c][i] = [from |-> Rank(o), rcv |-> [req |-> Data(Remote(o)), into |-> DestPlace(o)]]
    BY <1>2, <1>7, <1>10, <2>2 DEF PostedLast
  <2>5. Receives'
    BY <1>7, <1>10, <2>4, ReceivesStay, Operations DEF Paired
  <2>6. \A x, c, i : IsSent(x, c, i)' <=> IsSent(x, c, i)
    BY <1>10 DEF IsSent
  <2>7. \A a, x \in Ops : CmdBefore(a, x)' <=> CmdBefore(a, x)
    BY <2>6 DEF CmdBefore
  <2>8. PutsInOrder'
    BY <2>6, <2>7, Operations DEF Paired, PutsInOrder
  <2>9. ASSUME NEW x \in Ops, NEW c \in Ports, NEW i
        PROVE  IsReceive(Data(x), c, i)' <=> IsReceive(Data(x), c, i)
    <3>1. Data(x) # Data(b)
      BY <1>3, Tags
    <3>. QED  BY <2>1, <2>2, <3>1 DEF IsReceive, PostedLast
  <2>10. GetsInOrder'
    BY <1>6, <2>7, <2>9, Operations DEF Paired, GetsInOrder
  <2>. QED  BY <2>3, <2>5, <2>8, <2>10
<1>11. ASSUME o \in Gets, UNCHANGED recvs,
              NEW m, m = [req |-> Data(b), data |-> SourcePlace(o)],
              sends' = [sends EXCEPT ![GetChannel(o)] = Append(@, m)]
       PROVE  Messages' /\ Receives' /\ PutsInOrder' /\ GetsInOrder'
  <2>1. GetChannel(o) \in Channels /\ m.req = Data(b)
    BY <1>11, Operations
  <2>2. PICK n \in Nat : SentLast(GetChannel(o), m, n)
    BY <1>3, <1>11, <2>1, SendAppends
  <2>3. Receives'
    BY <1>7, <1>11, ReceivesStay, Operations DEF Paired
  <2>4. ASSUME NEW c \in Channels, NEW i \in DOMAIN sends'[c]
        PROVE  \/ i \in DOMAIN sends[c] /\ sends'[c][i] = sends[c][i]
               \/ /\ c = GetChannel(o) /\ Taken(o)'
                  /\ sends'[c][i] = [req |-> Data(Remote(o)), data |-> SourcePlace(o)]
    BY <1>2, <1>7, <1>11, <2>2 DEF SentLast
  <2>5. Messages'
    BY <1>7, <1>11, <2>4, MessagesStay, Operations DEF Paired
  <2>6. \A x \in Ops : m.req # Data(x) /\ m.req # Cmd(x)
    BY <1>3, <2>1, Tags
  <2>7. PutsInOrder'
    BY <1>3, <1>11, <2>1, <2>6, PutsStayInOrder, Operations DEF Paired
  <2>8. GetsInOrder'
    BY <1>3, <1>6, <1>11, <2>1, <2>6, GetsStayInOrder, Operations DEF Paired
  <2>. QED  BY <2>3, <2>5, <2>7, <2>8
<1>. QED  BY <1>2, <1>8, <1>9, <1>10, <1>11 DEF Paired

(* A target that is done with an operation awaits the next command. *)
LEMMA RepostPairs ==
    ASSUME RInv, Paired, NEW b \in Targets, NEW queue, Repost(b, queue),
           phase[b] = "done" \/ (phase[b] = "cmd_done" /\ ~Active(Data(b))),
           UNCHANGED moved, \A o \in Ops : Midway(o)' <=> Midway(o)
    PROVE  Paired'
<1>. DEFINE r == [from |-> ANY_SOURCE, rcv |-> [req |-> Cmd(b), into |-> NONE]]
<1>1. /\ phase' = [phase EXCEPT ![b] = "init"]
      /\ request' = [request EXCEPT ![Data(b)] = "null", ![Cmd(b)] = "active"]
      /\ recvs' = [recvs EXCEPT ![CmdPort(b)] = Append(@, r)]
      /\ UNCHANGED <<sends, cmd_msg>>
  BY DEF Repost, Irecv, Cmd, Data
<1>2. CmdPort(b) \in Ports /\ r.rcv.req = Cmd(b)
  BY Operations
<1>3. /\ DOMAIN phase = Wrs /\ DOMAIN request = Wrs \X {"cmd", "data"} /\ Typed
      /\ Cmd(b) \in Handles /\ Data(b) \in Handles /\ Handles \subseteq Wrs \X {"cmd", "data"}
      /\ b \in Wrs /\ b \notin Ops /\ Ops \union Targets \subseteq Wrs
  BY Operations, Kinds DEF RInv, Core, Typed, Handles
<1>4. ~Active(Data(b)) /\ ~HasCommand(b) /\ ~MovesData(b)
  <2>1. phase[b] = "done" => ~Active(Data(b))
    BY DEF RInv, Core, Inactive, Data
  <2>. QED  BY <2>1 DEF HasCommand, MovesData
<1>5. /\ Active(Cmd(b))' /\ ~Active(Data(b))'
      /\ \A q \in Handles : q # Cmd(b) => (Active(q)' <=> Active(q))
  <2>1. /\ request'[Data(b)] = "null" /\ request'[Cmd(b)] = "active"
        /\ \A q \in Handles : q # Data(b) /\ q # Cmd(b) => request'[q] = request[q]
    <3>1. Cmd(b) # Data(b)
      BY Tags
    <3>. QED  BY <1>1, <1>3, <3>1
  <2>. QED  BY <1>4, <2>1 DEF Active
<1>6. phase[b] # "init" /\ phase'[b] = "init" /\ \A w \in Ops \union Targets : w # b => phase'[w] = phase[w]
  BY <1>1, <1>3
<1>7. \A x \in Ops : /\ CmdSent(x)' <=> CmdSent(x)
                     /\ Active(Cmd(x))' <=> Active(Cmd(x))
                     /\ Active(Data(x))' <=> Active(Data(x))
  BY <1>3, <1>5, <1>6, Tags, Requests DEF CmdSent
<1>8. \A x \in Ops : (Landed(x)' <=> Landed(x)) /\ (Taken(x)' <=> Taken(x))
  BY <1>7, SameTaken
<1>9. Through' /\ CommandFirst'
  BY <1>3, <1>6, <1>7, <1>8 DEF Paired, Through, CommandFirst
<1>10. Served'
  <2>1. ASSUME NEW c \in Targets
        PROVE  (HasCommand(c)' <=> HasCommand(c)) /\ (MovesData(c)' <=> MovesData(c))
    <3>1. CASE c = b
      BY <1>4, <1>5, <1>6, <3>1 DEF HasCommand, MovesData
    <3>2. CASE c # b
      BY <1>5, <1>6, <3>2, Tags, Requests DEF HasCommand, MovesData
    <3>. QED  BY <3>1, <3>2
  <2>. QED  BY <1>1, <1>8, <2>1, ServedStays DEF Paired
<1>. HIDE DEF r
<1>11. PICK n \in Nat : PostedLast(CmdPort(b), r, n)
  BY <1>1, <1>2, <1>3, ReceiveAppends
<1>12. Messages'
  BY <1>1, <1>8, MessagesStay, Operations DEF Paired
<1>13. Receives'
  <2>1. ASSUME NEW c \in Ports, NEW i \in DOMAIN recvs'[c]
        PROVE  (i \in DOMAIN recvs[c] /\ recvs'[c][i] = recvs[c][i]) \/ IsForCommand(c, recvs'[c][i])
    BY <1>11 DEF IsForCommand, PostedLast, r
  <2>. QED  BY <1>8, <2>1, ReceivesStay, Operations DEF Paired
<1>14. \A x, c, i : IsSent(x, c, i)' <=> IsSent(x, c, i)
  BY <1>1 DEF IsSent
<1>15. \A a, x \in Ops : CmdBefore(a, x)' <=> CmdBefore(a, x)
  BY <1>14 DEF CmdBefore
<1>16. PutsInOrder'
  BY <1>14, <1>15, Operations DEF Paired, PutsInOrder
<1>17. ASSUME NEW x \in Ops, NEW c \in Ports, NEW i
       PROVE  IsReceive(Data(x), c, i)' <=> IsReceive(Data(x), c, i)
  <2>1. Data(x) # Cmd(b)
    BY Tags
  <2>. QED  BY <1>2, <1>11, <2>1 DEF IsReceive, PostedLast
<1>18. GetsInOrder'
  BY <1>7, <1>15, <1>17, Operations DEF Paired, GetsInOrder
<1>. QED  BY <1>9, <1>10, <1>12, <1>13, <1>16, <1>18 DEF Paired

-----------------------------------------------------------------------------
(* The steps of the MPI library.                                           *)

(* The data that a target receives is of the put it has taken. *)
LEMMA PutDataMatches ==
    ASSUME OneThread, RInv, Paired, NEW x \in Puts, NEW o \in Puts, Remote(x) = Remote(o), Rank(x) = Rank(o),
           Taken(o), IsSent(Data(x), PutChannel(x), 1)
    PROVE  x = o
<1>. SUFFICES ASSUME x # o PROVE FALSE
  OBVIOUS
<1>1. /\ x \in Ops /\ o \in Ops /\ PutChannel(x) \in Channels /\ PutChannel(o) = PutChannel(x)
      /\ CmdChannel(o) = CmdChannel(x) /\ CmdChannel(x) \in Channels /\ OpOf[x].thread = OpOf[o].thread
      /\ x \notin Gets
  <2>1. x \in Ops /\ o \in Ops
    BY Operations
  <2>. QED  BY <2>1, Operations, OneThreadOfRank DEF PutChannel, CmdChannel
<1>2. Active(Data(x)) /\ phase[x] # "unposted" /\ ~Landed(x) /\ CmdSent(x)
  <2>1. Active(Data(x))
    BY <1>1, Requests DEF RInv, Core, OneEach
  <2>2. phase[x] # "unposted" /\ ~Landed(x)
    BY <1>1, <2>1, ActiveIsStarted DEF Paired, Through
  <2>. QED  BY <1>1, <2>1, <2>2 DEF CmdSent
<1>3. Midway(o) \/ \E j : IsSent(Data(o), PutChannel(o), j) /\ 1 < j
  <2>1. Midway(o) \/ Active(Data(o))
    <3>1. ~Landed(o) /\ phase[o] # "unposted"
      BY DEF Taken, CmdSent
    <3>. QED  BY <1>1, <3>1 DEF Paired, Through
  <2>2. ASSUME Active(Data(o)) PROVE \E j : IsSent(Data(o), PutChannel(o), j) /\ 1 < j
    <3>1. PICK j : IsSent(Data(o), PutChannel(o), j)
      BY <2>2, DataIsSent DEF RInv, Core, Paired
    <3>2. j # 1
      BY <1>1, <3>1, Tags DEF IsSent
    <3>3. j \in 1 .. Len(sends[PutChannel(o)]) /\ Len(sends[PutChannel(o)]) \in Nat
      BY <1>1, <3>1, SeqIndexes DEF IsSent, RInv, Core, Typed
    <3>. QED  BY <3>1, <3>2, <3>3
  <2>. QED  BY <2>1, <2>2
<1>4. CmdBefore(x, o)
  BY <1>1, <1>3 DEF Paired, PutsInOrder
<1>5. ~Active(Cmd(x))
  <2>. SUFFICES ASSUME Active(Cmd(x)) PROVE FALSE
    OBVIOUS
  <2>1. \E i : IsSent(Cmd(x), CmdChannel(x), i)
    BY <1>1, CommandIsSent DEF RInv, Core, Paired
  <2>2. \E j : IsSent(Cmd(o), CmdChannel(o), j)
    BY <1>4, <2>1 DEF CmdBefore
  <2>3. Active(Cmd(o))
    BY <1>1, <2>2, Requests DEF RInv, Core, OneEach
  <2>. QED  BY <2>3 DEF Taken
<1>6. Taken(x)
  BY <1>2, <1>5 DEF Taken
<1>. QED  BY <1>1, <1>6 DEF Paired, Served

(* The data that comes to a buffer is received by the get it is for. *)
LEMMA GetDataMatches ==
    ASSUME OneThread, RInv, Paired, NEW x \in Gets, NEW o \in Gets,
           OpOf[x].local = OpOf[o].local, Remote(x) = Remote(o), Taken(o),
           NEW port, port = GetPort(OpOf[o].local), NEW k, IsReceive(Data(x), port, k),
           \A i \in DOMAIN recvs[port] : recvs[port][i].from = OwnerOf[Remote(o)] => k <= i
    PROVE  x = o
<1>. SUFFICES ASSUME x # o PROVE FALSE
  OBVIOUS
<1>1. /\ x \in Ops /\ o \in Ops /\ port \in Ports /\ x \notin Puts /\ o \notin Puts
      /\ CmdChannel(x) \in Channels /\ CmdChannel(o) \in Channels
  BY Operations
<1>2. Active(Data(x)) /\ ~Landed(x)
  <2>1. Active(Data(x))
    BY <1>1, Requests DEF RInv, Core, OneEach
  <2>. QED  BY <1>1, <2>1 DEF Paired, Through
<1>3. Active(Data(o)) /\ CmdSent(o) /\ ~Active(Cmd(o))
  BY <1>1 DEF Paired, Through, Taken, CmdSent
<1>4. PICK i : IsReceive(Data(o), port, i) /\ recvs[port][i].from = OwnerOf[Remote(o)]
  BY <1>3, DataIsAwaited DEF RInv, Core, Paired
<1>5. k < i
  <2>1. k # i
    BY <1>4, Tags DEF IsReceive
  <2>2. DOMAIN recvs[port] = 1 .. Len(recvs[port]) /\ Len(recvs[port]) \in Nat
    BY <1>1, SeqIndexes DEF RInv, Core, Typed
  <2>3. i \in DOMAIN recvs[port] /\ k \in DOMAIN recvs[port]
    BY <1>4 DEF IsReceive
  <2>4. k <= i
    BY <1>4, <2>3
  <2>. QED  BY <2>1, <2>2, <2>3, <2>4
<1>6. CmdSent(x) /\ CmdBefore(x, o)
  BY <1>3, <1>4, <1>5 DEF Paired, GetsInOrder
<1>7. ~Active(Cmd(x))
  <2>. SUFFICES ASSUME Active(Cmd(x)) PROVE FALSE
    OBVIOUS
  <2>1. \E j : IsSent(Cmd(x), CmdChannel(x), j)
    BY <1>1, CommandIsSent DEF RInv, Core, Paired
  <2>2. \E j : IsSent(Cmd(o), CmdChannel(o), j)
    BY <1>6, <2>1 DEF CmdBefore
  <2>3. Active(Cmd(o))
    BY <1>1, <2>2, Requests DEF RInv, Core, OneEach
  <2>. QED  BY <1>3, <2>3
<1>8. Taken(x)
  BY <1>2, <1>6, <1>7 DEF Taken
<1>. QED  BY <1>1, <1>8 DEF Paired, Served

\* What the next match of a channel is: a command, the data of a put, or that of a get.
TakesCommand(x, from, port) ==
    /\ x \in Ops /\ <<from, port>> = CmdChannel(x) /\ MatchedMessage(from, port) = Command(x)
    /\ MatchedReceive(from, port).req = Cmd(Remote(x)) /\ MatchedReceive(from, port).into = NONE
TakesPut(x, from, port) ==
    /\ x \in Puts /\ Taken(x) /\ <<from, port>> = PutChannel(x)
    /\ MatchedMessage(from, port).req = Data(x) /\ MatchedMessage(from, port).data = SourcePlace(x)
    /\ MatchedReceive(from, port).req = Data(Remote(x)) /\ MatchedReceive(from, port).into = DestPlace(x)
TakesGet(x, from, port) ==
    /\ x \in Gets /\ Taken(x) /\ <<from, port>> = GetChannel(x)
    /\ MatchedMessage(from, port).req = Data(Remote(x)) /\ MatchedMessage(from, port).data = SourcePlace(x)
    /\ MatchedReceive(from, port).req = Data(x) /\ MatchedReceive(from, port).into = DestPlace(x)

(* What the MPI library matches is a command, or the data of one operation with its own receive. *)
LEMMA TransferIs ==
    ASSUME OneThread, ToldApart, RInv, Paired, NEW from \in Ranks, NEW port \in Ports, Transfer(from, port)
    PROVE  \/ \E x \in Ops : TakesCommand(x, from, port)
           \/ \E x \in Puts : TakesPut(x, from, port)
           \/ \E x \in Gets : TakesGet(x, from, port)
<1>. DEFINE ch == <<from, port>>
            k == FirstFitting(from, port)
            m == MatchedMessage(from, port)
            r == recvs[port][k]
<1>1. Matchable(from, port) /\ Matched(from, port) /\ Typed
  BY DEF Transfer, RInv, Core
<1>2. ch \in Channels /\ 1 \in DOMAIN sends[ch] /\ m = sends[ch][1]
  BY <1>1, TransferTakes
<1>3. k \in DOMAIN recvs[port] /\ MatchedReceive(from, port) = r.rcv
  <2>1. k \in DOMAIN recvs[port]
    BY <1>1, TransferTakes
  <2>. QED  BY <2>1 DEF MatchedReceive
<1>4. r.from \in {from, ANY_SOURCE} /\ \A i \in DOMAIN recvs[port] : recvs[port][i].from = from => k <= i
  <2>. HIDE DEF k, m
  <2>1. k = FirstFitting(from, port)
    BY DEF k
  <2>2. recvs[port][k].from \in {from, ANY_SOURCE}
    BY <1>1, <2>1, TransferTakes
  <2>3. \A i \in DOMAIN recvs[port] : recvs[port][i].from = from => k <= i
    BY <1>1, <2>1, TransferTakes
  <2>. QED  BY <2>2, <2>3
<1>. HIDE DEF k, m, r
<1>5. \/ \E b \in Targets : port = CmdPort(b) /\ r.from = ANY_SOURCE /\ r.rcv.req = Cmd(b) /\ r.rcv.into = NONE
      \/ \E o \in Puts : /\ port = PutPort(Remote(o)) /\ Taken(o) /\ r.from = Rank(o)
                         /\ r.rcv.req = Data(Remote(o)) /\ r.rcv.into = DestPlace(o)
      \/ \E o \in Gets : /\ port = GetPort(OpOf[o].local) /\ r.from = OwnerOf[Remote(o)]
                         /\ r.rcv.req = Data(o) /\ r.rcv.into = DestPlace(o)
  BY <1>3, ReceiveIs DEF r, Paired
<1>6. ASSUME NEW x \in Ops, ch = CmdChannel(x), m = Command(x) PROVE TakesCommand(x, from, port)
  <2>1. port = CmdPort(Remote(x))
    BY <1>6 DEF CmdChannel
  <2>2. r.rcv.req = Cmd(Remote(x)) /\ r.rcv.into = NONE
    BY <1>5, <2>1, Tags
  <2>. QED  BY <1>3, <1>6, <2>2 DEF TakesCommand, m
<1>7. ASSUME NEW x \in Puts, ch = PutChannel(x), m.req = Data(x), m.data = SourcePlace(x)
      PROVE  TakesPut(x, from, port)
  <2>1. port = PutPort(Remote(x)) /\ from = Rank(x)
    BY <1>7 DEF PutChannel
  <2>2. PICK o \in Puts : /\ Remote(o) = Remote(x) /\ Taken(o) /\ r.from = Rank(o)
                          /\ r.rcv.req = Data(Remote(o)) /\ r.rcv.into = DestPlace(o)
    BY <1>5, <2>1, Tags
  <2>3. Rank(x) = Rank(o)
    BY <1>4, <2>1, <2>2, Operations
  <2>4. IsSent(Data(x), PutChannel(x), 1)
    BY <1>2, <1>7 DEF IsSent
  <2>5. x = o
    BY <2>2, <2>3, <2>4, PutDataMatches
  <2>. QED  BY <1>3, <1>7, <2>2, <2>5 DEF TakesPut, m
<1>8. ASSUME NEW o \in Gets, ch = GetChannel(o), Taken(o), m.req = Data(Remote(o)), m.data = SourcePlace(o)
      PROVE  TakesGet(o, from, port)
  <2>1. port = GetPort(OpOf[o].local) /\ from = OwnerOf[Remote(o)]
    BY <1>8 DEF GetChannel
  <2>2. PICK x \in Gets : /\ OpOf[x].local = OpOf[o].local /\ r.from = OwnerOf[Remote(x)]
                          /\ r.rcv.req = Data(x) /\ r.rcv.into = DestPlace(x)
    BY <1>5, <2>1, Tags
  <2>3. OwnerOf[Remote(x)] = OwnerOf[Remote(o)]
    BY <1>4, <2>1, <2>2, Operations
  <2>4. Remote(x) = Remote(o)
    BY <2>2, <2>3 DEF ToldApart, Gets, Remote
  <2>5. IsReceive(Data(x), port, k)
    BY <1>3, <2>2 DEF IsReceive, r
  <2>6. \A i \in DOMAIN recvs[port] : recvs[port][i].from = OwnerOf[Remote(o)] => k <= i
    BY <1>4, <2>1
  <2>7. x = o
    BY <1>8, <2>1, <2>2, <2>4, <2>5, <2>6, GetDataMatches
  <2>. QED  BY <1>3, <1>8, <2>2, <2>7 DEF TakesGet, m
<1>9. \/ \E x \in Ops : ch = CmdChannel(x) /\ m = Command(x) /\ m.req = Cmd(x)
      \/ \E x \in Puts : ch = PutChannel(x) /\ m.req = Data(x) /\ m.data = SourcePlace(x)
      \/ \E x \in Gets : ch = GetChannel(x) /\ Taken(x) /\ m.req = Data(Remote(x)) /\ m.data = SourcePlace(x)
  BY <1>2, MessageIs DEF Paired
<1>. QED  BY <1>6, <1>7, <1>8, <1>9

(* Messages and receives move up in their queues, and keep their order. *)
LEMMA OrderStays ==
    ASSUME Paired, Typed, NEW from \in Ranks, NEW port \in Ports, Matchable(from, port), Matched(from, port),
           UNCHANGED <<phase, thread>>
    PROVE  PutsInOrder' /\ GetsInOrder'
<1>. SUFFICES ASSUME NEW ch, ch = <<from, port>>, NEW k, k = FirstFitting(from, port)
     PROVE  PutsInOrder' /\ GetsInOrder'
  OBVIOUS
<1>1. /\ ch \in Channels
      /\ \A c \in Channels : c # ch => sends'[c] = sends[c]
      /\ \A c \in Ports : c # port => recvs'[c] = recvs[c]
  BY TransferTakes
<1>2. \A i \in DOMAIN sends'[ch] :
        i \in Nat \ {0} /\ i + 1 \in DOMAIN sends[ch] /\ sends'[ch][i] = sends[ch][i + 1]
  BY TransferTakes
<1>3. \A i \in DOMAIN sends[ch] : i # 1 => i - 1 \in DOMAIN sends'[ch] /\ i \in Nat
  BY TransferTakes
<1>4. \A i \in DOMAIN recvs'[port] :
        /\ i \in Nat /\ k \in Nat
        /\ i < k => i \in DOMAIN recvs[port] /\ recvs'[port][i] = recvs[port][i]
        /\ ~(i < k) => i + 1 \in DOMAIN recvs[port] /\ recvs'[port][i] = recvs[port][i + 1]
  BY TransferTakes
<1>5. ASSUME NEW q, NEW i, IsSent(q, ch, i)' PROVE i \in Nat \ {0} /\ IsSent(q, ch, i + 1)
  BY <1>2, <1>5 DEF IsSent
<1>6. ASSUME NEW q, NEW i, IsSent(q, ch, i), i # 1 PROVE i \in Nat /\ IsSent(q, ch, i - 1)'
  <2>1. i \in DOMAIN sends[ch] /\ sends[ch][i].req = q
    BY <1>6 DEF IsSent
  <2>2. i \in Nat /\ i - 1 \in DOMAIN sends'[ch] /\ (i - 1) + 1 = i
    BY <1>3, <1>6, <2>1
  <2>3. sends'[ch][i - 1] = sends[ch][i]
    BY <1>2, <2>2
  <2>. QED  BY <2>1, <2>2, <2>3 DEF IsSent
<1>7. ASSUME NEW q, NEW c \in Channels, c # ch, NEW i PROVE IsSent(q, c, i)' <=> IsSent(q, c, i)
  BY <1>1, <1>7 DEF IsSent
<1>8. ASSUME NEW a \in Ops, NEW p \in Ops, CmdChannel(a) = CmdChannel(p), CmdBefore(a, p) PROVE CmdBefore(a, p)'
  <2>. SUFFICES ASSUME NEW i, IsSent(Cmd(a), CmdChannel(a), i)'
       PROVE  \E j : IsSent(Cmd(p), CmdChannel(a), j)' /\ i < j
    BY <1>8 DEF CmdBefore
  <2>1. CmdChannel(a) \in Channels
    BY Operations
  <2>2. CASE CmdChannel(a) = ch
    <3>1. i \in Nat \ {0} /\ IsSent(Cmd(a), CmdChannel(a), i + 1)
      BY <1>5, <2>2
    <3>2. PICK j : IsSent(Cmd(p), CmdChannel(a), j) /\ i + 1 < j
      BY <1>8, <3>1 DEF CmdBefore
    <3>3. j # 1
      BY <3>1, <3>2
    <3>4. j \in Nat /\ IsSent(Cmd(p), CmdChannel(a), j - 1)'
      BY <1>6, <2>2, <3>2, <3>3
    <3>5. i < j - 1
      BY <3>1, <3>2, <3>4
    <3>. QED  BY <3>4, <3>5
  <2>3. CASE CmdChannel(a) # ch
    <3>1. IsSent(Cmd(a), CmdChannel(a), i)
      BY <1>7, <2>1, <2>3
    <3>2. PICK j : IsSent(Cmd(p), CmdChannel(a), j) /\ i < j
      BY <1>8, <3>1 DEF CmdBefore
    <3>. QED  BY <1>7, <2>1, <2>3, <3>2
  <2>. QED  BY <2>2, <2>3
<1>9. PutsInOrder'
  <2>. SUFFICES ASSUME NEW a \in Puts, NEW p \in Puts, a # p, OpOf[a].thread = OpOf[p].thread, Remote(a) = Remote(p),
                       NEW i, IsSent(Data(a), PutChannel(a), i)',
                       Midway(p)' \/ \E j : IsSent(Data(p), PutChannel(p), j)' /\ i < j
       PROVE  CmdBefore(a, p)'
    BY DEF PutsInOrder
  <2>1. /\ a \in Ops /\ p \in Ops /\ PutChannel(a) \in Channels /\ PutChannel(p) = PutChannel(a)
        /\ CmdChannel(p) = CmdChannel(a)
    <3>1. PutChannel(p) = PutChannel(a) /\ CmdChannel(p) = CmdChannel(a)
      BY DEF PutChannel, CmdChannel, Rank
    <3>. QED  BY <3>1, Operations
  <2>2. Midway(p)' <=> Midway(p)
    BY DEF Midway
  <2>3. CmdBefore(a, p)
    <3>1. CASE PutChannel(a) = ch
      <4>1. i \in Nat \ {0} /\ IsSent(Data(a), PutChannel(a), i + 1)
        BY <1>5, <3>1
      <4>2. ASSUME NEW j, IsSent(Data(p), PutChannel(p), j)', i < j
            PROVE  \E n : IsSent(Data(p), PutChannel(p), n) /\ i + 1 < n
        <5>1. j \in Nat \ {0} /\ IsSent(Data(p), PutChannel(p), j + 1)
          BY <1>5, <2>1, <3>1, <4>2
        <5>2. i + 1 < j + 1
          BY <4>1, <4>2, <5>1
        <5>. QED  BY <5>1, <5>2
      <4>3. Midway(p) \/ \E n : IsSent(Data(p), PutChannel(p), n) /\ i + 1 < n
        BY <2>2, <4>2
      <4>. QED  BY <4>1, <4>3 DEF Paired, PutsInOrder
    <3>2. CASE PutChannel(a) # ch
      <4>1. /\ IsSent(Data(a), PutChannel(a), i)
            /\ \A j : IsSent(Data(p), PutChannel(p), j)' <=> IsSent(Data(p), PutChannel(p), j)
        BY <1>7, <2>1, <3>2
      <4>. QED  BY <2>2, <4>1 DEF Paired, PutsInOrder
    <3>. QED  BY <3>1, <3>2
  <2>. QED  BY <1>8, <2>1, <2>3
<1>10. GetsInOrder'
  <2>. SUFFICES ASSUME NEW a \in Gets, NEW p \in Gets, a # p, OpOf[a].local = OpOf[p].local, Remote(a) = Remote(p),
                       NEW i, NEW j, IsReceive(Data(a), GetPort(OpOf[a].local), i)',
                       IsReceive(Data(p), GetPort(OpOf[p].local), j)', i < j
       PROVE  CmdSent(a)' /\ (CmdSent(p)' => CmdBefore(a, p)')
    BY DEF GetsInOrder
  <2>1. /\ a \in Ops /\ p \in Ops /\ GetPort(OpOf[a].local) \in Ports
        /\ CmdChannel(p) = CmdChannel(a)
    <3>1. a \in Ops /\ p \in Ops /\ GetPort(OpOf[a].local) \in Ports
      BY Operations
    <3>2. Rank(a) = Rank(p)
      BY <3>1, Operations
    <3>. QED  BY <3>1, <3>2 DEF CmdChannel
  <2>2. \A x \in Ops : CmdSent(x)' <=> CmdSent(x)
    BY DEF CmdSent, Midway
  <2>3. CmdSent(a) /\ (CmdSent(p) => CmdBefore(a, p))
    <3>1. CASE GetPort(OpOf[a].local) = port
      <4>1. ASSUME NEW q, NEW l, IsReceive(q, port, l)'
            PROVE  /\ l \in Nat /\ k \in Nat
                   /\ l < k => IsReceive(q, port, l)
                   /\ ~(l < k) => IsReceive(q, port, l + 1)
        BY <1>4, <4>1 DEF IsReceive
      <4>2. i \in Nat /\ j \in Nat /\ k \in Nat
        BY <3>1, <4>1
      <4>3. \E g, h : IsReceive(Data(a), port, g) /\ IsReceive(Data(p), port, h) /\ g < h
        <5>1. CASE i < k /\ j < k
          BY <3>1, <4>1, <5>1
        <5>2. CASE i < k /\ ~(j < k)
          <6>1. IsReceive(Data(a), port, i) /\ IsReceive(Data(p), port, j + 1)
            BY <3>1, <4>1, <5>2
          <6>2. i < j + 1
            BY <4>2
          <6>. QED  BY <6>1, <6>2
        <5>3. CASE ~(i < k)
          <6>1. ~(j < k)
            BY <4>2, <5>3
          <6>2. IsReceive(Data(a), port, i + 1) /\ IsReceive(Data(p), port, j + 1)
            BY <3>1, <4>1, <5>3, <6>1
          <6>3. i + 1 < j + 1
            BY <4>2
          <6>. QED  BY <6>2, <6>3
        <5>. QED  BY <5>1, <5>2, <5>3
      <4>. QED  BY <3>1, <4>3 DEF Paired, GetsInOrder
    <3>2. CASE GetPort(OpOf[a].local) # port
      <4>1. recvs'[GetPort(OpOf[a].local)] = recvs[GetPort(OpOf[a].local)]
        BY <1>1, <2>1, <3>2
      <4>2. IsReceive(Data(a), GetPort(OpOf[a].local), i) /\ IsReceive(Data(p), GetPort(OpOf[p].local), j)
        BY <4>1 DEF IsReceive
      <4>. QED  BY <4>2 DEF Paired, GetsInOrder
    <3>. QED  BY <3>1, <3>2
  <2>. QED  BY <1>8, <2>1, <2>2, <2>3
<1>. QED  BY <1>9, <1>10

(* What else changes when the data of x is through. *)
LEMMA DataLands ==
    ASSUME ToldApart, RInv, Paired, NEW x \in Ops, Taken(x), Active(Data(x)), Active(Data(Remote(x))),
           UNCHANGED <<phase, thread, cmd_msg>>, moved' = moved \union {<<SourcePlace(x), DestPlace(x)>>},
           \A q \in Handles : Active(q)' <=> Active(q) /\ q # Data(x) /\ q # Data(Remote(x))
    PROVE  /\ \A o \in Ops : Landed(o)' <=> Landed(o) \/ o = x
           /\ \A o \in Ops : Taken(o)' <=> Taken(o) /\ o # x
           /\ Through' /\ CommandFirst' /\ Served'
           /\ phase[Remote(x)] = "cmd_done"
<1>1. Remote(x) \in Targets /\ Remote(x) \notin Ops
  BY Operations
<1>2. \A o \in Ops : Landed(o)' <=> Landed(o) \/ o = x
  BY DEF Landed, ToldApart
<1>3. \A o \in Ops : CmdSent(o)' <=> CmdSent(o)
  BY DEF CmdSent, Midway
<1>4. \A w \in Ops \union Targets :
        /\ Active(Cmd(w))' <=> Active(Cmd(w))
        /\ Active(Data(w))' <=> Active(Data(w)) /\ w # x /\ w # Remote(x)
  BY Requests, Tags
<1>5. \A o \in Ops : Taken(o)' <=> Taken(o) /\ o # x
  BY <1>2, <1>3, <1>4 DEF Taken
<1>6. phase[Remote(x)] = "cmd_done"
  BY <1>1 DEF RInv, Core, Typed, Inactive, Data
<1>7. Through'
  <2>1. x \in Puts => ~Midway(x)
    BY MidwayIs
  <2>2. phase[x] # "unposted"
    BY DEF Taken, CmdSent
  <2>3. \A o \in Ops : Midway(o)' <=> Midway(o)
    BY DEF Midway
  <2>4. \A o \in Ops : o # Remote(x)
    BY <1>1
  <2>. QED  BY <1>2, <1>4, <2>1, <2>2, <2>3, <2>4 DEF Paired, Through
<1>8. CommandFirst'
  BY <1>2, <1>3, <1>4 DEF Paired, CommandFirst, Taken
<1>9. Served'
  <2>1. \A b \in Targets : /\ HasCommand(b)' <=> HasCommand(b)
                           /\ MovesData(b)' <=> MovesData(b) /\ b # Remote(x)
    <3>1. \A b \in Targets : b # x
      BY Operations
    <3>. QED  BY <1>4, <3>1 DEF HasCommand, MovesData
  <2>2. ASSUME NEW o \in Ops, Taken(o)' PROVE HasCommand(Remote(o))' \/ MovesData(Remote(o))'
    <3>1. Taken(o) /\ o # x /\ Remote(o) \in Targets
      BY <1>5, <2>2, Operations
    <3>2. Remote(o) # Remote(x)
      BY <3>1 DEF Paired, Served
    <3>. QED  BY <2>1, <3>1, <3>2 DEF Paired, Served
  <2>3. \A o, p \in Ops : Taken(o)' /\ Taken(p)' /\ Remote(o) = Remote(p) => o = p
    BY <1>5 DEF Paired, Served
  <2>4. ASSUME NEW b \in Targets, HasCommand(b)'
        PROVE  \E o \in Ops : Taken(o)' /\ Remote(o) = b /\ cmd_msg'[b] = [from |-> Rank(o), cmd |-> Command(o).data]
    <3>1. HasCommand(b)
      BY <2>1, <2>4
    <3>2. PICK o \in Ops : Taken(o) /\ Remote(o) = b /\ cmd_msg[b] = [from |-> Rank(o), cmd |-> Command(o).data]
      BY <3>1 DEF Paired, Served
    <3>3. o # x
      BY <1>6, <3>1, <3>2 DEF HasCommand
    <3>. QED  BY <1>5, <3>2, <3>3
  <2>. QED  BY <2>2, <2>3, <2>4 DEF Served
<1>. QED  BY <1>2, <1>5, <1>6, <1>7, <1>8, <1>9

(* What is left in the queues. *)
LEMMA Remains ==
    ASSUME Typed, OneEach, NEW from \in Ranks, NEW port \in Ports, Matchable(from, port), Matched(from, port),
           NEW mq, mq = MatchedMessage(from, port).req, NEW rq, rq = MatchedReceive(from, port).req
    PROVE  /\ mq \in Handles => \A c \in Channels : \A i \in DOMAIN sends'[c] :
                \E j \in DOMAIN sends[c] : sends'[c][i] = sends[c][j] /\ sends[c][j].req # mq
           /\ rq \in Handles => \A p \in Ports : \A i \in DOMAIN recvs'[p] :
                \E j \in DOMAIN recvs[p] : recvs'[p][i] = recvs[p][j] /\ recvs[p][j].rcv.req # rq
<1>. SUFFICES ASSUME NEW ch, ch = <<from, port>>, NEW k, k = FirstFitting(from, port)
     PROVE  /\ mq \in Handles => \A c \in Channels : \A i \in DOMAIN sends'[c] :
                 \E j \in DOMAIN sends[c] : sends'[c][i] = sends[c][j] /\ sends[c][j].req # mq
            /\ rq \in Handles => \A p \in Ports : \A i \in DOMAIN recvs'[p] :
                 \E j \in DOMAIN recvs[p] : recvs'[p][i] = recvs[p][j] /\ recvs[p][j].rcv.req # rq
  OBVIOUS
<1>1. /\ ch \in Channels /\ 1 \in DOMAIN sends[ch] /\ MatchedMessage(from, port) = sends[ch][1]
      /\ \A c \in Channels : c # ch => sends'[c] = sends[c]
  BY TransferTakes
<1>2. /\ k \in DOMAIN recvs[port] /\ MatchedReceive(from, port) = recvs[port][k].rcv
      /\ \A c \in Ports : c # port => recvs'[c] = recvs[c]
  BY TransferTakes
<1>3. \A i \in DOMAIN sends'[ch] :
        i \in Nat \ {0} /\ i + 1 \in DOMAIN sends[ch] /\ sends'[ch][i] = sends[ch][i + 1]
  BY TransferTakes
<1>4. \A i \in DOMAIN recvs'[port] :
        /\ i \in Nat /\ k \in Nat
        /\ i < k => i \in DOMAIN recvs[port] /\ recvs'[port][i] = recvs[port][i]
        /\ ~(i < k) => i + 1 \in DOMAIN recvs[port] /\ recvs'[port][i] = recvs[port][i + 1]
  BY TransferTakes
<1>5. ASSUME mq \in Handles, NEW c \in Channels, NEW i \in DOMAIN sends'[c]
      PROVE  \E j \in DOMAIN sends[c] : sends'[c][i] = sends[c][j] /\ sends[c][j].req # mq
  <2>1. IsSent(mq, ch, 1)
    BY <1>1 DEF IsSent
  <2>2. ASSUME NEW d \in Channels, NEW j \in DOMAIN sends[d], sends[d][j].req = mq PROVE d = ch /\ j = 1
    <3>1. IsSent(mq, d, j)
      BY <2>2 DEF IsSent
    <3>. QED  BY <1>1, <1>5, <2>1, <3>1 DEF OneEach
  <2>3. CASE c = ch
    <3>1. i + 1 \in DOMAIN sends[ch] /\ sends'[ch][i] = sends[ch][i + 1] /\ i + 1 # 1
      BY <1>3, <1>5, <2>3
    <3>. QED  BY <2>2, <2>3, <3>1
  <2>4. CASE c # ch
    BY <1>1, <1>5, <2>2, <2>4
  <2>. QED  BY <2>3, <2>4
<1>6. ASSUME rq \in Handles, NEW p \in Ports, NEW i \in DOMAIN recvs'[p]
      PROVE  \E j \in DOMAIN recvs[p] : recvs'[p][i] = recvs[p][j] /\ recvs[p][j].rcv.req # rq
  <2>1. IsReceive(rq, port, k)
    BY <1>2 DEF IsReceive
  <2>2. ASSUME NEW d \in Ports, NEW j \in DOMAIN recvs[d], recvs[d][j].rcv.req = rq PROVE d = port /\ j = k
    <3>1. IsReceive(rq, d, j)
      BY <2>2 DEF IsReceive
    <3>. QED  BY <1>6, <2>1, <3>1 DEF OneEach
  <2>3. CASE p = port
    <3>1. CASE i < k
      <4>1. i \in DOMAIN recvs[port] /\ recvs'[port][i] = recvs[port][i] /\ i # k
        BY <1>4, <1>6, <2>3, <3>1
      <4>. QED  BY <2>2, <2>3, <4>1
    <3>2. CASE ~(i < k)
      <4>1. i + 1 \in DOMAIN recvs[port] /\ recvs'[port][i] = recvs[port][i + 1] /\ i + 1 # k
        BY <1>4, <1>6, <2>3, <3>2
      <4>. QED  BY <2>2, <2>3, <4>1
    <3>. QED  BY <3>1, <3>2
  <2>4. CASE p # port
    BY <1>2, <1>6, <2>2, <2>4
  <2>. QED  BY <2>3, <2>4
<1>. QED  BY <1>5, <1>6

(* The command of x comes to its target. *)
LEMMA TakesCommandPairs ==
    ASSUME RInv, Paired, NEW from \in Ranks, NEW port \in Ports, Transfer(from, port),
           NEW x, TakesCommand(x, from, port)
    PROVE  /\ Paired'
           /\ UNCHANGED <<moved, phase, thread, events>>
           /\ request' = [request EXCEPT ![Cmd(x)] = "done", ![Cmd(Remote(x))] = "done"]
<1>. DEFINE b == Remote(x)
<1>1. /\ x \in Ops /\ b \in Targets /\ b # x /\ <<from, port>> = CmdChannel(x)
      /\ MatchedMessage(from, port).req = Cmd(x) /\ MatchedMessage(from, port).data = Command(x).data
      /\ MatchedReceive(from, port).req = Cmd(b) /\ MatchedReceive(from, port).into = NONE
  BY Operations DEF TakesCommand, Command, Cmd
<1>2. /\ Matchable(from, port) /\ Matched(from, port)
      /\ request' = [request EXCEPT ![Cmd(x)] = "done", ![Cmd(b)] = "done"]
      /\ cmd_msg' = [cmd_msg EXCEPT ![b] = [from |-> from, cmd |-> Command(x).data]]
      /\ UNCHANGED <<moved, phase, thread, events>>
  BY <1>1 DEF Transfer, Cmd
<1>. HIDE DEF b
<1>3. /\ DOMAIN request = Wrs \X {"cmd", "data"} /\ DOMAIN cmd_msg = Targets /\ Typed /\ OneEach
      /\ Cmd(x) \in Handles /\ Cmd(b) \in Handles /\ Handles \subseteq Wrs \X {"cmd", "data"}
      /\ Cmd(x) # Cmd(b)
  BY <1>1, Requests, Tags, Kinds DEF RInv, Core, Typed, Handles
<1>4. \A q \in Handles : Active(q)' <=> Active(q) /\ q # Cmd(x) /\ q # Cmd(b)
  <2>1. /\ request'[Cmd(x)] = "done" /\ request'[Cmd(b)] = "done"
        /\ \A q \in Handles : q # Cmd(x) /\ q # Cmd(b) => request'[q] = request[q]
    BY <1>2, <1>3
  <2>. QED  BY <2>1 DEF Active
<1>5. Active(Cmd(x)) /\ Active(Cmd(b))
  <2>1. IsSent(Cmd(x), CmdChannel(x), 1)
    BY <1>1, <1>2, <1>3, TransferTakes DEF IsSent
  <2>2. IsReceive(Cmd(b), port, FirstFitting(from, port))
    BY <1>1, <1>2, <1>3, TransferTakes DEF IsReceive
  <2>3. CmdChannel(x) \in Channels
    BY <1>1, Operations
  <2>. QED  BY <1>3, <2>1, <2>2, <2>3 DEF OneEach
<1>6. phase[b] = "init" /\ ~HasCommand(b) /\ ~MovesData(b)
  <2>1. phase[b] = "init"
    BY <1>1, <1>5 DEF RInv, Core, Typed, Inactive, Cmd
  <2>. QED  BY <1>5, <2>1 DEF HasCommand, MovesData
<1>7. \A o \in Ops : /\ CmdSent(o)' <=> CmdSent(o)
                     /\ Landed(o)' <=> Landed(o)
                     /\ Active(Cmd(o))' <=> Active(Cmd(o)) /\ o # x
                     /\ Active(Data(o))' <=> Active(Data(o))
  <2>1. \A o \in Ops : (CmdSent(o)' <=> CmdSent(o)) /\ (Landed(o)' <=> Landed(o))
    BY <1>2 DEF CmdSent, Midway, Landed
  <2>2. \A o \in Ops : o # b
    BY <1>1, Operations
  <2>3. \A o \in Ops : /\ Active(Cmd(o))' <=> Active(Cmd(o)) /\ o # x
                       /\ Active(Data(o))' <=> Active(Data(o))
    BY <1>4, <2>2, Requests, Tags
  <2>. QED  BY <2>1, <2>3
<1>8. CmdSent(x) /\ ~Landed(x) /\ ~Taken(x)
  BY <1>1, <1>5, ActiveIsStarted DEF Paired, CommandFirst, Taken
<1>9. \A o \in Ops : Taken(o)' <=> Taken(o) \/ o = x
  BY <1>7, <1>8 DEF Taken
<1>10. Through' /\ CommandFirst'
  <2>1. \A o \in Ops : Midway(o)' <=> Midway(o)
    BY <1>2 DEF Midway
  <2>. QED  BY <1>2, <1>7, <2>1 DEF Paired, Through, CommandFirst
<1>11. Served'
  <2>1. \A c \in Targets : c # b => (HasCommand(c)' <=> HasCommand(c)) /\ (MovesData(c)' <=> MovesData(c)) /\ cmd_msg'[c] = cmd_msg[c]
    <3>1. \A c \in Targets : c # x
      BY <1>1, Operations
    <3>2. \A c \in Targets : c # b => (Active(Cmd(c))' <=> Active(Cmd(c))) /\ (Active(Data(c))' <=> Active(Data(c)))
      BY <1>4, <3>1, Requests, Tags
    <3>. QED  BY <1>2, <1>3, <3>2 DEF HasCommand, MovesData
  <2>2. HasCommand(b)' /\ cmd_msg'[b] = [from |-> Rank(x), cmd |-> Command(x).data]
    <3>1. from = Rank(x)
      BY <1>1 DEF CmdChannel
    <3>. QED  BY <1>1, <1>2, <1>3, <1>4, <1>6, <3>1 DEF HasCommand
  <2>3. ASSUME NEW o \in Ops, Taken(o) PROVE Remote(o) # b
    BY <1>6, <2>3 DEF Paired, Served
  <2>4. ASSUME NEW o \in Ops, Taken(o)' PROVE HasCommand(Remote(o))' \/ MovesData(Remote(o))'
    <3>1. CASE o = x
      BY <2>2, <3>1 DEF b
    <3>2. CASE o # x
      <4>1. Taken(o) /\ Remote(o) # b /\ Remote(o) \in Targets
        BY <1>9, <2>3, <2>4, <3>2, Operations
      <4>. QED  BY <2>1, <4>1 DEF Paired, Served
    <3>. QED  BY <3>1, <3>2
  <2>5. \A o, p \in Ops : Taken(o)' /\ Taken(p)' /\ Remote(o) = Remote(p) => o = p
    BY <1>9, <2>3 DEF Paired, Served, b
  <2>6. ASSUME NEW c \in Targets, HasCommand(c)'
        PROVE  \E o \in Ops : Taken(o)' /\ Remote(o) = c /\ cmd_msg'[c] = [from |-> Rank(o), cmd |-> Command(o).data]
    <3>1. CASE c = b
      BY <1>1, <1>9, <2>2, <3>1 DEF b
    <3>2. CASE c # b
      BY <1>9, <2>1, <2>6, <3>2 DEF Paired, Served
    <3>. QED  BY <3>1, <3>2
  <2>. QED  BY <2>4, <2>5, <2>6 DEF Served
<1>12. Messages'
  <2>1. \A c \in Channels : \A i \in DOMAIN sends'[c] : \E j \in DOMAIN sends[c] : sends'[c][i] = sends[c][j]
    BY <1>1, <1>2, <1>3, Remains
  <2>. QED  BY <1>9, <2>1, MessagesStay, Operations DEF Paired
<1>13. Receives'
  <2>1. \A p \in Ports : \A i \in DOMAIN recvs'[p] : \E j \in DOMAIN recvs[p] : recvs'[p][i] = recvs[p][j]
    BY <1>1, <1>2, <1>3, Remains
  <2>. QED  BY <1>9, <2>1, ReceivesStay, Operations DEF Paired
<1>14. PutsInOrder' /\ GetsInOrder'
  BY <1>2, <1>3, OrderStays
<1>. QED  BY <1>2, <1>10, <1>11, <1>12, <1>13, <1>14 DEF Paired, b

(* The data of x goes through. *)
LEMMA TakesDataPairs ==
    ASSUME ToldApart, RInv, Paired, NEW from \in Ranks, NEW port \in Ports, Transfer(from, port),
           NEW x, TakesPut(x, from, port) \/ TakesGet(x, from, port)
    PROVE  /\ Paired'
           /\ x \in Ops /\ Taken(x) /\ Active(Data(x)) /\ Active(Data(Remote(x)))
           /\ UNCHANGED <<phase, thread, events>>
           /\ request' = [request EXCEPT ![Data(x)] = "done", ![Data(Remote(x))] = "done"]
           /\ moved' = moved \union {<<SourcePlace(x), DestPlace(x)>>}
<1>. SUFFICES ASSUME NEW b, b = Remote(x), NEW mq, mq = MatchedMessage(from, port).req,
                     NEW rq, rq = MatchedReceive(from, port).req
     PROVE  /\ Paired'
            /\ x \in Ops /\ Taken(x) /\ Active(Data(x)) /\ Active(Data(b))
            /\ UNCHANGED <<phase, thread, events>>
            /\ request' = [request EXCEPT ![Data(x)] = "done", ![Data(b)] = "done"]
            /\ moved' = moved \union {<<SourcePlace(x), DestPlace(x)>>}
  OBVIOUS
<1>1. /\ x \in Ops /\ b \in Targets /\ b # x /\ Taken(x)
      /\ \/ x \in Puts /\ x \notin Gets /\ mq = Data(x) /\ rq = Data(b)
         \/ x \in Gets /\ x \notin Puts /\ mq = Data(b) /\ rq = Data(x)
      /\ MatchedMessage(from, port).data = SourcePlace(x) /\ MatchedReceive(from, port).into = DestPlace(x)
  BY Operations DEF TakesPut, TakesGet
<1>2. DestPlace(x) # NONE
  BY <1>1 DEF ToldApart
<1>3. /\ Matchable(from, port) /\ Matched(from, port)
      /\ request' = [request EXCEPT ![mq] = "done", ![rq] = "done"]
      /\ moved' = moved \union {<<SourcePlace(x), DestPlace(x)>>}
      /\ UNCHANGED <<phase, thread, events, cmd_msg>>
  BY <1>1, <1>2 DEF Transfer
<1>4. /\ DOMAIN request = Wrs \X {"cmd", "data"} /\ Typed /\ OneEach
      /\ Data(x) \in Handles /\ Data(b) \in Handles /\ Handles \subseteq Wrs \X {"cmd", "data"}
      /\ Data(x) # Data(b) /\ mq \in Handles /\ rq \in Handles
  <2>1. DOMAIN request = Wrs \X {"cmd", "data"} /\ Typed /\ OneEach
    BY DEF RInv, Core, Typed
  <2>2. Data(x) \in Handles /\ Data(b) \in Handles /\ Data(x) # Data(b)
    BY <1>1, Requests, Tags
  <2>3. Handles \subseteq Wrs \X {"cmd", "data"}
    BY Kinds DEF Handles
  <2>. QED  BY <1>1, <2>1, <2>2, <2>3
<1>5. request' = [request EXCEPT ![Data(x)] = "done", ![Data(b)] = "done"]
  BY <1>1, <1>3, <1>4
<1>6. \A q \in Handles : Active(q)' <=> Active(q) /\ q # Data(x) /\ q # Data(b)
  <2>1. /\ request'[Data(x)] = "done" /\ request'[Data(b)] = "done"
        /\ \A q \in Handles : q # Data(x) /\ q # Data(b) => request'[q] = request[q]
    BY <1>4, <1>5
  <2>. QED  BY <2>1 DEF Active
<1>7. Active(Data(x)) /\ Active(Data(b))
  <2>1. <<from, port>> \in Channels /\ IsSent(mq, <<from, port>>, 1)
    BY <1>3, <1>4, TransferTakes DEF IsSent
  <2>2. IsReceive(rq, port, FirstFitting(from, port))
    <3>1. FirstFitting(from, port) \in DOMAIN recvs[port]
      BY <1>3, <1>4, TransferTakes
    <3>. QED  BY <3>1 DEF IsReceive, MatchedReceive
  <2>3. Active(mq) /\ Active(rq)
    BY <1>4, <2>1, <2>2 DEF OneEach
  <2>. QED  BY <1>1, <2>3
<1>8. \A o \in Ops : Taken(o)' <=> Taken(o) /\ o # x
  BY <1>1, <1>3, <1>6, <1>7, DataLands
<1>9. Through' /\ CommandFirst' /\ Served'
  BY <1>1, <1>3, <1>6, <1>7, DataLands
<1>10. Messages'
  <2>1. ASSUME NEW c \in Channels, NEW i \in DOMAIN sends'[c]
        PROVE  \E j \in DOMAIN sends[c] :
                  /\ sends'[c][i] = sends[c][j]
                  /\ \A o \in Gets : Taken(o) /\ sends[c][j].req = Data(Remote(o)) => Taken(o)'
    <3>1. PICK j \in DOMAIN sends[c] : sends'[c][i] = sends[c][j] /\ sends[c][j].req # mq
      BY <1>3, <1>4, Remains
    <3>2. ASSUME NEW o \in Gets, Taken(o), sends[c][j].req = Data(Remote(o)) PROVE o # x
      BY <1>1, <3>1, <3>2
    <3>. QED  BY <1>8, <3>1, <3>2, Operations
  <2>. QED  BY <2>1, MessagesStay DEF Paired
<1>11. Receives'
  <2>1. ASSUME NEW p \in Ports, NEW i \in DOMAIN recvs'[p]
        PROVE  \E j \in DOMAIN recvs[p] :
                  /\ recvs'[p][i] = recvs[p][j]
                  /\ \A o \in Puts : Taken(o) /\ recvs[p][j].rcv.req = Data(Remote(o)) => Taken(o)'
    <3>1. PICK j \in DOMAIN recvs[p] : recvs'[p][i] = recvs[p][j] /\ recvs[p][j].rcv.req # rq
      BY <1>3, <1>4, Remains
    <3>2. ASSUME NEW o \in Puts, Taken(o), recvs[p][j].rcv.req = Data(Remote(o)) PROVE o # x
      BY <1>1, <3>1, <3>2
    <3>. QED  BY <1>8, <3>1, <3>2, Operations
  <2>. QED  BY <2>1, ReceivesStay DEF Paired
<1>12. PutsInOrder' /\ GetsInOrder'
  BY <1>3, <1>4, OrderStays
<1>13. Paired'
  BY <1>9, <1>10, <1>11, <1>12 DEF Paired
<1>. QED  BY <1>1, <1>3, <1>5, <1>7, <1>13

-----------------------------------------------------------------------------
(* The steps of a work request.                                            *)

\* A step goes on with the work of some work request, and the wait is not told yet.
WorkGoesOn ==
    /\ Paired'
    /\ \A b \in Targets : phase'[b] = "init" =>
         Active(Cmd(b))' \/ (phase[b] = "init" /\ request'[Cmd(b)] = request[Cmd(b)])
    /\ \A o \in Ops : /\ phase'[o] \in {"done", "freed"} => phase[o] \in {"done", "freed"} \/ Landed(o)
                      /\ phase[o] = "done" => phase'[o] = "done"
                      /\ (phase'[o] = "unposted") <=> (phase[o] = "unposted")
                      /\ (phase'[o] = "freed") <=> (phase[o] = "freed")
    /\ \A b \in WithEvents : HoldsEvent(b)' <=> HoldsEvent(b)

\* No thread begins or ends a call that starts an operation.
SameMidway == \A o \in Ops : Midway(o)' <=> Midway(o)

(* A step that finds nothing to do. *)
LEMMA IdleWorks ==
    ASSUME Paired, UNCHANGED <<sends, recvs, moved, phase, cmd_msg>>, SameMidway,
           \A q \in Handles : request'[q] = request[q]
    PROVE  WorkGoesOn
<1>1. SameRequests /\ SameProgress
  BY DEF SameRequests, SameProgress, SameMidway, Active
<1>2. \A b \in Targets : (HasCommand(b)' <=> HasCommand(b)) /\ (MovesData(b)' <=> MovesData(b))
  BY Requests DEF HasCommand, MovesData, Active
<1>3. Paired'
  BY <1>1, <1>2, QuietKeeps
<1>4. \A b \in WithEvents : HoldsEvent(b)' <=> HoldsEvent(b)
  BY Assumptions, Requests DEF Assumptions, HoldsEvent, Data
<1>. QED  BY <1>3, <1>4, Requests DEF WorkGoesOn

(* process_event in every state but the first of a target. *)
LEMMA AdvanceWorks ==
    ASSUME RInv, Paired, NEW w \in Ops \union Targets, ~Active(Current(w)), phase[w] # "init" \/ w \in Ops,
           w \in Ops => ~Midway(w), Advance(w), UNCHANGED moved, SameMidway
    PROVE  WorkGoesOn /\ (w \in Targets => phase'[w] # "init")
<1>1. /\ phase' = [phase EXCEPT ![w] = CASE @ = "init" -> "cmd_done" [] @ = "cmd_done" -> "done" [] OTHER -> @]
      /\ request' = [request EXCEPT ![Current(w)] = "null"]
      /\ UNCHANGED <<sends, recvs, cmd_msg>>
  BY DEF Advance, fabric
<1>2. /\ DOMAIN phase = Wrs /\ DOMAIN request = Wrs \X {"cmd", "data"} /\ Ops \union Targets \subseteq Wrs
      /\ Handles \subseteq Wrs \X {"cmd", "data"}
  BY Kinds DEF RInv, Core, Typed, Handles
<1>3. Current(w) = (IF phase[w] = "init" THEN Cmd(w) ELSE Data(w)) /\ Current(w) \in Handles
  BY Requests DEF Current, Cmd, Data
<1>4. request'[Current(w)] = "null" /\ \A q \in Handles : q # Current(w) => request'[q] = request[q]
  <2>. DEFINE c == Current(w)
  <2>1. c \in Handles /\ request' = [request EXCEPT ![c] = "null"]
    BY <1>1, <1>3
  <2>. HIDE DEF c
  <2>2. request'[c] = "null" /\ \A q \in Handles : q # c => request'[q] = request[q]
    BY <1>2, <2>1
  <2>. QED  BY <2>2 DEF c
<1>5. /\ phase[w] = "init" => phase'[w] = "cmd_done"
      /\ phase[w] = "cmd_done" => phase'[w] = "done"
      /\ phase[w] \notin {"init", "cmd_done"} => phase'[w] = phase[w]
      /\ \A v \in Ops \union Targets : v # w => phase'[v] = phase[v]
  BY <1>1, <1>2
<1>6. SameRequests
  BY <1>4 DEF SameRequests, Active
<1>7. SameProgress
  BY <1>5 DEF SameProgress, SameMidway
<1>8. w \in Targets => /\ phase[w] \in {"cmd_done", "done"} /\ phase'[w] = "done"
                       /\ Current(w) = Data(w) /\ ~Active(Data(w)) /\ w \notin Ops
  <2>1. w \in Targets => w \notin Ops /\ phase[w] \in {"init", "cmd_done", "done"}
    BY Kinds DEF RInv, Core, Typed
  <2>. QED  BY <1>3, <1>5, <2>1
<1>9. \A b \in Targets : (HasCommand(b)' <=> HasCommand(b)) /\ (MovesData(b)' <=> MovesData(b))
  <2>1. ASSUME NEW b \in Targets, b # w
        PROVE  (HasCommand(b)' <=> HasCommand(b)) /\ (MovesData(b)' <=> MovesData(b))
    BY <1>5, <1>6, <2>1, Requests DEF HasCommand, MovesData, SameRequests
  <2>2. w \in Targets => ~HasCommand(w) /\ ~HasCommand(w)' /\ ~MovesData(w) /\ ~MovesData(w)'
    BY <1>8 DEF HasCommand, MovesData
  <2>. QED  BY <2>1, <2>2
<1>10. Paired'
  BY <1>1, <1>6, <1>7, <1>9, QuietKeeps
<1>11. ASSUME NEW b \in Targets, phase'[b] = "init"
       PROVE  phase[b] = "init" /\ request'[Cmd(b)] = request[Cmd(b)]
  <2>1. b # w /\ Cmd(b) # Current(w) /\ Cmd(b) \in Handles
    BY <1>3, <1>8, <1>11, Requests, Tags
  <2>. QED  BY <1>4, <1>5, <1>11, <2>1
<1>12. ASSUME NEW o \in Ops
       PROVE  /\ phase'[o] \in {"done", "freed"} => phase[o] \in {"done", "freed"} \/ Landed(o)
              /\ phase[o] = "done" => phase'[o] = "done"
              /\ (phase'[o] = "unposted") <=> (phase[o] = "unposted")
              /\ (phase'[o] = "freed") <=> (phase[o] = "freed")
  <2>1. o = w /\ phase[o] = "cmd_done" => Landed(o)
    BY <1>3 DEF Paired, Through
  <2>. QED  BY <1>5, <2>1
<1>13. ASSUME NEW b \in WithEvents PROVE HoldsEvent(b)' <=> HoldsEvent(b)
  <2>1. b \in Targets
    BY Assumptions DEF Assumptions
  <2>2. CASE b = w
    BY <1>8, <2>1, <2>2 DEF HoldsEvent, Active, Data
  <2>3. CASE b # w
    <3>1. Data(b) # Current(w) /\ Data(b) \in Handles
      BY <1>3, <2>1, <2>3, Requests, Tags
    <3>2. phase'[b] = phase[b] /\ request'[Data(b)] = request[Data(b)]
      BY <1>4, <1>5, <2>1, <2>3, <3>1
    <3>. QED  BY <3>2 DEF HoldsEvent, Data
  <2>. QED  BY <2>2, <2>3
<1>. QED  BY <1>8, <1>10, <1>11, <1>12, <1>13 DEF WorkGoesOn

(* process_event for a command that the target knows. *)
LEMMA StartDataWorks ==
    ASSUME RInv, Paired, NEW b \in Targets, HasCommand(b), NEW known, known = TRUE, StartData(b, known),
           UNCHANGED moved, SameMidway
    PROVE  WorkGoesOn /\ phase'[b] # "init"
<1>1. /\ phase' = [phase EXCEPT ![b] = "cmd_done"]
      /\ request' = [request EXCEPT ![Cmd(b)] = "null", ![Data(b)] = "active"]
  BY StartsServed
<1>2. Paired'
  BY StartDataPairs DEF SameMidway
<1>3. /\ DOMAIN phase = Wrs /\ DOMAIN request = Wrs \X {"cmd", "data"}
      /\ Cmd(b) \in Handles /\ Data(b) \in Handles /\ Handles \subseteq Wrs \X {"cmd", "data"}
      /\ b \in Wrs /\ b \notin Ops /\ Ops \union Targets \subseteq Wrs /\ Cmd(b) # Data(b)
  BY Operations, Kinds, Tags DEF RInv, Core, Typed, Handles
<1>4. /\ request'[Data(b)] = "active"
      /\ \A q \in Handles : q # Data(b) /\ q # Cmd(b) => request'[q] = request[q]
  BY <1>1, <1>3
<1>5. phase[b] = "init" /\ phase'[b] = "cmd_done" /\ \A w \in Ops \union Targets : w # b => phase'[w] = phase[w]
  BY <1>1, <1>3 DEF HasCommand
<1>6. \A c \in Targets : c # b => request'[Cmd(c)] = request[Cmd(c)] /\ request'[Data(c)] = request[Data(c)]
  BY <1>4, Requests, Tags
<1>7. \A o \in Ops : phase'[o] = phase[o]
  BY <1>3, <1>5
<1>8. ASSUME NEW c \in WithEvents PROVE HoldsEvent(c)' <=> HoldsEvent(c)
  <2>1. c \in Targets
    BY Assumptions DEF Assumptions
  <2>2. CASE c = b
    BY <1>4, <1>5, <2>2 DEF HoldsEvent, Data
  <2>3. CASE c # b
    BY <1>5, <1>6, <2>1, <2>3 DEF HoldsEvent, Data
  <2>. QED  BY <2>2, <2>3
<1>. QED  BY <1>2, <1>5, <1>6, <1>7, <1>8 DEF WorkGoesOn

\* The target work request of a buffer without events is posted again.
LEMMA RepostWorks ==
    ASSUME RInv, Paired, NEW b \in Targets, NEW queue, Repost(b, queue), b \notin WithEvents,
           phase[b] = "cmd_done" /\ ~Active(Data(b)), UNCHANGED moved, SameMidway
    PROVE  WorkGoesOn
<1>1. /\ phase' = [phase EXCEPT ![b] = "init"]
      /\ request' = [request EXCEPT ![Data(b)] = "null", ![Cmd(b)] = "active"]
  BY DEF Repost, Cmd, Data
<1>2. Paired'
  BY RepostPairs DEF SameMidway
<1>3. /\ DOMAIN phase = Wrs /\ DOMAIN request = Wrs \X {"cmd", "data"}
      /\ Cmd(b) \in Handles /\ Data(b) \in Handles /\ Handles \subseteq Wrs \X {"cmd", "data"}
      /\ b \in Wrs /\ b \notin Ops /\ Ops \union Targets \subseteq Wrs /\ Cmd(b) # Data(b)
  BY Operations, Kinds, Tags DEF RInv, Core, Typed, Handles
<1>4. /\ request'[Cmd(b)] = "active"
      /\ \A q \in Handles : q # Data(b) /\ q # Cmd(b) => request'[q] = request[q]
  BY <1>1, <1>3
<1>5. \A w \in Ops \union Targets : w # b => phase'[w] = phase[w]
  BY <1>1, <1>3
<1>6. \A c \in Targets : c # b => request'[Cmd(c)] = request[Cmd(c)] /\ request'[Data(c)] = request[Data(c)]
  BY <1>4, Requests, Tags
<1>7. \A o \in Ops : phase'[o] = phase[o]
  BY <1>3, <1>5
<1>8. \A c \in WithEvents : HoldsEvent(c)' <=> HoldsEvent(c)
  <2>1. \A c \in WithEvents : c \in Targets /\ c # b
    BY Assumptions DEF Assumptions
  <2>. QED  BY <1>5, <1>6, <2>1 DEF HoldsEvent, Data
<1>9. \A c \in Targets : phase'[c] = "init" =>
         Active(Cmd(c))' \/ (phase[c] = "init" /\ request'[Cmd(c)] = request[Cmd(c)])
  BY <1>4, <1>5, <1>6 DEF Active
<1>. QED  BY <1>2, <1>7, <1>8, <1>9 DEF WorkGoesOn

(* process_event, whatever the work request. *)
LEMMA ProcessWorks ==
    ASSUME RInv, Paired, NEW w \in Ops \union Targets, ~Active(Current(w)), w \in Ops => ~Midway(w),
           NEW known, known = TRUE \/ w \in Ops \/ phase[w] # "init", process_event(w, known),
           UNCHANGED moved, SameMidway
    PROVE  WorkGoesOn /\ (w \in Targets => phase'[w] # "init")
<1>1. CASE w \in Targets /\ phase[w] = "init"
  <2>1. HasCommand(w) /\ w \notin Ops
    BY <1>1, Kinds DEF HasCommand, Current, Cmd
  <2>2. StartData(w, known) /\ known = TRUE
    BY <1>1, <2>1 DEF process_event
  <2>. QED  BY <1>1, <2>1, <2>2, StartDataWorks
<1>2. CASE ~(w \in Targets /\ phase[w] = "init")
  <2>1. Advance(w) /\ (phase[w] # "init" \/ w \in Ops)
    BY <1>2 DEF process_event
  <2>. QED  BY <2>1, AdvanceWorks
<1>. QED  BY <1>1, <1>2

-----------------------------------------------------------------------------
(* What a step does to what is known, what is complete and what is counted. *)

(* A target is known to have its command, or to wait for one, after a step of thread t. *)
LEMMA KnownStays ==
    ASSUME Known, NEW t \in Threads, \A u \in Threads \ {t} : thread'[u] = thread[u],
           \A b \in Targets : phase'[b] = "init" =>
             \/ request'[Cmd(b)] \in {"active", "done"}
             \/ thread'[t].pc = "event" /\ thread'[t].wr = b
             \/ /\ phase[b] = "init" /\ request'[Cmd(b)] = request[Cmd(b)]
                /\ ~(thread[t].pc = "event" /\ thread[t].wr = b)
    PROVE  Known'
BY DEF Known

(* What is complete has landed, after a step of thread t. *)
LEMMA CompleteStays ==
    ASSUME RInv, Complete, NEW t \in Threads, \A u \in Threads \ {t} : thread'[u] = thread[u],
           \A o \in Ops : /\ Landed(o) => Landed(o)'
                          /\ phase'[o] \in {"done", "freed"} => phase[o] \in {"done", "freed"} \/ Landed(o)'
                          /\ phase[o] = "done" => phase'[o] = "done" \/ OpOf[o].thread = t,
           thread'[t].pc = "finish" /\ thread'[t].wr \in Ops => phase'[thread'[t].wr] = "done"
    PROVE  Complete'
<1>1. \A o \in Ops : phase'[o] \in {"done", "freed"} => Landed(o)'
  BY DEF Complete
<1>2. ASSUME NEW u \in Threads, u # t, thread[u].pc = "finish", thread[u].wr \in Ops
      PROVE  phase'[thread[u].wr] = "done"
  <2>1. OpOf[thread[u].wr].thread = u
    <3>1. InCall(u)
      BY DEF RInv, InCalls
    <3>2. Own(u, thread[u].wr)
      BY <1>2, <3>1, Kinds DEF InCall
    <3>. QED  BY <1>2, <3>2, Kinds DEF Own
  <2>. QED  BY <1>2, <2>1 DEF Complete
<1>3. \A u \in Threads : thread'[u].pc = "finish" /\ thread'[u].wr \in Ops => phase'[thread'[u].wr] = "done"
  BY <1>2
<1>. QED  BY <1>1, <1>3 DEF Complete

(* A step in which nothing lands and no event is taken. *)
LEMMA CountedStays ==
    ASSUME Counted, \A o \in Ops : Landed(o)' <=> Landed(o), UNCHANGED events,
           \A b \in WithEvents : HoldsEvent(b)' <=> HoldsEvent(b)
    PROVE  Counted'
<1>1. \A b \in WithEvents : LandedOn(b)' = LandedOn(b)
  BY DEF LandedOn
<1>. QED  BY <1>1 DEF Counted

\* For an operation nothing changes that its initiator is promised.
SameStates == \A o \in Ops : StateOf(o)' = StateOf(o)

(* Going on with a work request keeps the invariant, and no initiator sees it. *)
LEMMA WorkKeeps ==
    ASSUME RInv, RInv', DInv, NEW t \in Threads, \A u \in Threads \ {t} : thread'[u] = thread[u],
           WorkGoesOn, UNCHANGED <<moved, events>>,
           thread[t].pc = "event" /\ thread[t].wr \in Targets => phase'[thread[t].wr] # "init",
           thread'[t].pc = "finish" /\ thread'[t].wr \in Ops => phase'[thread'[t].wr] = "done"
    PROVE  DInv' /\ SameStates
<1>1. \A o \in Ops : Landed(o)' <=> Landed(o)
  BY DEF Landed
<1>2. Known'
  <2>1. \A b \in Targets : phase'[b] = "init" =>
             \/ request'[Cmd(b)] \in {"active", "done"}
             \/ /\ phase[b] = "init" /\ request'[Cmd(b)] = request[Cmd(b)]
                /\ ~(thread[t].pc = "event" /\ thread[t].wr = b)
    BY DEF WorkGoesOn, Active
  <2>. QED  BY <2>1, KnownStays DEF DInv
<1>3. Complete'
  BY <1>1, CompleteStays DEF DInv, WorkGoesOn
<1>4. Counted'
  BY <1>1, CountedStays DEF DInv, WorkGoesOn
<1>5. ASSUME NEW o \in Ops PROVE StateOf(o)' = StateOf(o)
  <2>1. (Landed(o)' <=> Landed(o)) /\ phase[o] \in States /\ phase'[o] \in States
    BY <1>1, Kinds DEF RInv, Core, Typed
  <2>. QED  BY <2>1 DEF StateOf, WorkGoesOn, States
<1>. QED  BY <1>2, <1>3, <1>4, <1>5 DEF DInv, WorkGoesOn, SameStates

-----------------------------------------------------------------------------
(* The steps of a wait that only look.                                     *)

(* A thread that is in a wait is not between the halves of a put or get. *)
LEMMA OutsideStarts ==
    ASSUME NEW t \in Threads, \A u \in Threads \ {t} : thread'[u] = thread[u],
           thread[t].pc \notin {"put", "get"}, thread'[t].pc \notin {"put", "get"}
    PROVE  SameMidway /\ \A o \in Ops : OpOf[o].thread = t => ~Midway(o)
BY MidwayOfThread DEF SameMidway

(* A step of a wait that changes nothing but where the thread is. *)
LEMMA LookingKeeps ==
    ASSUME RInv, RInv', DInv, NEW t \in Threads, UNCHANGED <<fabric, wrs, request, moved, events>>,
           \A u \in Threads \ {t} : thread'[u] = thread[u],
           thread[t].pc \notin {"put", "get", "event"}, thread'[t].pc \notin {"put", "get"},
           thread'[t].pc = "finish" => phase[thread'[t].wr] = "done"
    PROVE  DInv' /\ SameStates /\ UNCHANGED moved
<1>1. UNCHANGED <<sends, recvs, moved, phase, cmd_msg, request, events>>
  BY DEF fabric, wrs
<1>2. SameMidway
  BY OutsideStarts
<1>3. WorkGoesOn
  BY <1>1, <1>2, IdleWorks DEF DInv
<1>. QED  BY <1>1, <1>3, WorkKeeps

(* A wait begins. *)
LEMMA WaitEnterData ==
    ASSUME RInv, RInv', DInv, NEW t \in Threads, NEW w \in Wrs, NEW timeout, WaitEnter(t, w, timeout)
    PROVE  DInv' /\ SameStates /\ UNCHANGED moved
<1>. DEFINE r == [pc |-> IF phase[w] = "done" THEN "finish" ELSE "check",
                  wr |-> w, timeout |-> timeout, cursor |-> 1, progressed |-> FALSE]
<1>1. thread[t].pc = "idle" /\ thread' = [thread EXCEPT ![t] = r] /\ UNCHANGED <<fabric, wrs, request, moved, events>>
  BY DEF WaitEnter
<1>2. r.wr = w /\ r.pc = (IF phase[w] = "done" THEN "finish" ELSE "check")
  OBVIOUS
<1>. HIDE DEF r
<1>3. DOMAIN thread = Threads
  BY DEF RInv, InCalls
<1>4. thread'[t] = r /\ \A u \in Threads \ {t} : thread'[u] = thread[u]
  BY <1>1, <1>3
<1>. QED  BY <1>1, <1>2, <1>4, LookingKeeps

(* The pass over the target buffers ends. *)
LEMMA CheckDoneData ==
    ASSUME RInv, RInv', DInv, NEW t \in Threads, CheckDone(t)
    PROVE  DInv' /\ SameStates /\ UNCHANGED moved
<1>1. InCalls /\ InCall(t) /\ DOMAIN thread = Threads
  BY DEF RInv, InCalls
<1>2. thread[t].pc = "check" /\ UNCHANGED <<fabric, wrs, request, moved, events>>
  BY DEF CheckDone
<1>3. /\ \A u \in Threads \ {t} : thread'[u] = thread[u]
      /\ thread'[t].wr = thread[t].wr
      /\ thread'[t].pc \in {"finish", "test"} /\ (thread'[t].pc = "finish" => phase[thread[t].wr] = "done")
  BY <1>1 DEF CheckDone, InCall
<1>. QED  BY <1>2, <1>3, LookingKeeps

(* The request is not done, and the wait goes round again. *)
LEMMA TestAgainData ==
    ASSUME RInv, RInv', DInv, NEW t \in Threads, TestAgain(t)
    PROVE  DInv' /\ SameStates /\ UNCHANGED moved
<1>. SUFFICES ASSUME NEW w, w = thread[t].wr,
                     NEW pc, pc = (IF request[Current(w)] = "null" /\ phase[w] = "done" THEN "finish" ELSE "check")
              PROVE  DInv' /\ SameStates /\ UNCHANGED moved
  OBVIOUS
<1>1. InCalls
  BY DEF RInv
<1>2. thread[t].pc = "test" /\ GoTo(t, pc) /\ UNCHANGED <<fabric, wrs, request, moved, events>>
  BY DEF TestAgain
<1>3. /\ \A u \in Threads \ {t} : thread'[u] = thread[u]
      /\ thread'[t].pc = pc /\ thread'[t].wr = w
  BY <1>1, <1>2, GoesTo
<1>. QED  BY <1>2, <1>3, LookingKeeps

(* A wait that timed out leaves everything as it was. *)
LEMMA TimedOutData ==
    ASSUME RInv, RInv', DInv, NEW t \in Threads, TimedOut(t)
    PROVE  DInv' /\ SameStates /\ UNCHANGED moved
<1>1. thread[t].pc = "test" /\ thread' = [thread EXCEPT ![t] = Idle] /\ UNCHANGED <<fabric, wrs, request, moved, events>>
  BY DEF TimedOut
<1>2. DOMAIN thread = Threads
  BY DEF RInv, InCalls
<1>3. thread'[t].pc = "idle" /\ \A u \in Threads \ {t} : thread'[u] = thread[u]
  BY <1>1, <1>2 DEF Idle
<1>. QED  BY <1>1, <1>3, LookingKeeps

-----------------------------------------------------------------------------
(* The steps of a wait that go on with the work of a work request.         *)

(* A target in init whose request is done or gone is of no other thread of its rank. *)
LEMMA KnownToAll ==
    ASSUME OneThread, RInv, Known, NEW t \in Threads, thread[t].pc = "check", NEW b \in Targets,
           OwnerOf[b] = RankOf[t], phase[b] = "init", ~Active(Cmd(b))
    PROVE  request[Cmd(b)] = "done"
<1>1. ASSUME NEW u \in Threads, thread[u].pc = "event", thread[u].wr = b PROVE FALSE
  <2>1. InCall(u)
    BY DEF RInv, InCalls
  <2>2. Own(u, b)
    BY <1>1, <2>1, Kinds DEF InCall
  <2>3. RankOf[u] = RankOf[t]
    BY <2>2, Kinds DEF Own
  <2>4. u = t
    BY <2>3 DEF OneThread
  <2>. QED  BY <1>1, <2>4
<1>. QED  BY <1>1 DEF Known, Active

(* A pass over the target buffers tests the first work request of a buffer. *)
LEMMA CheckBufferWorks ==
    ASSUME OneThread, RInv, DInv, NEW t \in Threads, thread[t].pc = "check", NEW b \in Targets,
           OwnerOf[b] = RankOf[t], CheckBuffer(b), UNCHANGED moved, SameMidway,
           \A o \in Ops : OpOf[o].thread = t => ~Midway(o)
    PROVE  WorkGoesOn
<1>1. Core /\ Paired /\ Known
  BY DEF RInv, DInv
<1>. SUFFICES ASSUME NEW w, w = Head(wr_queue[b]) PROVE WorkGoesOn
  OBVIOUS
<1>. SUFFICES ASSUME NEW known, known = (request[Current(w)] = "done") PROVE WorkGoesOn
  OBVIOUS
<1>2. w \in Ops \union Targets /\ Own(t, w) /\ (w \in Targets => w = b)
  BY <1>1, FirstInQueue
<1>3. \/ UNCHANGED <<fabric, wrs, request>>
      \/ /\ ~Active(Current(w)) /\ w \in Targets /\ phase[w] = "cmd_done" /\ Recycled(b)
         /\ Repost(w, RemoveFirst(wr_queue[b], w))
      \/ ~Active(Current(w)) /\ process_event(w, known)
  BY DEF CheckBuffer, Active
<1>4. CASE UNCHANGED <<fabric, wrs, request>>
  <2>1. UNCHANGED <<sends, recvs, moved, phase, cmd_msg, request>>
    BY <1>4 DEF fabric, wrs
  <2>. QED  BY <2>1, <1>1, IdleWorks
<1>5. CASE /\ ~Active(Current(w)) /\ w \in Targets /\ phase[w] = "cmd_done" /\ Recycled(b)
           /\ Repost(w, RemoveFirst(wr_queue[b], w))
  <2>. SUFFICES ASSUME NEW queue, queue = RemoveFirst(wr_queue[b], w) PROVE WorkGoesOn
    OBVIOUS
  <2>1. w = b /\ Repost(b, queue) /\ b \notin WithEvents /\ phase[b] = "cmd_done"
    BY <1>2, <1>5 DEF Recycled
  <2>2. ~Active(Data(b))
    BY <1>5, <2>1 DEF Current, Data
  <2>. QED  BY <2>1, <2>2, <1>1, RepostWorks
<1>6. CASE ~Active(Current(w)) /\ process_event(w, known)
  <2>1. w \in Ops => ~Midway(w)
    BY <1>2, Kinds DEF Own
  <2>2. w \in Targets /\ phase[w] = "init" => known = TRUE
    <3>1. ASSUME w \in Targets, phase[w] = "init" PROVE request[Cmd(w)] = "done" /\ Current(w) = Cmd(w)
      <4>1. Current(w) = Cmd(w) /\ w = b
        BY <3>1, <1>2 DEF Current, Cmd
      <4>. QED  BY <3>1, <4>1, <1>1, <1>6, KnownToAll
    <3>. QED  BY <3>1
  <2>. QED  BY <1>1, <1>2, <1>6, <2>1, <2>2, ProcessWorks
<1>. QED  BY <1>3, <1>4, <1>5, <1>6

(* A pass over the target buffers goes on to the next. *)
LEMMA CheckTargetData ==
    ASSUME OneThread, RInv, RInv', DInv, NEW t \in Threads, CheckTarget(t)
    PROVE  DInv' /\ SameStates /\ UNCHANGED moved
<1>. DEFINE targets == TargetBuffers[RankOf[t]]
<1>1. InCalls /\ InCall(t) /\ DOMAIN thread = Threads
  BY DEF RInv, InCalls
<1>2. /\ thread[t].pc = "check" /\ thread[t].cursor <= Len(targets)
      /\ CheckBuffer(targets[thread[t].cursor]) /\ UNCHANGED <<moved, events>>
  BY DEF CheckTarget
<1>3. /\ \A u \in Threads \ {t} : thread'[u] = thread[u]
      /\ thread'[t].pc = "check" /\ thread'[t].wr = thread[t].wr
  BY <1>1 DEF CheckTarget, InCall
<1>. SUFFICES ASSUME NEW b, b = targets[thread[t].cursor] PROVE DInv' /\ SameStates /\ UNCHANGED moved
  OBVIOUS
<1>4. b \in Targets /\ OwnerOf[b] = RankOf[t]
  <2>1. RankOf[t] \in Ranks
    BY Assumptions DEF Assumptions
  <2>2. thread[t].cursor \in Nat \ {0}
    BY <1>1 DEF InCall
  <2>3. thread[t].cursor \in 1 .. Len(targets)
    BY <1>2, <2>1, <2>2, Kinds
  <2>. QED  BY <2>1, <2>3, Kinds
<1>5. SameMidway /\ \A o \in Ops : OpOf[o].thread = t => ~Midway(o)
  BY <1>2, <1>3, OutsideStarts
<1>6. WorkGoesOn
  BY <1>2, <1>4, <1>5, CheckBufferWorks
<1>. QED  BY <1>2, <1>3, <1>6, WorkKeeps

(* process_event for the wait's own work request. *)
LEMMA HandleEventData ==
    ASSUME RInv, RInv', DInv, NEW t \in Threads, HandleEvent(t)
    PROVE  DInv' /\ SameStates /\ UNCHANGED moved
<1>. SUFFICES ASSUME NEW w, w = thread[t].wr PROVE DInv' /\ SameStates /\ UNCHANGED moved
  OBVIOUS
<1>. SUFFICES ASSUME NEW pc, pc = (IF phase'[w] = "done" THEN "finish" ELSE "check")
              PROVE  DInv' /\ SameStates /\ UNCHANGED moved
  OBVIOUS
<1>. SUFFICES ASSUME NEW known, known = TRUE PROVE DInv' /\ SameStates /\ UNCHANGED moved
  OBVIOUS
<1>1. InCalls /\ InCall(t) /\ Paired
  BY DEF RInv, InCalls, DInv
<1>2. thread[t].pc = "event" /\ process_event(w, known) /\ GoTo(t, pc) /\ UNCHANGED <<moved, events>>
  BY DEF HandleEvent
<1>3. Own(t, w) /\ w \in Ops \union Targets /\ ~Active(Current(w))
  BY <1>1, <1>2 DEF InCall, Own
<1>4. /\ \A u \in Threads \ {t} : thread'[u] = thread[u]
      /\ thread'[t].pc = pc /\ thread'[t].wr = w
  BY <1>1, <1>2, GoesTo
<1>5. SameMidway /\ \A o \in Ops : OpOf[o].thread = t => ~Midway(o)
  BY <1>2, <1>4, OutsideStarts
<1>6. w \in Ops => ~Midway(w)
  BY <1>3, <1>5, Kinds DEF Own
<1>7. WorkGoesOn /\ (w \in Targets => phase'[w] # "init")
  BY <1>1, <1>2, <1>3, <1>5, <1>6, ProcessWorks
<1>. QED  BY <1>2, <1>4, <1>7, WorkKeeps

-----------------------------------------------------------------------------
(* The other steps of a wait, and the calls that start an operation.       *)

\* Operation o goes from one state to another, and it alone.
Becomes(o, from, to) ==
    StateOf(o) = from /\ StateOf(o)' = to /\ \A p \in Ops : p # o => StateOf(p)' = StateOf(p)

(* A step of a call that leaves the targets' requests alone keeps the rest of the invariant. *)
LEMMA CallKeeps ==
    ASSUME RInv, DInv, Paired', NEW t \in Threads, \A u \in Threads \ {t} : thread'[u] = thread[u],
           thread[t].pc # "event", thread'[t].pc # "finish", UNCHANGED <<moved, events>>,
           \A b \in Targets : /\ phase'[b] = phase[b]
                              /\ request'[Cmd(b)] = request[Cmd(b)] /\ request'[Data(b)] = request[Data(b)],
           \A o \in Ops : /\ phase'[o] \in {"done", "freed"} => phase[o] \in {"done", "freed"}
                          /\ phase[o] = "done" => phase'[o] = "done" \/ OpOf[o].thread = t
    PROVE  DInv' /\ \A o \in Ops : Landed(o)' <=> Landed(o)
<1>1. \A o \in Ops : Landed(o)' <=> Landed(o)
  BY DEF Landed
<1>2. Known'
  BY KnownStays DEF DInv
<1>3. Complete'
  BY <1>1, CompleteStays DEF DInv
<1>4. \A b \in WithEvents : HoldsEvent(b)' <=> HoldsEvent(b)
  BY Assumptions DEF Assumptions, HoldsEvent, Data
<1>5. Counted'
  BY <1>1, <1>4, CountedStays DEF DInv
<1>. QED  BY <1>1, <1>2, <1>3, <1>5 DEF DInv

\* The calls that start an operation leave the targets' requests alone.
LEMMA OwnRequest ==
    ASSUME RInv, NEW o \in Ops, NEW q, q \in {Cmd(o), Data(o)}, request' = [request EXCEPT ![q] = "active"]
    PROVE  \A b \in Targets : request'[Cmd(b)] = request[Cmd(b)] /\ request'[Data(b)] = request[Data(b)]
<1>1. DOMAIN request = Wrs \X {"cmd", "data"} /\ Handles \subseteq Wrs \X {"cmd", "data"}
  BY Kinds DEF RInv, Core, Typed, Handles
<1>2. \A x \in Handles : x # q => request'[x] = request[x]
  BY <1>1
<1>3. ASSUME NEW b \in Targets PROVE Cmd(b) # q /\ Data(b) # q /\ Cmd(b) \in Handles /\ Data(b) \in Handles
  <2>1. b # o
    BY Kinds
  <2>. QED  BY <2>1, Requests, Tags
<1>. QED  BY <1>2, <1>3

(* The first half of a put or get starts the operation. *)
LEMMA StartKeeps ==
    ASSUME RInv, DInv, Paired', NEW t \in Threads, \A u \in Threads \ {t} : thread'[u] = thread[u],
           thread[t].pc # "event", thread'[t].pc # "finish", UNCHANGED <<moved, events>>,
           NEW o \in Ops, phase[o] = "unposted", phase' = [phase EXCEPT ![o] = "init"],
           NEW q, q \in {Cmd(o), Data(o)}, request' = [request EXCEPT ![q] = "active"]
    PROVE  DInv' /\ Becomes(o, "idle", "started")
<1>1. /\ phase'[o] = "init" /\ \A w \in Ops \union Targets : w # o => phase'[w] = phase[w]
      /\ \A b \in Targets : b # o
  BY Kinds DEF RInv, Core, Typed
<1>2. \A b \in Targets : request'[Cmd(b)] = request[Cmd(b)] /\ request'[Data(b)] = request[Data(b)]
  BY OwnRequest
<1>3. DInv' /\ \A p \in Ops : Landed(p)' <=> Landed(p)
  BY <1>1, <1>2, CallKeeps
<1>4. ~Landed(o)
  BY DEF DInv, Paired, Through
<1>5. StateOf(o) = "idle" /\ StateOf(o)' = "started"
  BY <1>1, <1>3, <1>4 DEF StateOf
<1>6. ASSUME NEW p \in Ops, p # o PROVE StateOf(p)' = StateOf(p)
  <2>1. phase'[p] = phase[p] /\ (Landed(p)' <=> Landed(p))
    BY <1>1, <1>3, <1>6
  <2>. QED  BY <2>1 DEF StateOf
<1>. QED  BY <1>3, <1>5, <1>6 DEF Becomes

(* A put begins. *)
LEMMA PutCommandData ==
    ASSUME RInv, DInv, NEW t \in Threads, NEW o \in Ops, PutCommand(t, o)
    PROVE  DInv' /\ Becomes(o, "idle", "started") /\ UNCHANGED moved
<1>1. /\ thread[t].pc = "idle" /\ phase[o] = "unposted" /\ phase' = [phase EXCEPT ![o] = "init"]
      /\ request' = [request EXCEPT ![Cmd(o)] = "active"]
      /\ thread' = [thread EXCEPT ![t].pc = "put", ![t].wr = o]
      /\ UNCHANGED <<moved, events>>
  BY DEF PutCommand, Cmd
<1>2. DOMAIN thread = Threads /\ DOMAIN thread[t] = {"pc", "wr", "timeout", "cursor", "progressed"}
  BY DEF RInv, InCalls, InCall
<1>3. thread'[t].pc = "put" /\ \A u \in Threads \ {t} : thread'[u] = thread[u]
  BY <1>1, <1>2
<1>4. Paired'
  BY PutCommandPairs DEF DInv
<1>5. Cmd(o) \in {Cmd(o), Data(o)}
  OBVIOUS
<1>. QED  BY <1>1, <1>3, <1>4, <1>5, StartKeeps

(* A get begins. *)
LEMMA GetReceiveData ==
    ASSUME OneThread, RInv, DInv, NEW t \in Threads, NEW o \in Ops, GetReceive(t, o)
    PROVE  DInv' /\ Becomes(o, "idle", "started") /\ UNCHANGED moved
<1>1. /\ thread[t].pc = "idle" /\ phase[o] = "unposted" /\ phase' = [phase EXCEPT ![o] = "init"]
      /\ request' = [request EXCEPT ![Data(o)] = "active"]
      /\ thread' = [thread EXCEPT ![t].pc = "get", ![t].wr = o]
      /\ UNCHANGED <<moved, events>>
  BY DEF GetReceive, Data
<1>2. DOMAIN thread = Threads /\ DOMAIN thread[t] = {"pc", "wr", "timeout", "cursor", "progressed"}
  BY DEF RInv, InCalls, InCall
<1>3. thread'[t].pc = "get" /\ \A u \in Threads \ {t} : thread'[u] = thread[u]
  BY <1>1, <1>2
<1>4. Paired'
  BY GetReceivePairs DEF DInv
<1>5. Data(o) \in {Cmd(o), Data(o)}
  OBVIOUS
<1>. QED  BY <1>1, <1>3, <1>4, <1>5, StartKeeps

\* The second half of the call.
LEMMA SecondHalfKeeps ==
    ASSUME RInv, DInv, Paired', NEW t \in Threads, thread[t].pc \in {"put", "get"}, thread' = [thread EXCEPT ![t] = Idle],
           UNCHANGED <<phase, moved, events>>,
           NEW o \in Ops, NEW q, q \in {Cmd(o), Data(o)}, request' = [request EXCEPT ![q] = "active"]
    PROVE  DInv' /\ SameStates
<1>1. DOMAIN thread = Threads
  BY DEF RInv, InCalls
<1>2. thread'[t].pc = "idle" /\ \A u \in Threads \ {t} : thread'[u] = thread[u]
  BY <1>1 DEF Idle
<1>3. \A b \in Targets : request'[Cmd(b)] = request[Cmd(b)] /\ request'[Data(b)] = request[Data(b)]
  BY OwnRequest
<1>4. DInv' /\ \A p \in Ops : Landed(p)' <=> Landed(p)
  BY <1>2, <1>3, CallKeeps
<1>. QED  BY <1>4 DEF SameStates, StateOf

(* A put sends its data. *)
LEMMA PutDataData ==
    ASSUME RInv, DInv, NEW t \in Threads, PutData(t)
    PROVE  DInv' /\ SameStates /\ UNCHANGED moved
<1>. SUFFICES ASSUME NEW o, o = thread[t].wr PROVE DInv' /\ SameStates /\ UNCHANGED moved
  OBVIOUS
<1>1. /\ thread[t].pc = "put" /\ thread' = [thread EXCEPT ![t] = Idle] /\ UNCHANGED <<phase, moved, events>>
      /\ request' = [request EXCEPT ![Data(o)] = "active"]
  BY DEF PutData, Data
<1>2. o \in Ops
  <2>1. InCall(t)
    BY DEF RInv, InCalls
  <2>. QED  BY <1>1, <2>1 DEF InCall
<1>3. Paired'
  BY PutDataPairs DEF DInv
<1>4. Data(o) \in {Cmd(o), Data(o)}
  OBVIOUS
<1>. QED  BY <1>1, <1>2, <1>3, <1>4, SecondHalfKeeps

(* A get sends its command. *)
LEMMA GetCommandData ==
    ASSUME RInv, DInv, NEW t \in Threads, GetCommand(t)
    PROVE  DInv' /\ SameStates /\ UNCHANGED moved
<1>. SUFFICES ASSUME NEW o, o = thread[t].wr PROVE DInv' /\ SameStates /\ UNCHANGED moved
  OBVIOUS
<1>1. /\ thread[t].pc = "get" /\ thread' = [thread EXCEPT ![t] = Idle] /\ UNCHANGED <<phase, moved, events>>
      /\ request' = [request EXCEPT ![Cmd(o)] = "active"]
  BY DEF GetCommand, Cmd
<1>2. o \in Ops
  <2>1. InCall(t)
    BY DEF RInv, InCalls
  <2>. QED  BY <1>1, <2>1 DEF InCall
<1>3. Paired'
  BY GetCommandPairs DEF DInv
<1>4. Cmd(o) \in {Cmd(o), Data(o)}
  OBVIOUS
<1>. QED  BY <1>1, <1>2, <1>3, <1>4, SecondHalfKeeps

(* The wait's own request is done. *)
LEMMA TestDoneData ==
    ASSUME RInv, DInv, NEW t \in Threads, TestDone(t)
    PROVE  DInv' /\ SameStates /\ UNCHANGED moved
<1>. SUFFICES ASSUME NEW w, w = thread[t].wr PROVE DInv' /\ SameStates /\ UNCHANGED moved
  OBVIOUS
<1>. SUFFICES ASSUME NEW c, c = Current(w) PROVE DInv' /\ SameStates /\ UNCHANGED moved
  OBVIOUS
<1>. SUFFICES ASSUME NEW pc, pc = "event" PROVE DInv' /\ SameStates /\ UNCHANGED moved
  OBVIOUS
<1>1. /\ thread[t].pc = "test" /\ request[c] = "done"
      /\ request' = [request EXCEPT ![c] = "null"]
      /\ GoTo(t, pc) /\ UNCHANGED <<sends, recvs, phase, cmd_msg, moved, events>>
  BY DEF TestDone, wrs, fabric
<1>2. InCalls /\ InCall(t) /\ Paired /\ Counted /\ Known /\ Complete
  BY DEF RInv, InCalls, DInv, Paired
<1>3. /\ \A u \in Threads \ {t} : thread'[u] = thread[u]
      /\ thread'[t].pc = "event" /\ thread'[t].wr = w
  BY <1>1, <1>2, GoesTo
<1>4. /\ DOMAIN request = Wrs \X {"cmd", "data"} /\ Handles \subseteq Wrs \X {"cmd", "data"}
      /\ c = Cmd(w) \/ c = Data(w)
  BY Kinds DEF RInv, Core, Typed, Handles, Current, Cmd, Data
<1>5. \A x \in Handles : /\ x # c => request'[x] = request[x]
                         /\ Active(x)' <=> Active(x)
  BY <1>1, <1>4 DEF Active
<1>6. SameMidway
  BY <1>1, <1>3, OutsideStarts
<1>7. Paired'
  <2>1. SameRequests /\ SameProgress
    BY <1>1, <1>5, <1>6 DEF SameRequests, SameProgress, SameMidway
  <2>2. \A b \in Targets : (HasCommand(b)' <=> HasCommand(b)) /\ (MovesData(b)' <=> MovesData(b))
    BY <1>1, <1>5, Requests DEF HasCommand, MovesData
  <2>. QED  BY <1>1, <1>2, <2>1, <2>2, QuietKeeps
<1>8. Known'
  <2>1. ASSUME NEW b \in Targets, phase'[b] = "init", b # w PROVE phase[b] = "init" /\ request'[Cmd(b)] = request[Cmd(b)]
    <3>1. Cmd(b) # c /\ Cmd(b) \in Handles
      BY <1>4, <2>1, Requests, Tags
    <3>. QED  BY <1>1, <1>5, <2>1, <3>1
  <2>2. ~(thread[t].pc = "event")
    BY <1>1
  <2>. QED  BY <1>2, <1>3, <2>1, <2>2, KnownStays
<1>9. \A o \in Ops : Landed(o)' <=> Landed(o)
  BY <1>1 DEF Landed
<1>10. Complete'
  BY <1>1, <1>2, <1>3, <1>9, CompleteStays
<1>11. Counted'
  <2>1. \A b \in WithEvents : HoldsEvent(b)' <=> HoldsEvent(b)
    <3>1. \A b \in WithEvents : b \in Targets /\ Data(b) \in Handles
      BY Assumptions, Requests DEF Assumptions
    <3>. QED  BY <1>1, <1>5, <3>1 DEF HoldsEvent, Data, Active
  <2>. QED  BY <1>1, <1>2, <1>9, <2>1, CountedStays
<1>12. SameStates
  BY <1>1, <1>9 DEF SameStates, StateOf
<1>. QED  BY <1>1, <1>7, <1>8, <1>10, <1>11, <1>12 DEF DInv

(* A wait for an operation returns: its data is in its place. *)
LEMMA FinishInitiatorData ==
    ASSUME RInv, DInv, NEW t \in Threads, FinishInitiator(t), NEW o, o = thread[t].wr
    PROVE  DInv' /\ o \in Ops /\ Becomes(o, "landed", "complete") /\ UNCHANGED moved
<1>1. /\ thread[t].pc = "finish" /\ o \in Ops /\ phase' = [phase EXCEPT ![o] = "freed"]
      /\ thread' = [thread EXCEPT ![t] = Idle]
      /\ UNCHANGED <<sends, recvs, cmd_msg, request, moved, events>>
  BY DEF FinishInitiator, fabric
<1>2. phase[o] = "done" /\ Landed(o)
  BY <1>1 DEF DInv, Complete
<1>3. /\ phase'[o] = "freed" /\ \A w \in Ops \union Targets : w # o => phase'[w] = phase[w]
      /\ \A b \in Targets : b # o
  BY <1>1, Kinds DEF RInv, Core, Typed
<1>4. DOMAIN thread = Threads /\ OpOf[o].thread = t
  <2>1. InCall(t) /\ DOMAIN thread = Threads
    BY DEF RInv, InCalls
  <2>2. Own(t, o)
    BY <1>1, <2>1, Kinds DEF InCall
  <2>. QED  BY <1>1, <2>1, <2>2, Kinds DEF Own
<1>5. thread'[t].pc = "idle" /\ \A u \in Threads \ {t} : thread'[u] = thread[u]
  BY <1>1, <1>4 DEF Idle
<1>6. Paired'
  <2>1. SameMidway
    BY <1>1, <1>5, OutsideStarts
  <2>2. SameRequests /\ SameProgress
    BY <1>1, <1>2, <1>3, <2>1 DEF SameRequests, SameProgress, SameMidway, Active
  <2>3. \A b \in Targets : (HasCommand(b)' <=> HasCommand(b)) /\ (MovesData(b)' <=> MovesData(b))
    BY <1>1, <1>3 DEF HasCommand, MovesData, Active
  <2>. QED  BY <1>1, <2>2, <2>3, QuietKeeps DEF DInv
<1>7. DInv' /\ \A p \in Ops : Landed(p)' <=> Landed(p)
  BY <1>1, <1>2, <1>3, <1>4, <1>5, <1>6, CallKeeps
<1>8. StateOf(o) = "landed" /\ StateOf(o)' = "complete"
  BY <1>2, <1>3 DEF StateOf
<1>9. ASSUME NEW p \in Ops, p # o PROVE StateOf(p)' = StateOf(p)
  <2>1. phase'[p] = phase[p] /\ (Landed(p)' <=> Landed(p))
    BY <1>3, <1>7, <1>9
  <2>. QED  BY <2>1 DEF StateOf
<1>. QED  BY <1>1, <1>7, <1>8, <1>9 DEF Becomes

\* The application has had the event that the target work request held.
LEMMA FinishTargetData ==
    ASSUME RInv, DInv, NEW t \in Threads, FinishTarget(t)
    PROVE  DInv' /\ SameStates /\ UNCHANGED moved
<1>. SUFFICES ASSUME NEW b, b = thread[t].wr PROVE DInv' /\ SameStates /\ UNCHANGED moved
  OBVIOUS
<1>. SUFFICES ASSUME NEW queue, queue = wr_queue[b] PROVE DInv' /\ SameStates /\ UNCHANGED moved
  OBVIOUS
<1>1. /\ thread[t].pc = "finish" /\ b \in Targets /\ Repost(b, queue)
      /\ events' = [events EXCEPT ![b] = @ + 1] /\ thread' = [thread EXCEPT ![t] = Idle] /\ UNCHANGED moved
  BY DEF FinishTarget
<1>2. /\ phase' = [phase EXCEPT ![b] = "init"]
      /\ request' = [request EXCEPT ![Data(b)] = "null", ![Cmd(b)] = "active"]
  BY <1>1 DEF Repost, Cmd, Data
<1>3. phase[b] = "done" /\ DOMAIN thread = Threads
  BY <1>1 DEF RInv, InCalls, InCall
<1>4. thread'[t].pc = "idle" /\ \A u \in Threads \ {t} : thread'[u] = thread[u]
  BY <1>1, <1>3 DEF Idle
<1>5. SameMidway
  BY <1>1, <1>4, OutsideStarts
<1>6. Paired'
  BY <1>1, <1>3, <1>5, RepostPairs DEF DInv, SameMidway
<1>7. /\ DOMAIN phase = Wrs /\ DOMAIN request = Wrs \X {"cmd", "data"}
      /\ Cmd(b) \in Handles /\ Data(b) \in Handles /\ Handles \subseteq Wrs \X {"cmd", "data"}
      /\ b \in Wrs /\ b \notin Ops /\ Ops \union Targets \subseteq Wrs /\ Cmd(b) # Data(b)
  BY <1>1, Operations, Kinds, Tags DEF RInv, Core, Typed, Handles
<1>8. /\ request'[Cmd(b)] = "active"
      /\ \A q \in Handles : q # Data(b) /\ q # Cmd(b) => request'[q] = request[q]
  BY <1>2, <1>7
<1>9. phase'[b] = "init" /\ \A w \in Ops \union Targets : w # b => phase'[w] = phase[w]
  BY <1>2, <1>7
<1>10. \A c \in Targets : c # b => request'[Cmd(c)] = request[Cmd(c)] /\ request'[Data(c)] = request[Data(c)]
  BY <1>8, Requests, Tags
<1>11. \A o \in Ops : phase'[o] = phase[o]
  BY <1>7, <1>9
<1>12. \A o \in Ops : Landed(o)' <=> Landed(o)
  BY <1>1 DEF Landed
<1>13. Known'
  BY <1>1, <1>4, <1>8, <1>9, <1>10, KnownStays DEF DInv
<1>14. Complete'
  BY <1>4, <1>11, <1>12, CompleteStays DEF DInv
<1>15. Counted'
  <2>1. /\ DOMAIN events = Targets
        /\ \A c \in WithEvents :
             /\ IsFiniteSet(LandedOn(c)) /\ events[c] \in Nat
             /\ Cardinality(LandedOn(c)) = events[c] + (IF HoldsEvent(c) THEN 1 ELSE 0)
    BY DEF DInv, Counted
  <2>2. DOMAIN events' = Targets /\ events'[b] = events[b] + 1 /\ \A c \in Targets : c # b => events'[c] = events[c]
    BY <1>1, <2>1
  <2>3. \A c \in WithEvents : LandedOn(c)' = LandedOn(c) /\ c \in Targets
    BY <1>12, Assumptions DEF LandedOn, Assumptions
  <2>4. HoldsEvent(b) /\ ~HoldsEvent(b)'
    BY <1>3, <1>9 DEF HoldsEvent
  <2>5. \A c \in WithEvents : c # b => (HoldsEvent(c)' <=> HoldsEvent(c))
    BY <1>9, <1>10, <2>3 DEF HoldsEvent, Data
  <2>6. ASSUME NEW c \in WithEvents
        PROVE  /\ IsFiniteSet(LandedOn(c)') /\ events'[c] \in Nat
               /\ Cardinality(LandedOn(c)') = events'[c] + (IF HoldsEvent(c)' THEN 1 ELSE 0)
    <3>1. CASE c = b
      BY <2>1, <2>2, <2>3, <2>4, <3>1
    <3>2. CASE c # b
      BY <2>1, <2>2, <2>3, <2>5, <3>2
    <3>. QED  BY <3>1, <3>2
  <2>. QED  BY <2>2, <2>6 DEF Counted
<1>16. SameStates
  BY <1>11, <1>12 DEF SameStates, StateOf
<1>. QED  BY <1>1, <1>6, <1>13, <1>14, <1>15, <1>16 DEF DInv

-----------------------------------------------------------------------------
(* The steps of the MPI library.                                           *)

(* A command is received. *)
LEMMA TakesCommandData ==
    ASSUME RInv, DInv, NEW from \in Ranks, NEW port \in Ports, Transfer(from, port),
           NEW x, TakesCommand(x, from, port)
    PROVE  DInv' /\ SameStates /\ UNCHANGED moved
<1>1. /\ Paired' /\ UNCHANGED <<moved, phase, thread, events>>
      /\ request' = [request EXCEPT ![Cmd(x)] = "done", ![Cmd(Remote(x))] = "done"]
  BY TakesCommandPairs DEF DInv
<1>2. /\ x \in Ops /\ Remote(x) \in Targets /\ x \notin Targets
      /\ DOMAIN request = Wrs \X {"cmd", "data"} /\ Handles \subseteq Wrs \X {"cmd", "data"}
      /\ Cmd(x) \in Handles /\ Cmd(Remote(x)) \in Handles
  BY Operations, Requests, Kinds DEF TakesCommand, RInv, Core, Typed, Handles
<1>3. Cmd(x) # Cmd(Remote(x))
  BY <1>2, Tags
<1>4. /\ request'[Cmd(Remote(x))] = "done"
      /\ \A q \in Handles : q # Cmd(x) /\ q # Cmd(Remote(x)) => request'[q] = request[q]
  BY <1>1, <1>2, <1>3
<1>5. \A b \in Targets : b # Remote(x) => request'[Cmd(b)] = request[Cmd(b)]
  BY <1>2, <1>4, Requests, Tags
<1>6. \A b \in Targets : request'[Data(b)] = request[Data(b)]
  BY <1>4, Requests, Tags
<1>7. Known'
  BY <1>1, <1>4, <1>5 DEF DInv, Known
<1>8. \A o \in Ops : Landed(o)' <=> Landed(o)
  BY <1>1 DEF Landed
<1>9. Complete'
  BY <1>1, <1>8 DEF DInv, Complete
<1>10. Counted'
  <2>1. \A b \in WithEvents : HoldsEvent(b)' <=> HoldsEvent(b)
    BY <1>1, <1>6, Assumptions DEF Assumptions, HoldsEvent, Data
  <2>. QED  BY <1>1, <1>8, <2>1, CountedStays DEF DInv
<1>11. SameStates
  BY <1>1, <1>8 DEF SameStates, StateOf
<1>. QED  BY <1>1, <1>7, <1>9, <1>10, <1>11 DEF DInv

\* The target work request comes to hold an event as the data lands.
LEMMA TakesDataCounts ==
    ASSUME Counted, NEW x \in Ops, ~Landed(x), \A o \in Ops : Landed(o)' <=> Landed(o) \/ o = x,
           UNCHANGED events, ~HoldsEvent(Remote(x)), HoldsEvent(Remote(x))',
           \A b \in WithEvents : b # Remote(x) => (HoldsEvent(b)' <=> HoldsEvent(b))
    PROVE  Counted'
<1>1. ASSUME NEW b \in WithEvents
      PROVE  /\ IsFiniteSet(LandedOn(b)') /\ events'[b] \in Nat
             /\ Cardinality(LandedOn(b)') = events'[b] + (IF HoldsEvent(b)' THEN 1 ELSE 0)
  <2>1. /\ IsFiniteSet(LandedOn(b)) /\ events[b] \in Nat
        /\ Cardinality(LandedOn(b)) = events[b] + (IF HoldsEvent(b) THEN 1 ELSE 0)
    BY DEF Counted
  <2>2. CASE b = Remote(x)
    <3>1. LandedOn(b)' = LandedOn(b) \union {x} /\ x \notin LandedOn(b)
      BY <2>2 DEF LandedOn, Remote
    <3>2. IsFiniteSet(LandedOn(b)') /\ Cardinality(LandedOn(b)') = Cardinality(LandedOn(b)) + 1
      BY <2>1, <3>1, FS_AddElement
    <3>. QED  BY <2>1, <2>2, <3>2
  <2>3. CASE b # Remote(x)
    <3>1. LandedOn(b)' = LandedOn(b)
      BY <2>3 DEF LandedOn, Remote
    <3>. QED  BY <2>1, <2>3, <3>1
  <2>. QED  BY <2>2, <2>3
<1>. QED  BY <1>1 DEF Counted

(* Data is received: the operation lands. *)
LEMMA TakesDataData ==
    ASSUME ToldApart, RInv, DInv, NEW from \in Ranks, NEW port \in Ports, Transfer(from, port),
           NEW x, TakesPut(x, from, port) \/ TakesGet(x, from, port)
    PROVE  /\ DInv' /\ x \in Ops /\ Becomes(x, "started", "landed")
           /\ moved' = moved \union {<<SourcePlace(x), DestPlace(x)>>}
<1>1. /\ Paired' /\ x \in Ops /\ Taken(x) /\ Active(Data(x)) /\ Active(Data(Remote(x)))
      /\ UNCHANGED <<phase, thread, events>>
      /\ request' = [request EXCEPT ![Data(x)] = "done", ![Data(Remote(x))] = "done"]
      /\ moved' = moved \union {<<SourcePlace(x), DestPlace(x)>>}
  BY TakesDataPairs DEF DInv
<1>2. /\ Remote(x) \in Targets /\ x \notin Targets
      /\ DOMAIN request = Wrs \X {"cmd", "data"} /\ Handles \subseteq Wrs \X {"cmd", "data"}
      /\ Data(x) \in Handles /\ Data(Remote(x)) \in Handles
  BY <1>1, Operations, Requests, Kinds DEF RInv, Core, Typed, Handles
<1>3. Data(x) # Data(Remote(x))
  BY <1>1, <1>2, Tags
<1>4. /\ request'[Data(x)] = "done" /\ request'[Data(Remote(x))] = "done"
      /\ \A q \in Handles : q # Data(x) /\ q # Data(Remote(x)) => request'[q] = request[q]
  BY <1>1, <1>2, <1>3
<1>5. /\ \A b \in Targets : request'[Cmd(b)] = request[Cmd(b)]
      /\ \A b \in Targets : b # Remote(x) => request'[Data(b)] = request[Data(b)]
  <2>1. \A b \in Targets : /\ Cmd(b) \in Handles /\ Cmd(b) # Data(x) /\ Cmd(b) # Data(Remote(x))
                             /\ Data(b) \in Handles /\ Data(b) # Data(x)
    BY <1>2, Requests, Tags
  <2>2. \A b \in Targets : b # Remote(x) => Data(b) # Data(Remote(x))
    BY Tags
  <2>. QED  BY <1>4, <2>1, <2>2
<1>6. \A o \in Ops : Landed(o)' <=> Landed(o) \/ o = x
  BY <1>1 DEF Landed, ToldApart
<1>7. phase[Remote(x)] = "cmd_done"
  <2>1. ~HasCommand(Remote(x))
    <3>1. phase[Remote(x)] = "init" => ~Active(Data(Remote(x)))
      BY <1>2 DEF RInv, Core, Inactive, Data
    <3>. QED  BY <1>1, <3>1 DEF HasCommand
  <2>. QED  BY <1>1, <2>1 DEF DInv, Paired, Served, MovesData
<1>8. ~Landed(x) /\ phase[x] \in {"init", "cmd_done", "done"}
  <2>1. ~Landed(x) /\ phase[x] # "unposted"
    BY <1>1 DEF Taken, CmdSent
  <2>2. phase[x] # "freed"
    BY <1>1, <2>1 DEF DInv, Complete
  <2>3. phase[x] \in States
    BY <1>1, Kinds DEF RInv, Core, Typed
  <2>. QED  BY <2>1, <2>2, <2>3 DEF States
<1>9. Known'
  BY <1>1, <1>5 DEF DInv, Known
<1>10. Complete'
  BY <1>1, <1>6 DEF DInv, Complete
<1>11. Counted'
  <2>1. ~HoldsEvent(Remote(x)) /\ HoldsEvent(Remote(x))'
    BY <1>1, <1>4, <1>7 DEF HoldsEvent, Active, Data
  <2>2. \A b \in WithEvents : b # Remote(x) => (HoldsEvent(b)' <=> HoldsEvent(b))
    BY <1>1, <1>5, Assumptions DEF Assumptions, HoldsEvent, Data
  <2>. QED  BY <1>1, <1>6, <1>8, <2>1, <2>2, TakesDataCounts DEF DInv
<1>12. StateOf(x) = "started" /\ StateOf(x)' = "landed"
  BY <1>1, <1>6, <1>8 DEF StateOf
<1>13. ASSUME NEW p \in Ops, p # x PROVE StateOf(p)' = StateOf(p)
  BY <1>1, <1>6, <1>13 DEF StateOf
<1>. QED  BY <1>1, <1>9, <1>10, <1>11, <1>12, <1>13 DEF DInv, Becomes

-----------------------------------------------------------------------------
(* The invariant, and what follows from it.                                *)

\* A step as the initiators see it.
Step ==
    \/ SameStates /\ UNCHANGED moved
    \/ \E o \in Ops : Becomes(o, "idle", "started") /\ UNCHANGED moved
    \/ \E o \in Ops : Becomes(o, "started", "landed") /\ moved' = moved \union {<<SourcePlace(o), DestPlace(o)>>}
    \/ \E o \in Ops : Becomes(o, "landed", "complete") /\ UNCHANGED moved

(* Whatever the MPI library matches. *)
LEMMA TransferData ==
    ASSUME OneThread, ToldApart, RInv, DInv, NEW from \in Ranks, NEW port \in Ports, Transfer(from, port)
    PROVE  DInv' /\ Step
<1>1. Paired
  BY DEF DInv
<1>2. \/ \E x \in Ops : TakesCommand(x, from, port)
      \/ \E x \in Puts : TakesPut(x, from, port)
      \/ \E x \in Gets : TakesGet(x, from, port)
  BY <1>1, TransferIs
<1>3. ASSUME NEW x \in Ops, TakesCommand(x, from, port) PROVE DInv' /\ Step
  BY <1>3, TakesCommandData DEF Step
<1>4. ASSUME NEW x, TakesPut(x, from, port) \/ TakesGet(x, from, port) PROVE DInv' /\ Step
  BY <1>4, TakesDataData DEF Step
<1>. QED  BY <1>2, <1>3, <1>4

(* Every step keeps the invariant, and is a step of the operations or none. *)
LEMMA StepKeepsData ==
    ASSUME OneThread, ToldApart, RInv, DInv, [Next]_vars
    PROVE  DInv' /\ Step
<1>0. RInv'
  BY NextKeeps
<1>1. CASE UNCHANGED vars
  <2>1. UNCHANGED <<sends, recvs, moved, phase, cmd_msg, request, events, thread>>
    BY <1>1 DEF vars
  <2>2. SameRequests /\ SameProgress
    BY <2>1 DEF SameRequests, SameProgress, Active, Midway
  <2>3. \A b \in Targets : (HasCommand(b)' <=> HasCommand(b)) /\ (MovesData(b)' <=> MovesData(b))
    BY <2>1 DEF HasCommand, MovesData, Active
  <2>4. Paired'
    BY <2>1, <2>2, <2>3, QuietKeeps DEF DInv
  <2>5. \A o \in Ops : Landed(o)' <=> Landed(o)
    BY <2>1 DEF Landed
  <2>6. Known' /\ Complete'
    BY <2>1, <2>5 DEF DInv, Known, Complete
  <2>7. Counted'
    <3>1. \A b \in WithEvents : HoldsEvent(b)' <=> HoldsEvent(b)
      BY <2>1 DEF HoldsEvent
    <3>. QED  BY <2>1, <2>5, <3>1, CountedStays DEF DInv
  <2>8. SameStates
    BY <2>1, <2>5 DEF SameStates, StateOf
  <2>. QED  BY <2>1, <2>4, <2>6, <2>7, <2>8 DEF DInv, Step
<1>2. ASSUME NEW from \in Ranks, NEW port \in Ports, Transfer(from, port) PROVE DInv' /\ Step
  BY <1>2, TransferData
<1>3. ASSUME NEW t \in Threads, InsideCall(t) PROVE DInv' /\ Step
  <2>1. CASE PutData(t)
    BY <2>1, PutDataData DEF Step
  <2>2. CASE GetCommand(t)
    BY <2>2, GetCommandData DEF Step
  <2>3. CASE CheckTarget(t)
    BY <1>0, <2>3, CheckTargetData DEF Step
  <2>4. CASE CheckDone(t)
    BY <1>0, <2>4, CheckDoneData DEF Step
  <2>5. CASE TestDone(t)
    BY <2>5, TestDoneData DEF Step
  <2>6. CASE TestAgain(t)
    BY <1>0, <2>6, TestAgainData DEF Step
  <2>7. CASE TimedOut(t)
    BY <1>0, <2>7, TimedOutData DEF Step
  <2>8. CASE HandleEvent(t)
    BY <1>0, <2>8, HandleEventData DEF Step
  <2>9. CASE FinishInitiator(t)
    BY <2>9, FinishInitiatorData DEF Step
  <2>10. CASE FinishTarget(t)
    BY <2>10, FinishTargetData DEF Step
  <2>. QED  BY <1>3, <2>1, <2>2, <2>3, <2>4, <2>5, <2>6, <2>7, <2>8, <2>9, <2>10 DEF InsideCall
<1>4. ASSUME NEW t \in Threads, NEW o \in Ops, PutCommand(t, o) \/ GetReceive(t, o) PROVE DInv' /\ Step
  BY <1>4, PutCommandData, GetReceiveData DEF Step
<1>5. ASSUME NEW t \in Threads, NEW w \in Wrs, NEW timeout \in Timeouts[t], WaitEnter(t, w, timeout)
      PROVE  DInv' /\ Step
  BY <1>0, <1>5, WaitEnterData DEF Step
<1>. QED  BY <1>1, <1>2, <1>3, <1>4, <1>5 DEF Next

\* At first nothing is sent, and only commands are awaited.
LEMMA InitIsPaired == Init => DInv
<1>. SUFFICES ASSUME Init PROVE DInv
  OBVIOUS
<1>1. RInv
  BY InitHolds
<1>2. /\ \A ch \in Channels : sends[ch] = <<>>
      /\ \A p \in Ports : IF \E b \in Targets : p = CmdPort(b)
                          THEN recvs[p] = <<[from |-> ANY_SOURCE, rcv |-> [req |-> Cmd(p[2]), into |-> NONE]]>>
                          ELSE recvs[p] = <<>>
      /\ moved = {} /\ events = [b \in Targets |-> 0]
  BY DEF Init, Channels, Cmd
<1>3. /\ \A o \in Ops : phase[o] = "unposted"
      /\ \A b \in Targets : phase[b] = "init" /\ request[Cmd(b)] = "active" /\ request[Data(b)] = "null"
  BY Kinds DEF Init, Cmd, Data
<1>4. \A t \in Threads : thread[t].pc = "idle"
  BY DEF Init, Idle
<1>5. \A x : DOMAIN <<x>> = {1} /\ <<x>>[1] = x
  OBVIOUS
<1>5a. DOMAIN <<>> = {}
  OBVIOUS
<1>6. \A ch \in Channels : DOMAIN sends[ch] = {}
  BY <1>2, <1>5a
<1>7. \A o \in Ops : ~Landed(o) /\ ~CmdSent(o) /\ ~Taken(o)
  BY <1>2, <1>3 DEF Landed, CmdSent, Taken
<1>8. ASSUME NEW p \in Ports, NEW i \in DOMAIN recvs[p] PROVE IsForCommand(p, recvs[p][i])
  <2>1. PICK b \in Targets : p = CmdPort(b)
    <3>1. recvs[p] # <<>>
      BY <1>8, <1>5a
    <3>. QED  BY <1>2, <3>1
  <2>2. p[2] = b
    BY <2>1 DEF CmdPort
  <2>3. recvs[p] = <<[from |-> ANY_SOURCE, rcv |-> [req |-> Cmd(b), into |-> NONE]]>>
    BY <1>2, <2>1, <2>2
  <2>4. recvs[p][i] = [from |-> ANY_SOURCE, rcv |-> [req |-> Cmd(b), into |-> NONE]]
    BY <1>5, <1>8, <2>3
  <2>. QED  BY <2>1, <2>4 DEF IsForCommand
<1>9. Through /\ CommandFirst /\ Messages /\ Receives
  BY <1>3, <1>6, <1>7, <1>8 DEF Through, CommandFirst, Messages, Receives
<1>10. Served
  BY <1>3, <1>7 DEF Served, HasCommand, Active
<1>11. PutsInOrder
  <2>1. \A o \in Puts : \A i : ~IsSent(Data(o), PutChannel(o), i)
    BY <1>6, Operations DEF IsSent
  <2>. QED  BY <2>1 DEF PutsInOrder
<1>12. GetsInOrder
  <2>1. \A o \in Gets : \A i : ~IsReceive(Data(o), GetPort(OpOf[o].local), i)
    <3>1. ASSUME NEW o \in Gets, NEW i, IsReceive(Data(o), GetPort(OpOf[o].local), i) PROVE FALSE
      <4>1. IsForCommand(GetPort(OpOf[o].local), recvs[GetPort(OpOf[o].local)][i])
        BY <3>1, <1>8, Operations DEF IsReceive
      <4>. QED  BY <4>1, Tags DEF IsForCommand
    <3>. QED  BY <3>1
  <2>. QED  BY <2>1 DEF GetsInOrder
<1>13. Known /\ Complete
  BY <1>3, <1>4 DEF Known, Complete
<1>14. Counted
  <2>1. \A b \in WithEvents : LandedOn(b) = {} /\ ~HoldsEvent(b) /\ events[b] = 0
    BY <1>2, <1>3, <1>7, Assumptions DEF LandedOn, HoldsEvent, Assumptions
  <2>2. \A b \in WithEvents : IsFiniteSet(LandedOn(b)) /\ Cardinality(LandedOn(b)) = 0
    BY <2>1, FS_EmptySet
  <2>. QED  BY <1>2, <2>1, <2>2 DEF Counted
<1>. QED  BY <1>9, <1>10, <1>11, <1>12, <1>13, <1>14 DEF DInv, Paired

(***************************************************************************)
(* Commands, data messages and receives of any number of puts and gets     *)
(* stay paired: the data that a target moves is that of the operation      *)
(* whose command it took, the data of puts and the receives of gets come   *)
(* in the order of the commands, and a target always knows which command   *)
(* it has (nnti_mpi.cpp: NNTI_mpi_put, NNTI_mpi_get, process_event).       *)
(***************************************************************************)
THEOREM DataStaysPaired == ASSUME OneThread, ToldApart PROVE Spec => [](RInv /\ DInv)
<1>1. Init => RInv /\ DInv
  BY InitHolds, InitIsPaired
<1>2. RInv /\ DInv /\ [Next]_vars => RInv' /\ DInv'
  BY NextKeeps, StepKeepsData
<1>. QED  BY <1>1, <1>2, PTL DEF Spec

(***************************************************************************)
(* No event of a registered buffer is lost and none is invented: the       *)
(* operations whose data went through it are as many as the events its     *)
(* application had, and the one its target work request still holds        *)
(* (nnti_mpi.cpp: NNTI_mpi_wait, check_target_buffer_progress).            *)
(***************************************************************************)
THEOREM EventsAreCounted == ASSUME OneThread, ToldApart PROVE Spec => []OneEventPerTransfer
<1>1. DInv => OneEventPerTransfer
  BY DEF DInv, Counted, OneEventPerTransfer
<1>. QED  BY <1>1, DataStaysPaired, PTL

\* A step is a step of OneSided, or none.
LEMMA StepIsOneSided == ASSUME Step PROVE [Abstract!Next]_(Abstract!vars)
<1>1. CASE SameStates /\ UNCHANGED moved
  BY <1>1 DEF SameStates, Abstract!vars
<1>2. ASSUME NEW o \in Ops, Becomes(o, "idle", "started"), UNCHANGED moved PROVE Abstract!Next
  <2>1. Abstract!Start(o)
    BY <1>2 DEF Becomes, Abstract!Start
  <2>. QED  BY <2>1 DEF Abstract!Next
<1>3. ASSUME NEW o \in Ops, Becomes(o, "started", "landed"),
             moved' = moved \union {<<SourcePlace(o), DestPlace(o)>>}
      PROVE  Abstract!Next
  <2>1. Abstract!Land(o)
    BY <1>3 DEF Becomes, Abstract!Land
  <2>. QED  BY <2>1 DEF Abstract!Next
<1>4. ASSUME NEW o \in Ops, Becomes(o, "landed", "complete"), UNCHANGED moved PROVE Abstract!Next
  <2>1. Abstract!Complete(o)
    BY <1>4 DEF Becomes, Abstract!Complete
  <2>. QED  BY <2>1 DEF Abstract!Next
<1>. QED  BY <1>1, <1>2, <1>3, <1>4 DEF Step

(***************************************************************************)
(* The transport's puts and gets are one-sided transfers, for any ranks,   *)
(* buffers and operations: each moves its data from the place it names to  *)
(* the place it names, once, and is complete for its initiator only after  *)
(* that (nnti_mpi.cpp: NNTI_mpi_put, NNTI_mpi_get, NNTI_mpi_wait).         *)
(***************************************************************************)
THEOREM TransfersAreOneSided ==
    ASSUME OneThread, ToldApart PROVE Spec => Abstract!Init /\ [][Abstract!Next]_(Abstract!vars)
<1>1. Init => Abstract!Init
  <2>. SUFFICES ASSUME Init PROVE Abstract!Init
    OBVIOUS
  <2>1. moved = {} /\ \A o \in Ops : phase[o] = "unposted"
    BY Kinds DEF Init
  <2>2. \A o \in Ops : StateOf(o) = "idle"
    BY <2>1 DEF StateOf
  <2>. QED  BY <2>1, <2>2 DEF Abstract!Init
<1>2. RInv /\ DInv /\ [Next]_vars => [Abstract!Next]_(Abstract!vars)
  BY StepKeepsData, StepIsOneSided
<1>. QED  BY <1>1, <1>2, DataStaysPaired, PTL DEF Spec
=============================================================================
