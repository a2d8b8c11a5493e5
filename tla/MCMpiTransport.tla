--------------------------- MODULE MCMpiTransport ---------------------------
(***************************************************************************)
(* Three ranks with a thread each.  As for transfers, two of them put to   *)
(* the same buffer of s, which wants its events, while s gets from a       *)
(* buffer of c, which does not.  So c and s wait for each other.  As for   *)
(* atomics, s is the server of c and d.                                    *)
(* An operation is named by a string; lc, ld and ls are local buffers.     *)
(***************************************************************************)
EXTENDS MpiTransport, TLC

Op(kind, t, local, loff, remote, roff) ==
    [kind |-> kind, thread |-> t, local |-> local, loff |-> loff,
     remote |-> remote, roff |-> roff]

TrioRanks == {"c", "d", "s"}
TrioRankOf == [t \in TrioRanks |-> t]
TrioBuffers == {"lc", "ld", "ls", "rc", "rs"}
TrioOwner == "lc" :> "c" @@ "ld" :> "d" @@ "ls" :> "s" @@ "rc" :> "c" @@ "rs" :> "s"
TrioTargets == "c" :> <<"rc">> @@ "d" :> <<>> @@ "s" :> <<"rs">>
TrioEvents == {"rs"}
TrioEventThread == "rs" :> "s"
TrioPorts == {<<"cmd", "rc">>, <<"cmd", "rs">>, <<"put", "rc">>, <<"put", "rs">>, <<"get", "ls">>}
TrioOpOf == "p1" :> Op("put", "c", "lc", 0, "rs", 0)
         @@ "p2" :> Op("put", "d", "ld", 0, "rs", 1)
         @@ "g1" :> Op("get", "s", "ls", 0, "rc", 0)
TrioOps == DOMAIN TrioOpOf

\* Rank s waits with timeouts, which expire, and c for ever; d does not wait.
TrioTimeouts == "c" :> {-1} @@ "s" :> {1} @@ "d" :> {}

\* It is a use that the theorems of MpiRdmaProofs are about.
ASSUME TrioIsSafeUse == OneThread /\ ToldApart

-----------------------------------------------------------------------------
Fadd(t, target, index, result, operand) ==
    [kind |-> "fadd", thread |-> t, target |-> target, index |-> index,
     result |-> result, operand |-> operand, swap |-> 0]
Cswap(t, target, index, result, operand, swap) ==
    [kind |-> "cswap", thread |-> t, target |-> target, index |-> index,
     result |-> result, operand |-> operand, swap |-> swap]

ServerPorts == {"request", "result"} \X TrioRanks

\* The clients count the same variable up; c also tries to take it back.
ServerOpOf == "a1" :> Fadd("c", "s", 0, 0, 1)
           @@ "a2" :> Cswap("c", "s", 0, 0, 1, 0)
           @@ "a3" :> Fadd("d", "s", 0, 0, 1)
ServerOps == DOMAIN ServerOpOf

=============================================================================
