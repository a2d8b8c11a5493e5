----------------------------- MODULE MCIbConnect -----------------------------
(* A server "c", a client "a" of both others, and "b", which is server and   *)
(* client and has two threads.                                               *)
EXTENDS IbConnect

MCThreadsOf == [p \in Procs |-> IF p = "b" THEN {"b1", "b2"} ELSE {p}]
MCReaches == {<<"a", "b">>, <<"a", "c">>, <<"b", "c">>}

=============================================================================
