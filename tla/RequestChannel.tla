---------------------------- MODULE RequestChannel ----------------------------
(***************************************************************************)
(* What a connection promises for requests: a bounded channel, from which  *)
(* requests are taken once and in the order in which they were put.        *)
(***************************************************************************)
EXTENDS Naturals, Sequences, SequencesExt

CONSTANTS
    Clients,    \* one connection each
    Requests,
    Capacity    \* of a connection

VARIABLES
    put,        \* client |-> the requests it has put into its channel
    taken       \* client |-> the requests taken out of it

vars == <<put, taken>>

Init ==
    /\ put = [c \in Clients |-> <<>>]
    /\ taken = [c \in Clients |-> <<>>]

Put(c, r) ==
    /\ Len(put[c]) - Len(taken[c]) < Capacity
    /\ \A d \in Clients : r \notin ToSet(put[d])
    /\ put' = [put EXCEPT ![c] = Append(@, r)]
    /\ UNCHANGED taken

Take(c) ==
    /\ Len(taken[c]) < Len(put[c])
    /\ taken' = [taken EXCEPT ![c] = Append(@, put[c][Len(@) + 1])]
    /\ UNCHANGED put

Next == \E c \in Clients : Take(c) \/ \E r \in Requests : Put(c, r)

Spec == Init /\ [][Next]_vars

===============================================================================
