---------------------------- MODULE MpiMatching ----------------------------
(***************************************************************************)
(* The matching rules of the MPI library, as nnti_mpi.cpp uses it          *)
(* (external to the repository).                                           *)
(*                                                                         *)
(* A port is a rank together with a tag it receives under.  A nonblocking  *)
(* send waits in the channel from its sender to the port until a receive   *)
(* takes it; a receive is posted at a port, for one sender or for          *)
(* MPI_ANY_SOURCE.  Sends of a channel are taken in the order they were    *)
(* posted, and a send takes the earliest posted receive that fits.         *)
(* Messages of different channels overtake each other freely.              *)
(***************************************************************************)
EXTENDS Naturals, Sequences, SequencesExt

CONSTANTS
    Ranks,          \* the processes of MPI_COMM_WORLD
    Ports           \* receiving rank and tag

ANY_SOURCE == "MPI_ANY_SOURCE"

ASSUME AnySourceAssumption == ANY_SOURCE \notin Ranks

VARIABLES
    sends,          \* [sender, port] |-> messages sent and not yet received
    recvs           \* port |-> receives posted and not matched

fabric == <<sends, recvs>>

\* MPI_Isend, MPI_Issend: msg is what the matching receive gets to see.
Issend(from, port, msg) == sends' = [sends EXCEPT ![<<from, port>>] = Append(@, msg)]

\* MPI_Irecv of a message from rank from, or from ANY_SOURCE.
Irecv(port, from, rcv) ==
    recvs' = [recvs EXCEPT ![port] = Append(@, [from |-> from, rcv |-> rcv])]

\* The receives posted at the port that fit a message from rank from.
Fitting(from, port) ==
    {i \in DOMAIN recvs[port] : recvs[port][i].from \in {from, ANY_SOURCE}}

\* The first message of the channel can be received now.
Matchable(from, port) == sends[<<from, port>>] # <<>> /\ Fitting(from, port) # {}

FirstFitting(from, port) ==
    CHOOSE i \in Fitting(from, port) : \A j \in Fitting(from, port) : i <= j

\* The message and the receive of the channel's next match.
MatchedMessage(from, port) == Head(sends[<<from, port>>])
MatchedReceive(from, port) == recvs[port][FirstFitting(from, port)].rcv

\* Both leave the library's queues.
Matched(from, port) ==
    /\ sends' = [sends EXCEPT ![<<from, port>>] = Tail(@)]
    /\ recvs' = [recvs EXCEPT ![port] = RemoveAt(@, FirstFitting(from, port))]

=============================================================================
