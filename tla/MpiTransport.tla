---------------------------- MODULE MpiTransport ----------------------------
(***************************************************************************)
(* The MPI transport: its one-sided transfers (MpiRdma) and its remote     *)
(* atomics (MpiAtomics).  They have messages, work requests and structures *)
(* of their own and meet in the loop of NNTI_mpi_wait only, which does     *)
(* what there is to do for both; a program here uses one of them.          *)
(***************************************************************************)
EXTENDS MpiRdma

CONSTANTS AtomicPorts, Indices, AtomicOps, AtomicOpOf, AtomicPollers, OneAtATime

VARIABLES
    part,           \* what the program uses: "transfers" or "atomics"
    atomic_sends, atomic_recvs,                     \* module MpiAtomics
    atomics, request_msg, result_msg, recv_request, atomic_phase,
    atomic_request, atomic_thread, executed, fetched

A == INSTANCE MpiAtomics WITH
    Ports <- AtomicPorts, Ops <- AtomicOps, OpOf <- AtomicOpOf, Pollers <- AtomicPollers,
    sends <- atomic_sends, recvs <- atomic_recvs,
    phase <- atomic_phase, request <- atomic_request, thread <- atomic_thread

atomic_vars == <<atomic_sends, atomic_recvs, atomics, request_msg, result_msg, recv_request, atomic_phase,
                 atomic_request, atomic_thread, executed, fetched>>
transport == <<part, vars, atomic_vars>>

TransportInit == part \in {"transfers", "atomics"} /\ Init /\ A!Init

Transfers(step) == part = "transfers" /\ step /\ UNCHANGED <<part, atomic_vars>>
Atomics(step) == part = "atomics" /\ step /\ UNCHANGED <<part, vars>>

TransportNext == Transfers(Next) \/ Atomics(A!Next)

\* That of the module in use.
TransportFairness ==
    /\ \A from \in Ranks, port \in Ports : WF_vars(part = "transfers" /\ Transfer(from, port))
    /\ \A from, r \in Ranks : /\ WF_atomic_vars(part = "atomics" /\ A!TransferRequest(from, r))
                              /\ WF_atomic_vars(part = "atomics" /\ A!TransferResult(from, r))
    /\ \A t \in Threads :
         /\ WF_vars(part = "transfers" /\ InsideCall(t))
         /\ WF_vars(part = "transfers" /\ \E w \in Wrs, timeout \in Timeouts[t] : WaitEnter(t, w, timeout))
         /\ WF_atomic_vars(part = "atomics" /\ A!InsideCall(t))
         /\ WF_atomic_vars(part = "atomics" /\ \E w \in AtomicOps \union {QUEUE} : A!WaitEnter(t, w))
         /\ WF_atomic_vars(part = "atomics" /\ \E o \in AtomicOps : A!NNTI_mpi_atomic_read(t, o))

TransportSpec == TransportInit /\ [][TransportNext]_transport /\ TransportFairness

(* MpiAtomics: every operation that was started completes, and its initiator gets the result. *)
OperationCompletes == A!OperationCompletes

(* MpiAtomics: the atomics implement RemoteAtomics for the variables that they are aimed at. *)
ImplementsRemoteAtomics == A!ImplementsRemoteAtomics

=============================================================================
