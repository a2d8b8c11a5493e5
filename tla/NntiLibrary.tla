---------------------------- MODULE NntiLibrary ----------------------------
(***************************************************************************)
(* What the library does above the protocols of its transports: the public *)
(* calls and the registration of memory (Nnti), and the pool of buffers    *)
(* (BufferQueue), which calls NNTI_alloc and NNTI_free and needs of them   *)
(* that they work or fail.  The pool keeps no state of the other and holds *)
(* none that the calls look at; a program here uses one of them.           *)
(***************************************************************************)
EXTENDS Nnti, BufferQueue

VARIABLE part   \* what the program uses: "api" or "pool"

LibraryInit == part \in {"api", "pool"} /\ Init /\ PoolInit

LibraryNext ==
    \/ part = "api" /\ Next /\ UNCHANGED <<part, pool_vars>>
    \/ part = "pool" /\ PoolNext /\ UNCHANGED <<part, vars>>

\* The scheduler runs every thread inside a call, as in Nnti; the pool's calls are one action each.
LibrarySpec ==
    /\ LibraryInit /\ [][LibraryNext]_<<part, vars, pool_vars>>
    /\ \A t \in Threads : SF_vars(part = "api" /\ Step(t))

=============================================================================
