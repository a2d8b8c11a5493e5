------------------------------ MODULE OneSided ------------------------------
(***************************************************************************)
(* What one-sided transfers promise, whatever the transport: an operation  *)
(* that was started moves its data from the place it names to the place it *)
(* names, once, and is complete for its initiator only after that.         *)
(***************************************************************************)
CONSTANTS
    Ops,                \* the operations
    From, To            \* the place each reads, and the place it writes

VARIABLES
    state,              \* operation |-> "idle", "started", "landed", "complete"
    carried             \* <<from, to>> of the data moved so far

vars == <<state, carried>>

Init ==
    /\ state = [o \in Ops |-> "idle"]
    /\ carried = {}

Start(o) ==
    /\ state[o] = "idle"
    /\ state' = [state EXCEPT ![o] = "started"]
    /\ UNCHANGED carried

Land(o) ==
    /\ state[o] = "started"
    /\ state' = [state EXCEPT ![o] = "landed"]
    /\ carried' = carried \union {<<From[o], To[o]>>}

Complete(o) ==
    /\ state[o] = "landed"
    /\ state' = [state EXCEPT ![o] = "complete"]
    /\ UNCHANGED carried

Next == \E o \in Ops : Start(o) \/ Land(o) \/ Complete(o)

Spec == Init /\ [][Next]_vars /\ \A o \in Ops : WF_vars(Land(o))

=============================================================================
