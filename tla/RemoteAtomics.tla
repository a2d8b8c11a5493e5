--------------------------- MODULE RemoteAtomics ---------------------------
(***************************************************************************)
(* What NNTI promises of the atomic variables a process hosts: an          *)
(* operation takes effect once, in one step, and when it is complete its   *)
(* initiator sees the value the variable had before.                       *)
(***************************************************************************)
CONSTANTS
    Ops,                \* the operations
    VariableOf,         \* operation |-> the variable it is aimed at
    NewValue(_, _)      \* what an operation makes of a value

VARIABLES
    state,              \* operation |-> "idle", "started", "executed", "complete"
    value,              \* variable |-> its value
    before,             \* operation |-> the value it found, in a sequence
    seen                \* operation |-> the value its initiator sees, likewise

vars == <<state, value, before, seen>>

Init ==
    /\ state = [o \in Ops |-> "idle"]
    /\ value = [x \in {VariableOf[o] : o \in Ops} |-> 0]
    /\ before = [o \in Ops |-> <<>>]
    /\ seen = [o \in Ops |-> <<>>]

Start(o) ==
    /\ state[o] = "idle"
    /\ state' = [state EXCEPT ![o] = "started"]
    /\ UNCHANGED <<value, before, seen>>

Execute(o) ==
    /\ state[o] = "started"
    /\ state' = [state EXCEPT ![o] = "executed"]
    /\ before' = [before EXCEPT ![o] = <<value[VariableOf[o]]>>]
    /\ value' = [value EXCEPT ![VariableOf[o]] = NewValue(o, @)]
    /\ UNCHANGED seen

Complete(o) ==
    /\ state[o] = "executed"
    /\ state' = [state EXCEPT ![o] = "complete"]
    /\ seen' = [seen EXCEPT ![o] = before[o]]
    /\ UNCHANGED <<value, before>>

Next == \E o \in Ops : Start(o) \/ Execute(o) \/ Complete(o)

Spec == Init /\ [][Next]_vars

=============================================================================
