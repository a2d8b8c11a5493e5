----------------------------- MODULE MCGniMailbox -----------------------------
(* Instances of GniMailbox for TLC.                                        *)
EXTENDS GniMailbox, TLC

CONSTANTS c, r1, r2, r3, r4

\* A client that sends enough to go round its mailbox and for the index of the
\* queue to be shifted.  As its requests are all alike, they are sent in one
\* order.
OneClient == {c}
FourRequests == {r1, r2, r3, r4}
OneClientOf == [r \in FourRequests |-> c]
AllTimed == OneClient \union {SERVER}

InOrder ==
    LET order == <<r1, r2, r3, r4>> IN
      \A i \in 2 .. 4 : state[order[i]] # "unsent" => state[order[i - 1]] # "unsent"
OrderedSpec == Init /\ [][Next /\ InOrder']_vars /\ Fairness

===============================================================================
