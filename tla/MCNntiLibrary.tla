--------------------------- MODULE MCNntiLibrary ---------------------------
(* Two threads and three buffers on each transport, with memory of one       *)
(* segment, two segments that begin with it, and memory that is allocated;   *)
(* and a pool of two buffers that two clients share, which may have four.    *)
EXTENDS NntiLibrary

One == <<<<1, 1>>>>
Two == <<<<1, 1>>, <<2, 1>>>>
Other == <<<<3, 1>>>>

MCMemory == {One, Two, Other}
MCHeap == {Other}
MCHabits == [x \in Transports |-> CASE x = "ib" -> {"again", "overlap"} [] x = "gni" -> {"again", "together"} [] OTHER -> {}]

=============================================================================
