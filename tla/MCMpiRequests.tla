----------------------------- MODULE MCMpiRequests -----------------------------
(* Instances of MpiRequests for TLC.                                       *)
EXTENDS MpiRequests, TLC

ThreeRanks == {"c", "d", "server"}
OnePort == {"request"}
ThreeRequests == {"r1", "r2", "r3"}
OnePut == {"p1"}
RankOfAll == "r1" :> "c" @@ "r2" :> "c" @@ "p1" :> "c" @@ "r3" :> "d"
TwoSlots == {0, 1}

One(w) == [call |-> "wait", wrs |-> <<w>>]
AnyOf(v, w) == [call |-> "waitany", wrs |-> <<v, w>>]
AllOf(v, w) == [call |-> "waitall", wrs |-> <<v, w>>]

\* Client c waits for one, for any of a mixture, and for all of its requests.
Mixtures == "c" :> ({One(w) : w \in {"r1", "r2", "p1"}}
                    \union {AnyOf("r1", "p1"), AnyOf("p1", "r2"), AllOf("r1", "r2")})
         @@ "d" :> {One("r3")}
         @@ "server" :> {One("queue")}

ServerTimed == {"server"}

===============================================================================
