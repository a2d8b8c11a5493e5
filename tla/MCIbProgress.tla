---------------------------- MODULE MCIbProgress ----------------------------
(* Instances of IbProgress for TLC.                                        *)
EXTENDS IbProgress, TLC

\* Two threads, each with a request of its own, that complete in one queue:
\* one waits for as long as it takes, the other with timeouts.
TwoThreads == {"a", "b"}
TwoRequests == {"wa", "wb"}
TwoWaiters == "wa" :> "a" @@ "wb" :> "b"
OneQueue == "wa" :> "data" @@ "wb" :> "data"
TwoTimeouts == "a" :> {"infinite"} @@ "b" :> {"positive", "zero"}

=============================================================================
