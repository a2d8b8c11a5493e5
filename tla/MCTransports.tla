---------------------------- MODULE MCTransports ----------------------------
(***************************************************************************)
(* Two clients of a server.  One sends a request, by which the server gets *)
(* the data of it, puts the answer, in one or two parts, and sends a       *)
(* result, perhaps of a request after it as well; the other sends a        *)
(* request too.  The server may forget to wait for what it put or sent.    *)
(* Each transport gets the part of this that brings out what is its own.   *)
(***************************************************************************)
EXTENDS Transports, TLC

Xfer(kind, by, local, remote, roff, after) ==
    [kind |-> kind, by |-> by, local |-> local, loff |-> 0, remote |-> remote, roff |-> roff,
     after |-> after, heard |-> {}]

MCClients == {"c", "d"}

MCBuffersOf ==
    "server" :> <<"queue", "reply", "pulled", "pushed", "pushed2">>
    @@ "c" :> <<"ask", "source", "answer", "slot">>
    @@ "d" :> <<"hail">>

MCTypeOf ==
    "queue" :> "REQUEST" @@ "reply" :> "SEND" @@ "pulled" :> "GET_DST" @@ "pushed" :> "PUT_SRC" @@ "pushed2" :> "PUT_SRC"
    @@ "ask" :> "SEND" @@ "source" :> "GET_SRC" @@ "answer" :> "RESULT" @@ "slot" :> "PUT_DST"
    @@ "hail" :> "SEND"

MCBuffers == DOMAIN MCTypeOf

MCTransferOf ==
    "request" :> Xfer("send", "c", "ask", "queue", 0, {})
    @@ "again" :> [Xfer("send", "c", "ask", "queue", 0, {}) EXCEPT !.heard = {"result"}]
    @@ "other" :> Xfer("send", "d", "hail", "queue", 0, {})
    @@ "get" :> Xfer("get", "server", "pulled", "source", 0, {"request"})
    @@ "get1" :> Xfer("get", "server", "pulled", "source", 1, {"request"})
    @@ "put" :> Xfer("put", "server", "pushed", "slot", 1, {"request"})
    @@ "put2" :> Xfer("put", "server", "pushed2", "slot", 0, {"request"})
    @@ "result" :> Xfer("send", "server", "reply", "answer", 0, {"request", "put"})
    @@ "result2" :> Xfer("send", "server", "reply", "answer", 0, {"again"})

MCTransfers == DOMAIN MCTransferOf

Situation(T, n) == [transfers |-> T, elements |-> n, forgotten |-> {}]
Forgetting(T, F) == [transfers |-> T, elements |-> 4, forgotten |-> F]
Requests == {"request", "again", "other"}

MCOn ==
    "dcmf" :> {Situation({"request", "get1", "put", "result"}, 4),
               Situation({"request", "put", "put2"}, 4), Forgetting({"request", "put", "put2"}, {"pushed"}),
               Situation({"request", "again"}, 4), Situation({"request", "other"}, 4)}
    @@ "pami" :> {Situation({"request", "get", "put", "result"}, 4), Situation(Requests, 4),
                  Situation({"request", "put", "put2"}, 4), Forgetting({"request", "put", "result"}, {"pushed", "reply"})}
    @@ "portals" :> {Situation({"request", "get1", "put", "result"}, 4), Situation(Requests, 2),
                     Situation({"request", "again"}, 4), Forgetting({"request", "result", "again", "result2"}, {"reply"})}

\* Of a buffer on Blue Gene/Q, but its first word.
GetOn == "pami" :> {Situation({"request", "get1"}, 4)}

=============================================================================
