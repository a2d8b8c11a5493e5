--------------------------- MODULE MCWorkRequests ---------------------------
(* Whole sources put to and got from buffers in one and two segments, and    *)
(* atomics, beside a transfer of another thread, on InfiniBand and on        *)
(* Gemini; lengths that end within a segment; and who has the first key.     *)
EXTENDS WorkRequests

Job(op, src, dst, doff) == [op |-> op, src |-> src, soff |-> 0, length |-> Size(src), dst |-> dst, doff |-> doff]

Put1 == Job("put", <<1>>, <<2>>, 1)
Get2 == Job("get", <<1, 1>>, <<2>>, 0)

Pairs(A, b) == {<<a, b>> : a \in A}
MCJobs ==
    [x \in {"ib", "gni"} |->
        Pairs({Job("put", <<3>>, <<1, 2>>, 0), Job("put", <<2>>, <<1, 2>>, 1), Job("get", <<2, 1>>, <<1, 2>>, 0)}, Put1)
        \cup Pairs({Job("put", <<1, 2>>, <<4>>, 1), Job("get", <<1, 1>>, <<3>>, 1), Job("fop", <<1>>, <<1>>, 0)}, Get2)
        \cup Pairs({Job("cswap", <<1>>, <<1>>, 0)}, Put1)]

\* Some of a segment, and what is left of a source after some of it.
Part(op, soff, length) == [op |-> op, src |-> <<2, 2>>, soff |-> soff, length |-> length, dst |-> <<2, 2>>, doff |-> 0]
PartJobs == [x \in {"ib", "gni"} |-> Pairs({Part("put", 0, 3), Part("get", 1, 2)}, Put1)]

\* One transfer with a key of its own, beside a segmented one.
KeyJobs == [x \in {"ib"} |-> {<<Job("put", <<2>>, <<1, 1>>, 0), Put1>>}]

=============================================================================
