------------------------------ MODULE MCBatch ------------------------------
\* Instances of Batch for TLC.
EXTENDS BatchRefinement

\* Every combination of arguments, malformed ones included: on no item and on one, and
\* on two without a second worker.
EveryCall ==
    {c \in [n : 0..2, threads : {-1, 0, 1, 2}, wellFormed : BOOLEAN, items : BOOLEAN,
            cont : BOOLEAN, prog : BOOLEAN, latched : BOOLEAN] :
        c.n <= 1 \/ c.threads <= 1}

\* Well-formed calls of a given size on `threads` workers.
GoodCalls(n, threads, prog, latched) ==
    [n : n, threads : threads, wellFormed : {TRUE}, items : {TRUE},
     cont : BOOLEAN, prog : prog, latched : latched]

TwoWorkers   == GoodCalls({3}, {2}, BOOLEAN, BOOLEAN)
ThreeWorkers == GoodCalls({3}, {3}, {FALSE}, {TRUE})
SomeCalls    == EveryCall \cup TwoWorkers

OneLoadError   == {"IO"}
\* The error that an item is reset to when it never started.
AmbiguousError == {"ALLOCATION_FAILED"}
=============================================================================
