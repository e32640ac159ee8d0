\* The library's own tables and the decoder warm-up, which may fail twice before
\* it succeeds.
CONSTANTS
    t1 = t1
    t2 = t2
    t3 = t3
    Threads <- ThreeThreads
    MaxFailures = 2
SPECIFICATION FairSpec
INVARIANTS
    ReadersSeeWhole
    BuiltOnce
PROPERTY
    CallersProceed
