\* Every combination of arguments, and two workers on three items with every
\* combination of callbacks.
CONSTANTS
    MaxItems = 3
    MaxThreads = 2
    Cpus = 2
    Calls <- SomeCalls
    LoadErrors <- AmbiguousError
SPECIFICATION FairSpec
INVARIANTS
    EachItemOnce
    QuietAfterReturn
    ResultTellsItems
    NoPartialHashes
    ProgressExact
    CancellationBoundsClaims
PROPERTIES
    FinishedIsFinal
    ImplementsContract
    CallReturns
    OneWorkerSuffices
