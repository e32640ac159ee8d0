CONSTANTS
    MaxItems = 3
    MaxThreads = 3
    Cpus = 2
    Calls <- ThreeWorkers
    LoadErrors <- OneLoadError
SPECIFICATION Spec
INVARIANT NoStartAfterRefusal
