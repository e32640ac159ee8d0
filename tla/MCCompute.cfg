\* Every image and configuration, any number of calls, every failure.
SPECIFICATION Spec
INVARIANTS
    BuffersInTurn
    OutputsTellStatus
