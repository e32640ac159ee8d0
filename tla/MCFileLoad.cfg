\* Two regular files and a FIFO; the path and the files change twice during the
\* loads, at any moment of them.
CONSTANTS
    f1 = f1
    f2 = f2
    fifo = fifo
    Files <- TwoFiles
    Special <- AFifo
    NoInode = NoInode
    MaxLength = 3
    ReadChunk = 2
    MaxChanges = 2
    MaxEintr = 1
SPECIFICATION FairSpec
INVARIANTS
    NothingLeaks
    BufferHolds
    CopyIsOneSnapshot
PROPERTY
    LoadEnds
