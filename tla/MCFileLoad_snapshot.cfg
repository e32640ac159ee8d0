CONSTANTS
    f1 = f1
    f2 = f2
    fifo = fifo
    Files <- TwoFiles
    Special <- AFifo
    NoInode = NoInode
    MaxLength = 2
    ReadChunk = 1
    MaxChanges = 1
    MaxEintr = 0
SPECIFICATION FileSpec
INVARIANT WorksOnOneSnapshot
