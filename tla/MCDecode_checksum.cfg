\* A file whose IEND has a bad checksum, in the build with libpng.
SPECIFICATION Spec
CONSTANTS
    MaxChunk = 127
    MaxTail = 1
    Files <- MCFiles
INVARIANT
    DamagedChunkRefused
