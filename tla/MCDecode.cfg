\* JPEG tails of up to four bytes, PNGs of up to four chunks cut at every byte.
SPECIFICATION Spec
CONSTANTS
    MaxChunk = 127
    MaxTail = 4
    Files <- MCFiles
INVARIANTS
    FreedOnce
    LimitsComeFirst
    OneVerdict
