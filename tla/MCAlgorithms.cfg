CONSTANTS
    SizeMax = 63
    Align = 4
    MinSize = 8
    Sizes <- SmallSizes
    MaxBlocks = 3
    Tile = 2
    Sides <- MCSides
    Channels <- MCChannels
    MaxChunk = 40
    ExifMark <- MCMark
    LongMax = 127
    IntMax = 15
    Grid = 4
    ByteMax = 2
    MaxBytes = 3
    ProductModulus = 5
    DotModulus = 13
    LongModulus = 37
    DigestMax = 5
    WordBytes = 2
    Pictures <- MCPictures
    Level = 3
    BinsRG = 3
    BinsBY = 4
    BinsWB = 2
    Lanes = 2
    Scale = 15
    MaxRadius = 3
    Strip = 3
    Blocks = 2
    VectorLanes = 3
    HashSize = 2
    MarginUnits = 4
    Window = 2
    WindowStride = 3
    WindowsPerAxis = 2
    Arguments <- MCArguments
SPECIFICATION Spec
INVARIANTS
    BlocksAreSound
    TurnedOrUntouched
    CopiesInside
    TagFound
    CpusCounted
    MeansAreExact
    PeakIsExact
    ComparisonsAgree
    TextRoundTrips
    AlphaResolvedInPlace
    HistogramCounts
    ConfigurationUsable
    CutKeepsCharacters
    FiltersAsDefined
    HashesAsDefined
PROPERTIES
    TopLevelBounded
