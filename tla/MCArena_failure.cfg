CONSTANTS
    SizeMax = 63
    Align = 4
    MinSize = 8
    Sizes <- SmallSizes
    MaxBlocks = 2
SPECIFICATION Spec
PROPERTY FailureChangesNothing
