CONSTANTS
    w1 = w1
    w2 = w2
    None = None
    Pictures <- SomePictures
    Weights <- TwoWeights
SPECIFICATION Spec
INVARIANTS
    ComputationsReadCurrent
    LoadIsAllOrNothing
