\* Scaled from a 32-bit size_t and a strip of 2^28 pixels.
CONSTANTS
    SizeMax = 63
    Grid = 32
    Width = 30
SPECIFICATION Spec
INVARIANT SameOnEveryPlatform
