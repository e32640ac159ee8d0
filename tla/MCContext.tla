----------------------------- MODULE MCContext -----------------------------
\* An instance of Context for TLC.
EXTENDS Context

CONSTANTS w1, w2

TwoWeights == {w1, w2}

\* Gray, color and alpha; small and large enough for the grid; tagged with an
\* orientation or not.
SomePictures ==
    {[channels |-> 1, side |-> 64, tagged |-> FALSE],
     [channels |-> 3, side |-> 64, tagged |-> TRUE],
     [channels |-> 4, side |-> 64, tagged |-> FALSE],
     [channels |-> 3, side |-> 8,  tagged |-> FALSE]}
=============================================================================
