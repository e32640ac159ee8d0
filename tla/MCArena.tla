------------------------------ MODULE MCArena ------------------------------
\* Arena alone for TLC: a 6-bit size_t, so that every wrap-around of the size
\* computations is within reach.
EXTENDS Arena

SmallSizes == {1, 4, 7, 16, 33, 61}

Spec == ArenaSpec
=============================================================================
