----------------------------- MODULE MCFileLoad -----------------------------
\* Instances of FileLoad for TLC: two files the path may name, and a FIFO.
EXTENDS FileLoad

CONSTANTS f1, f2, fifo

TwoFiles == {f1, f2}
AFifo    == {fifo}
=============================================================================
