----------------------------- MODULE MCOnceInit -----------------------------
\* An instance of OnceInit for TLC: one thread builds, one waits, one comes late.
EXTENDS OnceInit

CONSTANTS t1, t2, t3

ThreeThreads == {t1, t2, t3}
=============================================================================
