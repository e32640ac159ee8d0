----------------------------- MODULE MCCompute -----------------------------
\* Compute has no parameters: its configuration names the properties only.
EXTENDS Compute
=============================================================================
