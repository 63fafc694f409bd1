---------------------------- MODULE MCContentGate ----------------------------
EXTENDS ContentGate
=============================================================================
