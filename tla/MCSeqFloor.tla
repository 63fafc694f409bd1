----------------------------- MODULE MCSeqFloor ------------------------------
EXTENDS SeqFloor
=============================================================================
