---------------------------- MODULE MCReplayPurge ----------------------------
EXTENDS ReplayPurge
=============================================================================
