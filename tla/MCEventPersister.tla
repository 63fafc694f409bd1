-------------------------- MODULE MCEventPersister ---------------------------
EXTENDS EventPersister
=============================================================================
