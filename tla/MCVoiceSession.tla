--------------------------- MODULE MCVoiceSession ---------------------------
EXTENDS VoiceSession

=============================================================================
