----------------------------- MODULE MCUlogFile -----------------------------
EXTENDS UlogFile
=============================================================================
