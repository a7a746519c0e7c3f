---------------------------- MODULE MCAbortManager ----------------------------
\* Small instances of AbortManager for TLC; the bounds are in the .cfg files.
EXTENDS AbortManager
=============================================================================
