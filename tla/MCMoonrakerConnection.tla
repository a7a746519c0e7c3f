------------------------ MODULE MCMoonrakerConnection ------------------------
\* Small instances of MoonrakerConnection for TLC; the bounds are in the .cfg
\* files.
EXTENDS MoonrakerConnection
=============================================================================
