--------------------------- MODULE MCBootCrashGuard ---------------------------
(* Small instances of BootCrashGuard for TLC.                              *)
EXTENDS BootCrashGuard, TLC

CONSTANTS p1, p2, p3

MCPrinters == {p1, p2, p3}
PrinterSymmetry == Permutations(MCPrinters)
=============================================================================
