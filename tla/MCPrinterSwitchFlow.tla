------------------------- MODULE MCPrinterSwitchFlow -------------------------
(* Small instances of PrinterSwitchFlow for TLC.                           *)
EXTENDS PrinterSwitchFlow, TLC

CONSTANTS p1, p2, p3

MCPrinters == {p1, p2, p3}
=============================================================================
