------------------------- MODULE MCPrinterRecovery -------------------------
(* PrinterRecovery for TLC: two chains and two printer switches are enough *)
(* for a chain to meet the session after its own and a later chain.        *)
EXTENDS PrinterRecovery
=============================================================================
