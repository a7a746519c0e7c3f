SPECIFICATION Spec
CONSTANTS
    p1 = p1  p2 = p2  p3 = p3
    Printers <- MCPrinters
    NoPrinter = NoPrinter
    Threshold = 3
    MaxRestarts = 2
    MaxFailures = 1
    MaxUncounted = 2
SYMMETRY PrinterSymmetry
INVARIANTS TypeOK CrashLoopEnds RestartsEnd
PROPERTY HoldSurvivesBoots
