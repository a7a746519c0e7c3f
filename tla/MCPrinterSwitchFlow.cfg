SPECIFICATION FairFlowSpec
CONSTANTS
    p1 = p1  p2 = p2  p3 = p3
    Printers <- MCPrinters
    NoPrinter = NoPrinter
    NoRequest = NoRequest
    MaxQueued = 2
    MaxCalls = 4
INVARIANTS FlowIsSound SessionMatchesConfig LatestCallWins
PROPERTY FlowSettles
