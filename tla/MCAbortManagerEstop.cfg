SPECIFICATION FairSpec
CONSTANTS
    MaxAborts = 1
    MaxEscalations = 2
    Windows = {"suppression", "excuse"}
INVARIANTS EveryEstopIsRecovered NoSilentFault
PROPERTY EveryAbortEnds
