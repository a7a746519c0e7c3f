CONSTANTS
    MaxChains = 1
    MaxSessions = 2
SPECIFICATION FairSpec
PROPERTIES SlotComesFree
