CONSTANTS
    MaxChains = 2
    MaxSessions = 3
SPECIFICATION FairSpec
INVARIANTS ChainIsSafe
PROPERTIES NoScriptPastDeadline ImplementsOneShot ChainEnds
