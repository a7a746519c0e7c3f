CONSTANTS
    Producers = {p1}
    Owners = {o1}
    NoOwner = NoOwner
    NoToken = NoToken
    MaxCallbacks = 3
    MaxDepth = 2
    MaxFreeze = 2
    MaxGeneration = 1
    MaxEpoch = 1
SPECIFICATION FairSpec
INVARIANTS QueueIsIntact NoStaleSession
PROPERTIES EveryCallbackFinishes NoBodyOnDeadOwner FreezeHolds
