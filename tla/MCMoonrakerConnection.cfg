SPECIFICATION FairSpec
CONSTANTS
    MaxSockets = 3
    MaxWindows = 1
INVARIANTS SessionsAreWatched CallbacksRunInALiveClient
PROPERTY ReconnectEnds
CHECK_DEADLOCK FALSE
