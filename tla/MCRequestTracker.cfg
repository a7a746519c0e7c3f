CONSTANTS
    EventLoop = EventLoop
    MainThread = MainThread
    Worker = Worker
    Threads = {EventLoop, MainThread, Worker}
    MaxRequests = 2
    MaxPending = 1
    NoId = NoId
SPECIFICATION FairSpec
INVARIANTS TableIsSound AtMostOneOutcome CancelIsFinal NoStrandedRequest
PROPERTIES EveryRequestSettles ImplementsOneShot
