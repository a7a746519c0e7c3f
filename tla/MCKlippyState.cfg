CONSTANTS
    FirstReports = {"ready"}
    MaxChanges = 4
    MaxCloses = 1
SPECIFICATION FairSpec
INVARIANTS TypeOK NewFramesAreAccepted QuietIsTrue
PROPERTIES StateIsShown
CHECK_DEADLOCK FALSE
