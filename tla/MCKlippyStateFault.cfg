CONSTANTS
    FirstReports = {"ready", "startup", "shutdown", "error", "disconnected"}
    MaxChanges = 3
    MaxCloses = 1
SPECIFICATION FairSpec
PROPERTIES FaultIsShown
CHECK_DEADLOCK FALSE
