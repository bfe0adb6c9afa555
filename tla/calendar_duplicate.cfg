CONSTANTS
    Events = {1}
    MaxVersion = 1
    MaxEntries = 2
    MaxSetbacks = 1
    None = None
SPECIFICATION AnsweredSpec
PROPERTIES CrashReconverges
CHECK_DEADLOCK FALSE
