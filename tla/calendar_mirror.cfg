CONSTANTS
    Events = {1}
    MaxVersion = 2
    MaxEntries = 4
    MaxSetbacks = 3
    None = None
SPECIFICATION MirrorSpec
INVARIANTS EntriesAccountedFor
PROPERTIES LiveEntriesStay MirrorCatchesUp
CHECK_DEADLOCK FALSE
