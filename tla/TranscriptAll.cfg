SPECIFICATION Spec
CONSTANTS
    t1 = t1
    t2 = t2
    Tasks <- OneTask
    Widths <- TwoWidths
    MaxRenderCache = 3
    MaxEntries = 4
    MaxSeq = 7
    MaxVersions = 1
CHECK_DEADLOCK FALSE
INVARIANTS CacheSound EventsKeepOrder
