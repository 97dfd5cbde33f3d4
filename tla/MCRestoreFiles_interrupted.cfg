CONSTANTS
    Db = db
    Files = {db, config}
    c1 = c1
    c2 = c2
    Content = {c1, c2}
    Absent = Absent
    Keep = Keep
    NoCopy = NoCopy
    NoWal = NoWal
    Corrupt = Corrupt
    MaxCalls = 2
    MaxFaults = 2
    MaxWrites = 2
SPECIFICATION FairSpec
PROPERTIES
    InterruptedRestoreIsRecovered
CHECK_DEADLOCK FALSE
