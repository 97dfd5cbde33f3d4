CONSTANTS
    Db = db
    Config = config
    Files = {db, config}
    k1 = k1
    k2 = k2
    Content <- OneVersion
    KeyOf <- KeyOfOneVersion
    Absent = Absent
    Keep = Keep
    NoCopy = NoCopy
    NoWal = NoWal
    Corrupt = Corrupt
    http = http
    https = https
    h1 = h1
    h2 = h2
    s1 = s1
    Workers = {http, https}
    Threads = {h1, h2, s1}
    WorkerOf <- TwoAndOne
    NoKey = NoKey
    NoGeneration = NoGeneration
    NoPool = NoPool
    Nobody = Nobody
    MaxCalls = 1
    MaxFaults = 1
    MaxWrites = 0
    MaxBackups = 0
SPECIFICATION FairMaintenanceSpec
PROPERTIES
    RequestsEnd
    RestartRecovers
CHECK_DEADLOCK FALSE
