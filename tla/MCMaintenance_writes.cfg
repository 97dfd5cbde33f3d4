CONSTANTS
    Db = db
    Config = config
    Files = {db, config}
    k1 = k1
    k2 = k2
    Content <- TwoVersions
    KeyOf <- KeyOfTwoVersions
    Absent = Absent
    Keep = Keep
    NoCopy = NoCopy
    NoWal = NoWal
    Corrupt = Corrupt
    http = http
    https = https
    h1 = h1
    h2 = h2
    s1 = s1
    Workers = {http, https}
    Threads = {h1, s1}
    WorkerOf <- OneThreadEach
    NoKey = NoKey
    NoGeneration = NoGeneration
    NoPool = NoPool
    Nobody = Nobody
    MaxCalls = 2
    MaxFaults = 1
    MaxWrites = 1
    MaxBackups = 0
SPECIFICATION MaintenanceSpec
INVARIANTS
    KeysFitDatabase
PROPERTIES
    ReplacedDatabaseIsBackedUp
CHECK_DEADLOCK FALSE
