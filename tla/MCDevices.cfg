CONSTANTS
    p1 = p1
    p2 = p2
    p3 = p3
    servers = servers
    office = office
    DeviceIds = {1, 2, 3}
    GroupIds = {1, 2}
    Peers = {p1, p2, p3}
    GroupNames = {servers, office}
    Queries = {q1}
    BatchSize = 2
    NoDevice = NoDevice
    NoGroup = NoGroup
    NoForm = NoForm
    Idle = Idle
    MaxRequests = 3
SPECIFICATION Spec
INVARIANTS
    DevicesTypeOK
PROPERTIES
    OnlyFormsMisfile
    DeletedStaysOut
    StatusIsWhatHbbsSaid
    EditsSurviveQueries
SYMMETRY Symmetry
CHECK_DEADLOCK FALSE
