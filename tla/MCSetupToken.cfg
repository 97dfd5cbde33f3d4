CONSTANTS
    http = http
    https = https
    Workers = {http, https}
    MaxKills = 2
    MaxFaults = 1
SPECIFICATION Spec
INVARIANTS
    SetupTokenTypeOK
    WorkersAgree
PROPERTIES
    KeysSurvive
    TokenIsSpent
CHECK_DEADLOCK FALSE
