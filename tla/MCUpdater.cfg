CONSTANTS
    p = p
    q = q
    Updaters = {p, q}
    Targets = {2}
    Absent = Absent
    Local = Local
    None = None
    MaxRuns = 2
    MaxFaults = 2
    MaxKills = 1
    MaxWrites = 2
SPECIFICATION Spec
INVARIANTS
    UpdaterTypeOK
    RunningFitsData
    AcceptedWritesSurvive
    ServiceIsBack
PROPERTIES
    AllOrNothing
SYMMETRY Symmetry
CHECK_DEADLOCK FALSE
