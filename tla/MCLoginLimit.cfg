CONSTANTS
  t1 = t1
  t2 = t2
  https = https
  http = http
  ip1 = ip1
  ip2 = ip2
  Threads = {t1, t2}
  Processes = {https, http}
  ProcessOf <- MCProcessOf
  Addresses = {ip1, ip2}
  LimitSetting = 1
  WindowSetting = 5
  RetentionSetting = 0
  RowsSetting = 0
  MinLimit = 2
  MaxLimit = 4
  MinWindow = 1
  Day = 1
  MinRows = 2
  PruneEvery = 1
  MaxTime = 2
  MaxAttempts = 4
  MaxFaults = 1
SYMMETRY MCSymmetry
SPECIFICATION Spec
INVARIANTS
  LoginLimitTypeOK
  GuessesAreLimited
PROPERTIES
  RefusedForOwnGuesses
CHECK_DEADLOCK FALSE
