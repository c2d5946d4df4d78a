SPECIFICATION Spec
CONSTANTS
  Workers = {w1, w2}
  Users = {u1}
  Dispenser = dispenser
  None = None
  NOF_WORKER_SEATS = 2
  SERVICE_COUNT = 1
  NOF_PAUSE = 1
  SIM_DURATION = 2
  EXPLODE_THRESHOLD = 0
  MAX_COUNT_QUEUE = 2
  MSG_CAPACITY = 10
  MAX_KILLS = 0
  CTRL_C = FALSE
SYMMETRY Symmetry
INVARIANTS
  CriticalSectionsExclusive
  JobsCoverQueue
  CounterExclusive
  ScanAlwaysFinds
  TokensBacked
CHECK_DEADLOCK FALSE
