SPECIFICATION Spec
CONSTANTS
  Workers = {w1}
  Users = {u1}
  Dispenser = dispenser
  None = None
  NOF_WORKER_SEATS = 1
  SERVICE_COUNT = 1
  NOF_PAUSE = 0
  SIM_DURATION = 1
  EXPLODE_THRESHOLD = 0
  MAX_COUNT_QUEUE = 2
  MSG_CAPACITY = 10
  MAX_KILLS = 1
  CTRL_C = FALSE
INVARIANTS
  IpcReleasedAtExit
CHECK_DEADLOCK FALSE
