SPECIFICATION FairSpec
CONSTANTS
  Workers = {w1}
  Users = {u1}
  Dispenser = dispenser
  None = None
  NOF_WORKER_SEATS = 1
  SERVICE_COUNT = 1
  NOF_PAUSE = 0
  SIM_DURATION = 2
  EXPLODE_THRESHOLD = 1
  MAX_COUNT_QUEUE = 2
  MSG_CAPACITY = 1
  MAX_KILLS = 1
  CTRL_C = FALSE
PROPERTIES
  EveryUserAnswered
  DirectorEndsOrHangIsExplained
CHECK_DEADLOCK FALSE
