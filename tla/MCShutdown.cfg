SPECIFICATION Spec
CONSTANTS
  Workers = {w1, w2}
  Users = {u1}
  Dispenser = dispenser
  None = None
  NOF_WORKER_SEATS = 1
  SERVICE_COUNT = 1
  NOF_PAUSE = 1
  SIM_DURATION = 1
  EXPLODE_THRESHOLD = 0
  MAX_COUNT_QUEUE = 2
  MSG_CAPACITY = 10
  MAX_KILLS = 2
  CTRL_C = TRUE
SYMMETRY Symmetry
INVARIANTS
  TypeOK
  OperatorsQuietAtCleanup
  MailboxBound
CHECK_DEADLOCK FALSE
