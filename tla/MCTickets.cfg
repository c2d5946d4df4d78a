SPECIFICATION Spec
CONSTANTS
  Workers = {w1}
  Users = {u1, u2, u3}
  Dispenser = dispenser
  None = None
  NOF_WORKER_SEATS = 1
  SERVICE_COUNT = 1
  NOF_PAUSE = 1
  SIM_DURATION = 1
  EXPLODE_THRESHOLD = 0
  MAX_COUNT_QUEUE = 1
  MSG_CAPACITY = 1
  MAX_KILLS = 0
  CTRL_C = FALSE
SYMMETRY Symmetry
INVARIANTS
  TicketConservation
  StatsConserved
  StuckOnlyIfExplained
CONSTRAINT StopBound
CHECK_DEADLOCK FALSE
