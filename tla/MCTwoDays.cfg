SPECIFICATION Spec
CONSTANTS
  Workers = {w1}
  Users = {u1}
  Dispenser = dispenser
  None = None
  NOF_WORKER_SEATS = 1
  SERVICE_COUNT = 2
  NOF_PAUSE = 1
  SIM_DURATION = 2
  EXPLODE_THRESHOLD = 0
  MAX_COUNT_QUEUE = 2
  MSG_CAPACITY = 10
  MAX_KILLS = 0
  CTRL_C = FALSE
INVARIANTS
  DayBarrier
  ReplyMatches
  QueuesStayFlushed
  CountEqualsFlush
CHECK_DEADLOCK FALSE
