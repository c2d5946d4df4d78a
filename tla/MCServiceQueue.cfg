SPECIFICATION Spec
CONSTANTS
  Tickets = {t1, t2, t3}
  NoTicket = NoTicket
  MAX_COUNT_QUEUE = 3
INVARIANTS
  TypeOK
  RingConsistent
PROPERTIES
  ImplementsFifo
