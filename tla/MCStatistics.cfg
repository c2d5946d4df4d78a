SPECIFICATION Spec
CONSTANTS
  Workers = {op1}
  Users = {us1, us2}
  Services = {letters, banking}
  Dispenser = ticket
  Director = director
  None = none
  NOF_PAUSE = 2
  SIM_DURATION = 2
SYMMETRY Symmetry
INVARIANTS
  TypeOK
  ReportsConsistent
  ReportsAddUp
  PausesPerActiveOperator
CHECK_DEADLOCK FALSE
