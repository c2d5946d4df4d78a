SPECIFICATION Spec
CONSTANTS
  Files <- MCFiles
  SERVICE_COUNT = 6
INVARIANTS
  AcceptedIsUsable
  SemaphoresApart
  ConfigFromFile
CHECK_DEADLOCK FALSE
