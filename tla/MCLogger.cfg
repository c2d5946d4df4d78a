SPECIFICATION FairSpec
CONSTANTS
  NL = "newline"
  Chars = {"a", "b", "newline"}
  Messages <- MCMessages
  MAX_CONTENT_WIDTH = 2
  LOG_INITIAL_BUFSZ = 2
  LOG_MAX_BUFSZ = 5
INVARIANTS
  LinesFit
  LinesFollowMessage
PROPERTIES
  EveryCallReturns
  CallsProgress
  RefusedOnlyIfTooLong
CHECK_DEADLOCK FALSE
