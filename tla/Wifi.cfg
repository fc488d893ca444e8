SPECIFICATION Spec
CONSTANT CONN_MAX_RETRY = 6
INVARIANTS
  TypeOK
  SemaphoreAlive
  FailureIsFinal
PROPERTY ImplementsUplink
CHECK_DEADLOCK FALSE
