SPECIFICATION Spec
CONSTANTS
  Wrap = 5
  SessionTimeout = 2
  HeartbeatInterval = 1
  HeartbeatTimeout = 1
  MaxQueue = 2
  MaxLag = 1
INVARIANT RemovedWasIdle
CHECK_DEADLOCK FALSE
