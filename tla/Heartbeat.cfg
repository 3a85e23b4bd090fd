SPECIFICATION FairSpec
CONSTANTS
  Wrap = 5
  SessionTimeout = 2
  HeartbeatInterval = 1
  HeartbeatTimeout = 1
  MaxQueue = 2
  MaxLag = 1
INVARIANTS IdleRemovalExact DisconnectSound
PROPERTIES DeadPeerRemoved
CHECK_DEADLOCK FALSE
