SPECIFICATION FairSpec
CONSTANTS
  Workers = {w1, w2, w3}
  Clients = {c1, c2}
  Tasks = {k1, k2, k3}
  NoTask = NoTask
INVARIANTS NoLostWakeup
PROPERTIES TaskIsExecuted DestroyReturns ImplementsExecutor
CHECK_DEADLOCK FALSE
