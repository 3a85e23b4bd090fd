SPECIFICATION HydraSpec
CONSTANTS
  MinConn = 1
  MaxConn = 2
  Conns = {d1, d2, d3, d4}
  Users = {main, k1, k2}
  NoConn = NoConn
  Loader = main
  Rows = {r1}
  MaxLoads = 2
  Tasks = {k1, k2}
  Outsiders = {o1}
  MaxThreads = 2
  NoThread = NoThread
INVARIANTS NeverShared TotalAccounted TrueMeansLoaded NullNeedsCrowd TasksMeetManagers
PROPERTIES DbPoolsUsedAsAssumed
CHECK_DEADLOCK FALSE
