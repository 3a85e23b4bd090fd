SPECIFICATION Spec
CONSTANTS
  Sessions = {s1}
  Workers = {w1, w2}
  Apps = {a1}
  Acceptor = acc
  Main = main
  NoOne = none
  MaxQueue = 1
  MaxPosts = 3
SYMMETRY WorkerSymmetry
INVARIANTS RefExact UseAfterFreeSites OneOperationOfEach DeadlocksCross
CHECK_DEADLOCK FALSE
