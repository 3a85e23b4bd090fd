SPECIFICATION Spec
CONSTANTS
  Sessions = {s1}
  Workers = {w1, w2}
  Apps = {}
  Acceptor = acc
  Main = main
  NoOne = none
  MaxQueue = 1
  MaxPosts = 3
CHECK_DEADLOCK FALSE
PROPERTIES CompletionEndsReference
