SPECIFICATION FairSpec
CONSTANTS
  Msgs = {"first", "long", "ping"}
  Pings = {"ping"}
  Size <- MCSize
  Limit = 1
  Apps = {a1}
  Main = main
  NoMsg = NoMsg
  Workers = {w1}
  MaxStarts = 2
  MaxTasks = 2
INVARIANTS OwnedOnce SendsInTurn BacklogAccounted ServesOrStopped ReleasedButForSpawn
PROPERTIES ImplementsChannel BacklogDrains RunsTasksInOrder CallsReturn
CHECK_DEADLOCK FALSE
