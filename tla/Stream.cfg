SPECIFICATION FairSpec
CONSTANTS
  Header = 2
  MaxData = 7
  RecvCap = 4
  StreamCap = 8
  N = 3
  Totals = {2, 3, 5, 6}
INVARIANTS BufferExact
PROPERTIES DeliveredExactly EveryPacketDelivered
CHECK_DEADLOCK FALSE
