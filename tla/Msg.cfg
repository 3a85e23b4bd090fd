SPECIFICATION MsgSpec
CONSTANTS
  HeaderSize = 1
  SizeMask = 3
  DefaultBuf = 2
  Bytes = {0, 1, 2, 3}
  Heap = {h1, h2}
  Null = Null
  Junk = Junk
  Thrown = Thrown
  Payloads <- MCPayloads
INVARIANTS BufferSound
PROPERTIES ImplementsTape
