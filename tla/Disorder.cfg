SPECIFICATION BoundedSpec
CONSTANTS
  c1 = c1
  c2 = c2
  c3 = c3
  Blank = Blank
  Junk = Junk
  File <- MCFile3
  WIN = 2
  Flags = {0}
  Armed = {TRUE}
  SockBuf = 12
  Noise = 50
  RandValues = {100}
  Inputs = {}
  HeapFaults = {"harmless"}
  Prompt = FALSE
  Versions <- Today
  MaxTimeouts = 2
  MaxStrays = 1
  MaxRows = 8
INVARIANTS
  NoEarlyData
  HandshakeAgreed
PROPERTIES
  NoFalseAck
CHECK_DEADLOCK FALSE
