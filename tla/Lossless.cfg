SPECIFICATION LiveSpec
CONSTANTS
  c1 = c1
  c2 = c2
  c3 = c3
  Blank = Blank
  Junk = Junk
  File <- MCFileRepeating
  WIN = 3
  Flags = {0}
  Armed = {TRUE, FALSE}
  SockBuf = 6
  Noise = 0
  RandValues = {50}
  Inputs <- ClientSends
  HeapFaults = {"harmless"}
  Prompt = TRUE
  Versions <- AllVersions
  MaxTimeouts = 2
  MaxRows = 8
INVARIANTS
  CarryInv
  WindowsWrittenOnce
  OverrunIsPadding
  
PROPERTIES
  TransfersInOrder
  TransfersFile
CHECK_DEADLOCK FALSE
