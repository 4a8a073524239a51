SPECIFICATION LiveSpec
CONSTANTS
  c1 = c1
  c2 = c2
  c3 = c3
  Blank = Blank
  Junk = Junk
  File <- MCFile2
  WIN = 2
  Flags = {0}
  Armed = {TRUE}
  SockBuf = 4
  Noise = 50
  RandValues = {0, 100}
  Inputs <- ClientSends
  HeapFaults = {"harmless"}
  Prompt = TRUE
  Versions <- Today
  MaxTimeouts = 2
  MaxRows = 8
PROPERTIES
  ClientFinishesAnyway
CHECK_DEADLOCK FALSE
