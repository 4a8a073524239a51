SPECIFICATION MCSpec
CONSTANTS
  c1 = c1
  Blank = Blank
  Junk = Junk
  File <- MCFile
  WIN = 1
  Flags = {0}
  Armed = {TRUE, FALSE}
  SockBuf = 2
  Noise = 50
  RandValues = {0, 100}
  FromBelow <- MCFromBelow
  FromAbove <- MCFromAbove
  MaxWaiting = 1
INVARIANTS
  QueuesOK
PROPERTIES
  UpIsLossyFifo
  DownIsLossyFifo
  TurnHandsOver
CHECK_DEADLOCK FALSE
