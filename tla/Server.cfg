SPECIFICATION BoundedSpec
CONSTANTS
  c1 = c1
  c2 = c2
  c3 = c3
  c4 = c4
  Blank = Blank
  Junk = Junk
  File <- MCFile
  WIN = 2
  Flags = {0}
  SockBuf = 1
  Armed = {TRUE}
  Inputs <- MCInputs
  HeapFaults = {"harmless","truncated","aborted"}
  MaxRows = 6
INVARIANTS
  TypeOK
  NoChunkTwice
  AnswersOK
  Inv
CHECK_DEADLOCK FALSE
