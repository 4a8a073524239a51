SPECIFICATION MCSpec
CONSTANTS
  Reports = {r1, r2}
  Pages = {v1, v2}
INVARIANTS
  TypeOK
  ReportsKept
  Inv
  FreshPage
PROPERTIES
  AllAnswered
CHECK_DEADLOCK FALSE
