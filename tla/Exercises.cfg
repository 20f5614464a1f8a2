CONSTANTS
  First = 6
  Second = 20
  Chunks = {0, 1, 2, 5, 9}
  MaxSize = 60
  Interval = 1
  Timeout = 4
  RecvTimeout = 2
  MaxForeign = 1

SPECIFICATION AllSpec

INVARIANTS
  NoOverflow
  ResultsAreRight
  TotalIsRight

PROPERTIES
  TotalIsPrinted

\* An exercise that was computed has no next step.
CHECK_DEADLOCK FALSE
