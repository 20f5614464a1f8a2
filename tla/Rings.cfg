CONSTANTS
  Count = 4
  Iterations = 1

SPECIFICATION AllSpec

INVARIANTS
  NoConcurrentUpdate
  PrintedTotals
  StuckOnlyAtSeam
  NoAdditionLost

PROPERTIES
  EitherPrintedOrStuck

\* With four threads the program really may stop: see StuckOnlyAtSeam, NeverPrints.
CHECK_DEADLOCK FALSE
