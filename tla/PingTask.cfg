CONSTANTS
  Interval = 1
  Timeout = 4
  RecvTimeout = 2
  MaxForeign = 1

SPECIFICATION Spec

INVARIANTS
  CountMatchesReplies
