CONSTANTS
  DirCount = 2
  MaxChanges = 0
  MaxTime = 2
  MaxLocked = 0

SPECIFICATION Spec

INVARIANTS
  GetAttrReportsErrors
