CONSTANTS
  DirCount = 2
  MaxChanges = 1
  MaxTime = 2
  MaxLocked = 1

SPECIFICATION Spec

INVARIANTS
  Inv
  ServesTheMerge
