CONSTANTS
  N = 3
  K = 2
  Work <- MCWork
  Library <- MCLibrary
  Sessions = 2

SPECIFICATION AllSpec

INVARIANTS
  Inv
  CallInv

PROPERTIES
  PushesAreAtomic
  Serves
  ProgramsEnd

\* A client that comes too early, or asks for an unknown name, waits for ever.
CHECK_DEADLOCK FALSE
