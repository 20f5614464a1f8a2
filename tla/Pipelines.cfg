CONSTANTS
  Lines <- MCLines
  Capacity = 1

SPECIFICATION Spec

INVARIANTS
  Inv
  OverflowIsFatal

PROPERTIES
  EndsWithoutCause

\* A launcher that waits for a program whose output does not fit waits for ever.
CHECK_DEADLOCK FALSE
