SPECIFICATION AllSpec

CONSTANTS
  Callers = {"a", "b"}
  SlowCallers = {"a"}
  PlainCallers = {"b"}
  MaxSaid = 3
  Files = {"missing", "forbidden", "directory", "plain", "program", "endless"}
  MaxSignals = 1
  Size = 2
  MaxNumbers = 2
  MaxSent = 3
  MaxCopies = 2
  MaxStrangers = 1

INVARIANTS
  AnswersAreRight

PROPERTIES
  EveryoneIsServed
  NobodyIsForgotten
  EveryByteCounts

\* An HTTP server may be kept waiting for ever, and any server for a client.
CHECK_DEADLOCK FALSE
