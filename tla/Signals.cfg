CONSTANTS
  StartNumbers = {0, 8}
  MaxSends = 3
  FileCount = 2
  Typed = {0, 1, 2}
  MaxAsked = 3
  MaxStrays = 1

SPECIFICATION AllSpec

INVARIANTS
  VerdictIsRight
  CountIsExact
  AnswersAreDue

PROPERTIES
  LimitKept
  StopIsHeard
  EveryoneIsAnswered
