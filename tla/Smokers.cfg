CONSTANT
  Inputs <- MCInputs

SPECIFICATION Spec

INVARIANTS
  Inv
  OnlyTheLastItemRepeats

PROPERTIES
  Ends
