CONSTANT
  Arguments <- MCArguments

SPECIFICATION Spec

INVARIANTS
  Inv

PROPERTIES
  PrintsThePrimes
  Ends
