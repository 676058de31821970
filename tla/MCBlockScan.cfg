SPECIFICATION Spec
CONSTANTS
  Instructions <- MCInstructions
  MaxLength = 5
INVARIANTS InStep StopsAtTheEnd
PROPERTY AlwaysAnswers
