SPECIFICATION Spec
CONSTANTS
  Instructions <- MCWithFloats
  MaxLength = 4
INVARIANT StopsAtTheEnd
