SPECIFICATION Spec
CONSTANTS
  Group = 2
  Width = 5
  Groups = 3
  MaxNumbers = 2
INVARIANTS ReadsWhatWasWritten StopsAtOverlong AlwaysFits
CHECK_DEADLOCK FALSE
