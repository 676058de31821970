SPECIFICATION Spec
CONSTANTS
  Modules <- LoneIfModules
  W = 2
  StackWords = 8
  ControlCap = 6
  MaxObjects = 40
INVARIANT IfEndsAtItsEnd
