SPECIFICATION Spec
CONSTANTS
  Modules <- TableModules
  W = 2
  StackWords = 8
  ControlCap = 6
  MaxObjects = 40
PROPERTY CallEndsJump
