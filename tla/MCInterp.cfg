SPECIFICATION Spec
CONSTANTS
  Places <- Walk
  Modules <- ControlModules
  W = 2
  StackWords = 8
  ControlCap = 6
  MaxObjects = 40
INVARIANTS FramesAgree ObjectsAccounted ControlStackEmptied JumpStaysInFunction ReturnsOne
PROPERTY ImplementsControlFlow
