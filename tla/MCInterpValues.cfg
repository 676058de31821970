SPECIFICATION Spec
CONSTANTS
  Places <- Walk
  Modules <- ValueAndTightModules
  W = 2
  StackWords = 12
  ControlCap = 5
  MaxObjects = 9
INVARIANTS TypeOK FramesAgree ObjectsAccounted
PROPERTIES CallersLocalsKept OuterOperandsKept AlwaysEnds
