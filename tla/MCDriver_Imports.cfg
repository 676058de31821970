SPECIFICATION Spec
CONSTANTS
  WatTexts = {}
  StringCap = 3
  Programs <- MCOtherImports
  Forms <- MCOtherForms
  Files = {}
  FileSize = 200
  ServedPages = 1
  ServedSlots = 12000
INVARIANT WrittenRuns
