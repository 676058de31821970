SPECIFICATION Spec
CONSTANTS
  WatTexts <- MCTexts
  StringCap = 3
  Programs <- MCPrograms
  Forms <- MCForms
  Files <- MCFiles
  FileSize = 200
  ServedPages = 1
  ServedSlots = 12000
INVARIANTS ReadsTheText LabelsInStep NamesResolve FoldedAsFlat ScannerAgrees LoadsAsWritten FreedOnce NothingLost CrashIsAnnounced LocalsCovered TableFilled
PROPERTY EveryCallEnds
