SPECIFICATION HookedSpec
CONSTANTS
  Starts = {0, 2}
  Durations <- MCDurations
  Scale = 2
  MaxLines = 3
  MaxWords = 2
  MaxAllWords = 3
  MaxPosition = 3
  PageCells = 2
  NameOffset = 1
  TypeOffset = 1
  LocatorCells = 2
  Slot = 0
  NotFound = 0
  Images <- MCImages
INVARIANTS
  ActiveLineShownIfWhole
  WindowInOrder
  WordsFillInOrder
PROPERTIES
  HighlightNeverRecedes
  ScanFindsMethod
