SPECIFICATION Spec
CONSTANTS
  Starts = {0, 2}
  Durations <- MCDurations
  Scale = 2
  MaxLines = 2
  MaxWords = 1
  MaxAllWords = 2
  MaxPosition = 3
INVARIANTS
  ActiveLineShown
