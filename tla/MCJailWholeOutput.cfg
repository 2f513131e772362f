SPECIFICATION Spec
CONSTANTS
  MaxOutputBytes = 2
  MaxWritten = 4
PROPERTY OkHasWholeOutput
CHECK_DEADLOCK FALSE
