SPECIFICATION Spec
CONSTANTS
  MaxOutputBytes = 2
  MaxWritten = 4
INVARIANTS ViolationNeverMasked CutIsNoticed
PROPERTY JailSettles
CHECK_DEADLOCK FALSE
