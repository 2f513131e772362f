SPECIFICATION Spec
CONSTANTS
  q1 = q1  q2 = q2  q3 = q3  q4 = q4  a = a  b = b
  Requests = {q1, q2, q3, q4}
  RunIds = {a, b}
  RunIdOf <- MCRunIdOf
  MaxConcurrent = 2
  MaxQueueDepth = 1
  MaxCrashes = 1
INVARIANTS SlotsCounted JailIsolated
PROPERTY NoBarging WaiterServed
CHECK_DEADLOCK FALSE
