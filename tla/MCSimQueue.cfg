CONSTANTS
  Time = {0, 1, 2}
  Payload = {a, b}
  MaxPushes = 4
SPECIFICATION Spec
INVARIANT TypeOK
PROPERTY ImplementsStableQueue
CHECK_DEADLOCK FALSE
