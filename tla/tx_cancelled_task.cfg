\* A cancelled task leaves its transaction open on the shared connection.
SPECIFICATION Spec
CONSTANTS
  c1 = c1
  s1 = s1  s2 = s2  s3 = s3
  t1 = t1
  Callers <- OneCaller
  MaxRetries = 0
  Slots <- OneSlot
  Tables <- OneTable
  Targets <- OneTarget
  Faults <- TaskFaults
  MaxGeneration = 0
INVARIANTS NoneHalfOpen
CHECK_DEADLOCK FALSE
