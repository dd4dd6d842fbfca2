\* One block, three statements of any kind, order and nesting, every fault
\* of a statement, of the task, of the cancel and of the connection.
SPECIFICATION Spec
CONSTANTS
  c1 = c1
  s1 = s1  s2 = s2  s3 = s3
  t1 = t1
  Callers <- OneCaller
  MaxRetries = 0
  Slots <- ThreeSlots
  Tables <- OneTable
  Targets <- OneOrEvery
  Faults <- AllFaults
  MaxGeneration = 0
SYMMETRY Symmetric
INVARIANTS AllOrNothing DeferredAreDurable CacheTold
\* Every function has ended: nothing is left to do.
CHECK_DEADLOCK FALSE
