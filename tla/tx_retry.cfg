\* One function, its retries, the faults of the server, the connection and the
\* handlers, settings that change meanwhile; and every function ends.
SPECIFICATION FairSpec
CONSTANTS
  c1 = c1
  s1 = s1  s2 = s2  s3 = s3
  t1 = t1
  Callers <- OneCaller
  MaxRetries = 1
  Slots <- OneSlot
  Tables <- OneTable
  Targets <- OneTarget
  Faults <- OpenFaults
  MaxGeneration = 1
INVARIANTS NoneHalfOpen WritesWhereOpened
PROPERTIES ImplementsAtomicBlocks CallsEnd
CHECK_DEADLOCK FALSE
