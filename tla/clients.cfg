\* Two tasks of one event loop and one of another: they open, sign in, log out,
\* close and register again while sockets drop and tokens are rejected.
SPECIFICATION Spec
CONSTANTS
  l1 = l1  l2 = l2
  t1 = t1  t2 = t2  t3 = t3
  Loops <- TwoLoops
  Tasks <- ThreeTasks
  LoopOf <- Placed
  Settings = {"first", "second"}
  Signins <- KeptOrNot
  Faults <- AllFaults
  CancelledAt = {"waiting", "opening", "replaying"}
  MaxGeneration = 1
SYMMETRY Symmetric
INVARIANTS ServesCurrent LocksLetGo StampTells
PROPERTIES AsChosen
\* The name may be removed: nothing is left to call.
CHECK_DEADLOCK FALSE
