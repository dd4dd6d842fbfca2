\* A reader of a 2.x or a 3.x server: its search for the end, starts, resumes,
\* stops and faults.
SPECIFICATION FairSpec
CONSTANTS
  Majors = {2, 3}
  Unit = 2
  MaxCounter = 16
  BatchSize = 2
  MaxAttempts = 2
  Sinces <- FromNowOrMoment
  Faults <- AllFaults
  MaxEntries = 2
  MaxChanges = 2
  MaxClock = 2
  MaxGeneration = 1
  MaxStreams = 2
INVARIANTS NothingLost ResumesExactly FromNow RequestsWhereBound
PROPERTIES ImplementsOrderedFeed StopEnds
CHECK_DEADLOCK FALSE
