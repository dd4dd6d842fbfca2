\* A stream through drops, stops, kills, signins and closed connections.
SPECIFICATION FairSpec
CONSTANTS
  Signins <- KeptUser
  MaxAttempts = 2
  Faults <- Drops
  MaxClients = 2
  MaxEvents = 1
  MaxCalls = 2
INVARIANTS NoOrphan NeverParkedForGood SameIdentity InOrder
PROPERTIES Ends
CHECK_DEADLOCK FALSE
