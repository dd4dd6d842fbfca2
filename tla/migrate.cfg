\* Calls of two processes, one after the other or at once, and everything
\* that may go wrong with a batch.
SPECIFICATION Spec
CONSTANTS
  None = None
  p1 = p1  p2 = p2
  analyzer = analyzer  index = index  manual = manual
  words = words  stems = stems
  Migrations <- Files
  Dependencies <- Needs
  Operations <- Contents
  Names <- Sorted
  Kind <- Kinds
  Owner <- Owners
  Unwritable = {}
  Plain = Plain
  Undeclared = Undeclared
  Processes <- Two
  Calls <- Made
  ByHand <- Hand
  Faults <- AllFaults
  Histories <- AtFirst
  MaxCalls = 3
  MaxFaults = 2
SYMMETRY Symmetric
INVARIANTS HistoryIsSchema OwnWork HistoryClosed
PROPERTIES RefusalsForeseen
\* Every call has been made.
CHECK_DEADLOCK FALSE
