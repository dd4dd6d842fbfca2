\* Two processes that call migrate() at the same time, and nothing goes wrong.
SPECIFICATION Spec
CONSTANTS
  None = None
  p1 = p1  p2 = p2
  analyzer = analyzer  index = index  manual = manual
  words = words  stems = stems
  Migrations <- Files
  Dependencies <- Needs
  Operations <- Contents
  Names <- Sorted
  Kind <- Kinds
  Owner <- Owners
  Unwritable = {}
  Plain = Plain
  Undeclared = Undeclared
  Processes <- Two
  Calls <- Together
  ByHand <- Hand
  Faults = {}
  Histories <- AtFirst
  MaxCalls = 2
  MaxFaults = 0
INVARIANTS SafeTogether
CHECK_DEADLOCK FALSE
