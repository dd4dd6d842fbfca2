\* Files made from the database and from the files, with and without the
\* removals, between changes of the models and definitions made by hand.
SPECIFICATION Spec
CONSTANTS
  None = None
  Plain = Plain
  Undeclared = Undeclared
  analyzer = analyzer  log = log  entry = entry  index = index  view = view  access = access
  words = words  stems = stems  opaque = opaque  public = public
  Names <- Sorted
  Kind <- Kinds
  Owner <- Owners
  Unwritable <- Opaque
  Models <- Declared
  ByHand <- Hand
  MaxFiles = 2
  MaxByHand = 2
INVARIANTS SettlesAtOnce GeneratedApplies RollbackRestores
PROPERTIES UndeclaredKept
