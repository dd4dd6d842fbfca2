\* The embedded slot of a connection: two tasks and every fault, a store that
\* another connection may open, one change of registration, one block.
SPECIFICATION Spec
CONSTANTS
  c1 = c1
  c2 = c2
  Connections = {c1, c2}
  Tasks = {t1, t2}
  Stores = {"x"}
  StoreOf <- MCStoreOf
  First <- MCFirst
  Registered <- MCRegistered
  Blocks <- MCBlocks
  Does <- MCDoes
  Users = {"ann"}
  Faults = {"open", "reopen", "invalidate", "use", "user", "owner", "exchange", "read"}
  CancelledAt = {"waiting", "opening", "replaying", "closing", "connecting", "using", "exchanging", "reading"}
  MaxGeneration = 1
SYMMETRY TaskSym
INVARIANTS SessionKnown ClaimsExact
PROPERTIES ServesCurrent
