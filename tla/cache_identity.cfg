\* A reader and the program on two event loops, two identities, entries of
\* both in a cache of one or two places, with a clock.
SPECIFICATION Spec
CONSTANTS
  user = user
  likes = likes
  qUser = qUser
  qLikes = qLikes
  qPath = qPath
  EDGES = EDGES
  NoIdent = NoIdent
  Tables = {user, likes}
  EdgeTables = {likes}
  Requests = {qUser}
  ReqTables <- MCPlain
  ReqLinks = {}
  UserKeys = {u1}
  MaxScopes = 2
  Readers = {r1}
  Writers = {}
  Loops = {l1, l2}
  Idents = {i1, i2}
  WriteTags = {}
  EveryTable = FALSE
  ForeignTables = {user}
  Ttls = {1, 2}
  Sizes = {1, 2}
  MayAbandon = FALSE
  MaxWrites = 0
  MaxEpoch = 0
  MaxVersion = 1
  MaxNow = 1
SYMMETRY IdentSym
PROPERTIES EvictionIsLRU
INVARIANTS IdentityIsolated ScopesOwned
