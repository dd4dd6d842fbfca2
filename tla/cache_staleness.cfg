\* A reader and two writers, nested or not, over an edge table and a read
\* through links, with identity methods given up half-way.
SPECIFICATION Spec
CONSTANTS
  user = user
  likes = likes
  qUser = qUser
  qLikes = qLikes
  qPath = qPath
  EDGES = EDGES
  NoIdent = NoIdent
  Tables = {user, likes}
  EdgeTables = {likes}
  Requests = {qLikes, qPath}
  ReqTables <- MCLinked
  ReqLinks = {qPath}
  UserKeys = {}
  MaxScopes = 2
  Readers = {r1}
  Writers = {w1, w2}
  Loops = {l1}
  Idents = {i1}
  WriteTags <- MCDeletes
  EveryTable = TRUE
  ForeignTables = {}
  Ttls = {1}
  Sizes = {2}
  MayAbandon = TRUE
  MaxWrites = 2
  MaxEpoch = 1
  MaxVersion = 2
  MaxNow = 0
SYMMETRY TaskSym
INVARIANTS Coherent FlightExact StoreIndexed
PROPERTIES HitsAreCurrent
