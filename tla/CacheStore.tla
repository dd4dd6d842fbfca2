----------------------------- MODULE CacheStore -----------------------------
(***************************************************************************)
(* The in-memory store behind QueryCache (cache.py): the entries with      *)
(* their recency order, and the three indexes (by table, by scope, and the *)
(* keys that follow links) that say what an invalidation removes.          *)
(*                                                                         *)
(* A store is a record; every operator here is one of the locked helpers   *)
(* of the code, as a function from the store it finds to the store it      *)
(* leaves.  The module has no variable: QueryCache.tla holds the store.    *)
(***************************************************************************)
EXTENDS Integers, FiniteSets

CONSTANTS
  Tables,       \* the tables the models map
  EdgeTables,   \* those of edge models: deleting a record deletes edges in them
  EDGES,        \* the pseudo-table every read of an edge table carries
  Requests,     \* the reads a program sends: a statement with its variables
  ReqTables,    \* the tables a request reads, its subqueries' included
  ReqLinks,     \* the requests that follow links (FETCH, a.b, ->)
  UserKeys,     \* the keys a program builds with make_key()
  MaxScopes     \* bound: the cache scopes ever minted

ASSUME StoreAssumption ==
  /\ EdgeTables \subseteq Tables
  /\ EDGES \notin Tables
  /\ ReqTables \in [Requests -> SUBSET Tables]
  /\ ReqLinks \subseteq Requests
  /\ MaxScopes \in Nat

Tags    == Tables \cup {EDGES}
Scopes  == 1 .. MaxScopes
NoScope == 0

(***************************************************************************)
(* The key of a read holds the scope of its client; the key of a program's *)
(* own entry holds none.  Hashing is injective on what it is given.        *)
(***************************************************************************)
Key == (Scopes \X Requests) \cup ({NoScope} \X UserKeys)

(* Mutant of TagsOf: a read of an edge table is not tagged with EDGES.      *)
TagsOf_NoEdges(q) == ReqTables[q]

(* What _run_cached() tags a read with, and what its result depends on.    *)
TagsOf(q) ==
  ReqTables[q] \cup (IF ReqTables[q] \cap EdgeTables = {} THEN {} ELSE {EDGES})

ReadsOf(q) == IF q \in ReqLinks THEN Tables ELSE ReqTables[q]

-----------------------------------------------------------------------------
EmptyStore ==
  [ entries |-> [k \in {} |-> {}],
    older   |-> {},                       \* <<a, b>>: a was used before b
    byTable |-> [t \in Tags |-> {}],
    byScope |-> [s \in Scopes |-> {}],
    links   |-> {} ]

Held(s) == DOMAIN s.entries

(* Mutant of RemoveKeys: the scope index keeps its line.                    *)
RemoveKeys_ScopeLine(s, K) ==
  LET gone == K \cap Held(s) IN
  [ s EXCEPT !.entries = [k \in Held(s) \ gone |-> s.entries[k]],
             !.older   = {p \in @ : p[1] \notin gone /\ p[2] \notin gone},
             !.byTable = [t \in Tags |-> @[t] \ {k \in gone : t \in s.entries[k].tags}],
             !.links   = @ \ gone ]

(* _remove() of every key of K: the entry and its line in each index.      *)
RemoveKeys(s, K) ==
  LET gone == K \cap Held(s) IN
  [ entries |-> [k \in Held(s) \ gone |-> s.entries[k]],
    older   |-> {p \in s.older : p[1] \notin gone /\ p[2] \notin gone},
    byTable |-> [t \in Tags |->
                   s.byTable[t] \ {k \in gone : t \in s.entries[k].tags}],
    byScope |-> [c \in Scopes |->
                   s.byScope[c] \ {k \in gone : s.entries[k].scope = c}],
    links   |-> s.links \ gone ]

Expired(s, now) == {k \in Held(s) : now >= s.entries[k].expiresAt}

(* The keys at least `limit' others were used after: what eviction drops.  *)
Oldest(s, limit) ==
  {k \in Held(s) : Cardinality({p \in s.older : p[1] = k}) >= limit}

(* Mutant of EvictTo: the expired entries do not go first.                  *)
EvictTo_AnyAge(s, limit, now) ==
  IF Cardinality(Held(s)) <= limit THEN s ELSE RemoveKeys(s, Oldest(s, limit))

(* _evict_to(): expired entries first, then the least recently used.       *)
EvictTo(s, limit, now) ==
  IF Cardinality(Held(s)) <= limit
    THEN s
    ELSE LET live == RemoveKeys(s, Expired(s, now))
         IN  RemoveKeys(live, Oldest(live, limit))

(* OrderedDict.move_to_end() of a hit.                                     *)
Touch(s, k) ==
  [ entries |-> s.entries,
    older   |-> {p \in s.older : k \notin {p[1], p[2]}}
                  \cup {<<j, k>> : j \in Held(s) \ {k}},
    byTable |-> s.byTable,
    byScope |-> s.byScope,
    links   |-> s.links ]

(* The bare insertion that ends _store(): newest last, one line per index. *)
Insert(s, k, e) ==
  [ entries |-> [j \in Held(s) \cup {k} |-> IF j = k THEN e ELSE s.entries[j]],
    older   |-> s.older \cup {<<j, k>> : j \in Held(s) \ {k}},
    byTable |-> [t \in Tags |->
                   s.byTable[t] \cup (IF t \in e.tags THEN {k} ELSE {})],
    byScope |-> [c \in Scopes |->
                   s.byScope[c] \cup (IF e.scope = c THEN {k} ELSE {})],
    links   |-> s.links \cup (IF e.links THEN {k} ELSE {}) ]

(* Mutant of Store: room is made for max_size entries besides the new one.  *)
Store_OffByOne(s, k, e, size, now) ==
  Insert(EvictTo(RemoveKeys(s, {k}), size, now), k, e)

(* _store(): the key's previous entry goes, room is made at max_size.      *)
Store(s, k, e, size, now) ==
  Insert(EvictTo(RemoveKeys(s, {k}), size - 1, now), k, e)

(* _invalidate_tables(): what it removes; the generations are QueryCache's. *)
RemoveTables(s, T) == RemoveKeys(s, (UNION {s.byTable[t] : t \in T}) \cup s.links)

(* _retire(), once for each of the scopes C.                               *)
RemoveScopes(s, C) == RemoveKeys(s, UNION {s.byScope[c] : c \in C})

-----------------------------------------------------------------------------
(***************************************************************************)
(* The indexes say exactly what the entries say: every removal trusts them *)
(* to find the entries a write makes stale or an identity leaves behind.   *)
(***************************************************************************)
IndexesExact(s) ==
  /\ \A t \in Tags : s.byTable[t] = {k \in Held(s) : t \in s.entries[k].tags}
  /\ \A c \in Scopes : s.byScope[c] = {k \in Held(s) : s.entries[k].scope = c}
  /\ s.links = {k \in Held(s) : s.entries[k].links}
=============================================================================
