-------------------------- MODULE QueryCacheProofs --------------------------
(***************************************************************************)
(* Theorems of QueryCache for every value of its constants: its types, the *)
(* proof that CoherenceInv is inductive, and what follows from it.  Then   *)
(* what the cache keeps and whom it serves it: the entries of a scope go   *)
(* with its client, a client serves only rows read as whoever its session  *)
(* runs as, and room is made at the expense of the expired, then of the    *)
(* least recently used.                                                    *)
(***************************************************************************)
EXTENDS QueryCache, TLAPS, FiniteSetTheorems

-----------------------------------------------------------------------------
(***************************************************************************)
(* The operators of CacheStore return stores.                              *)
(***************************************************************************)
(* Removing keys leaves a store (_remove()).                               *)
LEMMA RemoveKeysType ==
  ASSUME NEW s, IsStore(s), NEW K
  PROVE  IsStore(RemoveKeys(s, K))
BY DEF IsStore, RemoveKeys, Held

(* The empty store is one (_drop_all()).                                   *)
LEMMA EmptyStoreType == IsStore(EmptyStore)
BY DEF IsStore, EmptyStore, Held

(* Evicting leaves a store (_evict_to()).                                  *)
LEMMA EvictToType ==
  ASSUME NEW s, IsStore(s), NEW limit, NEW t
  PROVE  IsStore(EvictTo(s, limit, t))
BY RemoveKeysType DEF EvictTo

(* A hit leaves a store (move_to_end()).                                   *)
LEMMA TouchType ==
  ASSUME NEW s, IsStore(s), NEW k \in Key
  PROVE  IsStore(Touch(s, k))
BY DEF IsStore, Touch, Held

(* Inserting an entry leaves a store (_store()).                           *)
LEMMA InsertType ==
  ASSUME NEW s, IsStore(s), NEW k \in Key, NEW e \in EntryType
  PROVE  IsStore(Insert(s, k, e))
BY DEF IsStore, Insert, Held

LEMMA StoreType ==
  ASSUME NEW s, IsStore(s), NEW k \in Key, NEW e \in EntryType, NEW size, NEW t
  PROVE  IsStore(Store(s, k, e, size, t))
BY RemoveKeysType, EvictToType, InsertType DEF Store

-----------------------------------------------------------------------------
(***************************************************************************)
(* Type correctness.                                                       *)
(***************************************************************************)
LEMMA RemoveScopesType ==
  ASSUME NEW s, IsStore(s), NEW C
  PROVE  IsStore(RemoveScopes(s, C))
BY RemoveKeysType DEF RemoveScopes

LEMMA RemoveTablesType ==
  ASSUME NEW s, IsStore(s), NEW T
  PROVE  IsStore(RemoveTables(s, T))
BY RemoveKeysType DEF RemoveTables

LEMMA DrainedType == TypeOK => IsStore(Drained) /\ Live \subseteq Scopes
BY RemoveScopesType DEF TypeOK, Drained, Live

LEMMA RequestTypes ==
  ASSUME NEW q \in Requests
  PROVE  /\ TagsOf(q) \subseteq Tags
         /\ ReadsOf(q) \subseteq Tables
         /\ ReqTables[q] \subseteq Tables
         /\ (q \in ReqLinks) \in BOOLEAN
BY StoreAssumption DEF TagsOf, ReadsOf, Tags

LEMMA NoRowsType == NoRows \in RowsType
<1>1. [t \in {} |-> 0] \in [{} -> 0 .. MaxVersion]
  OBVIOUS
<1>2. [t \in {} |-> 0] \in Versions
  BY <1>1 DEF Versions
<1> QED
  BY <1>2 DEF NoRows, RowsType

LEMMA RowsInType ==
  ASSUME TypeOK, NEW i \in Idents \cup {NoIdent}, NEW T \in SUBSET Tables
  PROVE  Rows(i, T) \in RowsType
<1>1. [t \in T |-> ver[t]] \in [T -> 0 .. MaxVersion]
  BY DEF TypeOK
<1>2. [t \in T |-> ver[t]] \in Versions
  BY <1>1 DEF Versions
<1> QED
  BY <1>2 DEF Rows, RowsType

LEMMA IdleReaderType == IdleReader \in ReaderType
<1>1. (CHOOSE q \in Requests : TRUE) \in Requests /\ (CHOOSE l \in Loops : TRUE) \in Loops
  BY CacheAssumption
<1>2. NoTicket \in TicketType
  BY DEF NoTicket, TicketType
<1> QED
  BY <1>1, <1>2, NoRowsType DEF IdleReader, ReaderType, NoScope

LEMMA IdleWriterType == IdleWriter \in WriterType
BY DEF IdleWriter, WriterType

LEMMA InitType == Init => TypeOK
<1> SUFFICES ASSUME Init PROVE TypeOK
  OBVIOUS
<1> QED
  BY EmptyStoreType, IdleReaderType, IdleWriterType, CacheAssumption, StoreAssumption
  DEF Init, TypeOK, CountersTypeOK, NoScope

LEMMA ReaderStepType ==
  ASSUME TypeOK, NEW r \in Readers, ReadNext(r)
  PROVE  TypeOK'
<1> USE DEF counters, settings, sessions, database
<1>0. IsStore(Drained) /\ Live \subseteq Scopes
  BY DrainedType
<1>1. CASE AskScope(r)
  <2>1. PICK q \in Requests, l \in Loops, ttl \in Ttls :
          rd' = [rd EXCEPT ![r] = [IdleReader EXCEPT !.pc = "keyed", !.q = q, !.loop = l,
                                   !.ttl = ttl, !.scope = cell[l]]]
    BY <1>1 DEF AskScope
  <2>2. ttl \in Nat /\ cell[l] \in Scopes \cup {NoScope}
    BY CacheAssumption DEF TypeOK
  <2>3. [IdleReader EXCEPT !.pc = "keyed", !.q = q, !.loop = l, !.ttl = ttl,
                           !.scope = cell[l]] \in ReaderType
    BY <2>2, IdleReaderType DEF ReaderType
  <2>4. rd' \in [Readers -> ReaderType]
    BY <2>1, <2>3 DEF TypeOK
  <2> QED
    BY <1>0, <1>1, <2>4 DEF AskScope, TypeOK, CountersTypeOK, Locked
<1>2. CASE BeginBypass(r)
  BY <1>0, <1>2, IdleReaderType DEF BeginBypass, EndRead, TypeOK, CountersTypeOK, Locked
<1>3. CASE BeginHit(r)
  <2>1. ReadKey(r) \in Held(Drained)
    BY <1>3 DEF BeginHit, Answers, Fresh
  <2>2. ReadKey(r) \in Key /\ Drained.entries[ReadKey(r)].rows \in RowsType
    BY <2>1, <1>0 DEF IsStore, EntryType
  <2>3. IsStore(Touch(Drained, ReadKey(r)))
    BY <2>2, <1>0, TouchType
  <2>4. [rd[r] EXCEPT !.pc = "copying", !.rows = Drained.entries[ReadKey(r)].rows]
          \in ReaderType
    BY <2>2 DEF TypeOK, ReaderType
  <2>5. rd' \in [Readers -> ReaderType]
    BY <1>3, <2>4 DEF BeginHit, TypeOK
  <2> QED
    BY <1>0, <1>3, <2>3, <2>5 DEF BeginHit, TypeOK, CountersTypeOK, Locked
<1>4. CASE BeginMiss(r)
  <2>1. Ticket(TagsOf(rd[r].q)) \in TicketType
    BY DEF Ticket, TicketType, TypeOK, CountersTypeOK
  <2>2. IsStore(store')
    BY <1>0, <1>4, RemoveKeysType DEF BeginMiss, Locked
  <2>3. [rd[r] EXCEPT !.pc = "sent", !.ticket = Ticket(TagsOf(rd[r].q))] \in ReaderType
    BY <2>1 DEF TypeOK, ReaderType
  <2>4. rd' \in [Readers -> ReaderType]
    BY <1>4, <2>3 DEF BeginMiss, TypeOK
  <2> QED
    BY <1>0, <1>4, <2>2, <2>4 DEF BeginMiss, TypeOK, CountersTypeOK, Locked
<1>5. CASE CopyHit(r)
  <2>1. IsStore(store')
    BY <1>0, <1>5, RemoveKeysType DEF CopyHit, Locked
  <2> QED
    BY <1>0, <1>5, <2>1, IdleReaderType
    DEF CopyHit, EndRead, TypeOK, CountersTypeOK, Locked
<1>6. CASE Serve(r)
  <2>1. rd[r].q \in Requests /\ session[rd[r].loop] \in Idents
    BY DEF TypeOK, ReaderType
  <2>2. Rows(session[rd[r].loop], ReadsOf(rd[r].q)) \in RowsType
    BY <2>1, RowsInType, RequestTypes
  <2>3. [rd[r] EXCEPT !.pc = "answered",
                      !.rows = Rows(session[rd[r].loop], ReadsOf(rd[r].q))] \in ReaderType
    BY <2>2 DEF TypeOK, ReaderType
  <2>4. rd' \in [Readers -> ReaderType]
    BY <1>6, <2>3 DEF Serve, TypeOK
  <2> QED
    BY <1>6, <2>4 DEF Serve, TypeOK, CountersTypeOK
<1>7. CASE ReadRaises(r)
  BY <1>7, IdleReaderType DEF ReadRaises, EndRead, TypeOK, CountersTypeOK
<1>8. CASE FinishRead(r)
  <2>1. IsStore(store')
    <3>1. CASE MayStore(r)
      <4>1. ReadEntry(r) \in EntryType
        BY RequestTypes DEF ReadEntry, EntryType, TypeOK, ReaderType
      <4>2. rd[r].scope \in Scopes
        BY <3>1, <1>0 DEF MayStore
      <4>3. ReadKey(r) \in Key
        BY <4>2 DEF ReadKey, Key, TypeOK, ReaderType
      <4> QED
        BY <1>0, <1>8, <3>1, <4>1, <4>3, StoreType DEF FinishRead, Locked
    <3>2. CASE ~MayStore(r)
      BY <1>0, <1>8, <3>2 DEF FinishRead, Locked
    <3> QED
      BY <3>1, <3>2
  <2> QED
    BY <1>0, <1>8, <2>1, IdleReaderType
    DEF FinishRead, EndRead, TypeOK, CountersTypeOK, Locked
<1> QED
  BY <1>1, <1>2, <1>3, <1>4, <1>5, <1>6, <1>7, <1>8 DEF ReadNext

LEMMA WriterStepType ==
  ASSUME TypeOK, NEW w \in Writers, WriteNext(w)
  PROVE  TypeOK'
<1> USE DEF counters, settings, sessions, database
<1>0. IsStore(Drained) /\ Live \subseteq Scopes
  BY DrainedType
<1>1. ASSUME NEW all \in BOOLEAN, NEW tags \in SUBSET Tags, StartWrite(w, all, tags)
      PROVE  TypeOK'
  <2>1. PICK outer \in {{}} \cup {{v} \cup wr[v].outer : v \in {u \in Writers : InHandler(u)}} :
          wr' = [wr EXCEPT ![w] = [pc |-> "open", all |-> all, tags |-> tags,
                                   reached |-> FALSE, outer |-> outer]]
    BY <1>1 DEF StartWrite
  <2>2. outer \subseteq Writers
    BY <2>1 DEF TypeOK, WriterType
  <2>3. wr' \in [Writers -> WriterType]
    BY <2>1, <2>2, <1>1 DEF TypeOK, WriterType
  <2>4. flight' \in [Tags -> Nat] /\ flightAll' \in Nat
    BY <1>1 DEF StartWrite, TypeOK, CountersTypeOK
  <2> QED
    BY <1>0, <1>1, <2>3, <2>4 DEF StartWrite, TypeOK, CountersTypeOK, Locked
<1>2. CASE StartTables(w)
  BY <1>1, <1>2, CacheAssumption DEF StartTables
<1>3. CASE StartEvery(w)
  BY <1>1, <1>3 DEF StartEvery
<1>4. CASE Reach(w)
  <2>1. wr' \in [Writers -> WriterType]
    BY <1>4 DEF Reach, TypeOK, WriterType
  <2> QED
    BY <1>4, <2>1 DEF Reach, TypeOK, CountersTypeOK
<1>5. CASE Send(w)
  <2>1. wr' \in [Writers -> WriterType]
    BY <1>5 DEF Send, TypeOK, WriterType
  <2> QED
    BY <1>5, <2>1 DEF Send, TypeOK, CountersTypeOK
<1>6. CASE Apply(w)
  <2>1. wr' \in [Writers -> WriterType]
    BY <1>6 DEF Apply, TypeOK, WriterType
  <2>2. ver' \in [Tables -> 0 .. MaxVersion]
    BY <1>6, CacheAssumption DEF Apply, Bumped, TypeOK
  <2> QED
    BY <1>6, <2>1, <2>2 DEF Apply, TypeOK, CountersTypeOK
<1>7. CASE Answer(w)
  <2>1. wr' \in [Writers -> WriterType]
    BY <1>7 DEF Answer, TypeOK, WriterType
  <2> QED
    BY <1>7, <2>1 DEF Answer, TypeOK, CountersTypeOK
<1>8. ASSUME Landed(w)
      PROVE  flight' \in [Tags -> Nat] /\ flightAll' \in Nat
  BY <1>8 DEF Landed, TypeOK, CountersTypeOK
<1>9. CASE FinishWrite(w)
  <2>1. flight' \in [Tags -> Nat] /\ flightAll' \in Nat
    BY <1>8, <1>9 DEF FinishWrite
  <2>2. IsStore(store')
    BY <1>0, <1>9, EmptyStoreType, RemoveTablesType DEF FinishWrite, Locked
  <2>3. gen' \in [Tags -> Nat] /\ epoch' \in Nat /\ writes' \in Nat
    BY <1>9 DEF FinishWrite, NextGen, TypeOK, CountersTypeOK
  <2>4. wr' \in [Writers -> WriterType]
    BY <1>9, IdleWriterType DEF FinishWrite, TypeOK
  <2>5. live' \subseteq Scopes /\ retired' \subseteq Scopes /\ untracked' \subseteq Tables
    BY <1>0, <1>9 DEF FinishWrite, Locked, TypeOK
  <2> QED
    BY <1>9, <2>1, <2>2, <2>3, <2>4, <2>5 DEF FinishWrite, TypeOK, CountersTypeOK
<1>10. CASE WithdrawWrite(w)
  <2>1. flight' \in [Tags -> Nat] /\ flightAll' \in Nat
    BY <1>8, <1>10 DEF WithdrawWrite
  <2>2. wr' \in [Writers -> WriterType]
    BY <1>10, IdleWriterType DEF WithdrawWrite, TypeOK
  <2> QED
    BY <1>0, <1>10, <2>1, <2>2 DEF WithdrawWrite, TypeOK, CountersTypeOK, Locked
<1> QED
  BY <1>2, <1>3, <1>4, <1>5, <1>6, <1>7, <1>9, <1>10 DEF WriteNext

LEMMA ScopeStepType ==
  ASSUME TypeOK, NEW l \in Loops, ScopeNext(l)
  PROVE  TypeOK'
<1> USE DEF counters, settings, sessions, database
<1>1. ASSUME Mint(l)
      PROVE  /\ IsStore(store') /\ live' \subseteq Scopes /\ retired' \subseteq Scopes
             /\ minted' \in 0 .. MaxScopes /\ cell' \in [Loops -> Scopes \cup {NoScope}]
  <2>1. minted + 1 \in Scopes /\ minted' \in 0 .. MaxScopes
    BY <1>1, StoreAssumption DEF Mint, Scopes, TypeOK
  <2>2. IsStore(store')
    BY <1>1, DrainedType, RemoveScopesType DEF Mint, Locked
  <2> QED
    BY <1>1, <2>1, <2>2, DrainedType DEF Mint, Locked, TypeOK
<1>2. CASE OpenClient(l)
  BY <1>1, <1>2 DEF OpenClient, TypeOK, CountersTypeOK
<1>3. CASE SwitchIdentity(l)
  BY <1>3 DEF SwitchIdentity, TypeOK, CountersTypeOK
<1>4. CASE StampIdentity(l)
  <2>1. switching' \in [Loops -> Nat]
    BY <1>4 DEF StampIdentity, TypeOK
  <2> QED
    BY <1>1, <1>4, <2>1 DEF StampIdentity, TypeOK, CountersTypeOK
<1>5. CASE AbandonIdentity(l)
  <2>1. switching' \in [Loops -> Nat]
    BY <1>5 DEF AbandonIdentity, TypeOK
  <2> QED
    BY <1>5, <2>1 DEF AbandonIdentity, TypeOK, CountersTypeOK
<1>6. CASE RetireClient(l)
  <2>1. IsStore(store')
    BY <1>6, DrainedType, RemoveScopesType DEF RetireClient, Locked
  <2> QED
    BY <1>6, <2>1, DrainedType DEF RetireClient, Locked, TypeOK, CountersTypeOK
<1>7. CASE CollectClient(l)
  BY <1>7 DEF CollectClient, TypeOK, CountersTypeOK
<1> QED
  BY <1>2, <1>3, <1>4, <1>5, <1>6, <1>7 DEF ScopeNext

LEMMA CallStepType ==
  ASSUME TypeOK, CallNext
  PROVE  TypeOK'
<1> USE DEF counters, settings, sessions, database
<1>0. IsStore(Drained) /\ Live \subseteq Scopes
  BY DrainedType
<1>1. CASE Configure
  <2>1. IsStore(store') /\ maxSize' \in Nat \ {0} /\ enabled' \in BOOLEAN /\ epoch' \in Nat
    BY <1>0, <1>1, EvictToType, CacheAssumption
    DEF Configure, Locked, TypeOK, CountersTypeOK
  <2> QED
    BY <1>0, <1>1, <2>1 DEF Configure, Locked, TypeOK, CountersTypeOK
<1>2. ASSUME NEW u \in UserKeys, GetKey(u)
      PROVE  TypeOK'
  <2>1. <<NoScope, u>> \in Key
    BY DEF Key
  <2>2. IsStore(store')
    BY <1>0, <1>2, <2>1, RemoveKeysType, TouchType DEF GetKey, Locked
  <2> QED
    BY <1>0, <1>2, <2>2 DEF GetKey, Locked, TypeOK, CountersTypeOK
<1>3. ASSUME NEW u \in UserKeys, SetKey(u)
      PROVE  TypeOK'
  <2>1. <<NoScope, u>> \in Key
    BY DEF Key
  <2>2. IsStore(store')
    <3>1. CASE Locked(RemoveKeys(Drained, {<<NoScope, u>>}), Live)
      BY <1>0, <3>1, RemoveKeysType DEF Locked
    <3>2. ASSUME NEW t \in Tables, NEW ttl \in Ttls,
                 Locked(Store(Drained, <<NoScope, u>>, OwnEntry(t, ttl), maxSize, now), Live)
          PROVE  IsStore(store')
      <4>1. OwnEntry(t, ttl) \in EntryType
        BY NoRowsType, CacheAssumption DEF OwnEntry, EntryType, TypeOK, Tags
      <4> QED
        BY <1>0, <2>1, <3>2, <4>1, StoreType DEF Locked
    <3> QED
      BY <1>3, <3>1, <3>2 DEF SetKey
  <2> QED
    BY <1>0, <1>3, <2>2 DEF SetKey, Locked, TypeOK, CountersTypeOK
<1>4. ASSUME NEW t \in Tables, Invalidate(t)
      PROVE  TypeOK'
  <2>1. IsStore(store')
    BY <1>0, <1>4, RemoveTablesType DEF Invalidate, Locked
  <2>2. gen' \in [Tags -> Nat] /\ writes' \in Nat
    BY <1>4 DEF Invalidate, NextGen, TypeOK, CountersTypeOK
  <2> QED
    BY <1>0, <1>4, <2>1, <2>2 DEF Invalidate, Locked, TypeOK, CountersTypeOK
<1>5. ASSUME NEW t \in Tables, ForeignWrite(t)
      PROVE  TypeOK'
  <2>1. ver' \in [Tables -> 0 .. MaxVersion]
    BY <1>5, CacheAssumption DEF ForeignWrite, Bumped, TypeOK
  <2> QED
    BY <1>5, <2>1 DEF ForeignWrite, TypeOK, CountersTypeOK
<1>6. CASE Clear
  BY <1>0, <1>6, EmptyStoreType DEF Clear, Locked, TypeOK, CountersTypeOK
<1>7. CASE Stats
  BY <1>0, <1>7, RemoveKeysType DEF Stats, Locked, TypeOK, CountersTypeOK
<1>8. CASE Tick
  BY <1>8 DEF Tick, TypeOK, CountersTypeOK
<1> QED
  BY <1>1, <1>2, <1>3, <1>4, <1>5, <1>6, <1>7, <1>8 DEF CallNext

LEMMA StutterType == TypeOK /\ UNCHANGED vars => TypeOK'
BY DEF TypeOK, CountersTypeOK, vars, counters, settings, sessions, database

(* Every state of the cache, of the clients and of the tasks is well typed,*)
(* whatever the tasks interleave.                                          *)
THEOREM TypeCorrect == Spec => []TypeOK
<1>1. Init => TypeOK
  BY InitType
<1>2. TypeOK /\ [Next]_vars => TypeOK'
  BY ReaderStepType, WriterStepType, ScopeStepType, CallStepType, StutterType DEF Next
<1> QED
  BY <1>1, <1>2, PTL DEF Spec

-----------------------------------------------------------------------------
(***************************************************************************)
(* The operators of CacheStore keep the indexes exact, and all of them but *)
(* the insertion only take entries away.                                   *)
(***************************************************************************)
Shrinks(s, u) ==
  Held(u) \subseteq Held(s) /\ \A k \in Held(u) : u.entries[k] = s.entries[k]

LEMMA RemoveKeysExact ==
  ASSUME NEW s, IsStore(s), IndexesExact(s), NEW K
  PROVE  /\ IndexesExact(RemoveKeys(s, K))
         /\ Shrinks(s, RemoveKeys(s, K))
         /\ Held(RemoveKeys(s, K)) = Held(s) \ K
BY DEF IsStore, IndexesExact, RemoveKeys, Held, Shrinks

LEMMA EmptyStoreExact == IndexesExact(EmptyStore) /\ Held(EmptyStore) = {}
BY DEF IndexesExact, EmptyStore, Held

LEMMA TouchExact ==
  ASSUME NEW s, IsStore(s), IndexesExact(s), NEW k
  PROVE  IndexesExact(Touch(s, k)) /\ Shrinks(s, Touch(s, k))
BY DEF IsStore, IndexesExact, Touch, Held, Shrinks

LEMMA EvictToExact ==
  ASSUME NEW s, IsStore(s), IndexesExact(s), NEW limit, NEW t
  PROVE  IndexesExact(EvictTo(s, limit, t)) /\ Shrinks(s, EvictTo(s, limit, t))
<1> DEFINE fresh == RemoveKeys(s, Expired(s, t))
<1>1. IsStore(fresh) /\ IndexesExact(fresh) /\ Shrinks(s, fresh)
  BY RemoveKeysExact, RemoveKeysType
<1>2. /\ IndexesExact(RemoveKeys(fresh, Oldest(fresh, limit)))
      /\ Shrinks(fresh, RemoveKeys(fresh, Oldest(fresh, limit)))
  BY <1>1, RemoveKeysExact
<1>3. Shrinks(s, s)
  BY DEF Shrinks
<1> QED
  BY <1>1, <1>2, <1>3 DEF EvictTo, Shrinks

LEMMA InsertExact ==
  ASSUME NEW s, IsStore(s), IndexesExact(s), NEW k \in Key, k \notin Held(s),
         NEW e \in EntryType
  PROVE  /\ IndexesExact(Insert(s, k, e))
         /\ Held(Insert(s, k, e)) = Held(s) \cup {k}
         /\ Insert(s, k, e).entries[k] = e
         /\ \A j \in Held(s) : Insert(s, k, e).entries[j] = s.entries[j]
<1> DEFINE u == Insert(s, k, e)
<1>1. /\ Held(u) = Held(s) \cup {k}
      /\ u.entries[k] = e
      /\ \A j \in Held(s) : u.entries[j] = s.entries[j]
  BY DEF Insert, Held
<1>2. /\ u.byTable = [t \in Tags |-> s.byTable[t] \cup (IF t \in e.tags THEN {k} ELSE {})]
      /\ u.byScope = [c \in Scopes |-> s.byScope[c] \cup (IF e.scope = c THEN {k} ELSE {})]
      /\ u.links = s.links \cup (IF e.links THEN {k} ELSE {})
  BY DEF Insert
<1> HIDE DEF u
<1>3. \A t \in Tags : u.byTable[t] = {j \in Held(u) : t \in u.entries[j].tags}
  BY <1>1, <1>2 DEF IndexesExact
<1>4. \A c \in Scopes : u.byScope[c] = {j \in Held(u) : u.entries[j].scope = c}
  BY <1>1, <1>2 DEF IndexesExact
<1>5. u.links = {j \in Held(u) : u.entries[j].links}
  BY <1>1, <1>2 DEF IndexesExact
<1> QED
  BY <1>1, <1>3, <1>4, <1>5 DEF IndexesExact, u

(* A store adds its entry, and what it keeps was there and is unchanged.   *)
LEMMA StoreExact ==
  ASSUME NEW s, IsStore(s), IndexesExact(s), NEW k \in Key, NEW e \in EntryType,
         NEW size, NEW t
  PROVE  LET u == Store(s, k, e, size, t) IN
         /\ IndexesExact(u)
         /\ k \in Held(u) /\ u.entries[k] = e
         /\ \A j \in Held(u) \ {k} : j \in Held(s) /\ u.entries[j] = s.entries[j]
<1> DEFINE less == RemoveKeys(s, {k})
           room == EvictTo(less, size - 1, t)
<1>1. IsStore(less) /\ IndexesExact(less) /\ Shrinks(s, less) /\ k \notin Held(less)
  BY RemoveKeysExact, RemoveKeysType
<1>2. IsStore(room) /\ IndexesExact(room) /\ Shrinks(less, room)
  BY <1>1, EvictToExact, EvictToType
<1>3. k \notin Held(room) /\ Shrinks(s, room)
  BY <1>1, <1>2 DEF Shrinks
<1>4. /\ IndexesExact(Insert(room, k, e))
      /\ Held(Insert(room, k, e)) = Held(room) \cup {k}
      /\ Insert(room, k, e).entries[k] = e
      /\ \A j \in Held(room) : Insert(room, k, e).entries[j] = room.entries[j]
  BY <1>2, <1>3, InsertExact
<1> HIDE DEF less, room
<1>5. Store(s, k, e, size, t) = Insert(room, k, e)
  BY DEF Store, room, less
<1> QED
  BY <1>3, <1>4, <1>5 DEF Shrinks

(* What an invalidation leaves neither follows links nor carries its tags. *)
LEMMA RemoveTablesExact ==
  ASSUME NEW s, IsStore(s), IndexesExact(s), NEW T \in SUBSET Tags
  PROVE  LET u == RemoveTables(s, T) IN
         /\ IndexesExact(u) /\ Shrinks(s, u)
         /\ \A k \in Held(u) : ~u.entries[k].links /\ u.entries[k].tags \cap T = {}
<1> DEFINE K == (UNION {s.byTable[t] : t \in T}) \cup s.links
<1>1. /\ IndexesExact(RemoveKeys(s, K)) /\ Shrinks(s, RemoveKeys(s, K))
      /\ Held(RemoveKeys(s, K)) = Held(s) \ K
  BY RemoveKeysExact
<1>2. ASSUME NEW k \in Held(s), k \notin K
      PROVE  ~s.entries[k].links /\ s.entries[k].tags \cap T = {}
  <2>0. s.links \subseteq K /\ \A t \in T : s.byTable[t] \subseteq K
    OBVIOUS
  <2> HIDE DEF K
  <2>1. k \notin s.links /\ \A t \in T : k \notin s.byTable[t]
    BY <1>2, <2>0
  <2>2. ~s.entries[k].links
    BY <2>1, Zenon DEF IndexesExact
  <2>3. ASSUME NEW t \in T PROVE t \notin s.entries[k].tags
    BY <2>1 DEF IndexesExact
  <2> QED
    BY <2>2, <2>3
<1> HIDE DEF K
<1> QED
  BY <1>1, <1>2 DEF RemoveTables, Shrinks, K

LEMMA DrainedExact ==
  ASSUME TypeOK, StoreIndexed
  PROVE  IsStore(Drained) /\ IndexesExact(Drained) /\ Shrinks(store, Drained)
BY DrainedType, RemoveKeysExact DEF TypeOK, StoreIndexed, Drained, RemoveScopes

LEMMA ReadEntryType ==
  ASSUME TypeOK, NEW r \in Readers, MayStore(r)
  PROVE  ReadKey(r) \in Key /\ ReadEntry(r) \in EntryType /\ rd[r].scope \in Scopes
<1>1. rd[r].scope \in Scopes
  BY DrainedType DEF MayStore
<1> QED
  BY <1>1, RequestTypes DEF ReadKey, Key, ReadEntry, EntryType, TypeOK, ReaderType

LEMMA SetEntryType ==
  ASSUME TypeOK, NEW u \in UserKeys, NEW t \in Tables, NEW ttl \in Ttls
  PROVE  /\ <<NoScope, u>> \in Key
         /\ OwnEntry(t, ttl) \in EntryType
BY NoRowsType, CacheAssumption DEF Key, OwnEntry, EntryType, TypeOK, Tags

LEMMA ShrinksTwice ==
  ASSUME NEW a, NEW b, NEW c, Shrinks(a, b), Shrinks(b, c)
  PROVE  Shrinks(a, c)
BY DEF Shrinks

-----------------------------------------------------------------------------
(***************************************************************************)
(* The indexes stay exact.                                                 *)
(***************************************************************************)
LEMMA ReaderStepIndexed ==
  ASSUME TypeOK, StoreIndexed, NEW r \in Readers, ReadNext(r)
  PROVE  StoreIndexed'
<1>0. IsStore(Drained) /\ IndexesExact(Drained)
  BY DrainedExact
<1>1. CASE store' = store
  BY <1>1 DEF StoreIndexed
<1>2. CASE \E K : store' = RemoveKeys(Drained, K)
  BY <1>0, <1>2, RemoveKeysExact DEF StoreIndexed
<1>3. CASE store' = Drained
  BY <1>0, <1>3 DEF StoreIndexed
<1>4. CASE store' = Touch(Drained, ReadKey(r))
  BY <1>0, <1>4, TouchExact DEF StoreIndexed
<1>5. CASE FinishRead(r) /\ MayStore(r)
  <2>1. ReadKey(r) \in Key /\ ReadEntry(r) \in EntryType
    BY <1>5, ReadEntryType DEF FinishRead
  <2> QED
    BY <1>0, <1>5, <2>1, StoreExact DEF FinishRead, Locked, StoreIndexed
<1> QED
  BY <1>1, <1>2, <1>3, <1>4, <1>5
  DEF ReadNext, AskScope, BeginBypass, BeginHit, BeginMiss, CopyHit, Serve, ReadRaises,
      FinishRead, Locked

LEMMA OtherStepIndexed ==
  ASSUME TypeOK, StoreIndexed, [Next]_vars, \A r \in Readers : ~ReadNext(r)
  PROVE  StoreIndexed'
<1>0. IsStore(Drained) /\ IndexesExact(Drained)
  BY DrainedExact
<1>1. CASE store' \in {store, Drained, EmptyStore}
  BY <1>0, <1>1, EmptyStoreExact DEF StoreIndexed
<1>2. CASE \E K : store' = RemoveKeys(Drained, K)
  BY <1>0, <1>2, RemoveKeysExact DEF StoreIndexed
<1>3. CASE \E k : store' = Touch(Drained, k)
  BY <1>0, <1>3, TouchExact DEF StoreIndexed
<1>4. CASE \E n : store' = EvictTo(Drained, n, now)
  BY <1>0, <1>4, EvictToExact DEF StoreIndexed
<1>5. ASSUME NEW u \in UserKeys, SetKey(u)
      PROVE  StoreIndexed'
  <2>1. CASE store' = RemoveKeys(Drained, {<<NoScope, u>>})
    BY <1>2, <2>1
  <2>2. ASSUME NEW t \in Tables, NEW ttl \in Ttls,
               store' = Store(Drained, <<NoScope, u>>, OwnEntry(t, ttl), maxSize, now)
        PROVE  StoreIndexed'
    BY <1>0, <2>2, SetEntryType, StoreExact DEF StoreIndexed
  <2> QED
    BY <1>5, <2>1, <2>2 DEF SetKey, Locked
<1>6. ASSUME NEW w \in Writers, WriteNext(w)
      PROVE  store' \in {store, Drained, EmptyStore} \/ \E K : store' = RemoveKeys(Drained, K)
  BY <1>6 DEF WriteNext, StartTables, StartEvery, StartWrite, Reach, Send, Apply, Answer,
      FinishWrite, WithdrawWrite, Locked, RemoveTables
<1>7. ASSUME NEW l \in Loops, ScopeNext(l)
      PROVE  store' \in {store, Drained, EmptyStore} \/ \E K : store' = RemoveKeys(Drained, K)
  BY <1>7 DEF ScopeNext, OpenClient, SwitchIdentity, StampIdentity, AbandonIdentity,
      RetireClient, CollectClient, Mint, Locked, RemoveScopes
<1>8. CASE CallNext
  <2>1. CASE Configure
    BY <1>4, <2>1 DEF Configure, Locked
  <2>2. ASSUME NEW u \in UserKeys, GetKey(u)
        PROVE  StoreIndexed'
    BY <1>2, <1>3, <2>2 DEF GetKey, Locked
  <2>3. ASSUME NEW t \in Tables, Invalidate(t) \/ ForeignWrite(t)
        PROVE  StoreIndexed'
    BY <1>1, <1>2, <2>3 DEF Invalidate, ForeignWrite, Locked, RemoveTables
  <2>4. CASE Clear \/ Stats \/ Tick
    BY <1>1, <1>2, <2>4 DEF Clear, Stats, Tick, Locked
  <2> QED
    BY <1>5, <1>8, <2>1, <2>2, <2>3, <2>4 DEF CallNext
<1> QED
  BY <1>1, <1>2, <1>6, <1>7, <1>8 DEF Next, vars

-----------------------------------------------------------------------------
(***************************************************************************)
(* The in-flight counts stay exact.                                        *)
(***************************************************************************)
EveryWriters == {w \in Writers : Open(w) /\ wr[w].all}

LEMMA WritersFinite ==
  /\ IsFiniteSet(EveryWriters)
  /\ \A t : IsFiniteSet(WritersOf(t))
<1>1. IsFiniteSet(Writers)
  BY CacheAssumption
<1> QED
  BY <1>1, FS_Subset DEF EveryWriters, WritersOf

(* Only the start and the end of a write change who is in flight.          *)
LEMMA FlightKept ==
  ASSUME FlightExact, UNCHANGED <<flight, flightAll>>,
         \A w \in Writers : /\ Open(w)' = Open(w)
                            /\ wr'[w].all = wr[w].all /\ wr'[w].tags = wr[w].tags
  PROVE  FlightExact'
<1>1. \A t : WritersOf(t)' = WritersOf(t)
  BY DEF WritersOf
<1>2. EveryWriters' = EveryWriters
  BY DEF EveryWriters
<1> QED
  BY <1>1, <1>2 DEF FlightExact, EveryWriters

LEMMA StartFlight ==
  ASSUME TypeOK, FlightExact, NEW w \in Writers, NEW all \in BOOLEAN,
         NEW tags \in SUBSET Tags, StartWrite(w, all, tags)
  PROVE  FlightExact'
<1>1. /\ ~Open(w) /\ Open(w)' /\ wr'[w].all = all /\ wr'[w].tags = tags
      /\ \A v \in Writers \ {w} : wr'[v] = wr[v]
  BY DEF StartWrite, Open, TypeOK
<1>2. \A t : WritersOf(t)' = IF ~all /\ t \in tags THEN WritersOf(t) \cup {w} ELSE WritersOf(t)
  BY <1>1 DEF WritersOf, Open
<1>3. EveryWriters' = IF all THEN EveryWriters \cup {w} ELSE EveryWriters
  BY <1>1 DEF EveryWriters, Open
<1>4. w \notin EveryWriters /\ \A t : w \notin WritersOf(t)
  BY <1>1 DEF EveryWriters, WritersOf
<1>5. /\ Cardinality(EveryWriters') = Cardinality(EveryWriters) + (IF all THEN 1 ELSE 0)
      /\ \A t : Cardinality(WritersOf(t)')
                  = Cardinality(WritersOf(t)) + (IF ~all /\ t \in tags THEN 1 ELSE 0)
  BY <1>2, <1>3, <1>4, WritersFinite, FS_AddElement, FS_CardinalityType
<1>6. flightAll' = flightAll + (IF all THEN 1 ELSE 0)
  BY DEF StartWrite, TypeOK, CountersTypeOK
<1>7. \A t \in Tags : flight'[t] = flight[t] + (IF ~all /\ t \in tags THEN 1 ELSE 0)
  BY DEF StartWrite, TypeOK, CountersTypeOK
<1> QED
  BY <1>5, <1>6, <1>7 DEF FlightExact, EveryWriters

LEMMA EndFlight ==
  ASSUME TypeOK, FlightExact, NEW w \in Writers, Open(w), Landed(w),
         wr' = [wr EXCEPT ![w] = IdleWriter]
  PROVE  FlightExact'
<1>1. /\ ~Open(w)'
      /\ \A v \in Writers \ {w} : wr'[v] = wr[v]
  BY DEF IdleWriter, Open, TypeOK
<1>2. EveryWriters' = EveryWriters \ {w} /\ \A t : WritersOf(t)' = WritersOf(t) \ {w}
  BY <1>1 DEF EveryWriters, WritersOf, Open
<1>3. /\ w \in EveryWriters <=> wr[w].all
      /\ \A t : w \in WritersOf(t) <=> ~wr[w].all /\ t \in wr[w].tags
  BY DEF EveryWriters, WritersOf
<1>4. /\ Cardinality(EveryWriters')
           = Cardinality(EveryWriters) - (IF wr[w].all THEN 1 ELSE 0)
      /\ \A t : Cardinality(WritersOf(t)')
           = Cardinality(WritersOf(t)) - (IF ~wr[w].all /\ t \in wr[w].tags THEN 1 ELSE 0)
  BY <1>2, <1>3, WritersFinite, FS_RemoveElement, FS_CardinalityType
<1>5. /\ wr[w].all => Cardinality(EveryWriters) > 0
      /\ \A t : ~wr[w].all /\ t \in wr[w].tags => Cardinality(WritersOf(t)) > 0
  BY <1>3, WritersFinite, FS_EmptySet, FS_CardinalityType
<1>6. wr[w].all \in BOOLEAN
  BY DEF TypeOK, WriterType
<1>7. flightAll' = flightAll - (IF wr[w].all THEN 1 ELSE 0)
  BY <1>5, <1>6 DEF Landed, FlightExact, EveryWriters, TypeOK, CountersTypeOK
<1>8. \A t \in Tags :
        flight'[t] = flight[t] - (IF ~wr[w].all /\ t \in wr[w].tags THEN 1 ELSE 0)
  BY <1>5, <1>6 DEF Landed, FlightExact, TypeOK, CountersTypeOK
<1> QED
  BY <1>4, <1>7, <1>8 DEF FlightExact, EveryWriters

(* get_client() only marks (reaching()).                                   *)
LEMMA ReachMarks ==
  ASSUME TypeOK, NEW w \in Writers, Reach(w), NEW v \in Writers
  PROVE  /\ wr'[v].pc = wr[v].pc /\ wr'[v].all = wr[v].all
         /\ wr'[v].tags = wr[v].tags
         /\ wr[v].reached => wr'[v].reached
<1>1. wr[v] \in WriterType
  BY DEF TypeOK
<1>2. wr'[v] = wr[v] \/ wr'[v] = [wr[v] EXCEPT !.reached = TRUE]
  BY DEF Reach
<1>3. CASE wr'[v] = wr[v]
  BY <1>3
<1>4. CASE wr'[v] = [wr[v] EXCEPT !.reached = TRUE]
  BY <1>1, <1>4 DEF WriterType
<1> QED
  BY <1>2, <1>3, <1>4

LEMMA WritersStep ==
  ASSUME TypeOK, FlightExact, SentIsReached, [Next]_vars
  PROVE  FlightExact' /\ SentIsReached'
<1> USE DEF counters, settings, sessions, database
<1>1. CASE UNCHANGED <<wr, flight, flightAll>>
  <2>1. \A w \in Writers : Open(w)' = Open(w)
    BY <1>1 DEF Open
  <2> QED
    BY <1>1, <2>1, FlightKept DEF SentIsReached
<1>2. ASSUME NEW w \in Writers, NEW all \in BOOLEAN, NEW tags \in SUBSET Tags,
             all \/ tags # {}, StartWrite(w, all, tags)
      PROVE  FlightExact' /\ SentIsReached'
  <2>1. FlightExact'
    BY <1>2, StartFlight
  <2>2. /\ wr'[w].pc = "open" /\ wr'[w].all = all /\ wr'[w].tags = tags
        /\ \A v \in Writers \ {w} : wr'[v] = wr[v]
    BY <1>2 DEF StartWrite, TypeOK
  <2> QED
    BY <1>2, <2>1, <2>2 DEF SentIsReached
<1>3. ASSUME NEW w \in Writers, Reach(w) \/ Send(w) \/ Apply(w) \/ Answer(w)
      PROVE  FlightExact' /\ SentIsReached'
  <2>1. \A v \in Writers : /\ wr'[v].all = wr[v].all /\ wr'[v].tags = wr[v].tags
                           /\ wr'[v].pc = "idle" <=> wr[v].pc = "idle"
                           /\ wr[v].reached => wr'[v].reached
    <3>1. CASE Reach(w)
      BY <3>1, ReachMarks
    <3>2. CASE Send(w) \/ Apply(w) \/ Answer(w)
      <4>1. PICK pc \in {"open", "sent", "applied", "post"} : wr' = [wr EXCEPT ![w].pc = pc]
        BY <3>2 DEF Send, Apply, Answer
      <4>2. wr[w].pc # "idle"
        BY <3>2 DEF Send, Apply, Answer
      <4> QED
        BY <4>1, <4>2 DEF TypeOK, WriterType
    <3> QED
      BY <1>3, <3>1, <3>2
  <2>2. \A v \in Writers : wr'[v].pc \in {"sent", "applied", "post"} => wr'[v].reached
    <3>1. \A v \in Writers \ {w} : wr'[v].pc = wr[v].pc
      BY <1>3 DEF Reach, Send, Apply, Answer, TypeOK, WriterType
    <3>2. wr[w].reached \/ wr'[w].pc = "open"
      BY <1>3 DEF Reach, Send, Apply, Answer, TypeOK, WriterType, SentIsReached
    <3> QED
      BY <2>1, <3>1, <3>2 DEF SentIsReached
  <2>3. UNCHANGED <<flight, flightAll>>
    BY <1>3 DEF Reach, Send, Apply, Answer
  <2>4. \A v \in Writers : Open(v)' = Open(v)
    BY <2>1 DEF Open
  <2>5. FlightExact'
    BY <2>1, <2>3, <2>4, FlightKept
  <2> QED
    BY <2>1, <2>2, <2>5 DEF SentIsReached
<1>4. ASSUME NEW w \in Writers, FinishWrite(w) \/ WithdrawWrite(w)
      PROVE  FlightExact' /\ SentIsReached'
  <2>1. Open(w) /\ Landed(w) /\ wr' = [wr EXCEPT ![w] = IdleWriter]
    BY <1>4 DEF FinishWrite, WithdrawWrite
  <2>2. FlightExact'
    BY <2>1, EndFlight
  <2>3. \A v \in Writers : wr'[v] = IF v = w THEN IdleWriter ELSE wr[v]
    BY <2>1 DEF TypeOK
  <2> QED
    BY <2>2, <2>3 DEF SentIsReached, IdleWriter
<1>5. ASSUME NEW w \in Writers, WriteNext(w)
      PROVE  FlightExact' /\ SentIsReached'
  BY <1>2, <1>3, <1>4, <1>5, CacheAssumption DEF WriteNext, StartTables, StartEvery
<1>6. ASSUME NEW r \in Readers, ReadNext(r)
      PROVE  UNCHANGED <<wr, flight, flightAll>>
  BY <1>6 DEF ReadNext, AskScope, BeginBypass, BeginHit, BeginMiss, CopyHit, Serve,
      ReadRaises, FinishRead
<1>7. ASSUME NEW l \in Loops, ScopeNext(l)
      PROVE  UNCHANGED <<wr, flight, flightAll>>
  BY <1>7 DEF ScopeNext, OpenClient, SwitchIdentity, StampIdentity, AbandonIdentity,
      RetireClient, CollectClient
<1>8. CASE CallNext
  BY <1>1, <1>8 DEF CallNext, Configure, GetKey, SetKey, Invalidate, ForeignWrite, Clear,
      Stats, Tick
<1> QED
  BY <1>1, <1>5, <1>6, <1>7, <1>8 DEF Next, vars

-----------------------------------------------------------------------------
(***************************************************************************)
(* Entries and tickets stay sound.                                         *)
(***************************************************************************)
(* What was sound about table t is sound after the step.                   *)
Keeps(t) ==
  /\ ver'[t] = ver[t] \/ t \in untracked' \/ Dirty(t)'
  /\ t \in untracked => t \in untracked'
  /\ Dirty(t) => Dirty(t)'

SoundNext(rows) ==
  \A t \in DOMAIN rows.ver : rows.ver[t] = ver'[t] \/ t \in untracked' \/ Dirty(t)'

LEMMA SoundStays ==
  ASSUME NEW rows, Sound(rows), \A t \in DOMAIN rows.ver : Keeps(t)
  PROVE  SoundNext(rows)
BY DEF Sound, SoundNext, Keeps

(* The steps that neither end a write nor invalidate keep everything.      *)
LEMMA QuietKeeps ==
  ASSUME UNCHANGED <<ver, untracked, wr>>
  PROVE  \A t : Keeps(t)
BY DEF Keeps, Dirty, Open, Affects

LEMMA WriterKeeps ==
  ASSUME TypeOK, SentIsReached, NEW w \in Writers, WriteNext(w), ~FinishWrite(w)
  PROVE  \A t \in Tables : Keeps(t)
<1> USE DEF counters, settings, sessions, database
<1>1. ASSUME NEW all, NEW tags, StartWrite(w, all, tags)
      PROVE  \A t : Keeps(t)
  <2>1. UNCHANGED <<ver, untracked>> /\ ~Open(w) /\ \A v \in Writers \ {w} : wr'[v] = wr[v]
    BY <1>1 DEF StartWrite, Open, TypeOK
  <2> QED
    BY <2>1 DEF Keeps, Dirty, Open, Affects
<1>2. CASE Reach(w)
  <2>1. UNCHANGED <<ver, untracked>>
    BY <1>2 DEF Reach
  <2> QED
    BY <1>2, <2>1, ReachMarks DEF Keeps, Dirty, Open, Affects
<1>3. CASE Send(w) \/ Apply(w) \/ Answer(w)
  <2>1. PICK pc \in {"open", "sent", "applied", "post"} : wr' = [wr EXCEPT ![w].pc = pc]
    BY <1>3 DEF Send, Apply, Answer
  <2>2. wr[w].pc # "idle"
    BY <1>3 DEF Send, Apply, Answer
  <2>3. ASSUME NEW v \in Writers
        PROVE  /\ wr'[v].pc = "idle" <=> wr[v].pc = "idle"
               /\ wr'[v].all = wr[v].all /\ wr'[v].tags = wr[v].tags
               /\ wr'[v].reached = wr[v].reached
    BY <2>1, <2>2 DEF TypeOK, WriterType
  <2>4. \A t : Dirty(t) => Dirty(t)'
    BY <2>3 DEF Dirty, Open, Affects
  <2>5. UNCHANGED untracked
    BY <1>3 DEF Send, Apply, Answer
  <2>6. ASSUME NEW t \in Tables PROVE ver'[t] = ver[t] \/ Dirty(t)'
    <3>1. CASE Send(w) \/ Answer(w)
      BY <3>1 DEF Send, Answer
    <3>2. CASE Apply(w)
      <4>1. CASE t \in Affects(w)
        <5>1. Open(w) /\ wr[w].reached
          BY <3>2 DEF Apply, Open, SentIsReached
        <5> QED
          BY <2>4, <4>1, <5>1 DEF Dirty
      <4>2. CASE t \notin Affects(w)
        BY <3>2, <4>2 DEF Apply, Bumped, TypeOK
      <4> QED
        BY <4>1, <4>2
    <3> QED
      BY <1>3, <3>1, <3>2
  <2> QED
    BY <2>4, <2>5, <2>6 DEF Keeps
<1>4. CASE WithdrawWrite(w)
  <2>1. UNCHANGED <<ver, untracked>> /\ ~wr[w].reached
    BY <1>4 DEF WithdrawWrite
  <2>2. \A v \in Writers \ {w} : wr'[v] = wr[v]
    BY <1>4 DEF WithdrawWrite, TypeOK
  <2> QED
    BY <2>1, <2>2 DEF Keeps, Dirty, Open, Affects
<1> QED
  BY <1>1, <1>2, <1>3, <1>4 DEF WriteNext, StartTables, StartEvery

LEMMA ForeignKeeps ==
  ASSUME TypeOK, NEW f \in Tables, ForeignWrite(f)
  PROVE  \A t \in Tables : Keeps(t)
<1>1. untracked' = untracked \cup {f} /\ wr' = wr
  BY DEF ForeignWrite
<1>2. \A t \in Tables \ {f} : ver'[t] = ver[t]
  BY DEF ForeignWrite, Bumped, TypeOK
<1> QED
  BY <1>1, <1>2 DEF Keeps, Dirty, Open, Affects

(* A write that shares no tag with a read that follows no link changes no  *)
(* table that read depends on.                                             *)
LEMMA Unrelated ==
  ASSUME TypeOK, NEW q \in Requests, q \notin ReqLinks, NEW w \in Writers,
         ~wr[w].all, wr[w].tags \cap TagsOf(q) = {}
  PROVE  Affects(w) \cap ReadsOf(q) = {}
BY StoreAssumption DEF Affects, ReadsOf, TagsOf, Tags

(* The end of another write keeps what it does not affect.                 *)
LEMMA FinishKeeps ==
  ASSUME TypeOK, NEW w \in Writers, FinishWrite(w), NEW t, t \notin Affects(w)
  PROVE  Keeps(t)
<1>1. UNCHANGED ver /\ untracked' = untracked \ Affects(w)
  BY DEF FinishWrite
<1>2. \A v \in Writers \ {w} : wr'[v] = wr[v]
  BY DEF FinishWrite, TypeOK
<1> QED
  BY <1>1, <1>2 DEF Keeps, Dirty, Open, Affects

LEMMA InvalidateKeeps ==
  ASSUME TypeOK, NEW f \in Tables, Invalidate(f), NEW t, t # f
  PROVE  Keeps(t)
<1>1. UNCHANGED <<ver, wr>> /\ untracked' = untracked \ {f}
  BY DEF Invalidate, database
<1> QED
  BY <1>1 DEF Keeps, Dirty, Open, Affects

(* An entry that is kept stays sound.                                      *)
LEMMA EntriesStay ==
  ASSUME TypeOK, EntriesSound, Shrinks(store, store'),
         \A k \in Held(store') : \A t \in DOMAIN store.entries[k].rows.ver : Keeps(t)
  PROVE  EntriesSound'
<1>1. ASSUME NEW k \in Held(store')
      PROVE  /\ Matches(k, store'.entries[k])
             /\ SoundNext(store'.entries[k].rows)
  <2>1. k \in Held(store) /\ store'.entries[k] = store.entries[k]
    BY DEF Shrinks
  <2>2. Matches(k, store.entries[k]) /\ Sound(store.entries[k].rows)
    BY <2>1 DEF EntriesSound
  <2> QED
    BY <2>1, <2>2, SoundStays
<1> QED
  BY <1>1 DEF EntriesSound, Sound, SoundNext, Matches, Held

(* An entry's tables are tables.                                           *)
LEMMA EntryTables ==
  ASSUME TypeOK, NEW k \in Held(store)
  PROVE  DOMAIN store.entries[k].rows.ver \subseteq Tables
BY DEF TypeOK, IsStore, EntryType, RowsType, Versions

(* A ticket that still holds after the step held before it.                *)
CountersGrow ==
  epoch <= epoch' /\ writes <= writes' /\ \A t \in Tags : gen[t] <= gen'[t]

LEMMA UnmovedBefore ==
  ASSUME TypeOK, TypeOK', TicketsSound, CountersGrow, NEW r \in Readers,
         rd'[r] = rd[r], rd[r].pc = "answered", Unmoved(r)'
  PROVE  /\ Unmoved(r)
         /\ epoch' = epoch
         /\ \A t \in TagsOf(rd[r].q) : gen'[t] = gen[t]
         /\ rd[r].q \in ReqLinks => writes' = writes
<1>1. TagsOf(rd[r].q) \subseteq Tags
  BY RequestTypes DEF TypeOK, ReaderType
<1>2. /\ epoch \in Nat /\ epoch' \in Nat /\ writes \in Nat /\ writes' \in Nat
      /\ \A t \in Tags : gen[t] \in Nat /\ gen'[t] \in Nat
      /\ rd[r].ticket.epoch \in Nat /\ rd[r].ticket.writes \in Nat
      /\ \A t \in Tags : rd[r].ticket.gens[t] \in Nat
  BY DEF TypeOK, CountersTypeOK, ReaderType, TicketType
<1>3. /\ rd[r].ticket.epoch <= epoch /\ rd[r].ticket.writes <= writes
      /\ \A t \in TagsOf(rd[r].q) : rd[r].ticket.gens[t] <= gen[t]
  BY DEF TicketsSound
<1>4. /\ rd[r].ticket.epoch = epoch'
      /\ \A t \in TagsOf(rd[r].q) : rd[r].ticket.gens[t] = gen'[t]
      /\ rd[r].q \in ReqLinks => rd[r].ticket.writes = writes'
  BY DEF Unmoved
<1> QED
  BY <1>1, <1>2, <1>3, <1>4 DEF CountersGrow, Unmoved

(* The tickets of the readers that do not move.                            *)
TicketNext(r) ==
  /\ rd'[r].pc \in {"sent", "answered"} =>
       /\ rd'[r].ticket.epoch <= epoch' /\ rd'[r].ticket.writes <= writes'
       /\ \A t \in TagsOf(rd'[r].q) : rd'[r].ticket.gens[t] <= gen'[t]
  /\ rd'[r].pc = "answered" =>
       /\ DOMAIN rd'[r].rows.ver = ReadsOf(rd'[r].q)
       /\ Unmoved(r)' => SoundNext(rd'[r].rows)

LEMMA TicketStays ==
  ASSUME TypeOK, TypeOK', TicketsSound, CountersGrow, NEW r \in Readers, rd'[r] = rd[r],
         rd[r].pc = "answered" /\ Unmoved(r)' => \A t \in ReadsOf(rd[r].q) : Keeps(t)
  PROVE  TicketNext(r)
<1>1. TagsOf(rd[r].q) \subseteq Tags
  BY RequestTypes DEF TypeOK, ReaderType
<1>2. /\ epoch \in Nat /\ epoch' \in Nat /\ writes \in Nat /\ writes' \in Nat
      /\ \A t \in Tags : gen[t] \in Nat /\ gen'[t] \in Nat
      /\ rd[r].ticket.epoch \in Nat /\ rd[r].ticket.writes \in Nat
      /\ \A t \in Tags : rd[r].ticket.gens[t] \in Nat
  BY DEF TypeOK, CountersTypeOK, ReaderType, TicketType
<1>3. rd[r].pc \in {"sent", "answered"} =>
        /\ rd[r].ticket.epoch <= epoch' /\ rd[r].ticket.writes <= writes'
        /\ \A t \in TagsOf(rd[r].q) : rd[r].ticket.gens[t] <= gen'[t]
  BY <1>1, <1>2 DEF TicketsSound, CountersGrow
<1>4. ASSUME rd[r].pc = "answered", Unmoved(r)'
      PROVE  SoundNext(rd[r].rows)
  BY <1>4, UnmovedBefore, SoundStays DEF TicketsSound
<1> QED
  BY <1>3, <1>4 DEF TicketNext, TicketsSound

LEMMA TicketsNext ==
  ASSUME \A r \in Readers : TicketNext(r)
  PROVE  TicketsSound'
BY DEF TicketsSound, TicketNext, Sound, SoundNext

-----------------------------------------------------------------------------
(***************************************************************************)
(* ... action by action.                                                   *)
(***************************************************************************)
LEMMA IdlePc == IdleReader.pc = "idle"
BY DEF IdleReader

(* A step that keeps every table and only takes entries away.              *)
LEMMA QuietStep ==
  ASSUME TypeOK, TypeOK', EntriesSound, TicketsSound, Shrinks(store, store'),
         CountersGrow, UNCHANGED rd, \A t \in Tables : Keeps(t)
  PROVE  EntriesSound' /\ TicketsSound'
<1>0. \A k \in Held(store') : \A t \in DOMAIN store.entries[k].rows.ver : Keeps(t)
  BY EntryTables DEF Shrinks
<1>1. EntriesSound'
  BY <1>0, EntriesStay
<1>2. \A r \in Readers : ReadsOf(rd[r].q) \subseteq Tables
  BY RequestTypes DEF TypeOK, ReaderType
<1>3. \A r \in Readers : TicketNext(r)
  BY <1>2, TicketStays
<1> QED
  BY <1>1, <1>3, TicketsNext

LEMMA CountersStay ==
  ASSUME TypeOK, UNCHANGED <<gen, epoch, writes>>
  PROVE  CountersGrow
BY DEF CountersGrow, TypeOK, CountersTypeOK

LEMMA ReaderStepSound ==
  ASSUME TypeOK, TypeOK', StoreIndexed, EntriesSound, TicketsSound,
         NEW r \in Readers, ReadNext(r)
  PROVE  EntriesSound' /\ TicketsSound'
<1> USE DEF counters, settings, sessions, database
<1>0. IsStore(Drained) /\ IndexesExact(Drained) /\ Shrinks(store, Drained)
  BY DrainedExact
<1>1. /\ UNCHANGED <<ver, untracked, wr, gen, epoch, writes>>
      /\ \A p \in Readers \ {r} : rd'[p] = rd[p]
  BY DEF ReadNext, AskScope, BeginBypass, BeginHit, BeginMiss, CopyHit, Serve, ReadRaises,
         FinishRead, EndRead, TypeOK
<1>2. CountersGrow /\ \A t : Keeps(t)
  BY <1>1, CountersStay, QuietKeeps
<1>3. \A p \in Readers \ {r} : TicketNext(p)
  BY <1>1, <1>2, TicketStays
<1>4. rd[r] \in ReaderType /\ TagsOf(rd[r].q) \subseteq Tags /\ ReadsOf(rd[r].q) \subseteq Tables
  BY RequestTypes DEF TypeOK, ReaderType
<1>5. TicketNext(r)
  <2>1. CASE rd'[r].pc \notin {"sent", "answered"}
    BY <2>1 DEF TicketNext
  <2>2. CASE BeginMiss(r)
    <3>1. rd'[r].pc = "sent" /\ rd'[r].q = rd[r].q /\ rd'[r].ticket = Ticket(TagsOf(rd[r].q))
      BY <1>4, <2>2 DEF BeginMiss, TypeOK, ReaderType
    <3>2. /\ \A t \in TagsOf(rd[r].q) : gen[t] \in Nat
          /\ epoch \in Nat /\ writes \in Nat
      BY <1>4 DEF TypeOK, CountersTypeOK
    <3> QED
      BY <1>1, <1>4, <3>1, <3>2 DEF TicketNext, Ticket
  <2>3. CASE Serve(r)
    <3>1. /\ rd[r].pc = "sent" /\ rd'[r].q = rd[r].q /\ rd'[r].ticket = rd[r].ticket
          /\ rd'[r].rows = Rows(session[rd[r].loop], ReadsOf(rd[r].q))
      BY <1>4, <2>3 DEF Serve, TypeOK, ReaderType
    <3>2. /\ DOMAIN rd'[r].rows.ver = ReadsOf(rd[r].q)
          /\ \A t \in ReadsOf(rd[r].q) : rd'[r].rows.ver[t] = ver[t]
      BY <3>1 DEF Rows
    <3> QED
      BY <1>1, <3>1, <3>2 DEF TicketNext, TicketsSound, SoundNext
  <2>4. CASE BeginBypass(r) \/ CopyHit(r) \/ ReadRaises(r) \/ FinishRead(r)
    BY <2>1, <2>4, IdlePc DEF BeginBypass, CopyHit, ReadRaises, FinishRead, EndRead, TypeOK
  <2>5. CASE AskScope(r)
    <3>1. rd'[r].pc = "keyed"
      BY <2>5, IdleReaderType DEF AskScope, TypeOK, ReaderType
    <3> QED
      BY <2>1, <3>1
  <2>6. CASE BeginHit(r)
    <3>1. rd'[r].pc = "copying"
      BY <1>4, <2>6 DEF BeginHit, TypeOK, ReaderType
    <3> QED
      BY <2>1, <3>1
  <2> QED
    BY <2>2, <2>3, <2>4, <2>5, <2>6 DEF ReadNext
<1>6. TicketsSound'
  BY <1>3, <1>5, TicketsNext
<1>7. CASE Shrinks(store, store')
  BY <1>2, <1>6, <1>7, EntriesStay
<1>8. CASE FinishRead(r) /\ MayStore(r)
  <2>1. /\ ReadKey(r) \in Key /\ ReadEntry(r) \in EntryType
        /\ store' = Store(Drained, ReadKey(r), ReadEntry(r), maxSize, now)
        /\ rd[r].pc = "answered" /\ rd[r].scope \in Scopes
    BY <1>8, ReadEntryType DEF FinishRead, Locked
  <2>2. /\ store'.entries[ReadKey(r)] = ReadEntry(r)
        /\ \A k \in Held(store') \ {ReadKey(r)} :
             k \in Held(store) /\ store'.entries[k] = store.entries[k]
    BY <1>0, <2>1, StoreExact DEF Shrinks
  <2>3. Matches(ReadKey(r), ReadEntry(r))
    BY <2>1 DEF Matches, ReadKey, ReadEntry, TicketsSound, Scopes, NoScope
  <2>4. SoundNext(ReadEntry(r).rows)
    BY <1>2, <1>8, <2>1, SoundStays DEF MayStore, TicketsSound, ReadEntry
  <2>5. ASSUME NEW k \in Held(store'), k # ReadKey(r)
        PROVE  Matches(k, store'.entries[k]) /\ SoundNext(store'.entries[k].rows)
    BY <1>2, <2>2, <2>5, SoundStays DEF EntriesSound
  <2>6. EntriesSound'
    BY <2>2, <2>3, <2>4, <2>5 DEF EntriesSound, Sound, SoundNext, Matches, Held
  <2> QED
    BY <1>6, <2>6
<1>9. Shrinks(store, store') \/ (FinishRead(r) /\ MayStore(r))
  <2>1. CASE store' = store
    BY <2>1 DEF Shrinks
  <2>2. CASE store' = Drained
    BY <1>0, <2>2
  <2>3. CASE \E K : store' = RemoveKeys(Drained, K)
    BY <1>0, <2>3, RemoveKeysExact, ShrinksTwice
  <2>4. CASE \E k : store' = Touch(Drained, k)
    BY <1>0, <2>4, TouchExact, ShrinksTwice
  <2> QED
    BY <2>1, <2>2, <2>3, <2>4
    DEF ReadNext, AskScope, BeginBypass, BeginHit, BeginMiss, CopyHit, Serve, ReadRaises,
        FinishRead, Locked
<1> QED
  BY <1>7, <1>8, <1>9

LEMMA ScopeStepSound ==
  ASSUME TypeOK, TypeOK', StoreIndexed, EntriesSound, TicketsSound,
         NEW l \in Loops, ScopeNext(l)
  PROVE  EntriesSound' /\ TicketsSound'
<1> USE DEF counters, settings, sessions, database
<1>1. UNCHANGED <<ver, untracked, wr, gen, epoch, writes, rd>>
  BY DEF ScopeNext, OpenClient, SwitchIdentity, StampIdentity, AbandonIdentity, RetireClient,
         CollectClient
<1>2. store' \in {store, Drained} \/ \E K : store' = RemoveKeys(Drained, K)
  BY DEF ScopeNext, OpenClient, SwitchIdentity, StampIdentity, AbandonIdentity,
         RetireClient, CollectClient, Mint, Locked, RemoveScopes
<1>3. Shrinks(store, store')
  BY <1>2, DrainedExact, RemoveKeysExact, ShrinksTwice DEF Shrinks
<1> QED
  BY <1>1, <1>3, CountersStay, QuietKeeps, QuietStep

(* The counters only grow.                                                 *)
LEMMA CountersOnlyGrow ==
  ASSUME TypeOK, [Next]_vars
  PROVE  CountersGrow
<1> USE DEF counters, settings, sessions, database
<1>1. CASE UNCHANGED <<gen, epoch, writes>>
  BY <1>1, CountersStay
<1>2. CASE /\ epoch' \in {epoch, epoch + 1} /\ writes' \in {writes, writes + 1}
           /\ gen' = gen \/ \E T : gen' = NextGen(T)
  BY <1>2 DEF CountersGrow, NextGen, TypeOK, CountersTypeOK
<1>3. ASSUME NEW r \in Readers, ReadNext(r)
      PROVE  UNCHANGED <<gen, epoch, writes>>
  BY <1>3 DEF ReadNext, AskScope, BeginBypass, BeginHit, BeginMiss, CopyHit, Serve,
      ReadRaises, FinishRead
<1>4. ASSUME NEW w \in Writers, WriteNext(w), ~FinishWrite(w)
      PROVE  UNCHANGED <<gen, epoch, writes>>
  BY <1>4 DEF WriteNext, StartTables, StartEvery, StartWrite, Reach, Send, Apply, Answer,
      WithdrawWrite
<1>5. ASSUME NEW w \in Writers, FinishWrite(w)
      PROVE  /\ epoch' \in {epoch, epoch + 1} /\ writes' \in {writes, writes + 1}
             /\ gen' = gen \/ \E T : gen' = NextGen(T)
  BY <1>5 DEF FinishWrite
<1>6. ASSUME NEW l \in Loops, ScopeNext(l)
      PROVE  UNCHANGED <<gen, epoch, writes>>
  BY <1>6 DEF ScopeNext, OpenClient, SwitchIdentity, StampIdentity, AbandonIdentity,
      RetireClient, CollectClient
<1>7. CASE CallNext
  <2>1. /\ epoch' \in {epoch, epoch + 1} /\ writes' \in {writes, writes + 1}
        /\ gen' = gen \/ \E T : gen' = NextGen(T)
    BY <1>7 DEF CallNext, Configure, GetKey, SetKey, Invalidate, ForeignWrite, Clear,
        Stats, Tick
  <2> QED
    BY <1>2, <2>1
<1> QED
  BY <1>1, <1>2, <1>3, <1>4, <1>5, <1>6, <1>7 DEF Next, vars

(* The end of a write takes away the entries it may have made stale, and   *)
(* moves what the tickets of the reads it may concern hold.                *)
LEMMA FinishSound ==
  ASSUME TypeOK, TypeOK', StoreIndexed, EntriesSound, TicketsSound, CountersGrow,
         NEW w \in Writers, FinishWrite(w)
  PROVE  EntriesSound' /\ TicketsSound'
<1> USE DEF counters, settings, sessions, database
<1>0. IsStore(Drained) /\ IndexesExact(Drained) /\ Shrinks(store, Drained)
  BY DrainedExact
<1>1. UNCHANGED rd /\ writes' = writes + 1 /\ writes \in Nat /\ epoch \in Nat
  BY DEF FinishWrite, TypeOK, CountersTypeOK
<1>2. wr[w].tags \in SUBSET Tags
  BY DEF TypeOK, WriterType
<1>3. CASE wr[w].all
  <2>1. store' = EmptyStore /\ epoch' = epoch + 1
    BY <1>3 DEF FinishWrite, Locked
  <2>2. EntriesSound'
    BY <2>1, EmptyStoreExact DEF EntriesSound
  <2>3. \A r \in Readers : ~(rd[r].pc = "answered" /\ Unmoved(r)')
    BY <1>1, <2>1, UnmovedBefore
  <2> QED
    BY <1>1, <2>2, <2>3, TicketStays, TicketsNext
<1>4. CASE ~wr[w].all
  <2>1. store' = RemoveTables(Drained, wr[w].tags) /\ gen' = NextGen(wr[w].tags)
    BY <1>4 DEF FinishWrite, Locked
  <2>2. /\ Shrinks(store, store')
        /\ \A k \in Held(store') : /\ ~store'.entries[k].links
                                    /\ store'.entries[k].tags \cap wr[w].tags = {}
    BY <1>0, <1>2, <2>1, RemoveTablesExact, ShrinksTwice
  <2>3. ASSUME NEW k \in Held(store'), NEW t \in DOMAIN store.entries[k].rows.ver
        PROVE  Keeps(t)
    <3>1. /\ k \in Held(store) /\ Matches(k, store.entries[k])
          /\ ~store.entries[k].links /\ store.entries[k].tags \cap wr[w].tags = {}
      BY <2>2 DEF Shrinks, EntriesSound
    <3>2. k \in Key
      BY <3>1 DEF TypeOK, IsStore
    <3>3. k[1] # NoScope /\ k[2] \in Requests
      BY <3>1, <3>2 DEF Matches, NoRows, Key
    <3>4. /\ k[2] \notin ReqLinks /\ wr[w].tags \cap TagsOf(k[2]) = {}
          /\ t \in ReadsOf(k[2])
      BY <3>1, <3>3 DEF Matches
    <3>5. t \notin Affects(w)
      BY <1>4, <3>3, <3>4, Unrelated
    <3> QED
      BY <3>5, FinishKeeps
  <2>4. EntriesSound'
    BY <2>2, <2>3, EntriesStay
  <2>5. ASSUME NEW r \in Readers, rd[r].pc = "answered", Unmoved(r)',
               NEW t \in ReadsOf(rd[r].q)
        PROVE  Keeps(t)
    <3>1. rd[r].q \in Requests /\ TagsOf(rd[r].q) \subseteq Tags
      BY RequestTypes DEF TypeOK, ReaderType
    <3>2. /\ \A u \in TagsOf(rd[r].q) : gen'[u] = gen[u]
          /\ rd[r].q \in ReqLinks => writes' = writes
      BY <1>1, <2>5, UnmovedBefore
    <3>3. rd[r].q \notin ReqLinks
      BY <1>1, <3>2
    <3>4. \A u \in Tags : gen[u] \in Nat
      BY DEF TypeOK, CountersTypeOK
    <3>5. wr[w].tags \cap TagsOf(rd[r].q) = {}
      BY <2>1, <3>1, <3>2, <3>4 DEF NextGen
    <3>6. t \notin Affects(w)
      BY <1>4, <2>5, <3>1, <3>3, <3>5, Unrelated
    <3> QED
      BY <3>6, FinishKeeps
  <2> QED
    BY <1>1, <2>4, <2>5, TicketStays, TicketsNext
<1> QED
  BY <1>3, <1>4

LEMMA WriteStepSound ==
  ASSUME TypeOK, TypeOK', StoreIndexed, SentIsReached, EntriesSound, TicketsSound,
         CountersGrow, NEW w \in Writers, WriteNext(w)
  PROVE  EntriesSound' /\ TicketsSound'
<1> USE DEF counters, settings, sessions, database
<1>1. CASE FinishWrite(w)
  BY <1>1, FinishSound
<1>2. CASE ~FinishWrite(w)
  <2>1. store' \in {store, Drained} /\ UNCHANGED rd
    BY <1>2 DEF WriteNext, StartTables, StartEvery, StartWrite, Reach, Send, Apply, Answer,
        WithdrawWrite, Locked
  <2>2. Shrinks(store, store')
    BY <2>1, DrainedExact DEF Shrinks
  <2> QED
    BY <1>2, <2>1, <2>2, WriterKeeps, QuietStep
<1> QED
  BY <1>1, <1>2

(* invalidate() does for one table what the end of its write does.         *)
LEMMA InvalidateSound ==
  ASSUME TypeOK, TypeOK', StoreIndexed, EntriesSound, TicketsSound, CountersGrow,
         NEW f \in Tables, Invalidate(f)
  PROVE  EntriesSound' /\ TicketsSound'
<1> USE DEF counters, settings, sessions, database
<1>0. IsStore(Drained) /\ IndexesExact(Drained) /\ Shrinks(store, Drained)
  BY DrainedExact
<1>1. /\ UNCHANGED rd /\ writes' = writes + 1 /\ writes \in Nat /\ gen' = NextGen({f})
      /\ store' = RemoveTables(Drained, {f}) /\ {f} \in SUBSET Tags
  BY DEF Invalidate, TypeOK, CountersTypeOK, Locked, Tags
<1>2. /\ Shrinks(store, store')
      /\ \A k \in Held(store') : ~store'.entries[k].links /\ f \notin store'.entries[k].tags
  BY <1>0, <1>1, RemoveTablesExact, ShrinksTwice
<1>3. \A q \in Requests : q \notin ReqLinks /\ f \notin TagsOf(q) => f \notin ReadsOf(q)
  BY DEF TagsOf, ReadsOf
<1>4. ASSUME NEW k \in Held(store'), NEW t \in DOMAIN store.entries[k].rows.ver
      PROVE  Keeps(t)
  <2>1. /\ k \in Held(store) /\ Matches(k, store.entries[k])
        /\ ~store.entries[k].links /\ f \notin store.entries[k].tags
    BY <1>2 DEF Shrinks, EntriesSound
  <2>2. k \in Key
    BY <2>1 DEF TypeOK, IsStore
  <2>3. k[1] # NoScope /\ k[2] \in Requests
    BY <2>1, <2>2 DEF Matches, NoRows, Key
  <2>4. t # f
    BY <1>3, <2>1, <2>3 DEF Matches
  <2> QED
    BY <2>4, InvalidateKeeps
<1>5. EntriesSound'
  BY <1>2, <1>4, EntriesStay
<1>6. ASSUME NEW r \in Readers, rd[r].pc = "answered", Unmoved(r)',
             NEW t \in ReadsOf(rd[r].q)
      PROVE  Keeps(t)
  <2>1. rd[r].q \in Requests /\ TagsOf(rd[r].q) \subseteq Tags
    BY RequestTypes DEF TypeOK, ReaderType
  <2>2. /\ \A u \in TagsOf(rd[r].q) : gen'[u] = gen[u]
        /\ rd[r].q \in ReqLinks => writes' = writes
    BY <1>1, <1>6, UnmovedBefore
  <2>3. \A u \in Tags : gen[u] \in Nat
    BY DEF TypeOK, CountersTypeOK
  <2>4. rd[r].q \notin ReqLinks /\ f \notin TagsOf(rd[r].q)
    BY <1>1, <2>1, <2>2, <2>3 DEF NextGen
  <2> QED
    BY <1>3, <1>6, <2>1, <2>4, InvalidateKeeps
<1> QED
  BY <1>1, <1>5, <1>6, TicketStays, TicketsNext

(* set() stores no row of the database.                                    *)
LEMMA SetKeySound ==
  ASSUME TypeOK, TypeOK', StoreIndexed, EntriesSound, TicketsSound,
         NEW u \in UserKeys, SetKey(u)
  PROVE  EntriesSound' /\ TicketsSound'
<1> USE DEF counters, settings, sessions, database
<1>0. IsStore(Drained) /\ IndexesExact(Drained) /\ Shrinks(store, Drained)
  BY DrainedExact
<1>1. UNCHANGED <<ver, untracked, wr, gen, epoch, writes, rd>>
  BY DEF SetKey
<1>2. CountersGrow /\ \A t : Keeps(t)
  BY <1>1, CountersStay, QuietKeeps
<1>3. CASE store' = RemoveKeys(Drained, {<<NoScope, u>>})
  BY <1>0, <1>1, <1>2, <1>3, RemoveKeysExact, ShrinksTwice, QuietStep
<1>4. ASSUME NEW t \in Tables, NEW ttl \in Ttls,
             store' = Store(Drained, <<NoScope, u>>, OwnEntry(t, ttl), maxSize, now)
      PROVE  EntriesSound' /\ TicketsSound'
  <2> DEFINE key == <<NoScope, u>>
  <2>1. /\ key \in Held(store') /\ store'.entries[key] = OwnEntry(t, ttl)
        /\ \A k \in Held(store') \ {key} :
             k \in Held(store) /\ store'.entries[k] = store.entries[k]
    BY <1>0, <1>4, SetEntryType, StoreExact DEF Shrinks
  <2>2. Matches(key, OwnEntry(t, ttl)) /\ SoundNext(OwnEntry(t, ttl).rows)
    BY DEF Matches, OwnEntry, NoRows, SoundNext
  <2>3. ASSUME NEW k \in Held(store'), k # key
        PROVE  Matches(k, store'.entries[k]) /\ SoundNext(store'.entries[k].rows)
    BY <1>2, <2>1, <2>3, SoundStays DEF EntriesSound
  <2> HIDE DEF key
  <2>4. EntriesSound'
    BY <2>1, <2>2, <2>3 DEF EntriesSound, Sound, SoundNext, Matches, Held
  <2>5. \A r \in Readers : ReadsOf(rd[r].q) \subseteq Tables
    BY RequestTypes DEF TypeOK, ReaderType
  <2> QED
    BY <1>1, <1>2, <2>4, <2>5, TicketStays, TicketsNext
<1> QED
  BY <1>3, <1>4 DEF SetKey, Locked

LEMMA CallStepSound ==
  ASSUME TypeOK, TypeOK', StoreIndexed, EntriesSound, TicketsSound, CountersGrow, CallNext
  PROVE  EntriesSound' /\ TicketsSound'
<1> USE DEF counters, settings, sessions, database
<1>0. IsStore(Drained) /\ IndexesExact(Drained) /\ Shrinks(store, Drained)
  BY DrainedExact
<1>1. CASE /\ UNCHANGED <<ver, untracked, wr, rd>>
           /\ \/ store' = store
              \/ \E K : store' = RemoveKeys(Drained, K)
              \/ \E k : store' = Touch(Drained, k)
              \/ \E n : store' = EvictTo(Drained, n, now)
  <2>1. Shrinks(store, store')
    BY <1>0, <1>1, RemoveKeysExact, TouchExact, EvictToExact, ShrinksTwice DEF Shrinks
  <2> QED
    BY <1>1, <2>1, QuietKeeps, QuietStep
<1>2. CASE Configure \/ Stats \/ Tick \/ \E u \in UserKeys : GetKey(u)
  BY <1>1, <1>2 DEF Configure, Stats, Tick, GetKey, Locked
<1>3. ASSUME NEW u \in UserKeys, SetKey(u)
      PROVE  EntriesSound' /\ TicketsSound'
  BY <1>3, SetKeySound
<1>4. ASSUME NEW t \in Tables, Invalidate(t)
      PROVE  EntriesSound' /\ TicketsSound'
  BY <1>4, InvalidateSound
<1>5. ASSUME NEW t \in Tables, ForeignWrite(t)
      PROVE  EntriesSound' /\ TicketsSound'
  <2>1. UNCHANGED <<store, rd>>
    BY <1>5 DEF ForeignWrite
  <2> QED
    BY <1>5, <2>1, ForeignKeeps, QuietStep DEF Shrinks
<1>6. CASE Clear
  <2>1. store' = EmptyStore /\ epoch' = epoch + 1 /\ UNCHANGED rd /\ epoch \in Nat
    BY <1>6 DEF Clear, Locked, TypeOK, CountersTypeOK
  <2>2. EntriesSound'
    BY <2>1, EmptyStoreExact DEF EntriesSound
  <2>3. \A r \in Readers : ~(rd[r].pc = "answered" /\ Unmoved(r)')
    BY <2>1, UnmovedBefore
  <2> QED
    BY <2>1, <2>2, <2>3, TicketStays, TicketsNext
<1> QED
  BY <1>2, <1>3, <1>4, <1>5, <1>6 DEF CallNext

-----------------------------------------------------------------------------
(***************************************************************************)
(* The theorems.                                                           *)
(***************************************************************************)
LEMMA TypeStep == TypeOK /\ [Next]_vars => TypeOK'
BY ReaderStepType, WriterStepType, ScopeStepType, CallStepType, StutterType DEF Next

LEMMA CoherenceInit == Init => CoherenceInv
<1> SUFFICES ASSUME Init PROVE CoherenceInv
  OBVIOUS
<1>1. TypeOK
  BY InitType
<1>2. /\ store = EmptyStore /\ wr = [w \in Writers |-> IdleWriter]
      /\ rd = [r \in Readers |-> IdleReader]
      /\ flight = [t \in Tags |-> 0] /\ flightAll = 0
  BY DEF Init
<1>3. StoreIndexed /\ EntriesSound
  BY <1>2, EmptyStoreExact DEF StoreIndexed, EntriesSound
<1>4. SentIsReached /\ \A w \in Writers : ~Open(w)
  BY <1>2 DEF SentIsReached, Open, IdleWriter
<1>5. FlightExact
  <2>1. EveryWriters = {} /\ \A t : WritersOf(t) = {}
    BY <1>4 DEF EveryWriters, WritersOf
  <2> QED
    BY <1>2, <2>1, FS_EmptySet DEF FlightExact, EveryWriters
<1>6. TicketsSound
  BY <1>2, IdlePc DEF TicketsSound
<1> QED
  BY <1>1, <1>3, <1>4, <1>5, <1>6 DEF CoherenceInv

LEMMA CoherenceStep == CoherenceInv /\ [Next]_vars => CoherenceInv'
<1> SUFFICES ASSUME CoherenceInv, [Next]_vars PROVE CoherenceInv'
  OBVIOUS
<1>1. TypeOK /\ StoreIndexed /\ FlightExact /\ SentIsReached /\ EntriesSound /\ TicketsSound
  BY DEF CoherenceInv
<1>2. TypeOK'
  BY <1>1, TypeStep
<1>3. StoreIndexed'
  BY <1>1, ReaderStepIndexed, OtherStepIndexed
<1>4. FlightExact' /\ SentIsReached'
  BY <1>1, WritersStep
<1>5. CountersGrow
  BY <1>1, CountersOnlyGrow
<1>6. EntriesSound' /\ TicketsSound'
  <2>1. CASE UNCHANGED vars
    <3>1. UNCHANGED <<store, ver, untracked, wr, rd>>
      BY <2>1 DEF vars, database
    <3> QED
      BY <1>1, <1>2, <1>5, <3>1, QuietKeeps, QuietStep DEF Shrinks
  <2> QED
    BY <1>1, <1>2, <1>5, <2>1, ReaderStepSound, WriteStepSound, ScopeStepSound, CallStepSound
    DEF Next
<1> QED
  BY <1>2, <1>3, <1>4, <1>6 DEF CoherenceInv

(* What the cache holds of a table no write in flight concerns is current. *)
LEMMA IdleIsCurrent ==
  ASSUME CoherenceInv, NEW k \in Held(store),
         ~Busy(store.entries[k].tags, store.entries[k].links)
  PROVE  Current(store.entries[k].rows)
<1> DEFINE e == store.entries[k]
<1>1. /\ TypeOK /\ FlightExact /\ Matches(k, e) /\ Sound(e.rows) /\ k \in Key
      /\ \A t \in Tags : flight[t] \in Nat
  BY DEF CoherenceInv, EntriesSound, TypeOK, IsStore, CountersTypeOK
<1>2. SUFFICES ASSUME NEW t \in DOMAIN e.rows.ver, Dirty(t) PROVE FALSE
  BY <1>1 DEF Current, Sound
<1> HIDE DEF e
<1>3. k[1] # NoScope /\ k[2] \in Requests
  BY <1>1, <1>2 DEF Matches, NoRows, Key
<1>4. e.tags = TagsOf(k[2]) /\ e.links = (k[2] \in ReqLinks) /\ t \in ReadsOf(k[2])
  BY <1>1, <1>2, <1>3 DEF Matches
<1>5. PICK w \in Writers : Open(w) /\ t \in Affects(w)
  BY <1>2 DEF Dirty
<1>6. flightAll \in Nat /\ ~(flightAll > 0)
  BY <1>1 DEF Busy, TypeOK, CountersTypeOK
<1>7. ~wr[w].all
  <2>1. IsFiniteSet(EveryWriters) /\ Cardinality(EveryWriters) = 0
    BY <1>1, <1>6, WritersFinite DEF FlightExact, EveryWriters
  <2>2. EveryWriters = {}
    BY <2>1, FS_EmptySet
  <2> QED
    BY <1>5, <2>2 DEF EveryWriters
<1>8. ASSUME NEW u \in Tags, u \in wr[w].tags PROVE flight[u] > 0
  <2>1. IsFiniteSet(WritersOf(u)) /\ w \in WritersOf(u)
    BY <1>5, <1>7, <1>8, WritersFinite DEF WritersOf
  <2>2. Cardinality(WritersOf(u)) # 0
    BY <2>1, FS_EmptySet
  <2> QED
    BY <1>1, <2>2 DEF FlightExact
<1>9. wr[w].tags \subseteq Tags /\ wr[w].tags # {}
  BY <1>1, <1>5, <1>7 DEF TypeOK, WriterType, CoherenceInv, SentIsReached, Open
<1>10. CASE k[2] \in ReqLinks
  BY <1>4, <1>8, <1>9, <1>10 DEF Busy, e
<1>11. CASE k[2] \notin ReqLinks
  <2>1. PICK u \in wr[w].tags : u \in TagsOf(k[2])
    BY <1>1, <1>3, <1>4, <1>5, <1>7, <1>11, Unrelated
  <2> QED
    BY <1>4, <1>8, <1>9, <2>1 DEF Busy, e
<1> QED
  BY <1>10, <1>11

LEMMA InvCoherent == CoherenceInv => Coherent
BY IdleIsCurrent DEF Coherent

(* The inductive invariant holds of every run.                             *)
THEOREM CoherenceInvariant == Spec => []CoherenceInv
BY CoherenceInit, CoherenceStep, PTL DEF Spec

(* No entry that could answer a read or a get() is stale, whatever the     *)
(* readers, writers, handlers, failures and cancellations interleave       *)
(* (QueryCache._begin_read(), _finish_read(), _write_started(),            *)
(* _write_finished(), _write_withdrawn()).                                 *)
THEOREM CoherentAlways == Spec => []Coherent
BY CoherenceInvariant, InvCoherent, PTL

(* The in-flight counts never leak nor lose a write.                       *)
THEOREM FlightAlwaysExact == Spec => []FlightExact
<1>1. CoherenceInv => FlightExact
  BY DEF CoherenceInv
<1> QED
  BY <1>1, CoherenceInvariant, PTL

(* The three indexes of the store always list exactly its entries.         *)
THEOREM StoreAlwaysIndexed == Spec => []StoreIndexed
<1>1. CoherenceInv => StoreIndexed
  BY DEF CoherenceInv
<1> QED
  BY <1>1, CoherenceInvariant, PTL

(* A read answered by the cache gets the current rows of every table it    *)
(* depends on, the links it follows included (_begin_read()).              *)
THEOREM HitsAlwaysCurrent == Spec => HitsAreCurrent
<1> DEFINE Hit(r) ==
      rd[r].pc = "keyed" /\ rd'[r].pc = "copying" =>
        /\ DOMAIN rd'[r].rows.ver = ReadsOf(rd[r].q)
        /\ Current(rd'[r].rows)
<1>1. ASSUME CoherenceInv, [Next]_vars, NEW r \in Readers,
             rd[r].pc = "keyed", rd'[r].pc = "copying"
      PROVE  /\ DOMAIN rd'[r].rows.ver = ReadsOf(rd[r].q)
             /\ Current(rd'[r].rows)
  <2>1. TypeOK /\ StoreIndexed /\ EntriesSound /\ rd[r] \in ReaderType
    BY <1>1 DEF CoherenceInv, TypeOK
  <2>2. PICK p \in Readers : ReadNext(p)
    <3>1. \A w \in Writers : WriteNext(w) => rd' = rd
      BY DEF WriteNext, StartTables, StartEvery, StartWrite, Reach, Send, Apply, Answer,
          FinishWrite, WithdrawWrite
    <3>2. \A l \in Loops : ScopeNext(l) => rd' = rd
      BY DEF ScopeNext, OpenClient, SwitchIdentity, StampIdentity, AbandonIdentity,
          RetireClient, CollectClient
    <3>3. CallNext => rd' = rd
      BY DEF CallNext, Configure, GetKey, SetKey, Invalidate, ForeignWrite, Clear, Stats, Tick
    <3> QED
      BY <1>1, <3>1, <3>2, <3>3 DEF Next, vars
  <2>3. p = r
    BY <1>1, <2>1, <2>2 DEF ReadNext, AskScope, BeginBypass, BeginHit, BeginMiss, CopyHit,
        Serve, ReadRaises, FinishRead, EndRead, TypeOK
  <2>4. BeginHit(r)
    <3>1. ~AskScope(r) /\ ~CopyHit(r) /\ ~Serve(r) /\ ~ReadRaises(r) /\ ~FinishRead(r)
      BY <1>1 DEF AskScope, CopyHit, Serve, ReadRaises, FinishRead
    <3>2. ~BeginBypass(r)
      BY <1>1, <2>1, IdlePc DEF BeginBypass, EndRead, TypeOK
    <3>3. ~BeginMiss(r)
      BY <1>1, <2>1 DEF BeginMiss, TypeOK, ReaderType
    <3> QED
      BY <2>2, <2>3, <3>1, <3>2, <3>3 DEF ReadNext
  <2>5. /\ ReadKey(r) \in Held(Drained) /\ ~Bypassed(r)
        /\ rd'[r].rows = Drained.entries[ReadKey(r)].rows
    BY <2>1, <2>4 DEF BeginHit, Answers, Fresh, TypeOK, ReaderType
  <2>6. /\ ReadKey(r) \in Held(store)
        /\ rd'[r].rows = store.entries[ReadKey(r)].rows
    BY <2>1, <2>5, DrainedExact DEF Shrinks
  <2>7. rd[r].scope \in Scopes /\ ReadKey(r)[1] = rd[r].scope /\ ReadKey(r)[2] = rd[r].q
    BY <2>1, <2>5, DrainedType DEF Bypassed, ReadKey
  <2>8. LET e == store.entries[ReadKey(r)] IN
        /\ e.tags = TagsOf(rd[r].q) /\ e.links = (rd[r].q \in ReqLinks)
        /\ DOMAIN e.rows.ver = ReadsOf(rd[r].q)
    BY <2>1, <2>6, <2>7 DEF EntriesSound, Matches, Scopes, NoScope
  <2>9. Current(store.entries[ReadKey(r)].rows)
    BY <1>1, <2>5, <2>6, <2>8, IdleIsCurrent DEF Bypassed
  <2>10. UNCHANGED <<ver, untracked>>
    BY <2>4 DEF BeginHit, database
  <2> QED
    BY <2>6, <2>8, <2>9 DEF Current
<1>2. CoherenceInv /\ [Next]_vars => [\A r \in Readers : Hit(r)]_vars
  BY <1>1
<1> HIDE DEF Hit
<1>3. Spec => [][\A r \in Readers : Hit(r)]_vars
  BY <1>2, CoherenceInvariant, PTL DEF Spec
<1> QED
  BY <1>3 DEF HitsAreCurrent, Hit

-----------------------------------------------------------------------------
(***************************************************************************)
(* Where the entries of the next state come from.                          *)
(***************************************************************************)
LEMMA RemoveScopesExact ==
  ASSUME NEW s, IsStore(s), IndexesExact(s), NEW C \in SUBSET Scopes
  PROVE  LET u == RemoveScopes(s, C) IN
         /\ IsStore(u) /\ IndexesExact(u) /\ Shrinks(s, u)
         /\ \A k \in Held(u) : u.entries[k].scope \notin C
<1> DEFINE K == UNION {s.byScope[c] : c \in C}
<1>1. /\ IsStore(RemoveKeys(s, K)) /\ IndexesExact(RemoveKeys(s, K))
      /\ Shrinks(s, RemoveKeys(s, K)) /\ Held(RemoveKeys(s, K)) = Held(s) \ K
  BY RemoveKeysExact, RemoveKeysType
<1>2. ASSUME NEW k \in Held(s), k \notin K
      PROVE  s.entries[k].scope \notin C
  <2>1. \A c \in C : k \notin s.byScope[c]
    BY <1>2
  <2> QED
    BY <1>2, <2>1 DEF IndexesExact
<1> HIDE DEF K
<1> QED
  BY <1>1, <1>2 DEF RemoveScopes, Shrinks, K

LEMMA DrainedScopes ==
  ASSUME TypeOK, StoreIndexed
  PROVE  /\ IsStore(Drained) /\ IndexesExact(Drained) /\ Shrinks(store, Drained)
         /\ \A k \in Held(Drained) : Drained.entries[k].scope \notin retired
BY RemoveScopesExact DEF TypeOK, StoreIndexed, Drained

(* A section under the lock that stores nothing.                           *)
Kept(s) ==
  Shrinks(store, s) /\ \A k \in Held(s) : s.entries[k].scope \notin retired

LEMMA ShrunkIsKept ==
  ASSUME TypeOK, StoreIndexed, NEW s, Shrinks(Drained, s)
  PROVE  Kept(s)
BY DrainedScopes, ShrinksTwice DEF Kept, Shrinks

(* An entry of the next state was there, is the program's own, or is what  *)
(* a read that may store has brought.                                      *)
Stored(k, r) ==
  FinishRead(r) /\ MayStore(r) /\ store'.entries[k] = ReadEntry(r)

Comes(k) ==
  \/ /\ k \in Held(store) /\ store'.entries[k] = store.entries[k]
     /\ store.entries[k].scope \notin retired
  \/ store'.entries[k].scope = NoScope
  \/ \E r \in Readers : Stored(k, r)

Section ==
  /\ live' = Live /\ retired' = {}
  /\ \A k \in Held(store') : Comes(k)

LEMMA KeptComes ==
  ASSUME Kept(store'), live' = Live, retired' = {}
  PROVE  Section
BY DEF Kept, Shrinks, Section, Comes

LEMMA ReaderSection ==
  ASSUME TypeOK, StoreIndexed, NEW r \in Readers, ReadNext(r)
  PROVE  /\ UNCHANGED sessions
         /\ UNCHANGED <<store, live, retired>> \/ Section
<1>0. IsStore(Drained) /\ IndexesExact(Drained)
  BY DrainedScopes
<1>1. UNCHANGED sessions
  BY DEF ReadNext, AskScope, BeginBypass, BeginHit, BeginMiss, CopyHit, Serve, ReadRaises, FinishRead
<1>2. CASE Serve(r) \/ ReadRaises(r)
  BY <1>1, <1>2 DEF Serve, ReadRaises
<1>3. CASE \/ Locked(Drained, Live) \/ Locked(Touch(Drained, ReadKey(r)), Live)
           \/ \E K : Locked(RemoveKeys(Drained, K), Live)
  <2>1. Shrinks(Drained, store')
    BY <1>0, <1>3, RemoveKeysExact, TouchExact DEF Locked, Shrinks
  <2> QED
    BY <1>1, <1>3, <2>1, ShrunkIsKept, KeptComes DEF Locked
<1>4. CASE FinishRead(r) /\ MayStore(r) /\ Locked(Store(Drained, ReadKey(r), ReadEntry(r), maxSize, now), Live)
  <2>1. ReadKey(r) \in Key /\ ReadEntry(r) \in EntryType
    BY <1>4, ReadEntryType
  <2>2. /\ store'.entries[ReadKey(r)] = ReadEntry(r)
        /\ \A j \in Held(store') \ {ReadKey(r)} : j \in Held(Drained) /\ store'.entries[j] = Drained.entries[j]
    BY <1>0, <1>4, <2>1, StoreExact DEF Locked
  <2>3. \A j \in Held(Drained) : /\ j \in Held(store) /\ Drained.entries[j] = store.entries[j]
                                 /\ store.entries[j].scope \notin retired
    BY DrainedScopes DEF Shrinks
  <2>4. \A k \in Held(store') : Comes(k)
    BY <1>4, <2>2, <2>3 DEF Comes, Stored
  <2> QED
    BY <1>1, <1>4, <2>4 DEF Section, Locked
<1>5. CASE AskScope(r) \/ BeginBypass(r) \/ BeginHit(r)
  BY <1>3, <1>5 DEF AskScope, BeginBypass, BeginHit
<1>6. CASE BeginMiss(r) \/ CopyHit(r)
  BY <1>3, <1>6 DEF BeginMiss, CopyHit
<1>7. CASE FinishRead(r)
  BY <1>3, <1>4, <1>7 DEF FinishRead
<1> QED
  BY <1>2, <1>5, <1>6, <1>7 DEF ReadNext

LEMMA WriterSection ==
  ASSUME TypeOK, StoreIndexed, NEW w \in Writers, WriteNext(w)
  PROVE  /\ UNCHANGED sessions /\ UNCHANGED rd
         /\ UNCHANGED <<store, live, retired>> \/ Section
<1>0. IsStore(Drained) /\ IndexesExact(Drained)
  BY DrainedScopes
<1>1. UNCHANGED sessions /\ UNCHANGED rd
  BY DEF WriteNext, StartTables, StartEvery, StartWrite, Reach, Send, Apply, Answer, FinishWrite, WithdrawWrite
<1>2. \/ UNCHANGED <<store, live, retired>>
      \/ Locked(Drained, Live) \/ Locked(EmptyStore, Live) \/ \E K : Locked(RemoveKeys(Drained, K), Live)
  BY DEF WriteNext, StartTables, StartEvery, StartWrite, Reach, Send, Apply, Answer, FinishWrite,
         WithdrawWrite, RemoveTables
<1>3. CASE Locked(Drained, Live) \/ Locked(EmptyStore, Live) \/ \E K : Locked(RemoveKeys(Drained, K), Live)
  <2>1. Shrinks(Drained, store')
    BY <1>0, <1>3, RemoveKeysExact, EmptyStoreExact DEF Locked, Shrinks
  <2> QED
    BY <1>1, <1>3, <2>1, ShrunkIsKept, KeptComes DEF Locked
<1> QED
  BY <1>1, <1>2, <1>3

LEMMA CallSection ==
  ASSUME TypeOK, StoreIndexed, CallNext
  PROVE  /\ UNCHANGED sessions /\ UNCHANGED rd
         /\ UNCHANGED <<store, live, retired>> \/ Section
<1>0. IsStore(Drained) /\ IndexesExact(Drained)
  BY DrainedScopes
<1>1. UNCHANGED sessions /\ UNCHANGED rd
  BY DEF CallNext, Configure, GetKey, SetKey, Invalidate, ForeignWrite, Clear, Stats, Tick
<1>2. CASE \/ Locked(EmptyStore, Live) \/ \E K : Locked(RemoveKeys(Drained, K), Live)
           \/ \E k : Locked(Touch(Drained, k), Live) \/ \E n : Locked(EvictTo(Drained, n, now), Live)
  <2>1. Shrinks(Drained, store')
    BY <1>0, <1>2, RemoveKeysExact, EmptyStoreExact, TouchExact, EvictToExact DEF Locked, Shrinks
  <2> QED
    BY <1>1, <1>2, <2>1, ShrunkIsKept, KeptComes DEF Locked
<1>3. ASSUME NEW u \in UserKeys, NEW t \in Tables, NEW ttl \in Ttls,
             Locked(Store(Drained, <<NoScope, u>>, OwnEntry(t, ttl), maxSize, now), Live)
      PROVE  Section
  <2> DEFINE k == <<NoScope, u>>
  <2>1. k \in Key /\ OwnEntry(t, ttl) \in EntryType
    BY SetEntryType
  <2>2. /\ store'.entries[k] = OwnEntry(t, ttl)
        /\ \A j \in Held(store') \ {k} : j \in Held(Drained) /\ store'.entries[j] = Drained.entries[j]
    BY <1>0, <1>3, <2>1, StoreExact DEF Locked
  <2>3. \A j \in Held(Drained) : /\ j \in Held(store) /\ Drained.entries[j] = store.entries[j]
                                 /\ store.entries[j].scope \notin retired
    BY DrainedScopes DEF Shrinks
  <2>4. OwnEntry(t, ttl).scope = NoScope
    BY DEF OwnEntry
  <2> HIDE DEF k
  <2> QED
    BY <1>3, <2>2, <2>3, <2>4 DEF Section, Comes, Locked
<1>4. ASSUME NEW u \in UserKeys, GetKey(u) \/ SetKey(u)
      PROVE  UNCHANGED <<store, live, retired>> \/ Section
  <2>1. CASE GetKey(u)
    BY <1>1, <1>2, <2>1 DEF GetKey
  <2>2. CASE SetKey(u)
    BY <1>1, <1>2, <1>3, <2>2 DEF SetKey
  <2> QED
    BY <1>4, <2>1, <2>2
<1>5. ASSUME NEW t \in Tables, Invalidate(t) \/ ForeignWrite(t)
      PROVE  UNCHANGED <<store, live, retired>> \/ Section
  BY <1>1, <1>2, <1>5 DEF Invalidate, ForeignWrite, RemoveTables
<1>6. CASE Configure \/ Clear \/ Stats \/ Tick
  BY <1>1, <1>2, <1>6 DEF Configure, Clear, Stats, Tick
<1> QED
  BY <1>1, <1>4, <1>5, <1>6 DEF CallNext

-----------------------------------------------------------------------------
(***************************************************************************)
(* Every scope is a client's, or of the collected ones, or of nobody.      *)
(***************************************************************************)
InUse == {cell[l] : l \in Loops}

(* A scope is never minted twice, and a live one is a client's.            *)
ScopesMinted ==
  /\ \A l \in Loops : cell[l] <= minted
  /\ \A c \in retired : c <= minted
  /\ \A r \in Readers : rd[r].scope <= minted
  /\ Live \subseteq InUse

ScopesInv == ScopesOwned /\ ScopesMinted

(* A reader keeps the scope and the loop it asked for until it is done.    *)
Asks(p) == p.pc = "keyed" /\ p.loop \in Loops /\ p.scope = cell[p.loop] /\ p.scope # NoScope
Goes(p, q) == p.pc # "idle" /\ q.pc \in {"copying", "sent", "answered"} /\ q.scope = p.scope /\ q.loop = p.loop

LEMMA ReaderKeeps ==
  ASSUME TypeOK, NEW r \in Readers, ReadNext(r)
  PROVE  /\ \A p \in Readers \ {r} : rd'[p] = rd[p]
         /\ rd'[r] = IdleReader \/ Asks(rd'[r]) \/ Goes(rd[r], rd'[r])
         /\ rd'[r].pc = "answered" => rd'[r].rows.ident = session[rd[r].loop]
         /\ rd'[r].scope \in {rd[r].scope, NoScope} \cup InUse
<1>1. rd \in [Readers -> ReaderType]
  BY DEF TypeOK
<1>2. CASE EndRead(r)
  BY <1>1, <1>2 DEF EndRead, IdleReader
<1>3. CASE AskScope(r)
  <2>1. PICK q \in Requests, l \in Loops, ttl \in Ttls :
          /\ cell[l] # NoScope
          /\ rd' = [rd EXCEPT ![r] = [IdleReader EXCEPT !.pc = "keyed", !.q = q, !.loop = l,
                                                        !.ttl = ttl, !.scope = cell[l]]]
    BY <1>3 DEF AskScope
  <2>2. rd'[r].pc = "keyed" /\ rd'[r].loop = l /\ rd'[r].scope = cell[l]
    BY <1>1, <2>1 DEF IdleReader
  <2> QED
    BY <1>1, <2>1, <2>2 DEF Asks, InUse
<1>4. CASE BeginHit(r) \/ BeginMiss(r)
  <2>1. Goes(rd[r], rd'[r]) /\ rd'[r].pc # "answered" /\ \A p \in Readers \ {r} : rd'[p] = rd[p]
    BY <1>1, <1>4 DEF BeginHit, BeginMiss, Goes, ReaderType
  <2> QED
    BY <2>1 DEF Goes
<1>5. CASE Serve(r)
  <2>1. Goes(rd[r], rd'[r]) /\ rd'[r].rows.ident = session[rd[r].loop] /\ \A p \in Readers \ {r} : rd'[p] = rd[p]
    BY <1>1, <1>5 DEF Serve, Goes, ReaderType, Rows
  <2> QED
    BY <2>1 DEF Goes
<1> QED
  BY <1>2, <1>3, <1>4, <1>5 DEF ReadNext, BeginBypass, CopyHit, ReadRaises, FinishRead

LEMMA MintIs ==
  ASSUME TypeOK, StoreIndexed, NEW l \in Loops, Mint(l)
  PROVE  /\ minted' = minted + 1 /\ minted \in Nat
         /\ cell' = [cell EXCEPT ![l] = minted + 1]
         /\ live' = (Live \ {cell[l]}) \cup {minted + 1} /\ retired' = {}
         /\ \A k \in Held(store') : /\ k \in Held(store) /\ store'.entries[k] = store.entries[k]
                                    /\ store.entries[k].scope \notin retired
                                    /\ store.entries[k].scope = cell[l] => cell[l] = NoScope
<1> DEFINE old == {cell[l]} \ {NoScope}
<1>1. old \in SUBSET Scopes /\ cell[l] \in Scopes \cup {NoScope} /\ NoScope \notin Live
  BY DrainedType DEF TypeOK, Scopes, NoScope
<1>2. Shrinks(Drained, store') /\ \A k \in Held(store') : store'.entries[k].scope \notin old
  BY <1>1, DrainedScopes, RemoveScopesExact DEF Mint, Locked
<1>3. Kept(store')
  BY <1>2, ShrunkIsKept
<1>4. \A k \in Held(store') : /\ k \in Held(store) /\ store'.entries[k] = store.entries[k]
                              /\ store.entries[k].scope \notin retired \cup old
  BY <1>2, <1>3 DEF Kept, Shrinks
<1>5. Live \ old = Live \ {cell[l]}
  BY <1>1
<1> HIDE DEF old
<1>6. /\ minted' = minted + 1 /\ cell' = [cell EXCEPT ![l] = minted + 1]
      /\ live' = (Live \ old) \cup {minted + 1} /\ retired' = {}
  BY DEF Mint, Locked, old
<1> QED
  BY <1>4, <1>5, <1>6 DEF old, TypeOK

LEMMA RetireIs ==
  ASSUME TypeOK, StoreIndexed, NEW l \in Loops, RetireClient(l)
  PROVE  /\ live' = Live \ {cell[l]} /\ retired' = {}
         /\ \A k \in Held(store') : /\ k \in Held(store) /\ store'.entries[k] = store.entries[k]
                                    /\ store.entries[k].scope \notin retired \cup {cell[l]}
<1>1. {cell[l]} \in SUBSET Scopes
  BY DEF RetireClient, TypeOK
<1>2. Shrinks(Drained, store') /\ \A k \in Held(store') : store'.entries[k].scope \notin {cell[l]}
  BY <1>1, DrainedScopes, RemoveScopesExact DEF RetireClient, Locked
<1>3. Kept(store')
  BY <1>2, ShrunkIsKept
<1> QED
  BY <1>2, <1>3 DEF Kept, Shrinks, RetireClient, Locked

(* A step that mints and retires nothing.                                  *)
LEMMA SectionScopes ==
  ASSUME TypeOK, TypeOK', ScopesInv, UNCHANGED <<cell, minted>>,
         \A r \in Readers : rd'[r].scope \in {rd[r].scope, NoScope} \cup InUse,
         UNCHANGED <<store, live, retired>> \/ Section
  PROVE  ScopesInv'
<1>1. InUse' = InUse
  BY DEF InUse
<1>2. \A r \in Readers : rd'[r].scope <= minted
  BY DEF ScopesInv, ScopesMinted, InUse, NoScope, TypeOK
<1>3. CASE UNCHANGED <<store, live, retired>>
  BY <1>1, <1>2, <1>3 DEF ScopesInv, ScopesMinted, ScopesOwned, Live, InUse
<1>4. CASE Section
  <2>1. Live' = Live /\ retired' = {}
    BY <1>4 DEF Section, Live
  <2>2. ASSUME NEW k \in Held(store'), store'.entries[k].scope # NoScope
        PROVE  store'.entries[k].scope \in InUse
    <3>1. Comes(k)
      BY <1>4, <2>2 DEF Section
    <3>2. CASE k \in Held(store) /\ store'.entries[k] = store.entries[k] /\ store.entries[k].scope \notin retired
      BY <2>2, <3>2 DEF ScopesInv, ScopesOwned, InUse
    <3>3. ASSUME NEW r \in Readers, Stored(k, r)
          PROVE  store'.entries[k].scope \in InUse
      BY <3>3 DEF Stored, MayStore, ReadEntry, ScopesInv, ScopesMinted
    <3> QED
      BY <2>2, <3>1, <3>2, <3>3 DEF Comes
  <2>3. ScopesOwned'
    BY <1>1, <2>1, <2>2 DEF ScopesOwned, ScopesInv, InUse, Held
  <2> QED
    BY <1>1, <1>2, <2>1, <2>3 DEF ScopesInv, ScopesMinted
<1> QED
  BY <1>3, <1>4

LEMMA MintScopes ==
  ASSUME TypeOK, TypeOK', StoreIndexed, ScopesInv, NEW l \in Loops, Mint(l), UNCHANGED rd
  PROVE  ScopesInv'
<1>1. /\ cell \in [Loops -> Scopes \cup {NoScope}] /\ minted \in Nat
      /\ cell'[l] = minted + 1 /\ \A m \in Loops \ {l} : cell'[m] = cell[m]
      /\ \A m \in Loops : cell[m] <= minted /\ cell[m] \in Nat
      /\ minted' = minted + 1 /\ retired' = {}
  BY MintIs DEF TypeOK, ScopesInv, ScopesMinted, Scopes, NoScope
<1>2. ASSUME NEW c \in InUse, c # cell[l] PROVE c \in InUse'
  BY <1>1, <1>2 DEF InUse
<1>3. minted + 1 \in InUse' /\ NoScope # minted + 1
  BY <1>1 DEF InUse, NoScope
<1>4. ASSUME NEW k \in Held(store'), store'.entries[k].scope # NoScope
      PROVE  store'.entries[k].scope \in InUse'
  <2>1. /\ k \in Held(store) /\ store'.entries[k] = store.entries[k]
        /\ store.entries[k].scope \notin retired
        /\ store.entries[k].scope # cell[l]
    BY <1>4, MintIs
  <2> QED
    BY <1>2, <1>4, <2>1 DEF ScopesInv, ScopesOwned, InUse
<1>5. ASSUME NEW m \in Loops, NEW n \in Loops, m # n, cell'[m] = cell'[n]
      PROVE  cell'[m] = NoScope
  BY <1>1, <1>5 DEF ScopesInv, ScopesOwned
<1>6. ScopesOwned'
  BY <1>1, <1>4, <1>5 DEF ScopesOwned, InUse, Held
<1>7. Live' \subseteq InUse'
  BY <1>1, <1>2, <1>3, MintIs DEF Live, ScopesInv, ScopesMinted
<1>8. \A r \in Readers : rd[r].scope \in Nat /\ rd[r].scope <= minted
  BY DEF TypeOK, ReaderType, Scopes, NoScope, ScopesInv, ScopesMinted
<1> QED
  BY <1>1, <1>6, <1>7, <1>8 DEF ScopesInv, ScopesMinted

LEMMA LeavesScopes ==
  ASSUME TypeOK, TypeOK', StoreIndexed, ScopesInv, NEW l \in Loops, RetireClient(l) \/ CollectClient(l)
  PROVE  ScopesInv'
<1>1. /\ cell \in [Loops -> Scopes \cup {NoScope}] /\ minted \in Nat /\ cell[l] # NoScope
      /\ cell'[l] = NoScope /\ \A m \in Loops \ {l} : cell'[m] = cell[m]
      /\ \A m \in Loops : cell[m] <= minted
      /\ UNCHANGED <<minted, rd>>
  BY DEF TypeOK, ScopesInv, ScopesMinted, RetireClient, CollectClient
<1>2. ASSUME NEW c \in InUse, c # cell[l] PROVE c \in InUse'
  BY <1>1, <1>2 DEF InUse
<1>3. ASSUME NEW m \in Loops, NEW n \in Loops, m # n, cell'[m] = cell'[n]
      PROVE  cell'[m] = NoScope
  BY <1>1, <1>3 DEF ScopesInv, ScopesOwned
<1>4. CASE RetireClient(l)
  <2>1. ASSUME NEW k \in Held(store'), store'.entries[k].scope # NoScope
        PROVE  store'.entries[k].scope \in InUse'
    <3>1. /\ k \in Held(store) /\ store'.entries[k] = store.entries[k]
          /\ store.entries[k].scope \notin retired \cup {cell[l]}
      BY <1>4, <2>1, RetireIs
    <3> QED
      BY <1>2, <2>1, <3>1 DEF ScopesInv, ScopesOwned, InUse
  <2>2. retired' = {} /\ live' = Live \ {cell[l]}
    BY <1>4, RetireIs
  <2>3. ScopesOwned'
    BY <1>3, <2>1, <2>2 DEF ScopesOwned, InUse, Held
  <2> QED
    BY <1>1, <1>2, <2>2, <2>3 DEF ScopesInv, ScopesMinted, Live, NoScope
<1>5. CASE CollectClient(l)
  <2>1. retired' = retired \cup {cell[l]} /\ UNCHANGED <<store, live>>
    BY <1>5 DEF CollectClient
  <2>2. \A k \in Held(store) : store.entries[k].scope # NoScope =>
          store.entries[k].scope \in retired' \cup InUse'
    BY <1>2, <2>1 DEF ScopesInv, ScopesOwned, InUse
  <2>3. retired' \cap InUse' = {}
    <3>1. NoScope \notin retired
      BY DEF TypeOK, Scopes, NoScope
    <3>2. \A m \in Loops : cell'[m] \notin retired'
      BY <1>1, <2>1, <3>1 DEF ScopesInv, ScopesOwned
    <3> QED
      BY <3>2 DEF InUse
  <2>4. ScopesOwned'
    BY <1>3, <2>1, <2>2, <2>3 DEF ScopesOwned, InUse, Held
  <2>5. Live' \subseteq InUse'
    BY <1>2, <2>1 DEF Live, ScopesInv, ScopesMinted
  <2> QED
    BY <1>1, <2>1, <2>4, <2>5 DEF ScopesInv, ScopesMinted, NoScope
<1> QED
  BY <1>4, <1>5

LEMMA ScopesStep ==
  ASSUME CoherenceInv, CoherenceInv', ScopesInv, [Next]_vars
  PROVE  ScopesInv'
<1>0. TypeOK /\ TypeOK' /\ StoreIndexed
  BY DEF CoherenceInv
<1>1. CASE \E r \in Readers : ReadNext(r)
  BY <1>0, <1>1, ReaderKeeps, ReaderSection, SectionScopes DEF sessions
<1>2. CASE \E w \in Writers : WriteNext(w)
  BY <1>0, <1>2, WriterSection, SectionScopes DEF sessions
<1>3. ASSUME NEW l \in Loops, ScopeNext(l)
      PROVE  ScopesInv'
  <2>1. CASE OpenClient(l) \/ StampIdentity(l)
    BY <1>0, <2>1, MintScopes DEF OpenClient, StampIdentity
  <2>2. CASE SwitchIdentity(l) \/ AbandonIdentity(l)
    BY <1>0, <2>2, SectionScopes DEF SwitchIdentity, AbandonIdentity
  <2> QED
    BY <1>0, <1>3, <2>1, <2>2, LeavesScopes DEF ScopeNext
<1>4. CASE CallNext
  BY <1>0, <1>4, CallSection, SectionScopes DEF sessions
<1>5. CASE UNCHANGED vars
  BY <1>0, <1>5, SectionScopes DEF vars, sessions
<1> QED
  BY <1>1, <1>2, <1>3, <1>4, <1>5 DEF Next

LEMMA ScopesInit == Init => ScopesInv
<1> SUFFICES ASSUME Init PROVE ScopesInv
  OBVIOUS
<1>1. Held(store) = {} /\ \A r \in Readers : rd[r].scope = NoScope
  BY EmptyStoreExact DEF Init, IdleReader
<1> QED
  BY <1>1 DEF Init, ScopesInv, ScopesOwned, ScopesMinted, Live, InUse, NoScope

(* What bind_scope() hands out next is a scope nobody has used yet, and a  *)
(* scope that is live is some client's (retire_client()).                  *)
THEOREM ScopesInvariant == Spec => [](CoherenceInv /\ ScopesInv)
<1>1. CoherenceInv /\ CoherenceInv' /\ ScopesInv /\ [Next]_vars => ScopesInv'
  BY ScopesStep
<1> QED
  BY <1>1, ScopesInit, CoherenceInvariant, PTL DEF Spec

(* No entry outlives the scope it was read under, and no two clients share *)
(* a scope (bind_scope(), retire_client(), _scope_collected()).            *)
THEOREM ScopesAlwaysOwned == Spec => []ScopesOwned
<1>1. ScopesInv => ScopesOwned
  BY DEF ScopesInv
<1> QED
  BY <1>1, ScopesInvariant, PTL

-----------------------------------------------------------------------------
(***************************************************************************)
(* A scope speaks for one session of one loop.                             *)
(***************************************************************************)
(* The scope a read goes on under is of its own loop's client, or no       *)
(* client's any more.                                                      *)
ReadersHome ==
  \A r \in Readers :
    rd[r].pc # "idle" =>
      /\ rd[r].scope # NoScope
      /\ \A l \in Loops : cell[l] = rd[r].scope => l = rd[r].loop

(* While its client keeps the scope and the session, an answer is of whom  *)
(* the session runs as.                                                    *)
AnswersHome ==
  \A r \in Readers :
    LET l == rd[r].loop IN
    rd[r].pc = "answered" /\ cell[l] = rd[r].scope /\ switching[l] = 0 =>
      rd[r].rows.ident = session[l]

IdentityInv == ReadersHome /\ AnswersHome /\ IdentityIsolated

(* What a step leaves of the sessions: a loop whose client has a scope and *)
(* no identity method on its way had both before, and the same session.    *)
SameSession(l) ==
  cell'[l] # NoScope /\ switching'[l] = 0 =>
    \/ cell'[l] = cell[l] /\ switching[l] = 0 /\ session'[l] = session[l]
    \/ cell'[l] > minted

LEMMA SessionsStay ==
  ASSUME TypeOK, MayAbandon = FALSE, [Next]_vars
  PROVE  \A l \in Loops : SameSession(l) /\ cell'[l] \in {cell[l], NoScope, minted + 1}
<1>1. CASE UNCHANGED sessions
  BY <1>1 DEF SameSession, sessions
<1>2. CASE UNCHANGED vars
  BY <1>1, <1>2 DEF vars
<1>3. CASE \E r \in Readers : ReadNext(r)
  BY <1>1, <1>3 DEF ReadNext, AskScope, BeginBypass, BeginHit, BeginMiss, CopyHit, Serve, ReadRaises, FinishRead
<1>4. CASE \E w \in Writers : WriteNext(w)
  BY <1>1, <1>4 DEF WriteNext, StartTables, StartEvery, StartWrite, Reach, Send, Apply, Answer, FinishWrite, WithdrawWrite
<1>5. CASE CallNext
  BY <1>1, <1>5 DEF CallNext, Configure, GetKey, SetKey, Invalidate, ForeignWrite, Clear, Stats, Tick
<1>6. ASSUME NEW l \in Loops, ScopeNext(l), NEW m \in Loops
      PROVE  SameSession(m) /\ cell'[m] \in {cell[m], NoScope, minted + 1}
  <2>1. /\ cell \in [Loops -> Scopes \cup {NoScope}] /\ session \in [Loops -> Idents]
        /\ switching \in [Loops -> Nat] /\ minted \in Nat
    BY DEF TypeOK
  <2>2. CASE OpenClient(l) \/ StampIdentity(l)
    BY <2>1, <2>2 DEF OpenClient, StampIdentity, Mint, SameSession
  <2>3. CASE SwitchIdentity(l)
    BY <2>1, <2>3 DEF SwitchIdentity, SameSession
  <2>4. CASE RetireClient(l) \/ CollectClient(l)
    BY <2>1, <2>4 DEF RetireClient, CollectClient, SameSession
  <2> QED
    BY <1>6, <2>2, <2>3, <2>4 DEF ScopeNext, AbandonIdentity
<1> QED
  BY <1>2, <1>3, <1>4, <1>5, <1>6 DEF Next

LEMMA IdentityStep ==
  ASSUME MayAbandon = FALSE, CoherenceInv, CoherenceInv', ScopesInv, IdentityInv, [Next]_vars
  PROVE  IdentityInv'
<1>0. TypeOK /\ TypeOK' /\ StoreIndexed
  BY DEF CoherenceInv
<1>1. /\ TypeOK /\ TypeOK' /\ StoreIndexed
      /\ minted \in Nat
      /\ \A l \in Loops : SameSession(l) /\ cell'[l] \in {cell[l], NoScope, minted + 1}
      /\ \A l \in Loops : cell[l] \in Nat /\ cell[l] <= minted
      /\ \A r \in Readers : rd[r].scope \in Nat /\ rd[r].scope <= minted /\ rd[r].loop \in Loops
  <2>1. minted \in Nat /\ \A l \in Loops : cell[l] \in Nat
    BY <1>0 DEF TypeOK, Scopes, NoScope
  <2>2. \A r \in Readers : rd[r].scope \in Nat /\ rd[r].loop \in Loops
    BY <1>0 DEF TypeOK, ReaderType, Scopes, NoScope
  <2> QED
    BY <1>0, <2>1, <2>2, SessionsStay DEF ScopesInv, ScopesMinted
<1>2. ASSUME NEW r \in Readers, rd'[r] = rd[r]
      PROVE  /\ rd[r].pc # "idle" =>
                  /\ rd[r].scope # NoScope
                  /\ \A l \in Loops : cell'[l] = rd[r].scope => l = rd[r].loop
             /\ rd[r].pc = "answered" /\ cell'[rd[r].loop] = rd[r].scope /\ switching'[rd[r].loop] = 0 =>
                  rd[r].rows.ident = session'[rd[r].loop]
  <2>1. ASSUME rd[r].pc # "idle", NEW l \in Loops, cell'[l] = rd[r].scope
        PROVE  l = rd[r].loop /\ cell[l] = rd[r].scope
    BY <1>1, <2>1 DEF IdentityInv, ReadersHome
  <2>2. ASSUME rd[r].pc = "answered", cell'[rd[r].loop] = rd[r].scope, switching'[rd[r].loop] = 0
        PROVE  rd[r].rows.ident = session'[rd[r].loop]
    BY <1>1, <2>2 DEF IdentityInv, ReadersHome, AnswersHome, SameSession
  <2> QED
    BY <2>1, <2>2 DEF IdentityInv, ReadersHome
<1>3. ASSUME NEW r \in Readers, ReadNext(r)
      PROVE  ReadersHome' /\ AnswersHome'
  <2>1. UNCHANGED <<cell, session, switching>>
    BY <1>1, <1>3, ReaderSection DEF sessions
  <2>2. /\ \A p \in Readers \ {r} : rd'[p] = rd[p]
        /\ rd'[r] = IdleReader \/ Asks(rd'[r]) \/ Goes(rd[r], rd'[r])
        /\ rd'[r].pc = "answered" => rd'[r].rows.ident = session[rd[r].loop]
    BY <1>1, <1>3, ReaderKeeps
  <2>3. rd'[r].pc # "idle" =>
          /\ rd'[r].scope # NoScope
          /\ \A l \in Loops : cell[l] = rd'[r].scope => l = rd'[r].loop
    <3>1. CASE Asks(rd'[r])
      BY <3>1 DEF Asks, ScopesInv, ScopesOwned
    <3>2. CASE Goes(rd[r], rd'[r])
      BY <3>2 DEF Goes, IdentityInv, ReadersHome
    <3> QED
      BY <2>2, <3>1, <3>2, IdlePc
  <2>4. rd'[r].pc = "answered" => rd'[r].rows.ident = session[rd'[r].loop]
    BY <2>2, IdlePc DEF Asks, Goes
  <2>5. ReadersHome'
    BY <1>2, <2>1, <2>2, <2>3 DEF ReadersHome
  <2>6. AnswersHome'
    BY <1>2, <2>1, <2>2, <2>4 DEF AnswersHome
  <2> QED
    BY <2>5, <2>6
<1>4. ASSUME UNCHANGED rd
      PROVE  ReadersHome' /\ AnswersHome'
  BY <1>2, <1>4 DEF ReadersHome, AnswersHome
<1>5. ReadersHome' /\ AnswersHome'
  <2>1. ASSUME NEW l \in Loops, ScopeNext(l) PROVE UNCHANGED rd
    BY <2>1 DEF ScopeNext, OpenClient, SwitchIdentity, StampIdentity, AbandonIdentity, RetireClient, CollectClient
  <2>2. CASE UNCHANGED vars
    BY <1>4, <2>2 DEF vars
  <2> QED
    BY <1>1, <1>3, <1>4, <2>1, <2>2, WriterSection, CallSection DEF Next
<1>6. ASSUME NEW k \in Held(store'), Comes(k), NEW l \in Loops, cell'[l] # NoScope, switching'[l] = 0,
             store'.entries[k].scope = cell'[l]
      PROVE  store'.entries[k].rows.ident = session'[l]
  <2>1. CASE k \in Held(store) /\ store'.entries[k] = store.entries[k]
    <3>1. store.entries[k].scope <= minted
      BY <1>1, <1>6, <2>1 DEF ScopesInv, ScopesOwned, ScopesMinted
    <3> QED
      BY <1>1, <1>6, <2>1, <3>1 DEF SameSession, IdentityInv, IdentityIsolated
  <2>2. ASSUME NEW r \in Readers, Stored(k, r)
        PROVE  store'.entries[k].rows.ident = session'[l]
    <3>1. /\ rd[r].pc = "answered" /\ rd[r].scope = cell'[l] /\ store'.entries[k].rows = rd[r].rows
          /\ UNCHANGED <<cell, session, switching>>
      BY <1>6, <2>2 DEF Stored, FinishRead, ReadEntry, sessions
    <3>2. l = rd[r].loop
      BY <3>1 DEF IdentityInv, ReadersHome
    <3> QED
      BY <1>6, <3>1, <3>2 DEF IdentityInv, AnswersHome
  <2> QED
    BY <1>6, <2>1, <2>2 DEF Comes
<1>7. \A k \in Held(store') : (k \in Held(store) /\ store'.entries[k] = store.entries[k]) \/ Comes(k)
  <2>1. CASE UNCHANGED <<store, live, retired>> \/ Section
    BY <2>1 DEF Section
  <2>2. CASE \E l \in Loops : ScopeNext(l)
    BY <1>1, <2>2, MintIs, RetireIs
    DEF ScopeNext, OpenClient, SwitchIdentity, StampIdentity, AbandonIdentity, CollectClient
  <2>3. CASE UNCHANGED vars
    BY <2>1, <2>3 DEF vars
  <2> QED
    BY <1>1, <2>1, <2>2, <2>3, ReaderSection, WriterSection, CallSection DEF Next
<1>8. IdentityIsolated'
  <2>1. ASSUME NEW k \in Held(store'), k \in Held(store), store'.entries[k] = store.entries[k],
               NEW l \in Loops, cell'[l] # NoScope, switching'[l] = 0, store'.entries[k].scope = cell'[l]
        PROVE  store'.entries[k].rows.ident = session'[l]
    <3>1. store.entries[k].scope <= minted
      BY <1>1, <2>1 DEF ScopesInv, ScopesOwned, ScopesMinted
    <3> QED
      BY <1>1, <2>1, <3>1 DEF SameSession, IdentityInv, IdentityIsolated
  <2> QED
    BY <1>6, <1>7, <2>1 DEF IdentityIsolated, Held
<1> QED
  BY <1>5, <1>8 DEF IdentityInv

LEMMA IdentityInit == Init => IdentityInv
<1> SUFFICES ASSUME Init PROVE IdentityInv
  OBVIOUS
<1>1. Held(store) = {} /\ \A r \in Readers : rd[r].pc = "idle"
  BY EmptyStoreExact, IdlePc DEF Init
<1> QED
  BY <1>1 DEF IdentityInv, ReadersHome, AnswersHome, IdentityIsolated

(* Where no identity method is cut short between the server and the stamp, *)
(* a client that none is changing never serves, under its scope, rows read *)
(* as anybody but whoever its session runs as (_stamp_identity()).         *)
THEOREM IdentitiesNeverCross == ASSUME MayAbandon = FALSE PROVE Spec => []IdentityIsolated
<1>1. CoherenceInv /\ CoherenceInv' /\ ScopesInv /\ IdentityInv /\ [Next]_vars => IdentityInv'
  BY IdentityStep
<1>2. IdentityInv => IdentityIsolated
  BY DEF IdentityInv
<1> QED
  BY <1>1, <1>2, IdentityInit, ScopesInvariant, PTL DEF Spec
-----------------------------------------------------------------------------
(***************************************************************************)
(* The recency order, and what eviction takes.                             *)
(***************************************************************************)
(* `older' is a strict total order of the keys held, which are finitely    *)
(* many (the OrderedDict).                                                 *)
Ordered(s) ==
  /\ IsFiniteSet(Held(s))
  /\ s.older \subseteq Held(s) \X Held(s)
  /\ \A j \in Held(s) : <<j, j>> \notin s.older
  /\ \A i, j, k \in Held(s) : <<i, j>> \in s.older /\ <<j, k>> \in s.older => <<i, k>> \in s.older
  /\ \A j, k \in Held(s) : j = k \/ <<j, k>> \in s.older \/ <<k, j>> \in s.older

LEMMA EmptyStoreOrdered == Ordered(EmptyStore)
BY EmptyStoreExact, FS_EmptySet DEF Ordered, EmptyStore

LEMMA RemoveKeysOrdered ==
  ASSUME NEW s, Ordered(s), NEW K
  PROVE  Ordered(RemoveKeys(s, K)) /\ RemoveKeys(s, K).older \subseteq s.older
<1> DEFINE u == RemoveKeys(s, K)
<1>1. /\ Held(u) = Held(s) \ (K \cap Held(s))
      /\ u.older = {p \in s.older : p[1] \notin K \cap Held(s) /\ p[2] \notin K \cap Held(s)}
  BY DEF RemoveKeys, Held
<1> HIDE DEF u
<1>2. IsFiniteSet(Held(u))
  <2>1. IsFiniteSet(Held(s))
    BY DEF Ordered
  <2>2. IsFiniteSet(Held(s) \ (K \cap Held(s)))
    BY <2>1, FS_Difference, Zenon
  <2> QED
    BY <1>1, <2>2, Zenon
<1>3. ASSUME NEW i \in Held(u), NEW j \in Held(u)
      PROVE  <<i, j>> \in u.older <=> <<i, j>> \in s.older
  <2>1. i \notin K \cap Held(s) /\ j \notin K \cap Held(s)
    BY <1>1
  <2>2. \A p : p \in u.older <=> p \in s.older /\ p[1] \notin K \cap Held(s) /\ p[2] \notin K \cap Held(s)
    BY <1>1
  <2> QED
    BY <2>1, <2>2
<1>4. u.older \subseteq Held(u) \X Held(u) /\ u.older \subseteq s.older
  BY <1>1 DEF Ordered
<1> QED
  BY <1>1, <1>2, <1>3, <1>4 DEF Ordered, u

LEMMA TouchOrdered ==
  ASSUME NEW s, Ordered(s), NEW k \in Held(s)
  PROVE  Ordered(Touch(s, k))
<1> DEFINE u == Touch(s, k)
<1>1. /\ Held(u) = Held(s)
      /\ u.older = {p \in s.older : k \notin {p[1], p[2]}} \cup {<<j, k>> : j \in Held(s) \ {k}}
  BY DEF Touch, Held
<1> HIDE DEF u
<1>2. \A i, j \in Held(s) : <<i, j>> \in u.older <=> IF j = k THEN i # k ELSE i # k /\ <<i, j>> \in s.older
  BY <1>1
<1>3. u.older \subseteq Held(s) \X Held(s)
  BY <1>1 DEF Ordered
<1> QED
  BY <1>1, <1>2, <1>3 DEF Ordered, u

LEMMA InsertOrdered ==
  ASSUME NEW s, Ordered(s), NEW k, k \notin Held(s), NEW e
  PROVE  Ordered(Insert(s, k, e))
<1> DEFINE u == Insert(s, k, e)
<1>1. /\ Held(u) = Held(s) \cup {k}
      /\ u.older = s.older \cup {<<j, k>> : j \in Held(s) \ {k}}
  BY DEF Insert, Held
<1>2. IsFiniteSet(Held(u))
  BY <1>1, FS_AddElement DEF Ordered
<1> HIDE DEF u
<1>3. ASSUME NEW i \in Held(u), NEW j \in Held(u)
      PROVE  <<i, j>> \in u.older <=> IF j = k THEN i # k ELSE i # k /\ <<i, j>> \in s.older
  <2>1. <<i, j>> \in s.older => i \in Held(s) /\ j \in Held(s)
    BY DEF Ordered
  <2>2. <<i, j>> \in u.older <=> <<i, j>> \in s.older \/ (j = k /\ i \in Held(s) \ {k})
    BY <1>1
  <2> QED
    BY <1>1, <2>1, <2>2
<1>4. u.older \subseteq Held(u) \X Held(u)
  BY <1>1 DEF Ordered
<1> QED
  BY <1>1, <1>2, <1>3, <1>4 DEF Ordered, u

(* How many keys were used after a key says where it stands.               *)
After(s, k) == {p \in s.older : p[1] = k}

LEMMA AfterBounded ==
  ASSUME NEW s, Ordered(s), NEW k \in Held(s)
  PROVE  /\ IsFiniteSet(After(s, k)) /\ Cardinality(After(s, k)) \in Nat
         /\ Cardinality(After(s, k)) < Cardinality(Held(s)) /\ Cardinality(Held(s)) \in Nat
<1> DEFINE h == [p \in After(s, k) |-> p[2]]
           T == Held(s) \ {k}
<1>1. IsFiniteSet(Held(s)) /\ IsFiniteSet(T) /\ Cardinality(T) = Cardinality(Held(s)) - 1 /\ Cardinality(Held(s)) \in Nat
  BY FS_RemoveElement, FS_CardinalityType DEF Ordered
<1>2. \A p \in After(s, k) : p = <<k, p[2]>> /\ p[2] \in T
  BY DEF After, Ordered
<1>3. h \in Injection(After(s, k), T)
  <2>1. h \in [After(s, k) -> T]
    BY <1>2
  <2>2. \A p, q \in After(s, k) : h[p] = h[q] => p = q
    BY <1>2
  <2> HIDE DEF h
  <2> QED
    BY <2>1, <2>2 DEF Injection, IsInjective
<1>4. IsFiniteSet(After(s, k)) /\ Cardinality(After(s, k)) <= Cardinality(T)
  BY <1>1, <1>3, FS_Injection
<1> QED
  BY <1>1, <1>4, FS_CardinalityType

LEMMA OlderHasMore ==
  ASSUME NEW s, Ordered(s), NEW j \in Held(s), NEW k \in Held(s), <<k, j>> \in s.older
  PROVE  Cardinality(After(s, j)) < Cardinality(After(s, k))
<1> DEFINE h == [p \in After(s, j) |-> <<k, p[2]>>]
           T == After(s, k) \ {<<k, j>>}
<1>1. /\ IsFiniteSet(After(s, k)) /\ <<k, j>> \in After(s, k) /\ Cardinality(After(s, k)) \in Nat
      /\ IsFiniteSet(After(s, j)) /\ Cardinality(After(s, j)) \in Nat
  BY AfterBounded DEF After
<1>2. IsFiniteSet(T) /\ Cardinality(T) = Cardinality(After(s, k)) - 1
  BY <1>1, FS_RemoveElement
<1>3. \A p \in After(s, j) : p = <<j, p[2]>> /\ p[2] \in Held(s) /\ p[2] # j /\ <<k, p[2]>> \in After(s, k)
  BY DEF After, Ordered
<1>4. h \in Injection(After(s, j), T)
  <2>1. h \in [After(s, j) -> T]
    BY <1>3
  <2>2. \A p, q \in After(s, j) : h[p] = h[q] => p = q
    BY <1>3
  <2> HIDE DEF h
  <2> QED
    BY <2>1, <2>2 DEF Injection, IsInjective
<1>5. Cardinality(After(s, j)) <= Cardinality(T)
  BY <1>2, <1>4, FS_Injection
<1> QED
  BY <1>1, <1>2, <1>5

(* What is left of an order without the keys `limit' others were used      *)
(* after: `limit' keys at most, and that many where one had to go.         *)
LEMMA YoungCount ==
  ASSUME NEW s, Ordered(s), NEW n \in Nat
  PROVE  LET young == Held(s) \ Oldest(s, n) IN
         /\ IsFiniteSet(young) /\ Cardinality(young) <= n
         /\ Oldest(s, n) # {} => Cardinality(young) = n
<1> DEFINE young == Held(s) \ Oldest(s, n)
           N == Cardinality(Held(s))
           f == [k \in Held(s) |-> Cardinality(After(s, k))]
           g == [k \in young |-> f[k]]
<1>1. IsFiniteSet(Held(s)) /\ N \in Nat
  BY FS_CardinalityType DEF Ordered
<1>2. \A k \in Held(s) : f[k] \in 0 .. N - 1
  BY <1>1, AfterBounded
<1>3. \A j, k \in Held(s) : f[j] = f[k] => j = k
  <2> SUFFICES ASSUME NEW j \in Held(s), NEW k \in Held(s), f[j] = f[k], j # k PROVE FALSE
    OBVIOUS
  <2>1. <<j, k>> \in s.older \/ <<k, j>> \in s.older
    BY DEF Ordered
  <2>2. f[j] < f[k] \/ f[k] < f[j]
    BY <2>1, OlderHasMore
  <2> QED
    BY <1>2, <2>2
<1>4. \A k \in Held(s) : k \in young <=> f[k] < n
  BY <1>1, AfterBounded DEF Oldest, After
<1>5. f \in [Held(s) -> 0 .. N - 1] /\ DOMAIN f = Held(s)
  BY <1>2
<1>6. IsFiniteSet(young) /\ young \subseteq Held(s)
  BY <1>1, FS_Difference
<1> HIDE DEF f, young, N
<1>7. IsFiniteSet(0 .. N - 1) /\ Cardinality(0 .. N - 1) = N /\ IsFiniteSet(0 .. n - 1) /\ Cardinality(0 .. n - 1) = n
  <2>1. \A m \in Nat : IsFiniteSet(0 .. m - 1) /\ Cardinality(0 .. m - 1) = m
    <3> TAKE m \in Nat
    <3> DEFINE S == 0 .. m - 1
    <3>1. 0 \in Int /\ m - 1 \in Int
      OBVIOUS
    <3>2. IsFiniteSet(S) /\ Cardinality(S) = IF 0 > m - 1 THEN 0 ELSE m - 1 - 0 + 1
      BY <3>1, FS_Interval, Zenon
    <3> HIDE DEF S
    <3>3. Cardinality(S) = m
      BY <3>2
    <3> QED
      BY <3>2, <3>3 DEF S
  <2> QED
    BY <1>1, <2>1, Zenon
<1>8. f \in Surjection(Held(s), 0 .. N - 1)
  <2>1. f \in Injection(Held(s), 0 .. N - 1)
    BY <1>3, <1>5 DEF Injection, IsInjective
  <2> QED
    BY <1>1, <1>7, <2>1, FS_Injection DEF N
<1>9. g \in Injection(young, 0 .. n - 1)
  <2>1. g \in [young -> 0 .. n - 1] /\ \A j, k \in young : g[j] = g[k] => j = k
    BY <1>2, <1>3, <1>4, <1>6
  <2> HIDE DEF g
  <2> QED
    BY <2>1 DEF Injection, IsInjective
<1>10. Cardinality(young) <= n
  BY <1>7, <1>9, FS_Injection
<1>11. ASSUME Oldest(s, n) # {} PROVE Cardinality(young) = n
  <2>1. PICK k \in Held(s) : k \notin young
    BY <1>11 DEF Oldest, young
  <2>2. n <= N - 1
    BY <1>1, <1>2, <1>4, <2>1
  <2>3. ASSUME NEW v \in 0 .. n - 1 PROVE \E j \in young : g[j] = v
    <3>1. PICK j \in Held(s) : f[j] = v
      BY <1>1, <1>8, <2>2 DEF Surjection
    <3> QED
      BY <1>4, <3>1
  <2>4. g \in Surjection(young, 0 .. n - 1)
    <3> HIDE DEF g
    <3> QED
      BY <1>9, <2>3 DEF Surjection, Injection
  <2> QED
    BY <1>7, <1>9, <2>4, FS_Injection
<1> QED
  BY <1>6, <1>10, <1>11 DEF young

(* Room is made at the expense of the expired, then of the least recently  *)
(* used (_evict_to()).                                                     *)
LEMMA RoomIsMade ==
  ASSUME NEW s, IsStore(s), Ordered(s), NEW n \in Nat, NEW t \in Nat
  PROVE  LET u == EvictTo(s, n, t) IN
         /\ Ordered(u) /\ u.older \subseteq s.older
         /\ Cardinality(Held(u)) <= n
         /\ \A k \in Held(s) \ Held(u) :
              \/ k \in Expired(s, t)
              \/ /\ Cardinality(Held(u)) = n
                 /\ \A j \in Held(u) : t < s.entries[j].expiresAt /\ <<k, j>> \in s.older
<1> DEFINE u == EvictTo(s, n, t)
           fresh == RemoveKeys(s, Expired(s, t))
<1>1. CASE Cardinality(Held(s)) <= n
  BY <1>1 DEF EvictTo
<1>2. CASE ~(Cardinality(Held(s)) <= n)
  <2>1. u = RemoveKeys(fresh, Oldest(fresh, n))
    BY <1>2 DEF EvictTo
  <2>2. Ordered(fresh) /\ fresh.older \subseteq s.older
    BY RemoveKeysOrdered
  <2>3. Held(fresh) = Held(s) \ Expired(s, t)
    BY DEF RemoveKeys, Held
  <2> HIDE DEF fresh, u
  <2>4. Held(u) = Held(fresh) \ Oldest(fresh, n)
    BY <2>1 DEF RemoveKeys, Held, Oldest
  <2>5. Ordered(u) /\ u.older \subseteq fresh.older
    BY <2>1, <2>2, RemoveKeysOrdered
  <2>6. Cardinality(Held(u)) <= n /\ (Oldest(fresh, n) # {} => Cardinality(Held(u)) = n)
    BY <2>2, <2>4, YoungCount
  <2>7. ASSUME NEW k \in Oldest(fresh, n), NEW j \in Held(u)
        PROVE  t < s.entries[j].expiresAt /\ <<k, j>> \in s.older
    <3>1. /\ k \in Held(fresh) /\ j \in Held(fresh) /\ j \notin Oldest(fresh, n)
          /\ j \in Held(s) /\ ~(t >= s.entries[j].expiresAt)
      BY <2>3, <2>4, <2>7 DEF Oldest, Expired
    <3>2. t < s.entries[j].expiresAt
      BY <3>1 DEF IsStore, EntryType
    <3>3. Cardinality(After(fresh, k)) >= n /\ ~(Cardinality(After(fresh, j)) >= n)
      BY <2>7, <3>1 DEF Oldest, After
    <3>4. Cardinality(After(fresh, k)) \in Nat /\ Cardinality(After(fresh, j)) \in Nat
      BY <2>2, <3>1, AfterBounded
    <3>5. <<j, k>> \notin fresh.older
      BY <2>2, <3>1, <3>3, <3>4, OlderHasMore
    <3>6. <<k, j>> \in fresh.older
      BY <2>2, <3>1, <3>3, <3>4, <3>5 DEF Ordered
    <3> QED
      BY <2>2, <3>2, <3>6
  <2> QED
    BY <2>2, <2>3, <2>4, <2>5, <2>6, <2>7 DEF u
<1> QED
  BY <1>1, <1>2

-----------------------------------------------------------------------------
(***************************************************************************)
(* Every step keeps the recency order, and only a store or configure()     *)
(* takes entries to make room.                                             *)
(***************************************************************************)
(* The TTL of a read is one of those in use: what it stores is fresh.      *)
OrderInv ==
  Ordered(store) /\ \A r \in Readers : rd[r].pc # "idle" => rd[r].ttl \in Ttls

(* A section that makes no room.                                           *)
Lessened ==
  \/ store' \in {store, EmptyStore, Drained}
  \/ \E K : store' = RemoveKeys(Drained, K)
  \/ \E k \in Held(Drained) : store' = Touch(Drained, k)

Places(k, e) == store' = Store(Drained, k, e, maxSize, now)

(* The body of EvictionIsLRU, in two halves.                               *)
Room ==
  /\ Cardinality(Held(store')) <= maxSize'
  /\ \A k \in Held(store) \ Held(store') :
       \/ store.entries[k].scope \in retired
       \/ k \in Expired(store, now)
       \/ /\ Cardinality(Held(store')) = maxSize'
          /\ \A j \in Held(store') :
               /\ now < store'.entries[j].expiresAt
               /\ Changed(j) \/ <<k, j>> \in store.older

Evicts == (\E k \in Held(store') : Changed(k)) \/ maxSize' # maxSize => Room

LEMMA DrainedOrdered ==
  ASSUME Ordered(store)
  PROVE  Ordered(Drained) /\ Drained.older \subseteq store.older
BY RemoveKeysOrdered DEF Drained, RemoveScopes

LEMMA LeavesDrained ==
  ASSUME TypeOK, StoreIndexed, NEW k \in Held(store), k \notin Held(Drained)
  PROVE  store.entries[k].scope \in retired
<1>1. /\ retired \subseteq Scopes
      /\ \A c \in Scopes : store.byScope[c] = {j \in Held(store) : store.entries[j].scope = c}
  BY DEF TypeOK, StoreIndexed, IndexesExact
<1>2. k \in UNION {store.byScope[c] : c \in retired}
  BY DEF Drained, RemoveScopes, RemoveKeys, Held
<1> QED
  BY <1>1, <1>2

LEMMA LessenedKeeps ==
  ASSUME TypeOK, StoreIndexed, Ordered(store), Lessened
  PROVE  Ordered(store') /\ \A k \in Held(store') : ~Changed(k)
<1>0. IsStore(Drained) /\ IndexesExact(Drained) /\ Shrinks(store, Drained) /\ Ordered(Drained)
  BY DrainedScopes, DrainedOrdered
<1>1. Ordered(store')
  BY <1>0, EmptyStoreOrdered, RemoveKeysOrdered, TouchOrdered DEF Lessened
<1>2. Shrinks(store, store')
  <2>1. CASE store' = store \/ store' = EmptyStore
    BY <2>1, EmptyStoreExact DEF Shrinks
  <2>2. CASE \/ store' = Drained \/ \E K : store' = RemoveKeys(Drained, K)
             \/ \E k \in Held(Drained) : store' = Touch(Drained, k)
    BY <1>0, <2>2, RemoveKeysExact, TouchExact, ShrinksTwice DEF Shrinks
  <2> QED
    BY <2>1, <2>2 DEF Lessened
<1> QED
  BY <1>1, <1>2 DEF Shrinks, Changed

(* configure() makes room at the new max_size.                             *)
LEMMA ConfigureEvicts ==
  ASSUME TypeOK, StoreIndexed, Ordered(store), maxSize' \in Nat,
         store' = EvictTo(Drained, maxSize', now)
  PROVE  Ordered(store') /\ Room
<1>0. /\ IsStore(Drained) /\ Shrinks(store, Drained) /\ now \in Nat
      /\ Ordered(Drained) /\ Drained.older \subseteq store.older /\ IndexesExact(Drained)
  BY DrainedScopes, DrainedOrdered DEF TypeOK
<1>1. /\ Ordered(store') /\ Cardinality(Held(store')) <= maxSize'
      /\ \A k \in Held(Drained) \ Held(store') :
           \/ k \in Expired(Drained, now)
           \/ /\ Cardinality(Held(store')) = maxSize'
              /\ \A j \in Held(store') : now < Drained.entries[j].expiresAt /\ <<k, j>> \in Drained.older
  BY <1>0, RoomIsMade
<1>2. Shrinks(Drained, store')
  BY <1>0, EvictToExact
<1>3. \A k \in Held(store) \ Held(store') : k \in Held(Drained) \/ store.entries[k].scope \in retired
  BY LeavesDrained
<1>4. Expired(Drained, now) \subseteq Expired(store, now)
  BY <1>0 DEF Shrinks, Expired
<1>5. \A j \in Held(store') : store'.entries[j] = Drained.entries[j]
  BY <1>2 DEF Shrinks
<1> QED
  BY <1>0, <1>1, <1>3, <1>4, <1>5 DEF Room

(* A store drops its key's entry, makes room for one, and puts it last.    *)
LEMMA PlacingEvicts ==
  ASSUME TypeOK, StoreIndexed, Ordered(store), UNCHANGED maxSize,
         NEW k \in Key, NEW e \in EntryType, now < e.expiresAt, Places(k, e)
  PROVE  Ordered(store') /\ Evicts
<1> DEFINE less == RemoveKeys(Drained, {k})
           room == EvictTo(less, maxSize - 1, now)
<1>0. /\ IsStore(Drained) /\ IndexesExact(Drained) /\ Shrinks(store, Drained)
      /\ Ordered(Drained) /\ Drained.older \subseteq store.older
      /\ now \in Nat /\ maxSize - 1 \in Nat /\ maxSize \in Nat
  BY DrainedScopes, DrainedOrdered DEF TypeOK
<1>1. IsStore(less) /\ IndexesExact(less) /\ Shrinks(Drained, less) /\ Held(less) = Held(Drained) \ {k}
  BY <1>0, RemoveKeysExact, RemoveKeysType
<1>2. Ordered(less) /\ less.older \subseteq Drained.older
  BY <1>0, RemoveKeysOrdered
<1>3. store' = Insert(room, k, e)
  BY DEF Places, Store
<1> HIDE DEF less
<1>4. /\ Ordered(room) /\ Cardinality(Held(room)) <= maxSize - 1
      /\ \A i \in Held(less) \ Held(room) :
           \/ i \in Expired(less, now)
           \/ /\ Cardinality(Held(room)) = maxSize - 1
              /\ \A j \in Held(room) : now < less.entries[j].expiresAt /\ <<i, j>> \in less.older
  BY <1>0, <1>1, <1>2, RoomIsMade
<1>5. Shrinks(less, room)
  BY <1>1, EvictToExact
<1> HIDE DEF room
<1>6. k \notin Held(room)
  BY <1>1, <1>5 DEF Shrinks
<1>7. /\ Held(store') = Held(room) \cup {k} /\ store'.entries[k] = e
      /\ \A j \in Held(room) : store'.entries[j] = room.entries[j]
  BY <1>3, <1>6 DEF Insert, Held
<1>8. Ordered(store')
  BY <1>3, <1>4, <1>6, InsertOrdered
<1>9. Cardinality(Held(store')) = Cardinality(Held(room)) + 1 /\ Cardinality(Held(room)) \in Nat
  BY <1>4, <1>6, <1>7, FS_AddElement, FS_CardinalityType DEF Ordered
<1>10. \A j \in Held(room) : /\ j \in Held(store) /\ store'.entries[j] = store.entries[j]
                             /\ store'.entries[j] = less.entries[j]
  BY <1>0, <1>1, <1>5, <1>7 DEF Shrinks
<1>11. ASSUME NEW i \in Held(store) \ Held(store'), store.entries[i].scope \notin retired,
              i \notin Expired(store, now), Changed(k)
       PROVE  /\ Cardinality(Held(store')) = maxSize
              /\ \A j \in Held(store') :
                   now < store'.entries[j].expiresAt /\ (Changed(j) \/ <<i, j>> \in store.older)
  <2>1. i \in Held(Drained) /\ i # k
    BY <1>7, <1>11, LeavesDrained
  <2>2. i \in Held(less) \ Held(room)
    BY <1>1, <1>7, <1>11, <2>1
  <2>3. i \notin Expired(less, now)
    BY <1>0, <1>1, <1>11, <2>2 DEF Expired, Shrinks
  <2>4. /\ Cardinality(Held(room)) = maxSize - 1
        /\ \A j \in Held(room) : now < less.entries[j].expiresAt /\ <<i, j>> \in less.older
    BY <1>4, <2>2, <2>3
  <2>5. Cardinality(Held(store')) = maxSize
    BY <1>0, <1>9, <2>4
  <2>6. \A j \in Held(room) : now < store'.entries[j].expiresAt /\ <<i, j>> \in store.older
    BY <1>0, <1>2, <1>10, <2>4
  <2> QED
    BY <1>7, <1>11, <2>5, <2>6
<1>12. ASSUME Changed(k) PROVE Room
  <2>1. Cardinality(Held(store')) <= maxSize'
    BY <1>0, <1>4, <1>9
  <2> QED
    BY <1>11, <1>12, <2>1 DEF Room
<1>13. (\E j \in Held(store') : Changed(j)) => Changed(k)
  BY <1>7, <1>10 DEF Changed
<1> QED
  BY <1>8, <1>12, <1>13 DEF Evicts

LEMMA ReaderOrder ==
  ASSUME TypeOK, StoreIndexed, OrderInv, NEW r \in Readers, ReadNext(r)
  PROVE  /\ UNCHANGED maxSize
         /\ \A p \in Readers : rd'[p].pc # "idle" => rd'[p].ttl \in Ttls
         /\ Lessened \/ \E k \in Key, e \in EntryType : now < e.expiresAt /\ Places(k, e)
<1>1. UNCHANGED maxSize
  BY DEF ReadNext, AskScope, BeginBypass, BeginHit, BeginMiss, CopyHit, Serve, ReadRaises, FinishRead, settings
<1>2. rd \in [Readers -> ReaderType]
  BY DEF TypeOK
<1>3. \A p \in Readers : rd'[p].pc # "idle" => rd'[p].ttl \in Ttls
  <2>1. CASE EndRead(r)
    BY <1>2, <2>1, IdlePc DEF EndRead, OrderInv
  <2>2. CASE AskScope(r)
    <3>1. PICK q \in Requests, l \in Loops, ttl \in Ttls :
            rd' = [rd EXCEPT ![r] = [IdleReader EXCEPT !.pc = "keyed", !.q = q, !.loop = l,
                                                       !.ttl = ttl, !.scope = cell[l]]]
      BY <2>2 DEF AskScope
    <3>2. rd'[r].ttl = ttl /\ \A p \in Readers \ {r} : rd'[p] = rd[p]
      BY <1>2, <3>1 DEF IdleReader
    <3> QED
      BY <3>2 DEF OrderInv
  <2>3. CASE BeginHit(r) \/ BeginMiss(r) \/ Serve(r)
    BY <1>2, <2>3 DEF BeginHit, BeginMiss, Serve, ReaderType, OrderInv
  <2> QED
    BY <2>1, <2>2, <2>3 DEF ReadNext, BeginBypass, CopyHit, ReadRaises, FinishRead
<1>4. CASE FinishRead(r) /\ MayStore(r) /\ Locked(Store(Drained, ReadKey(r), ReadEntry(r), maxSize, now), Live)
  <2>1. ReadKey(r) \in Key /\ ReadEntry(r) \in EntryType
    BY <1>4, ReadEntryType
  <2>2. rd[r].ttl \in Ttls /\ now \in Nat
    BY <1>4 DEF FinishRead, OrderInv, TypeOK
  <2>3. now < ReadEntry(r).expiresAt
    <3>1. rd[r].ttl \in Nat \ {0} /\ ReadEntry(r).expiresAt = now + rd[r].ttl
      BY <2>2, CacheAssumption DEF ReadEntry
    <3> QED
      BY <2>2, <3>1
  <2> QED
    BY <1>1, <1>3, <1>4, <2>1, <2>3 DEF Places, Locked
<1>5. CASE AskScope(r) \/ BeginBypass(r) \/ BeginMiss(r)
  BY <1>1, <1>3, <1>5 DEF AskScope, BeginBypass, BeginMiss, Locked, Lessened
<1>6. CASE BeginHit(r)
  BY <1>1, <1>3, <1>6 DEF BeginHit, Answers, Fresh, Locked, Lessened
<1>7. CASE CopyHit(r) \/ Serve(r) \/ ReadRaises(r)
  BY <1>1, <1>3, <1>7 DEF CopyHit, Serve, ReadRaises, Locked, Lessened
<1>8. CASE FinishRead(r)
  BY <1>1, <1>3, <1>4, <1>8 DEF FinishRead, Locked, Lessened
<1> QED
  BY <1>5, <1>6, <1>7, <1>8 DEF ReadNext

LEMMA WriterOrder ==
  ASSUME NEW w \in Writers, WriteNext(w)
  PROVE  UNCHANGED maxSize /\ Lessened
BY DEF WriteNext, StartTables, StartEvery, StartWrite, Reach, Send, Apply, Answer, FinishWrite,
       WithdrawWrite, RemoveTables, Locked, Lessened, settings

LEMMA ScopeOrder ==
  ASSUME NEW l \in Loops, ScopeNext(l)
  PROVE  UNCHANGED maxSize /\ Lessened
<1>1. CASE OpenClient(l) \/ StampIdentity(l)
  <2>1. store' = RemoveScopes(Drained, {cell[l]} \ {NoScope})
    BY <1>1 DEF OpenClient, StampIdentity, Mint, Locked
  <2> QED
    BY <1>1, <2>1 DEF OpenClient, StampIdentity, RemoveScopes, Lessened, settings
<1>2. CASE RetireClient(l)
  BY <1>2 DEF RetireClient, RemoveScopes, Locked, Lessened, settings
<1>3. CASE SwitchIdentity(l) \/ AbandonIdentity(l) \/ CollectClient(l)
  BY <1>3 DEF SwitchIdentity, AbandonIdentity, CollectClient, Lessened, settings
<1> QED
  BY <1>1, <1>2, <1>3 DEF ScopeNext

LEMMA CallOrder ==
  ASSUME TypeOK, StoreIndexed, OrderInv, CallNext
  PROVE  \/ UNCHANGED maxSize /\ Lessened
         \/ UNCHANGED maxSize /\ \E k \in Key, e \in EntryType : now < e.expiresAt /\ Places(k, e)
         \/ maxSize' \in Nat /\ store' = EvictTo(Drained, maxSize', now)
<1>1. CASE Configure
  BY <1>1, CacheAssumption DEF Configure, Locked
<1>2. CASE Clear \/ Stats \/ Tick
  BY <1>2 DEF Clear, Stats, Tick, Locked, Lessened, settings
<1>3. ASSUME NEW t \in Tables, Invalidate(t) \/ ForeignWrite(t)
      PROVE  UNCHANGED maxSize /\ Lessened
  BY <1>3 DEF Invalidate, ForeignWrite, RemoveTables, Locked, Lessened, settings
<1>4. ASSUME NEW u \in UserKeys, GetKey(u)
      PROVE  UNCHANGED maxSize /\ Lessened
  BY <1>4 DEF GetKey, Fresh, Locked, Lessened, settings
<1>5. ASSUME NEW u \in UserKeys, SetKey(u)
      PROVE  /\ UNCHANGED maxSize
             /\ Lessened \/ \E k \in Key, e \in EntryType : now < e.expiresAt /\ Places(k, e)
  <2>1. UNCHANGED maxSize
    BY <1>5 DEF SetKey, settings
  <2>2. CASE Locked(RemoveKeys(Drained, {<<NoScope, u>>}), Live)
    BY <2>1, <2>2 DEF Locked, Lessened
  <2>3. ASSUME NEW t \in Tables, NEW ttl \in Ttls,
               Locked(Store(Drained, <<NoScope, u>>, OwnEntry(t, ttl), maxSize, now), Live)
        PROVE  \E k \in Key, e \in EntryType : now < e.expiresAt /\ Places(k, e)
    <3>1. <<NoScope, u>> \in Key /\ OwnEntry(t, ttl) \in EntryType
      BY SetEntryType
    <3>2. now < OwnEntry(t, ttl).expiresAt
      BY CacheAssumption DEF OwnEntry, TypeOK
    <3> QED
      BY <2>3, <3>1, <3>2 DEF Places, Locked
  <2> QED
    BY <1>5, <2>1, <2>2, <2>3 DEF SetKey
<1> QED
  BY <1>1, <1>2, <1>3, <1>4, <1>5 DEF CallNext

LEMMA OrderStep ==
  ASSUME CoherenceInv, OrderInv, [Next]_vars
  PROVE  OrderInv' /\ Evicts
<1>0. TypeOK /\ StoreIndexed /\ Ordered(store)
  BY DEF CoherenceInv, OrderInv
<1>1. ASSUME UNCHANGED maxSize, Lessened
      PROVE  Ordered(store') /\ Evicts
  BY <1>0, <1>1, LessenedKeeps DEF Evicts
<1>2. ASSUME UNCHANGED maxSize, \E k \in Key, e \in EntryType : now < e.expiresAt /\ Places(k, e)
      PROVE  Ordered(store') /\ Evicts
  BY <1>0, <1>2, PlacingEvicts
<1>3. ASSUME maxSize' \in Nat, store' = EvictTo(Drained, maxSize', now)
      PROVE  Ordered(store') /\ Evicts
  BY <1>0, <1>3, ConfigureEvicts DEF Evicts
<1>4. ASSUME NEW r \in Readers, ReadNext(r)
      PROVE  OrderInv' /\ Evicts
  BY <1>0, <1>1, <1>2, <1>4, ReaderOrder DEF OrderInv
<1>5. ASSUME NEW w \in Writers, WriteNext(w)
      PROVE  OrderInv' /\ Evicts
  BY <1>0, <1>1, <1>5, WriterOrder, WriterSection DEF OrderInv
<1>6. ASSUME NEW l \in Loops, ScopeNext(l)
      PROVE  OrderInv' /\ Evicts
  <2>1. UNCHANGED rd
    BY <1>6 DEF ScopeNext, OpenClient, SwitchIdentity, StampIdentity, AbandonIdentity, RetireClient, CollectClient
  <2> QED
    BY <1>1, <1>6, <2>1, ScopeOrder DEF OrderInv
<1>7. CASE CallNext
  <2>1. UNCHANGED rd
    BY <1>0, <1>7, CallSection
  <2> QED
    BY <1>0, <1>1, <1>2, <1>3, <1>7, <2>1, CallOrder DEF OrderInv
<1>8. CASE UNCHANGED vars
  <2>1. UNCHANGED <<store, rd, maxSize>>
    BY <1>8 DEF vars, settings
  <2> QED
    BY <1>1, <2>1 DEF OrderInv, Lessened
<1> QED
  BY <1>4, <1>5, <1>6, <1>7, <1>8 DEF Next

LEMMA OrderInit == Init => OrderInv
BY EmptyStoreOrdered, IdlePc DEF Init, OrderInv

(* The cache never holds more than max_size entries after a store or a     *)
(* configure(), and what makes room is the expired, then the least         *)
(* recently used (_store(), _evict_to()).                                  *)
THEOREM EvictionTakesTheOldest == Spec => EvictionIsLRU
<1>1. CoherenceInv /\ OrderInv /\ [Next]_vars => OrderInv'
  BY OrderStep
<1>2. CoherenceInv /\ OrderInv /\ [Next]_vars => [Evicts]_vars
  BY OrderStep
<1>3. Spec => [][Evicts]_vars
  BY <1>1, <1>2, OrderInit, CoherenceInvariant, PTL DEF Spec
<1> QED
  BY <1>3 DEF EvictionIsLRU, Evicts, Room
=============================================================================
