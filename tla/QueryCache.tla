----------------------------- MODULE QueryCache -----------------------------
(***************************************************************************)
(* The query cache of the ORM (cache.py) among the tasks that use it:      *)
(* readers that look a result up, send their read to the database and      *)
(* store its rows with a ticket; writers that put their tables in flight,  *)
(* run signal handlers and nested writes, ask for a client and send; the   *)
(* connection manager, which mints a scope for the client of each event    *)
(* loop at every identity it stamps and retires it with the client; and    *)
(* the program's own calls of QueryCache.                                  *)
(*                                                                         *)
(* A section under QueryCache._lock is one action: the class is shared by  *)
(* event loops and threads, which interleave between any two of them.  The *)
(* database is a version per table, and what a read returned is the        *)
(* versions of the tables it depends on with the identity it ran as.       *)
(***************************************************************************)
EXTENDS CacheStore

CONSTANTS
  Readers, Writers,   \* the tasks
  Loops,              \* the event loops, one published client each at most
  Idents, NoIdent,    \* who a client's session runs as; the owner of set()'s
  WriteTags,          \* the tables a write method may be resolved to
  EveryTable,         \* whether a write of every table is among them
  ForeignTables,      \* the tables something else than the ORM writes to
  Ttls, Sizes,        \* the TTLs and the max_size values in use
  MayAbandon,         \* whether an identity method may be cancelled half-way
  MaxWrites, MaxEpoch, MaxVersion, MaxNow   \* bounds of the counters

ASSUME CacheAssumption ==
  /\ WriteTags \subseteq (SUBSET Tags)
  /\ {} \notin WriteTags
  /\ ForeignTables \subseteq Tables
  /\ EveryTable \in BOOLEAN /\ MayAbandon \in BOOLEAN
  /\ Ttls \subseteq Nat \ {0} /\ Sizes \subseteq Nat \ {0} /\ Sizes # {}
  /\ IsFiniteSet(Writers)
  /\ NoIdent \notin Idents /\ Idents # {}
  /\ Requests # {} /\ Loops # {}
  /\ MaxWrites \in Nat /\ MaxEpoch \in Nat /\ MaxVersion \in Nat /\ MaxNow \in Nat

VARIABLES
  store,       \* _entries and the three indexes
  live,        \* _live_scopes
  retired,     \* _retired: the scopes of collected clients, not drained yet
  minted,      \* _scope_counter: how many scopes were minted
  gen,         \* _generation of each tag
  epoch,       \* _epoch
  writes,      \* _writes: completed writes
  flight,      \* _in_flight of each tag
  flightAll,   \* _in_flight_all
  enabled,     \* _enabled
  maxSize,     \* _max_size
  cell,        \* _client_scopes: the scope of each loop's client; NoScope: none
  session,     \* who that client's session runs as, on the server
  switching,   \* its identity methods between the server and the stamp
  ver,         \* the database: a version per table
  untracked,   \* tables changed by what the cache is not told of, since their
               \* last invalidation
  rd,          \* the readers
  wr,          \* the writers
  now          \* the cache's clock

counters == <<gen, epoch, writes, flight, flightAll>>
settings == <<enabled, maxSize>>
sessions == <<minted, cell, session, switching>>
database == <<ver, untracked>>
vars == <<store, live, retired, counters, settings, sessions, database, rd, wr, now>>

-----------------------------------------------------------------------------
(* What a read returned: the identity it ran as, and the versions it saw.  *)
Rows(i, T) == [ident |-> i, ver |-> [t \in T |-> ver[t]]]

NoRows == [ident |-> NoIdent, ver |-> [t \in {} |-> 0]]

NoTicket == [gens |-> [t \in Tags |-> 0], epoch |-> 0, writes |-> 0]

IdleReader ==
  [pc |-> "idle", q |-> CHOOSE q \in Requests : TRUE, loop |-> CHOOSE l \in Loops : TRUE,
   ttl |-> 0, scope |-> NoScope, ticket |-> NoTicket, rows |-> NoRows]

IdleWriter ==
  [pc |-> "idle", all |-> FALSE, tags |-> {}, reached |-> FALSE, outer |-> {}]

Init ==
  /\ store = EmptyStore
  /\ live = {} /\ retired = {} /\ minted = 0
  /\ gen = [t \in Tags |-> 0] /\ epoch = 0 /\ writes = 0
  /\ flight = [t \in Tags |-> 0] /\ flightAll = 0
  /\ enabled = TRUE /\ maxSize \in Sizes
  /\ cell = [l \in Loops |-> NoScope]
  /\ session \in [Loops -> Idents]
  /\ switching = [l \in Loops |-> 0]
  /\ ver = [t \in Tables |-> 0] /\ untracked = {}
  /\ rd = [r \in Readers |-> IdleReader]
  /\ wr = [w \in Writers |-> IdleWriter]
  /\ now = 0

(***************************************************************************)
(* _guard(): a section under the lock starts by retiring the scopes of the *)
(* clients collected since the last one.                                   *)
(***************************************************************************)
Drained == RemoveScopes(store, retired)
Live    == live \ retired

Locked(s, l) == store' = s /\ live' = l /\ retired' = {}

(* _busy(): a write in flight concerns a read with these tags.             *)
Busy(tags, links) ==
  \/ flightAll > 0
  \/ links /\ \E t \in Tags : flight[t] > 0
  \/ \E t \in tags : flight[t] > 0

-----------------------------------------------------------------------------
(***************************************************************************)
(* Cached reads: QuerySet._cached_read(), QueryCache._begin_read() and     *)
(* _finish_read().                                                         *)
(***************************************************************************)
ReadKey(r) == <<rd[r].scope, rd[r].q>>

EndRead(r) == rd' = [rd EXCEPT ![r] = IdleReader]

(* The read takes the connection's client and asks for its scope.  A read  *)
(* without a scope or with a TTL of 0 goes to the database, unseen here.    *)
AskScope(r) ==
  \E q \in Requests, l \in Loops, ttl \in Ttls :
    /\ rd[r].pc = "idle"
    /\ cell[l] # NoScope
    /\ rd' = [rd EXCEPT ![r] = [IdleReader EXCEPT !.pc = "keyed", !.q = q, !.loop = l,
                                !.ttl = ttl, !.scope = cell[l]]]
    /\ Locked(Drained, Live)
    /\ UNCHANGED <<counters, settings, sessions, database, wr, now>>

Bypassed(r) ==
  \/ ~enabled
  \/ rd[r].scope \notin Live
  \/ Busy(TagsOf(rd[r].q), rd[r].q \in ReqLinks)

(* An entry that has expired answers nobody, and is removed.               *)
Fresh(s, k) == k \in Held(s) /\ now < s.entries[k].expiresAt

(* ... and one older than this reader accepts does not answer it.          *)
Answers(r) ==
  /\ Fresh(Drained, ReadKey(r))
  /\ now - Drained.entries[ReadKey(r)].storedAt < rd[r].ttl

BeginBypass(r) ==
  /\ rd[r].pc = "keyed"
  /\ Bypassed(r)
  /\ EndRead(r)
  /\ Locked(Drained, Live)
  /\ UNCHANGED <<counters, settings, sessions, database, wr, now>>

BeginHit(r) ==
  /\ rd[r].pc = "keyed"
  /\ ~Bypassed(r) /\ Answers(r)
  /\ rd' = [rd EXCEPT ![r] = [@ EXCEPT !.pc = "copying",
                                       !.rows = Drained.entries[ReadKey(r)].rows]]
  /\ Locked(Touch(Drained, ReadKey(r)), Live)
  /\ UNCHANGED <<counters, settings, sessions, database, wr, now>>

(* The generations of the tags that matter, and the two counters.          *)
Ticket(tags) ==
  [gens   |-> [t \in Tags |-> IF t \in tags THEN gen[t] ELSE 0],
   epoch  |-> epoch,
   writes |-> writes]

BeginMiss(r) ==
  /\ rd[r].pc = "keyed"
  /\ ~Bypassed(r) /\ ~Answers(r)
  /\ rd' = [rd EXCEPT ![r] = [@ EXCEPT !.pc = "sent",
                                       !.ticket = Ticket(TagsOf(rd[r].q))]]
  /\ Locked(RemoveKeys(Drained, {ReadKey(r)} \ {k \in {ReadKey(r)} : Fresh(Drained, k)}),
            Live)
  /\ UNCHANGED <<counters, settings, sessions, database, wr, now>>

(* A copy is made outside the lock; a copy that raises drops its entry, if *)
(* it still is the key's.                                                  *)
CopyHit(r) ==
  /\ rd[r].pc = "copying"
  /\ EndRead(r)
  /\ \/ Locked(Drained, Live)
     \/ /\ ReadKey(r) \in Held(Drained)
        /\ Drained.entries[ReadKey(r)].rows = rd[r].rows
        /\ Locked(RemoveKeys(Drained, {ReadKey(r)}), Live)
  /\ UNCHANGED <<counters, settings, sessions, database, wr, now>>

(* run() asks for a client again: the read is served by the one the loop    *)
(* has by then, and its answer is back some time after; or it raises.       *)
Serve(r) ==
  /\ rd[r].pc = "sent"
  /\ cell[rd[r].loop] # NoScope
  /\ rd' = [rd EXCEPT ![r] = [@ EXCEPT !.pc = "answered",
                                       !.rows = Rows(session[rd[r].loop], ReadsOf(rd[r].q))]]
  /\ UNCHANGED <<store, live, retired, counters, settings, sessions, database, wr, now>>

ReadRaises(r) ==
  /\ rd[r].pc \in {"sent", "answered"}
  /\ EndRead(r)
  /\ UNCHANGED <<store, live, retired, counters, settings, sessions, database, wr, now>>

(* Mutant of Unmoved: the generations are not compared.                     *)
Unmoved_NoGenerations(r) ==
  /\ rd[r].ticket.epoch = epoch
  /\ rd[r].q \in ReqLinks => rd[r].ticket.writes = writes

(* Nothing the ticket depends on moved since the miss.                     *)
Unmoved(r) ==
  LET tags == TagsOf(rd[r].q) IN
  /\ rd[r].ticket.epoch = epoch
  /\ \A t \in tags : rd[r].ticket.gens[t] = gen[t]
  /\ rd[r].q \in ReqLinks => rd[r].ticket.writes = writes

MayStore(r) ==
  /\ enabled
  /\ Unmoved(r)
  /\ rd[r].scope \in Live
  /\ ~Busy(TagsOf(rd[r].q), rd[r].q \in ReqLinks)

ReadEntry(r) ==
  [rows |-> rd[r].rows, tags |-> TagsOf(rd[r].q), links |-> rd[r].q \in ReqLinks,
   scope |-> rd[r].scope, storedAt |-> now, expiresAt |-> now + rd[r].ttl]

FinishRead(r) ==
  /\ rd[r].pc = "answered"
  /\ EndRead(r)
  /\ \/ /\ MayStore(r)
        /\ Locked(Store(Drained, ReadKey(r), ReadEntry(r), maxSize, now), Live)
     \/ ~MayStore(r) /\ Locked(Drained, Live)
  /\ UNCHANGED <<counters, settings, sessions, database, wr, now>>

-----------------------------------------------------------------------------
(***************************************************************************)
(* Writes outside a transaction: the invalidates() decorator around a      *)
(* write method, writing() and reaching().                                 *)
(***************************************************************************)
Open(w) == wr[w].pc # "idle"

OpenWriters == {w \in Writers : Open(w)}

(* A handler of `outer' runs: before its request, or after its answer.     *)
InHandler(v) == wr[v].pc \in {"open", "post"} /\ \A w \in Writers : v \notin wr[w].outer

(* A write starts, alone or from a handler of another of the same task.    *)
StartWrite(w, all, tags) ==
  /\ wr[w].pc = "idle"
  /\ writes + Cardinality(OpenWriters) < MaxWrites
  /\ \E outer \in {{}} \cup {{v} \cup wr[v].outer : v \in {u \in Writers : InHandler(u)}} :
       wr' = [wr EXCEPT ![w] = [pc |-> "open", all |-> all, tags |-> tags,
                                reached |-> FALSE, outer |-> outer]]
  /\ Locked(Drained, Live)
  /\ IF all
       THEN flightAll' = flightAll + 1 /\ UNCHANGED flight
       ELSE /\ flight' = [t \in Tags |-> flight[t] + (IF t \in tags THEN 1 ELSE 0)]
            /\ UNCHANGED flightAll
  /\ UNCHANGED <<gen, epoch, writes, settings, sessions, database, rd, now>>

StartTables(w) == \E tags \in WriteTags : StartWrite(w, FALSE, tags)

StartEvery(w) == EveryTable /\ epoch < MaxEpoch /\ StartWrite(w, TRUE, {})

(* get_client() marks the write and every write around it as reached.      *)
Reach(w) ==
  /\ wr[w].pc = "open" /\ InHandler(w)
  /\ ~wr[w].reached
  /\ wr' = [v \in Writers |-> IF v \in {w} \cup wr[w].outer
                                THEN [wr[v] EXCEPT !.reached = TRUE] ELSE wr[v]]
  /\ UNCHANGED <<store, live, retired, counters, settings, sessions, database, rd, now>>

Send(w) ==
  /\ wr[w].pc = "open" /\ InHandler(w)
  /\ wr[w].reached
  /\ wr' = [wr EXCEPT ![w].pc = "sent"]
  /\ UNCHANGED <<store, live, retired, counters, settings, sessions, database, rd, now>>

(* The tables whose rows a write changes: a delete takes edges with it.    *)
Affects(w) ==
  IF wr[w].all THEN Tables
  ELSE (wr[w].tags \cap Tables) \cup (IF EDGES \in wr[w].tags THEN EdgeTables ELSE {})

Bumped(T) == [t \in Tables |-> ver[t] + (IF t \in T THEN 1 ELSE 0)]

Apply(w) ==
  /\ wr[w].pc = "sent"
  /\ \A t \in Affects(w) : ver[t] < MaxVersion
  /\ wr' = [wr EXCEPT ![w].pc = "applied"]
  /\ ver' = Bumped(Affects(w))
  /\ UNCHANGED <<store, live, retired, counters, settings, sessions, untracked, rd, now>>

(* The answer is back: the method goes on with another request, or with    *)
(* the around_* and post_* handlers that are left.                         *)
Answer(w) ==
  /\ wr[w].pc = "applied"
  /\ \E pc \in {"open", "post"} : wr' = [wr EXCEPT ![w].pc = pc]
  /\ UNCHANGED <<store, live, retired, counters, settings, sessions, database, rd, now>>

Landed(w) ==
  IF wr[w].all
    THEN flightAll' = (IF flightAll > 0 THEN flightAll - 1 ELSE 0) /\ UNCHANGED flight
    ELSE /\ flight' = [t \in Tags |-> IF t \in wr[w].tags /\ flight[t] > 0
                                        THEN flight[t] - 1 ELSE flight[t]]
         /\ UNCHANGED flightAll

NextGen(T) == [t \in Tags |-> gen[t] + (IF t \in T THEN 1 ELSE 0)]

(* _write_finished(): the call returned or, once it reached the database,  *)
(* raised, at any point of its request.                                    *)
FinishWrite(w) ==
  /\ Open(w)
  /\ \A v \in Writers : w \notin wr[v].outer
  /\ Landed(w)
  /\ writes' = writes + 1
  /\ IF wr[w].all
       THEN epoch' = epoch + 1 /\ UNCHANGED gen /\ Locked(EmptyStore, Live)
       ELSE /\ gen' = NextGen(wr[w].tags) /\ UNCHANGED epoch
            /\ Locked(RemoveTables(Drained, wr[w].tags), Live)
  /\ untracked' = untracked \ Affects(w)
  /\ wr' = [wr EXCEPT ![w] = IdleWriter]
  /\ UNCHANGED <<settings, sessions, ver, rd, now>>

(* Mutant of WithdrawWrite: the tables of a withdrawn write stay in flight. *)
WithdrawWrite_Leaks(w) ==
  /\ Open(w)
  /\ \A v \in Writers : w \notin wr[v].outer
  /\ ~wr[w].reached
  /\ Locked(Drained, Live)
  /\ wr' = [wr EXCEPT ![w] = IdleWriter]
  /\ UNCHANGED <<counters, settings, sessions, database, rd, now>>

(* _write_withdrawn(): the call raised before it reached the database.     *)
WithdrawWrite(w) ==
  /\ Open(w)
  /\ \A v \in Writers : w \notin wr[v].outer
  /\ ~wr[w].reached
  /\ Landed(w)
  /\ Locked(Drained, Live)
  /\ wr' = [wr EXCEPT ![w] = IdleWriter]
  /\ UNCHANGED <<gen, epoch, writes, settings, sessions, database, rd, now>>

(* What the cache is not told of: another process, raw SurrealQL, and the  *)
(* request of a write that ended before the server applied it.             *)
ForeignWrite(t) ==
  /\ t \in ForeignTables /\ ver[t] < MaxVersion
  /\ ver' = Bumped({t})
  /\ untracked' = untracked \cup {t}
  /\ UNCHANGED <<store, live, retired, counters, settings, sessions, rd, wr, now>>

-----------------------------------------------------------------------------
(***************************************************************************)
(* Scopes: bind_scope() at every identity stamp, retire_client() when the  *)
(* manager drops a client, _scope_collected() when one is only forgotten.  *)
(***************************************************************************)
(* Mutant of Mint: an identity set on a client that has a scope keeps it.   *)
Mint_Reuses(l) ==
  /\ minted < MaxScopes
  /\ minted' = IF cell[l] = NoScope THEN minted + 1 ELSE minted
  /\ cell' = [cell EXCEPT ![l] = IF @ = NoScope THEN minted + 1 ELSE @]
  /\ Locked(Drained, Live \cup {cell'[l]})

Mint(l) ==
  LET old == {cell[l]} \ {NoScope} IN
  /\ minted < MaxScopes
  /\ minted' = minted + 1
  /\ cell' = [cell EXCEPT ![l] = minted + 1]
  /\ Locked(RemoveScopes(Drained, old), (Live \ old) \cup {minted + 1})

(* A new client is published, signed in as someone.                        *)
OpenClient(l) ==
  /\ cell[l] = NoScope
  /\ Mint(l)
  /\ \E i \in Idents : session' = [session EXCEPT ![l] = i]
  /\ switching' = [switching EXCEPT ![l] = 0]
  /\ UNCHANGED <<counters, settings, database, rd, wr, now>>

(* The server half of signin(), signup(), authenticate() or invalidate().  *)
SwitchIdentity(l) ==
  /\ cell[l] # NoScope
  /\ minted + switching[l] < MaxScopes
  /\ \E i \in Idents : session' = [session EXCEPT ![l] = i]
  /\ switching' = [switching EXCEPT ![l] = @ + 1]
  /\ UNCHANGED <<store, live, retired, counters, settings, minted, cell, database, rd, wr, now>>

(* ... and its stamp, once the answer is back.                             *)
StampIdentity(l) ==
  /\ switching[l] > 0 /\ cell[l] # NoScope
  /\ Mint(l)
  /\ switching' = [switching EXCEPT ![l] = @ - 1]
  /\ UNCHANGED <<session, counters, settings, database, rd, wr, now>>

(* The task is cancelled while it awaits the answer: it never stamps.      *)
AbandonIdentity(l) ==
  /\ MayAbandon
  /\ switching[l] > 0
  /\ switching' = [switching EXCEPT ![l] = @ - 1]
  /\ UNCHANGED <<store, live, retired, counters, settings, minted, cell, session, database, rd, wr, now>>

(* Mutant of RetireClient: the client goes, its entries stay in memory.     *)
RetireClient_Forgets(l) ==
  /\ cell[l] # NoScope
  /\ cell' = [cell EXCEPT ![l] = NoScope]
  /\ Locked(Drained, Live \ {cell[l]})
  /\ UNCHANGED <<minted, session, switching, counters, settings, database, rd, wr, now>>

RetireClient(l) ==
  /\ cell[l] # NoScope
  /\ cell' = [cell EXCEPT ![l] = NoScope]
  /\ Locked(RemoveScopes(Drained, {cell[l]}), Live \ {cell[l]})
  /\ UNCHANGED <<minted, session, switching, counters, settings, database, rd, wr, now>>

CollectClient(l) ==
  /\ cell[l] # NoScope
  /\ cell' = [cell EXCEPT ![l] = NoScope]
  /\ retired' = retired \cup {cell[l]}
  /\ UNCHANGED <<store, live, minted, session, switching, counters, settings, database, rd, wr, now>>

-----------------------------------------------------------------------------
(***************************************************************************)
(* The program's own calls, and time.                                      *)
(***************************************************************************)
(* configure(): disabling hides the entries and refuses the reads begun.   *)
Configure ==
  /\ \E size \in Sizes, on \in BOOLEAN :
       /\ enabled' = on /\ maxSize' = size
       /\ on \/ epoch < MaxEpoch
       /\ epoch' = IF on THEN epoch ELSE epoch + 1
       /\ Locked(EvictTo(Drained, size, now), Live)
  /\ UNCHANGED <<gen, writes, flight, flightAll, sessions, database, rd, wr, now>>

(* get(): an expired entry goes, and one in flight is not served.          *)
GetKey(u) ==
  LET k == <<NoScope, u>> IN
  /\ enabled
  /\ \/ k \in Held(Drained) /\ ~Fresh(Drained, k) /\ Locked(RemoveKeys(Drained, {k}), Live)
     \/ /\ Fresh(Drained, k)
        /\ ~Busy(Drained.entries[k].tags, Drained.entries[k].links)
        /\ Locked(Touch(Drained, k), Live)
  /\ UNCHANGED <<counters, settings, sessions, database, rd, wr, now>>

(* set(): a value the program holds, of which the cache knows the table it *)
(* is tagged with; a TTL of 0 removes the key.                             *)
OwnEntry(t, ttl) ==
  [rows |-> NoRows, tags |-> {t}, links |-> FALSE, scope |-> NoScope,
   storedAt |-> now, expiresAt |-> now + ttl]

SetKey(u) ==
  /\ enabled
  /\ \/ Locked(RemoveKeys(Drained, {<<NoScope, u>>}), Live)
     \/ \E t \in Tables, ttl \in Ttls :
          Locked(Store(Drained, <<NoScope, u>>, OwnEntry(t, ttl), maxSize, now), Live)
  /\ UNCHANGED <<counters, settings, sessions, database, rd, wr, now>>

Invalidate(t) ==
  /\ writes + Cardinality(OpenWriters) < MaxWrites
  /\ gen' = NextGen({t}) /\ writes' = writes + 1
  /\ Locked(RemoveTables(Drained, {t}), Live)
  /\ untracked' = untracked \ {t}
  /\ UNCHANGED <<epoch, flight, flightAll, settings, sessions, ver, rd, wr, now>>

Clear ==
  /\ epoch < MaxEpoch
  /\ epoch' = epoch + 1
  /\ Locked(EmptyStore, Live)
  /\ untracked' = {}
  /\ UNCHANGED <<gen, writes, flight, flightAll, settings, sessions, ver, rd, wr, now>>

(* stats(): the expired entries are dropped before they are counted.       *)
Stats ==
  /\ Locked(RemoveKeys(Drained, Expired(Drained, now)), Live)
  /\ UNCHANGED <<counters, settings, sessions, database, rd, wr, now>>

Tick ==
  /\ now < MaxNow
  /\ now' = now + 1
  /\ UNCHANGED <<store, live, retired, counters, settings, sessions, database, rd, wr>>

-----------------------------------------------------------------------------
ReadNext(r) ==
  \/ AskScope(r) \/ BeginBypass(r) \/ BeginHit(r) \/ BeginMiss(r)
  \/ CopyHit(r) \/ Serve(r) \/ ReadRaises(r) \/ FinishRead(r)

WriteNext(w) ==
  \/ StartTables(w) \/ StartEvery(w) \/ Reach(w) \/ Send(w) \/ Apply(w)
  \/ Answer(w) \/ FinishWrite(w) \/ WithdrawWrite(w)

ScopeNext(l) ==
  \/ OpenClient(l) \/ SwitchIdentity(l) \/ StampIdentity(l)
  \/ AbandonIdentity(l) \/ RetireClient(l) \/ CollectClient(l)

CallNext ==
  \/ Configure
  \/ \E u \in UserKeys : GetKey(u) \/ SetKey(u)
  \/ \E t \in Tables : Invalidate(t) \/ ForeignWrite(t)
  \/ Clear \/ Stats \/ Tick

Next ==
  \/ \E r \in Readers : ReadNext(r)
  \/ \E w \in Writers : WriteNext(w)
  \/ \E l \in Loops : ScopeNext(l)
  \/ CallNext

Spec == Init /\ [][Next]_vars

-----------------------------------------------------------------------------
(***************************************************************************)
(* Types.                                                                  *)
(***************************************************************************)
Versions  == UNION {[T -> 0 .. MaxVersion] : T \in SUBSET Tables}
RowsType  == [ident : Idents \cup {NoIdent}, ver : Versions]
EntryType == [rows : RowsType, tags : SUBSET Tags, links : BOOLEAN,
              scope : Scopes \cup {NoScope}, storedAt : Nat, expiresAt : Nat]
TicketType == [gens : [Tags -> Nat], epoch : Nat, writes : Nat]
ReaderType == [pc : {"idle", "keyed", "copying", "sent", "answered"}, q : Requests,
               loop : Loops, ttl : Nat, scope : Scopes \cup {NoScope},
               ticket : TicketType, rows : RowsType]
WriterType == [pc : {"idle", "open", "sent", "applied", "post"}, all : BOOLEAN,
               tags : SUBSET Tags, reached : BOOLEAN, outer : SUBSET Writers]

IsStore(s) ==
  /\ Held(s) \subseteq Key
  /\ s.entries \in [Held(s) -> EntryType]
  /\ s.older \subseteq Key \X Key
  /\ s.byTable \in [Tags -> SUBSET Key]
  /\ s.byScope \in [Scopes -> SUBSET Key]
  /\ s.links \subseteq Key

CountersTypeOK ==
  /\ gen \in [Tags -> Nat] /\ epoch \in Nat /\ writes \in Nat
  /\ flight \in [Tags -> Nat] /\ flightAll \in Nat

(* The state of the cache, the clients and the tasks has the shape the code *)
(* gives it.                                                                *)
TypeOK ==
  /\ IsStore(store)
  /\ CountersTypeOK
  /\ live \subseteq Scopes /\ retired \subseteq Scopes /\ minted \in 0 .. MaxScopes
  /\ enabled \in BOOLEAN /\ maxSize \in Nat \ {0}
  /\ cell \in [Loops -> Scopes \cup {NoScope}]
  /\ session \in [Loops -> Idents]
  /\ switching \in [Loops -> Nat]
  /\ ver \in [Tables -> 0 .. MaxVersion] /\ untracked \subseteq Tables
  /\ rd \in [Readers -> ReaderType]
  /\ wr \in [Writers -> WriterType]
  /\ now \in Nat

-----------------------------------------------------------------------------
(***************************************************************************)
(* What the cache promises.                                                *)
(***************************************************************************)
(* The rows are those of the database now, but for the tables changed by   *)
(* what the cache is not told of.                                          *)
Current(rows) == \A t \in DOMAIN rows.ver : rows.ver[t] = ver[t] \/ t \in untracked

(* Every entry a read or a get() could be answered with (no write of its   *)
(* tables in flight) holds what the database holds: whatever the order of  *)
(* the reads, the writes, their handlers, failures and cancellations, no   *)
(* stale rows outlive a write (_write_started() ... _finish_read()).       *)
Coherent ==
  \A k \in Held(store) :
    Busy(store.entries[k].tags, store.entries[k].links) \/ Current(store.entries[k].rows)

(* A hit answers a read with the current rows of every table that read     *)
(* depends on (_begin_read()).                                             *)
HitsAreCurrent ==
  [][\A r \in Readers :
       rd[r].pc = "keyed" /\ rd'[r].pc = "copying" =>
         /\ DOMAIN rd'[r].rows.ver = ReadsOf(rd[r].q)
         /\ Current(rd'[r].rows)]_vars

(* The in-flight counts are those of the writes in progress, whatever      *)
(* succeeded, raised, was withdrawn or nested: none leaks, which would     *)
(* hide a table's entries for good, and none is lost, which would serve    *)
(* stale ones (_write_started(), _write_finished(), _write_withdrawn()).   *)
WritersOf(t) == {w \in Writers : Open(w) /\ ~wr[w].all /\ t \in wr[w].tags}
FlightExact ==
  /\ \A t \in Tags : flight[t] = Cardinality(WritersOf(t))
  /\ flightAll = Cardinality({w \in Writers : Open(w) /\ wr[w].all})

(* The indexes a removal goes by list exactly the entries they should      *)
(* (_store(), _remove(), _drop_all()).                                     *)
StoreIndexed == IndexesExact(store)

(* A client no identity method is changing serves, under its scope, only   *)
(* rows read as whoever its session runs as (_stamp_identity(): "cached    *)
(* results never cross identities").                                       *)
IdentityIsolated ==
  \A l \in Loops, k \in Held(store) :
    cell[l] # NoScope /\ switching[l] = 0 /\ store.entries[k].scope = cell[l]
      => store.entries[k].rows.ident = session[l]

(* No entry outlives the scope it was read under: each entry of a read is  *)
(* either reachable through a client or waiting in the queue of collected  *)
(* scopes, and no two clients share a scope (bind_scope(), retire_client()).*)
ScopesOwned ==
  /\ \A k \in Held(store) :
       store.entries[k].scope # NoScope =>
         store.entries[k].scope \in retired \cup {cell[l] : l \in Loops}
  /\ \A l, m \in Loops : l # m /\ cell[l] = cell[m] => cell[l] = NoScope
  /\ retired \cap {cell[l] : l \in Loops} = {}

Changed(k) == k \notin Held(store) \/ store'.entries[k] # store.entries[k]

(* The cache holds max_size entries at most, as soon as configure() or a   *)
(* store returns, and room is made at the expense of the expired entries,  *)
(* then of the least recently used: an entry dropped while it was fresh    *)
(* leaves the cache full of entries all fresh and all used after it        *)
(* (_store(), _evict_to()).                                                *)
EvictionIsLRU ==
  [][(\E k \in Held(store') : Changed(k)) \/ maxSize' # maxSize =>
       /\ Cardinality(Held(store')) <= maxSize'
       /\ \A k \in Held(store) \ Held(store') :
            \/ store.entries[k].scope \in retired
            \/ k \in Expired(store, now)
            \/ /\ Cardinality(Held(store')) = maxSize'
               /\ \A j \in Held(store') :
                    /\ now < store'.entries[j].expiresAt
                    /\ Changed(j) \/ <<k, j>> \in store.older]_vars

-----------------------------------------------------------------------------
(***************************************************************************)
(* Why it is coherent: the inductive invariant of QueryCacheProofs.        *)
(***************************************************************************)
(* A write in progress may have changed the table: its end is to come.     *)
Dirty(t) == \E w \in Writers : Open(w) /\ wr[w].reached /\ t \in Affects(w)

Sound(rows) ==
  \A t \in DOMAIN rows.ver : rows.ver[t] = ver[t] \/ t \in untracked \/ Dirty(t)

(* An entry is what its key says: the tags, links and tables of its read.  *)
Matches(k, e) ==
  /\ e.scope = k[1]
  /\ k[1] = NoScope => e.rows = NoRows
  /\ k[1] # NoScope => /\ e.tags = TagsOf(k[2])
                       /\ e.links = (k[2] \in ReqLinks)
                       /\ DOMAIN e.rows.ver = ReadsOf(k[2])

EntriesSound ==
  \A k \in Held(store) :
    Matches(k, store.entries[k]) /\ Sound(store.entries[k].rows)

(* A ticket never runs ahead, and the answer of one that still holds is    *)
(* as sound as an entry.                                                   *)
TicketsSound ==
  \A r \in Readers :
    /\ rd[r].pc \in {"sent", "answered"} =>
         /\ rd[r].ticket.epoch <= epoch /\ rd[r].ticket.writes <= writes
         /\ \A t \in TagsOf(rd[r].q) : rd[r].ticket.gens[t] <= gen[t]
    /\ rd[r].pc = "answered" =>
         /\ DOMAIN rd[r].rows.ver = ReadsOf(rd[r].q)
         /\ Unmoved(r) => Sound(rd[r].rows)

(* What is sent was marked first (reaching()).                             *)
SentIsReached ==
  \A w \in Writers : /\ wr[w].pc \in {"sent", "applied", "post"} => wr[w].reached
                     /\ wr[w].all \/ wr[w].tags # {} \/ wr[w].pc = "idle"

CoherenceInv ==
  /\ TypeOK /\ StoreIndexed /\ FlightExact
  /\ SentIsReached /\ EntriesSound /\ TicketsSound
=============================================================================
