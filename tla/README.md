# SurrealDB-ORM-lite in TLA+

This directory models the stateful core of the ORM (`src/src/surreal_orm_lite/`, below just
"the package"), checks it with TLC on small instances, and proves the main results for every
value of the constants with TLAPS.  Paths such as `cache.py:764` are relative to the package.

* [Inventory](#inventory): the parts of the system, their state, what is hard about them
* [Modules](#modules): which module models what, and how it corresponds to the code
* [Runs](#runs): what TLC checks, the bounds, and why they are enough
* [Proofs](#proofs): what is proved, from which assumptions, and along which argument
* [Findings](#findings): where documents and code disagree
* [Not modelled](#not-modelled), and the [Plan](#plan)

To run a check: `tlc -config <run>.cfg <module>.tla`; a proof: `tlapm <module>.tla`.

## Inventory

The ORM is an asyncio library: a class per connection keeps one client per event loop, models
and querysets compile calls to SurrealQL and await the client.  Whatever happens between two
awaits of one task is atomic with respect to the other tasks of the same loop; threads with
event loops of their own share the query cache (under a lock), the connection classes and the
embedded engine.

| Part | State | Operations | What is hard |
|---|---|---|---|
| Query cache (`cache.py`) | entries with three indexes, LRU order, generations, tables in flight, scopes, size limit | cached reads, `writing()` / `invalidates()` around every ORM write, `get/set/invalidate/clear/configure`, client scopes | a read whose answer crosses a write; nested and withdrawn writes; another identity on the same client; garbage collection under the lock |
| Transactions (`transaction.py`, `connection_manager.py:1927`) | queue or server transaction, failures, notes of written tables, deferred handlers, settings generation | `add`, `run_read`, `commit`, `cancel`, `transaction()` | failed statements the body catches; lost answers; cancelled tasks; settings that change under an open block |
| Retries (`concurrency.py`) | the attempt and its error | `retry_on_conflict()` | repeat only what was rolled back |
| Connection manager (`connection_manager.py`) | a client per loop, its open lock, the settings generation, identity and session token, selected namespace and database, signature cache | `get_client`, `add/set/remove_connection`, identity methods, `using`, close | opening races with settings and closing; replay of an identity on a new client; selection remembered apart from the client |
| Embedded slot (`connection_manager.py:1278`-`1810`, `embedded.py`, `testing/database.py`) | one engine for every loop and thread, one shared session, what the slot remembers of it, store claims | open, re-select, back to the owner, exchange, close, `embedded_database()` | the slot's memory of the session apart from the session; every step may fail or be cancelled; a store open once per process |
| Live queries (`live.py`, `connection_manager.py:3181`) | registry of subscribers per loop, stream state, signal queue | start, read, stop, kill, resubscribe | a drop, a stop and a kill in any order; identity of a resubscription; orphans on the server |
| Change feeds (`changefeed.py`) | cursor, pending events, bound generation | start, read, stop, retry | the cursor must neither skip nor replay; "now" found while writers append |
| Migration executor (`migrations/executor.py`) | the tracking table, the migration under way | apply, roll back, record, compensate | lost answers, two runners, a failure half-way |
| Migration history and comparison (`migrations/`) | none: values | order, compare, invert, render | order of a graph, inverses that restore |
| Signals (`signals.py`) | handlers by sender | send, wrap | the order and unwinding of `around_*` handlers |
| Routing (`routing.py`) | context variables | `using()`, model routes | which connection a nested call is sent to |
| Query building, DDL, encoding, decoding, auth helpers | none | compile, convert, validate | text and conversions: tests reach them |

How they interact: a queryset asks the connection manager for the client of its loop, keys the
cache by that client's scope, and sends through `_client.py`.  Every write method of a model,
queryset or edge runs inside `writing()`: outside a transaction its tables are in flight in the
cache meanwhile; inside one, they are noted on the transaction, which opens one bracket around
its commit.  The identity methods stamp a client with a new scope.  A change of a connection's
settings bumps its generation, retires its clients and ends its live readers; transactions,
change feeds and openings compare the generation they started with.  Live streams listen on a
client and resubscribe through the manager.  Migrations run through the manager as well.

What makes each part correct:

* **cache**: a hit shows current rows for everything the read depends on; rows never cross
  identities; in-flight counts and indexes are exact; the size limit holds and evicts the right
  entry.
* **transactions and retries**: all or nothing, also after errors the body swallowed; the report
  agrees with the database; repeated only after a rollback; deferred handlers only for durable
  writes; the cache told of every table; nothing left open on the shared connection; no commit
  into another database than the one meant.
* **connection manager**: one client per loop and settings; never a client of retired settings or
  of another identity; no waiter left behind by a failed or cancelled opening.
* **live**: every subscription of the server has one reader or is killed; no reader waits on a
  subscription that is gone; a resubscription keeps identity and settings.
* **change feeds**: yielded events are exactly those after the start, in order; resuming from the
  cursor skips none and repeats only what was not yielded.
* **embedded slot**: what it says of the session is so, whatever step of a way back failed; a
  store is claimed exactly while it is in use; no engine of retired settings is handed out.
* **migrations**: a migration is recorded if and only if it is applied, whatever answer is lost and
  whoever else runs; what `makemigrations()` writes applies, settles, and can be rolled back.

The full list of hazards, each at its line with the properties that cover it, is `hazards` in
`PROJECT.json`.

## Modules

| Module | Models | Role |
|---|---|---|
| `CacheStore` | entries, indexes, LRU and eviction of `QueryCache` | operators on a store value, no variables |
| `QueryCache` | `cache.py`, the cached read of `query_set.py`, the identity methods' scope | state machine, properties, inductive invariant |
| `QueryCacheProofs` | | type correctness, coherence; scopes, identities, eviction |
| `AtomicBlocks` | what `transaction()` and `retry_on_conflict()` promise | abstract specification |
| `Transaction` | `transaction.py`, `transaction()`, `retry_on_conflict()` | state machine, properties, refinement mapping |
| `TransactionProofs` | | types, all or nothing, deferred handlers, where writes go, nothing half open, the cache told, the refinement |
| `OrderedFeed` | what a change feed promises a program that saves its cursor | abstract specification |
| `ChangeFeed` | `changefeed.py`, the program that reads and resumes | state machine, properties |
| `ChangeFeedProofs` | | nothing lost, nothing repeated, where "now" is; the refinement of `OrderedFeed` |
| `LiveStream` | `live.py`, `kill()` and the clients under a stream | state machine, properties |
| `LiveStreamProofs` | | order, identity, nobody parked for good, nothing orphaned |
| `ServerClients` | `get_client()` and the identities of a server connection | state machine, properties |
| `ServerClientsProofs` | | types, locks, settings, stamps, identities |
| `EmbeddedSlot` | the embedded engine of a connection, model-level `bind=True`, blocks | state machine, properties |
| `EmbeddedSlotProofs` | | the guard, what the slot says, whom it serves |
| `EmbeddedClaimsProofs` | | which stores the process has claimed |
| `SchemaOperations` | `migrations/operations.py`, `state.py`, `compare.py` | pure operators |
| `MigrationPlan` | `migrations/loader.py`, the batches of `executor.py` | pure operators, recursive functions |
| `MigrationExecutor` | `migrations/executor.py` | state machine over `MigrationPlan` |
| `MigrationExecutorProofs` | | the order of the files, whose work a call returns, closed histories |
| `MakeMigrations` | `migrations/autodetect.py` | state machine over `SchemaOperations` |
| `MCQueryCache`, `MCTransaction`, `MCChangeFeed`, `MCLiveStream`, `MCServerClients`, `MCEmbeddedSlot`, `MCMigrationExecutor`, `MCMakeMigrations` | | instances for TLC |

### CacheStore and QueryCache

`CacheStore` is data: a store is a record of the entries (key to rows, tags, expiry), the LRU
order, and the indexes by table and by scope that the code keeps beside the entries, so that a
removal that forgets one of them is a wrong value.  `Store`, `RemoveTables`, `RemoveScopes`,
`EvictTo` are `_store()`, `_invalidate_tables()`, `_retire()`, `_evict_to()` and the helpers they
call.

`QueryCache` is the program around it.  One action is one stretch between two awaits or two
acquisitions of the cache's lock:

* a **reader** is `_cached_read()`: it asks for the scope of its loop's client (`AskScope`), and
  under the lock bypasses, hits or takes a ticket of the generations it depends on (`BeginBypass`,
  `BeginHit`, `BeginMiss`); a hit copies its rows after the lock is released (`CopyHit`); a miss
  has the database serve it (`Serve`) under whatever client the loop has by then, and stores what
  came back if its ticket is still good (`FinishRead`).
* a **writer** is a call of a method decorated with `invalidates()`: `StartTables`/`StartEvery`
  open the bracket, maybe inside a handler of another write of the same task (`outer`), `Reach`
  and `Send` hand the statement over, the database applies it when it likes, `Answer` brings the
  answer back, `FinishWrite` or `WithdrawWrite` close the bracket.
* **clients**: `OpenClient`, `SwitchIdentity` then `StampIdentity` or `AbandonIdentity` (the task
  is cancelled in between), `RetireClient`, `CollectClient` (a finalizer, which must not take the
  lock: the scope waits in `collected` and every locked section drains it first).
* **the program's own calls**: `Configure`, `GetKey`, `SetKey`, `Invalidate`, `Clear`, `Stats`.
* **the world**: `ForeignWrite` is raw SurrealQL or another process, outside the cache's promise;
  the tables it touches are tracked as `dirty` by the properties until the cache hears of a write.

Rows are abstracted to the version of every table they depend on and the identity they were read
as; this is all the properties tell apart.  A row set the program stores itself depends on no
table.  Left out: `default_ttl` (a read brings its TTL), the hit and miss counters, reads with a
TTL of 0 and statements that cannot be keyed (they never meet the cache), `copy.deepcopy` (equality
of values).  A write whose caller gave up before the server applied it is a `ForeignWrite`, as the
documentation has it.  Each loop has one published client; the stamps of dropped clients are not
kept.

### AtomicBlocks and Transaction

`AtomicBlocks` is what a caller of a decorated function with a `transaction()` block may rely on:
each attempt is one block, its writes become visible together or not at all, not at all after a
failed statement; what the caller is told agrees with that, but for an error, which may leave the
block in doubt; a next attempt follows only one that was rolled back.

`Transaction` is the code.  A *caller* is a task in the wrapper of `retry_on_conflict()`, a block
`<<c, n>>` its n-th attempt.  A body runs any of the statements of `Slots` in any order, from
several tasks, nested in each other's handlers, and may go on after any error.

* `StartWrite` opens the bracket of `writing()` and notes the tables; `RefuseWrite` raises before
  anything left and takes the notes back unless a write nested in it reached the transaction;
  `QueueWrite` and `SendWrite` are `add()` of the two strategies, `SendRead` is `run_read()`.
* `ReceiveRows`, `ReceiveError`, `SendFails`, `LoseStatement` are the ends of a statement;
  `AnswerRead` and `RelayRead` what the queryset makes of a read's error (a missing table is no
  failure: `_absorb_failure()`).
* `OpenBlock`, `BeginBlock`, `BodyRaises`, `BodyCancelled`, `ExitRetired`, `ExitFailed`,
  `SendCommit`, `CommitEmpty`, `ReceiveCommit`, `CommitRefused`, `LoseCommit`, `AbandonCommit`,
  `EndCancel`, `FireNext`, `FireRaises`, `EndBlock` are the lines of `transaction()` from its
  first to its last, one action per await and outcome.
* `BackOff`, `Wake`, `SleepCancelled`, `Finish` are the loop of the decorator; `ChangeSettings` is
  `add_connection()` or `remove_connection()` elsewhere in the program.
* `RunStatement`, `HandleCommit`, `HandleCancel`, `CloseConnection` are the server and the socket:
  they take the requests in any order.

`gen` is the settings generation `transaction()` reads, `serves` that of the client it then asks for:
`get_client()` awaits, and the settings may change at any await in between (`BeginBlock` takes any
client from the one's to now's).

`Faults` names what may go wrong, so that a run says which faults its property survives.  `stale`
are the tables a commit changed that the cache was not yet told of: it is the interface to
`QueryCache`, whose writers are the bracket `commit()` opens.  A write of no table notes nothing,
so the empty set is free to stand for `None`, the write of every table.

Left out: the notes of index and analyzer definitions (read by DDL helpers only), the records'
notes (`_note_record_write`, which the same bracket keeps the same way), the texts of errors, the
window between the server's `begin` and its answer, and the delay of the backoff.  A commit that
the server handles after its caller gave the block up is not in `stale`: docs/querying.md excludes
it from what the cache promises.

### OrderedFeed and ChangeFeed

`OrderedFeed` is at-least-once delivery with a durable cursor, without pages, requests or searches: a
feed that grows at its end, a reader that begins somewhere, hands out the next change it has not
handed out, is gone at any moment and begins again at the cursor that was saved; `Save` may only keep a
cursor that is past exactly the transactions handed out to their last change (`Exact`).
`ImplementsOrderedFeed` maps the feed to the positions and sizes of its entries, `from`, `last` to the
history `seen` of the stream, and the rest to the program: `Yield` is `HandOut`, `Begin` is `Begin`, `Resume` is
`Restart`, `Commit` is `Grow`, everything else that happens to a stream leaves the promise where it is.

In `ChangeFeed`, the reader of one feed, and the program around it.  `stream` are the fields of the
`ChangeModelStream`, `read` its coroutine: which request it waits for (`phase`) and where it is in
`_with_retry()` (`pc`), whether it runs in `__anext__()` or in `start()` (`mode`).

* `Read` and `Start` are the program's calls; `Loop` is the top of `__anext__()`'s loop, with its
  four early exits in their order; `Attempt` the top of `_with_retry()`'s.
* `Opened`, `Drop`, `Backoff`, `Raise` are one attempt: the client in hand and the request sent, a
  connection failure, the pause after it, an error that is not retried or a cancelled task.
* `ReceiveVersion`, `ReceiveCheck`, `ReceiveClock`, `ReceiveScan` (3.x), `ReceiveFirst`,
  `ReceiveDouble`, `ReceiveBisect` (2.x) are the rest of `_start()`, one per answer; `ReceivePage`
  is `_poll()` with `_accept()`, and `EndPause` the pause before the next page.
* `Process` and `Save` are what the documentation tells the program to do with an event and with
  `cursor`; `Resume` is the next process, which starts from what was saved; `Stop` is any task.
* `Answer`, `Commit`, `Tick` are the server, `ChangeSettings` the rest of the program.

An entry is its stamp and its number of record changes, none for a definition.  A 3.x stamp is a
millisecond and a counter, a 2.x stamp a counter that was shifted; `Unit` stands for the 65536 of
both, and `SINCE` takes the stamp on 3.x and the counter on 2.x (`Position`).  Left out: what the
events look like (`feed_events()`), the refusal of a datetime by an old embedded engine, the growth
of the delays, and 2.x's datetime (`None`), which the server answers with earlier changes too: the
model answers with all of them.

### LiveStream

One stream (`LiveStream` and the `LiveIterator` it reads), the loop's clients under it, and a server
with live queries.  `stream` are the stream's fields, `reader` the iterator, its queue and whether
its task waits in it, `resub` the resubscription task, `start`, `stop`, `kills` and `orphans` the
calls and clean-ups in progress, `queries` and `clients` the server's and the manager's side.

* `Start`, `Stop`, `KillLive`, `Signin`, `ClearSession`, `Close`, `GetClient`, `Read`, `CancelRead` are
  the program; `Resubscription` is `_resubscribe()` with its attempts, its identity check and its
  cancellation by a stop; `ConnectionLost` is the callback of a dead receive task.
* `Notify`, `Drop`, `Receive` and `Server` are the network and the database: a request is answered
  late, or never.

The program is assumed to go on after a `kill()` that was answered, or that a drop caught, before
any later exchange with the server; not to sign in while it starts the stream; not to stop it
while it starts.  Its kills come before the last of its counted calls.  Left out:
`auto_resubscribe=False`, the `on_reconnect` callback, `subscribe_live()` readers beside the stream's
own, the queue of handlers of a typed stream, a receive loop that dies on a frame it cannot read.
The fault `unstoppable` (the server refuses a `KILL` of the stream itself) exists in the model and is
left out of the run, and of the theorem about lost subscriptions: see [Findings](#findings).

### ServerClients

The clients of one registered connection on a server URL: `cached` the client of each loop, with
the settings it was opened on, whom its session runs as and the identity it is stamped with;
`queue` the lock of each loop; `lost` the loops whose identity a reconnect cannot restore; `token`
and `settings` of the connection; `task` the call each task is in.  An action is the segment of
`_acquire_client()`, `_connect_for_loop()`, `_publish()`, `signin()`, `invalidate()`,
`close_connection()` between two awaits, with the answer that ends the first.  `Drop` kills a
socket, `Cancel` is a cancelled task.  `chosen` is a history variable: the identity the program last
set with `store=False`.

Threads are not preempted between two awaits (each loop's state is its own; the shared settings are
read in one segment).  The program changes one identity at a time, and the stored session while no
client opens; a token is new.  A task is cancelled while it waits, opens or replays.

### EmbeddedSlot

`conn` is a connection class: its settings, the slot (`engine`, `selected`, `owner`, `user`), the lock and the
block it is in; `claims` are the store claims of the process; `task` the calls.  The engine is what
the slot cannot see: whether it is open, what its session has selected, whom it runs as, whether
the temporary owner user is defined in it.  A segment is a function on what its task may write
(`w`), so that `_held_embedded_client()`, `_reset_embedded_session()`, `_back_to_embedded_owner()`,
`_embedded_exchange()` are operators that call each other as the code does (`Held`, `Reset`,
`BackToOwner`, `Exchanged`), and an action is the answer to one await: `Opened`, `Removed`,
`Closed`, `Connected`, `Invalidated`, `OwnerSignedIn`, `Dropped`, `Used`, `Defined`, `Exchanged`, `Read`
and their failures.  `Acquire` takes the guard; the fast path changes nothing and is a stutter.

The program changes settings and enters or leaves blocks while no sign-in is under way on the
connection (`Settled`), does not close or register again a connection inside a block on its own
store (`Whole`, `NoClose`), does not nest or overlap blocks, and removes a connection outside its
blocks.  What happens otherwise is under [Findings](#findings).

`Cancel` is a task cancelled while it waits, opens, closes, connects, selects or reads, or at the replay of
an opening; `CutShort` one cancelled at the program's own exchange or at the replay of a reset or a
restore, where the code takes the session to be what it was.  That the engine had answered by then is the
element "answered" of `CancelledAt`: the run `embedded` leaves it out (see [Findings](#findings)), and covers the
cancellation before the answer; for a session that was not the owner's, both.  Not cancelled are the awaits that
define, remove or undo the owner user, sign in as it, end a session, or close an engine that left the slot.
A replay is accepted, refused or cancelled, and never meets a connection failure
(connection_manager.py:1268, 1471): an engine in the process does not drop (1017, 1029).
`moved` is a history variable: the database was changed under a call that holds the guard.

### SchemaOperations, MigrationPlan, MigrationExecutor

A schema maps names to definitions: a text (`as`), what it reads (an index its analyzer, a view its
table) and a clause that a model may leave to the database.  `SchemaOperations` says what an
operation does forwards and backwards on the replayed state and on the database, what the checks
refuse before the first statement (E-R1, E-G1, E-G2, E-I2), what the server refuses, and the
operations that lead from one schema to another.  `MigrationPlan` is the order of the files, the
plan of a call, the two batches of a migration (its analyzers, then everything else with the
tracking record) and the compensation.

`MigrationExecutor` runs them: `Begin` is a call of `migrate()`, `rollback()` or `upgrade()` in a process
of its own, `ReadHistory` and `Prepare` its reads and checks, then per migration `Commits`, `IsRefused` or
`IsLost` for a batch, `Skip`, `Raise`, `StartCompensation`, `Compensate`, `RebuildIndexes`, `NotRestored`
for what follows, and `RunData`, `DataFails` for the data operations.  `Cancelled` is a task given up at
any request.  `schema`, `built` (the analyzer whose tokens an index holds) and `recorded` are the
database.  Three history variables say when a promise does not bind: `half`, the migrations
that a loss, a cancellation or a failed compensation left half done (docs/migrations.md tells the user
to look), until a later run of the same migration commits; `stale`, a run acted on a schema that another
had moved; `crossed`, a `migrate()` and a `rollback()` overlapped.

A batch takes effect at one moment; when its answer is lost, that was before the call goes on, or
never.  Indexes made by hand are created at any time (`DefineByHand`).  Left out: `fake=True`,
recorded names without a file, definitions that cannot be read (E-I1), the refusals of one server
version (E-D1 to E-D3), `RawSQL`, functions.

### MakeMigrations

The models change (`EditModels`), the database is changed by hand (`ChangeByHand`), and
`MakeMigrations`, `Migrate` and `Rollback` are the calls, one at a time: what they do to each other is the
question here, what interrupts them is `MigrationExecutor`'s.  A file depends on every leaf before
it, so the files are a sequence.  `before` remembers the schema each file was applied to, `moved` the
files that were made for another database than there is now.  The models declare closed
schemas: what is declared reads what is declared.

## Runs

| Run | Question | Instance | States |
|---|---|---|---|
| `cache_staleness` | Can an entry that would answer a read be stale, or a hit show old rows? Are the in-flight counts and indexes exact? | one reader of an edge table and of a link path, two writers (nested or not), writes of every table, abandoned sign-ins | 742,000 |
| `cache_identity` | Do rows cross identities? Who is evicted at the limit? | a reader and the program on two loops, two identities, clients opened, switched, retired and collected, a clock, two sizes | 306,000 |
| `tx_block` | All or nothing, handlers for durable writes only, the cache told? | one block, three statements of any kind and nesting, of one table or of every table, answers refused, lost, cancelled, conflicting | 1,368,000 |
| `tx_retry` | Is anything applied twice, or committed elsewhere? Is every transaction closed? Does the code implement `AtomicBlocks`, and does every function end? | two attempts, every fault but a cancelled task, a lost cancel and a conflict raised by a handler; settings that change | 45,000 |
| `tx_cancelled_task` | violation: see [Findings](#findings) | one statement, a cancelled task | to the violation |
| `feed` | Does a reader get every change once, in order, from where it started; does a saved cursor lose none; do the streams of a program that resumes implement `OrderedFeed`; does a stop end a read? | a 2.x or a 3.x server, two entries of up to two changes, two milliseconds, pages of two, two streams, every fault | 1,467,000 |
| `live_stream` | Is a subscription left behind, a reader parked for good, an event lost, an identity changed? Does every resubscription and stop end? | one stream, two connections, one event per run, two starts, stops, kills and sign-ins | 439,000 |
| `clients` | Is a client of other settings served, a socket or lock left behind, a lost identity answered as somebody else? | two tasks of one loop and one of another, every fault, one change of settings | 485,000 |
| `embedded` | Is what the slot says of the shared session so? Are the claims exact? Is a retired engine handed out? | two tasks, a connection with every call and one that opens and closes, two URLs of one store, every fault, cancellations at eight kinds of await, one block, one change of settings | 1,462,000 |
| `migrate` | When nobody was disturbed, is the schema what the tracking table says? Does a run claim another's work, record a migration before one it needs, or send what the server refuses? | two processes, three calls, two faults | 1,356,000 |
| `makemigrations` | Does a second call write nothing, a generated file apply, a rollback restore, and what nobody declares stay? | two files, two statements by hand, six names | 222,000 |
| `migrate_together` | violation: see [Findings](#findings) | two processes, two calls, no fault | to the violation |

Deadlock is not checked where the run's programs end (transactions, feeds, streams, the bounded
calls of `clients` and `migrate`); the cache's, the embedded slot's and `makemigrations`' never
do.  Symmetry is used for invariants and for action properties, over values the specification never
tells apart, and never with a liveness property.

**Bounds.**  Two writers are enough for one to be nested in, or to overlap, the other; the
properties of a cached read involve one key, one read in flight and the writes around it, so a
third writer adds orders of the same pairs.  `MaxWrites`, `MaxVersion`, `MaxEpoch` and `MaxNow`
bound the writes, the versions of a table, the generations bumped by `clear()` and the clock:
each run allows at least one more than the shortest behaviour that breaks the property of its
mutant.  Three statements are the fewest where a nested write, its outer one and a concurrent one
meet; two attempts are the fewest with a retry, and what `Retry` decides does not depend on the
attempt but for the last.  `MaxGeneration = 1` lets the settings change at any point once, in every
module that has it.  Two entries fill a page and a millisecond of a 3.x feed, so that the scan reads on, and
can be a transaction of two changes followed by a definition; on 2.x counters to 3 make it double twice
and bisect.  `MaxClients = 2` lets a stream drop, resubscribe and drop again (a third connection is one
that cannot be opened), `MaxCalls = 2` start it twice.  Two tasks of one loop contend for its lock,
the third is retired from the other loop.  In `embedded` a task that holds the guard meets one that waits,
changes the settings or comes from the block; the second connection is there for the claims, and the store
is reached under two URLs.  Three calls are the fewest with a migration half done by one, a second
process in between and a run that repairs it; two faults break a batch and then its compensation.  Two
files are the fewest where one is pending while the next is made.  The theorems hold for every bound.

**Fairness.**  `tx_retry` assumes weak fairness of `Progress(c)` for each caller, `feed` of the reading
task and of the server's answers, `live_stream` of the resubscription, of the calls in progress and of the
server.  The event loop runs a task that can go on; a request sent is answered, or its connection is
closed, in which case the client raises; a body starts only finitely many statements, and ends.
Nothing is assumed of the settings, of drops, nor of new calls.

Each property of a passing run has a mutant: a definition of the model changed as a plausible bug
in that line would, under which TLC finds the property violated.  The mutants stand beside the
definitions they replace, named `<definition>_<what is wrong>`.

## Proofs

**QueryCache.**  `QueryCacheProofs` proves type correctness (`TypeCorrect`), and the inductive
invariant

    CoherenceInv == TypeOK /\ StoreIndexed /\ FlightExact /\ SentIsReached
                           /\ EntriesSound /\ TicketsSound

and from it `Coherent`, `FlightExact`, `StoreIndexed` and the action property `HitsAreCurrent`,
for any sets of tasks, tables, requests and loops and any bounds.  `Coherent` alone is not
inductive: a read that is under way will store what the database answered, so its ticket has to
be sound as well (`TicketsSound`: a ticket that may still store has rows that are current, or a
table that is untracked, or under a write in flight).  Both need the flight counts to be those of
the open writers (`FlightExact`), that a write sent has been marked as reached
(`SentIsReached`, otherwise it could be withdrawn after it was applied), and that an index never
misses an entry (`StoreIndexed`), or an invalidation would.  The assumptions are those of the
module: the finite sets and what a request depends on.

The second half of the module goes on from `CoherenceInv`.  `ScopesOwned` needs to know that what
`bind_scope()` mints next is not in use (`ScopesMinted`).  `IdentityIsolated` speaks of entries; a read
in progress is about to make one, so `ReadersHome` says that a scope a reader asked for is its own
loop's or nobody's, and `AnswersHome` that an answer it holds, if that scope is still the loop's and no
identity method is under way there, is what the session's identity may see.  It assumes
`MayAbandon = FALSE`: without that the statement is false of the code (see `AbandonIdentity` in
[Findings](#findings)).  `EvictionIsLRU` is an action property; it needs the order of use to be total on
the entries (`Ordered`), and the theorem is about `_evict_to()` as it is written, a loop over the
expired and then over the oldest, modelled by its result.

**Transaction.**  `TransactionProofs` proves `TypeOK`, `AllOrNothing` and `DeferredAreDurable` for any
number of callers, attempts, statements and tables and any set of faults, through the invariant

    BlockInv == TypeOK /\ RetriesLeft /\ FreshBlocks /\ ResultsFinal /\ FailuresNoted
                  /\ RunningAwaited /\ StagedAnswered /\ QueueWritten
                  /\ CommitsSettled /\ HandlersWait /\ DeferredAreDurable

`AllOrNothing` is not inductive: it speaks of what is visible, and what the commit will make visible is
decided before it is sent.  `CommitsSettled` says that a commit which is on its way, or done, is of a
block whose statements are done, none failed, and whose writes the server holds exactly.  It is
established where `SendCommit` finds `_failures` empty, which is enough only because every failure is in
that list until the queryset absorbs it (`FailuresNoted`), because the server's writes are those that
succeeded and those given up (`StagedAnswered`, which needs `RunningAwaited`: the server never runs
a statement whose result was already good), and because a batch's queue is its successful writes
(`QueueWritten`).  Later statements of the block could spoil it; none can step, since each step needs
the body to be open or a statement under way.  `HandlersWait` ties the deferred handlers to those same
writes and to the commit's answer.  The one assumption beside the constants is in the model: a body
returns when its statements are done (`BodyReturns`), that is, it awaits the tasks it starts.

The proof looks at one statement (`SlotInv`) and one block (`BlockHolds`) at a time: a step of statement
`s` of block `x` changes nothing else but marks (`Elsewhere`), a step of block `x` no other block
(`Beside`).

From `BlockInv`, by further invariants that hold of each block for itself:

* `WritesWhereOpened`, from `Placed`: a body's client is of the block's settings or of later ones, never of
  later ones than now, and from the commit on of the block's.  The last part is what has to be shown:
  the commit compares the block's generation with that of the moment, the client was taken at
  neither, and only because it lies between them does the comparison settle where the writes
  are.  It must stay settled while the answer, the handlers and the report are due and the settings go on
  changing, and a block that cancels must never be reported as good.
* `NoneHalfOpen`, from `HalfOpen`: a transaction the server has open belongs to a block that is still
  going, or its end has been asked for, or the connection is going down.  It assumes that no task is
  cancelled and no cancel lost: the first is false of the code (finding 1), and after the second
  the client knows that the connection is gone.
* `CacheTold`, from `NotesHold`: the notes of a block are as many as its statements in progress or
  done, per table and for "every table" (`Counts`), because a nested statement ends before the one
  around it (`Nested`).  A count that went wrong by one would withdraw another statement's note.
* `ImplementsAtomicBlocks`, the refinement of `AtomicBlocks` (`BlocksImplementAtomicBlocks`).  A write
  of the abstract block is `ReceiveRows` or `QueueWrite`; a failure is `SendFails`, `ReceiveError`,
  `LoseStatement` or `RelayRead`; a commit is `HandleCommit` when the server makes the writes visible,
  or `CommitEmpty`; a rollback is `HandleCommit` when it refuses, or `CloseConnection`; the caller is
  told by the step into "ended"; every other step stutters (`Lifted` turns one block's move into a
  step of the whole).  `Ending` says what a block that raises may still make visible, which is what
  `Tell` needs; `Turned` and `Tries` say that an attempt follows only one that ended in a conflict
  with nothing visible.  It assumes that no deferred handler raises a conflict, the hazard at
  concurrency.py:118: `retry_on_conflict()` cannot tell such a conflict from one of the commit, and
  repeats what is durable.

**ServerClients.**  `ServerClientsProofs` proves the four properties of the run `clients`, for any loops,
tasks, settings, identities and faults, from the invariant

    Inv == TypeOK /\ LocksLetGo /\ OpensRight /\ OneIdentity /\ ServesCurrent /\ Stamps

`LocksLetGo` is inductive with the types: one lemma per thing that can happen to a queue (it stays, its
holder goes on, lets go, is joined, or somebody leaves from the middle), and each action is an instance of
one.  `ServesCurrent` needs to know what a call is about to publish: `OpensRight` says that a client being
opened is on the settings of its own generation, so that the comparison in `_publish()` decides it.
`StampTells` compares with the token of now, which moves; `Stamps` says of a stamp that does not tell what its
client runs as that no token equals it, nor ever will, which holds since a token stored anew is new (`Fresh`) and is
stored while no client opens (`Quiet`).  `OneIdentity` is there for `invalidate()`: while its second step is
due no token comes back.  `GetsAsChosen` adds `Choices`: an identity set with `store=False` is that of the
loop's client, or noted as lost, or of a client being discarded by a task that will note it.  It assumes that no
task is cancelled in between (`NotCutShort`): the code loses the identity then, see
[Findings](#findings).

**ChangeFeed.**  `ChangeFeedProofs` proves the four safety properties of the run `feed` and `FromNow`, for
any feed, size of page, number of retries, restarts and faults, from

    FeedInv == TypeInv /\ LogInv /\ StreamOK(stream) /\ ReadOK(stream, read) /\ ProgramOK

`NothingLost` and `ResumesExactly` speak of a cursor, which is advanced when an entry is used up and
not when it is read, so the pending events must be known: `StreamOK` says that they go on from the last
one handed out without a gap, end with the end of an entry (`PendingOK`), and that the cursor an event
brings is past its own entry and past no later change (`AfterOK`, which holds of a transaction in
several entries, and of definitions, that carry none).  `ReadOK` says that the page answered is a piece
of the feed from the place asked for, without a hole, and that one that is not full reaches the end
of the feed as it was when the server answered.  `ProgramOK` carries the promise through restarts: what lies
between the origin of the program and its saved cursor was processed, and no later entry can
come before that cursor (`Settles`).  `LogInv` says that positions grow, which the server guarantees.
`_accept()` is a fold over a page: that it turns a page into pending events is proved at the least place
where it would not, with the least element of a set of numbers (`NatMinimum`).

`FromNow` adds `NowInv`, the bracket of both searches: everything there at the call is below `high`
(or below the instant asked of the server), and something is at or above `low`.  It assumes
`MaxClock < MaxCounter`: a 2.x counter has not reached 2^63 - 1, where `_end_of_feed_2x()` gives up.

`FeedIsOrdered` is the refinement of `OrderedFeed`, from `FeedInv` and `Unbegun` (a stream that has not
started is nowhere in the feed).  An event that is pending is the least change the reader wants
(`NextWanted`, from `Follows`, which `PendingOK` has); the cursor a program can save is exact (`SplitsExactly`,
from `StreamOK`); a stream that resumes begins at what was saved because only `cursor` is left of `since` then
(`ProgramOK`); and a commit is below no saved cursor (`Settles`, `Grows`).

**LiveStream.**  `LiveStreamProofs` proves the four invariants of the run `live_stream`, for any number of
connections, calls, sign-ins and attempts, from

    LiveInv == TypeInv /\ Known /\ Roles /\ Asked(resub) /\ Asked(start) /\ Buffer /\ Wakes /\ Same

`Roles` is who may do what at the same time: what makes it an invariant is that `start()` waits for the
resubscription it cancelled, and that a resubscription is of the query the reader still has.  `Asked` says that
the uuid of a `LIVE SELECT` under way is known to its caller alone, so that no other step can end it.
`Buffer` is the queue of the reader and where the end stands in it; `InOrder` is part of it.  `Wakes` is
the part `NeverParkedForGood` needs: of a reader that waits, either its query runs on a connection that is
watched, or the callback is due, or a task is on its way.  `Same` follows the identity from the stamp of a
client to the query it asks for: a signin under way is the only time at which they differ, and it marks the
query as raced.  `NoOrphan` needs `HeldInv` as well: a kill goes to the connection its query is on and
one that was answered has ended it (`Aimed`), and a query that runs is somebody's (`Held`).
It assumes that the server refuses no kill of the stream itself, of which it is false (see
[Findings](#findings)).

**EmbeddedSlot.**  `EmbeddedSlotProofs` proves `SessionKnown` and `ServesCurrent`, for any connections, tasks,
stores, users and faults, from

    SlotInv == TypeOK /\ GuardHeld /\ CallKnown(t) of each task
                 /\ ConnOK of each connection, and FreeOK of its slot if nobody holds its guard
                 /\ Stage of each task that holds one

`FreeOK` is `SessionKnown` of a free guard and what follows from it; it is not inductive, for the slot is
emptied, reselected and filled again in several awaits.  `Stage` has one clause per await: on
the way back to the owner the slot says nothing of its selection (`Returning`), while a session is opened,
selected again or restored the call knows for which settings (`Phased`), and a call that changes the
identity has the session of the settings (`Owns`).  The settings change under a call that waits; so
`Stage` speaks of the generation the call started from, and of the settings only if that is still theirs.
`GuardHeld` makes the call that holds the guard the only one that can spoil its stage.  A sign-in keeps the
settings as they were (`CallKnown`): the model's `Settled`, without which the code goes wrong
([Findings](#findings)).  `ServesCurrent` is proved with it, segment by segment: a call that lets the
guard go leaves a slot that is empty, of other settings, or of these.  All theorems of the slot assume
`NoneAnswered`: no exchange of an open engine is cancelled after the engine has answered it.  With one the
statement is false of the code, which then keeps the owner's flag on a user's session ([Findings](#findings)).

`EmbeddedClaimsProofs` states `ClaimsExact`, from `SlotInv` and a second invariant,

    ClaimsInv == no engine in the hand of a task without the guard
                 /\ Account of each connection, with the task that holds its guard /\ Agreements
    Account   == the stores claimed are those of the engines in the slot, in the block and
                 in that task's hand /\ Aside /\ Hand

The code never counts the engines of a store: a claim is taken or let go from what one call knows, `claimed`
in `_open_embedded()`, the URL of a closed engine in `_forget_embedded()`.  `Hand` is that knowledge: an engine
which is being closed shares its store with no other of the connection, and one being opened took the
claim itself unless the engine put aside has it.  `Aside` is why: inside a block the connection is on the store
of the engine put aside just when that engine was closed for it, so that a close of the block's engine
does not let go of a store which the outer one still has.  `Agreements` are what the program keeps (blocks
do not overlap, `Whole`, `NoClose`).  The same segments are followed once more, and what each does to the
account is stated for a world with one task (`Passes`, `Proceeding`, `Publishes`, `Drops`).  That one connection's
call spares the claims of the others is `Only`; it needs that `None` names no connection, a conjunct of
`SlotAssumption`.

Beside `NoneAnswered`, the theorem assumes `ReturnsApart`: a program that enters blocks on a connection
and registers it again, on a store on disk, has only blocks on that store.  Without it the statement is
false of the code.  A connection signs in and logs out on store x and its engine does not open again; a
block takes it to store y; inside, it is registered on x, opened and closed, which lets the claim go;
another connection claims x; and the end of the block puts back an engine of x, whose claim
`_reclaim_store()` cannot take (`setdefault()`, connection_manager.py:3697).  TLC finds this in 21 steps
once the stores are two.  The run `embedded` satisfies the assumption: the block and what may be
registered share one store or are in memory.

**MigrationExecutor.**  `MigrationExecutorProofs` has three results, for any files, processes, calls and
faults.  `OrderRespects`: what `order()` returns has every file once, after those it depends on, and
no other.  The order is a recursive function, and so is what `Plan` and `Undo` take from it; that such
a function exists follows from the well-founded order of numbers (`Recursive`), and what holds of its
values is proved at the least number where it would not (`LeastNumber`, `UpTo`), since the induction
theorems of the library cannot be instantiated.  That it has every file is the loader's check for
cycles, the model's assumption `NoCycle`.

`OwnWorkAlways` states `OwnWork`, from `ExecInv`: it is inductive, for `_apply()` notes a migration as its own
when its second batch commits, and goes on from a failed one only through `FoundDone`, which
returns nothing.  `HistoryStaysClosed` states `HistoryClosed` and needs

    ClosedInv == Loose \/ /\ Apart /\ ~HistoryBroken(recorded)
                         /\ \A p \in Processes : Forward(run[p], recorded) /\ Backward(run[p], recorded)

A call plans on a history it read earlier.  `Forward` says that what a `migrate()` knows is still
recorded, since only others of its kind run, and that its plan puts each file after the
dependencies it does not know recorded (`Follows`, from `OrderRespects`); so the first of the plan may be
recorded.  `Backward` is the reverse for `rollback()` (`Precedes`).  `Loose` are the cases it says nothing of:
a `rollback()` that overlapped a `migrate()`, which the code does not order, and a database whose history
was broken at first.  The theorem assumes that no history of `Histories` is: calls refuse such a one
and leave it as it is.

**Model-checked only.**
* Liveness under fairness: `CallsEnd`, `StopEnds`, `Ends`.  The prover does not reason about `ENABLED` or
  fairness.
* `HistoryIsSchema` and `RefusalsForeseen` of the executor, and the properties of `makemigrations()`.
  They are about what files say: a replay is a fold over them, that undoing one restores a schema is an
  induction over its operations, and it takes files like those the generator writes.  Of arbitrary ones
  it is false: a file that removes an analyzer and then defines it again sends the definition first,
  in the batch of its analyzers, and `previous` may say what never was.

## Findings

Two places where a document or comment says one thing and a run shows the code doing another.  No
passing run needs them.

1. `tx_cancelled_task`: `transaction()` catches `Exception`, and `CancelledError` is none: a task
   cancelled in a block leaves an interactive transaction open on the shared connection, which
   the comment at connection_manager.py:2022 says never happens.
2. `migrate_together`: docs/migrations.md:97 says that another process applying the same migration at
   the same time is safe.  `migrate()` reads the tracking table once and the schema later, and sends
   a migration's analyzers in a batch before the one that holds its record: a run overtaken in between
   redefines an analyzer that a later, already applied migration had changed, then skips, and
   restores nothing.

Others were met while modelling; the passing runs exclude the condition each needs, and say so:

* docs/querying.md:949 has a write remove the cached reads before its `post_*` signals fire; they are
  removed when the decorated method returns.  Reads in a handler are right all the same: the tables
  are in flight, the cache is bypassed.
* docs/querying.md:1001: an identity method cancelled after the server switched and before the new
  scope is stamped leaves the old scope on a client that reads as the new identity
  (`AbandonIdentity`; the run `cache_identity` leaves it out with `MayAbandon = FALSE`).
* docs/writing.md:235: a conflict raised by a deferred `post_*` handler after the durable commit makes
  `retry_on_conflict()` run, and commit, the function again.
* live.py:970: a `KILL` of the stream that the server refuses is swallowed, and the live query stays
  (`unstoppable`; comments at 769 and 972).
* connection_manager.py:1053: a task cancelled while it discards a dead client leaves the loop without
  the mark that its identity was lost: the next call is served as the configured user.
* connection_manager.py:1048: a call that waited for the lock when the identity was lost takes the
  client another call opened to restore one (exempted in `AsChosen`).
* connection_manager.py:2281: a replay that is refused forgets the stored token, also when another
  loop stored a newer one meanwhile; 2364: an `invalidate()` that races a `signin()` of another task
  stamps the wrong identity (`Quiet`, `OneAtATime`).
* connection_manager.py:2133: on the embedded engine `signin()` takes the namespace and database of its
  payload before it waits for the guard, and the token of 2219 is kept after the settings changed:
  a reopened engine replays it, which moves the session to the old database (comment at 378; `Settled`).
* connection_manager.py:1781: while a block on the connection's own store ends, the settings are back and
  the slot still has the block's client, closed: the fast path may hand it out (comment at 1286;
  `TakenBack`).  1782: a store claimed by a re-registration inside such a block is not released; 1681: a close
  inside it releases the outer engine's claim (`Whole`, `NoClose`).
* connection_manager.py:1511: a `bind=True` cancelled after the engine answered its exchange and before the
  task took the answer, where asyncio throws `CancelledError` all the same.  The comment at 1513 has the
  session unchanged: `__embedded_owner` stays true on the record's session, the restore promised at
  model_auth.py:825 ("cancellation included") finds nothing to undo, and the next `get_client()` is handed
  the session of a call that failed.  With `"exchanging"` and `"answered"` in `CancelledAt`, TLC finds
  `SessionKnown` violated in four steps.
* connection_manager.py:1508 and 1514: a cancellation while the owner user is defined or removed leaves the
  slot's flag wrong, so that the next way back to the owner fails; the code keeps its word otherwise.

## Not modelled

* **Function signatures** (connection_manager.py:2560-2760): a cache of stored functions' signatures
  per connection, and `USE` on a server client.  A stale signature changes which arguments a call
  checks before it is sent; the server checks them again.
* **The handlers of a typed stream** (live.py:1310-1375): an unbounded queue and a task that sends
  `post_live_change`, started with the first event and drained, or cancelled after a time, by a stop.  It
  changes nothing of the stream modelled here.
* **The unwinding of `around_*` handlers** (signals.py): generators driven in a stack by one task.
* **HTTP clients, `auto_resubscribe=False`, dead event loops**: fewer states than what is modelled.
* **Preemption between two threads' event loops** inside one segment: the code guards the cache with a
  lock, which `QueryCache` models step by step, and the embedded slot with a lock-free read whose order
  (client last) the segments of `EmbeddedSlot` keep atomic.
* **Text**: SurrealQL, DDL, rendered migrations, command line output; conversions between Python and SDK
  values; the SDK itself; test helpers.  They keep no state of their own, and ordinary tests
  reach them.  These are most of the package's lines: `model_base.py`, `query_set.py`, `schema.py`,
  `define_parser.py`, `search.py` and `model_generator.py` compile, parse and validate, and their few
  stateful lines are in `QueryCache` and `Transaction`.

## Plan

Written, in this order: `CacheStore`, `QueryCache` and its proofs; `AtomicBlocks`, `Transaction` and
its proofs; `ChangeFeed` and, later, `OrderedFeed`; `LiveStream`; `ServerClients`; `SchemaOperations`, `MigrationPlan`,
`MigrationExecutor`, `MakeMigrations`; `EmbeddedSlot`.  The proofs of `ChangeFeedProofs`,
`LiveStreamProofs`, `EmbeddedSlotProofs`, `MigrationExecutorProofs`, of the entries of the cache, of the
refinements and, last, `EmbeddedClaimsProofs` followed.  Next, most
important first:

1. The signal queue of typed streams and `around_*`, as one module of handlers.
2. The cache of function signatures, with `USE`.
3. Theorems: `HistoryIsSchema` for files of one operation; `ClaimsExact` without `ReturnsApart`, for
   engines that never fail to open again.
