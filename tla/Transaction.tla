---------------------------- MODULE Transaction ----------------------------
(***************************************************************************)
(* The transactions of the ORM: functions under retry_on_conflict()        *)
(* (concurrency.py) that open a transaction() block                        *)
(* (connection_manager.py), whose body runs ORM writes and reads from      *)
(* several tasks on a BufferedTransaction or an InteractiveTransaction     *)
(* (transaction.py), each write inside a writing() bracket of cache.py.    *)
(*                                                                         *)
(* An action is what one task does between two awaits; the server takes    *)
(* the requests in any order, each when it likes.  A connection may lose   *)
(* an answer, a task may be cancelled at any await, the settings of the    *)
(* connection may change meanwhile.  What a statement writes is its slot;  *)
(* what the program sees of the database is the set of visible ones.       *)
(***************************************************************************)
EXTENDS Integers, FiniteSets, Sequences

CONSTANTS
  Callers,       \* the tasks, each running one function under the decorator
  MaxRetries,    \* max_retries of retry_on_conflict()
  Slots,         \* the statements a block may run
  Tables,        \* the tables of the models
  Targets,       \* the sets of tables a write may be of; {}: every table
  Faults,        \* what may go wrong, of the names below
  MaxGeneration  \* bound: how often the settings change

FaultNames ==
  {"refused", "conflict", "missing",   \* answers of the server
   "lost", "lost_cancel",              \* an answer, a cancel that never comes
   "cancelled", "cancelled_asleep",    \* CancelledError at an await of the block, between attempts
   "handler", "handler_conflict",      \* a deferred handler raises
   "settings"}                         \* the connection's settings change

ASSUME TransactionAssumption ==
  /\ MaxRetries \in Nat
  /\ Targets \subseteq SUBSET Tables
  /\ Faults \subseteq FaultNames
  /\ MaxGeneration \in Nat
  /\ IsFiniteSet(Slots)

(* A write of no table notes nothing: {} is free to stand for None, the    *)
(* write of every table.                                                   *)
Every == {}

Attempts == 1 .. MaxRetries + 1
Txs      == Callers \X Attempts

VARIABLES
  caller,      \* each caller's attempt, and what its function ended with
  block,       \* each transaction() block
  op,          \* the statements of each block
  failures,    \* _failures of each transaction
  queue,       \* BufferedTransaction.statements
  notes,       \* _cache_tables and _cache_all
  deferred,    \* _post_commit: the writes whose post_* handlers wait
  fired,       \* how many of them fire_post_commit() has run
  srv,         \* the server's transactions
  staged,      \* what each has written so far
  running,     \* the statements sent, not run by the server yet
  asked,       \* the commits sent, not handled by the server yet
  dropping,    \* the cancels sent, not handled by the server yet
  visible,     \* the writes other sessions see
  generation,  \* the settings generation of the connection
  stale        \* tables changed since the query cache was told of it

body   == <<op, failures, queue, deferred>>
server == <<srv, staged, running, asked, dropping, visible>>
vars   == <<caller, block, body, notes, fired, server, generation, stale>>

-----------------------------------------------------------------------------
IdleOp ==
  [pc |-> "idle", kind |-> "read", target |-> Every, reached |-> FALSE,
   outer |-> {}, answer |-> "none", result |-> "none"]

NewBlock ==
  [pc |-> "none", kind |-> "buffered", gen |-> 0, serves |-> 0, closed |-> FALSE,
   answer |-> "none", raising |-> "none"]

NoNotes == [tables |-> [t \in Tables |-> 0], all |-> 0]

Init ==
  /\ caller = [c \in Callers |-> [pc |-> "idle", n |-> 1, result |-> "none"]]
  /\ block = [x \in Txs |-> NewBlock]
  /\ op = [x \in Txs |-> [s \in Slots |-> IdleOp]]
  /\ failures = [x \in Txs |-> <<>>]
  /\ queue = [x \in Txs |-> {}]
  /\ notes = [x \in Txs |-> NoNotes]
  /\ deferred = [x \in Txs |-> <<>>] /\ fired = [x \in Txs |-> 0]
  /\ srv = [x \in Txs |-> "none"] /\ staged = [x \in Txs |-> {}]
  /\ running = {} /\ asked = {} /\ dropping = {} /\ visible = {}
  /\ generation = 0 /\ stale = {}

Interactive(x) == block[x].kind = "interactive"

(* The client of an interactive block refuses every further request: its   *)
(* connection dropped, or it serves the settings no longer (refuse()).     *)
Refusing(x) == Interactive(x) /\ (block[x].closed \/ block[x].serves # generation)

Busy(o) == o.pc \notin {"idle", "done"}

(* A write waits while a handler of its own runs another statement.        *)
Innermost(x, s) == \A i \in Slots : Busy(op[x][i]) => s \notin op[x][i].outer

Chains(x) ==
  {{}} \cup {{s} \cup op[x][s].outer : s \in {i \in Slots : op[x][i].pc = "open" /\ Innermost(x, i)}}

-----------------------------------------------------------------------------
(***************************************************************************)
(* The notes of writes: _note_cache_write(), _withdraw_write().            *)
(***************************************************************************)
Less(n) == IF n = 0 THEN 0 ELSE n - 1

(* Mutant of Uncounted: the last write to withdraw takes every note along.  *)
Uncounted_AsSet(n, target) ==
  IF target = Every THEN [n EXCEPT !.all = 0]
  ELSE [n EXCEPT !.tables = [t \in Tables |-> IF t \in target THEN 0 ELSE @[t]]]

Counted(n, target) ==
  IF target = Every THEN [n EXCEPT !.all = @ + 1]
  ELSE [n EXCEPT !.tables = [t \in Tables |-> IF t \in target THEN @[t] + 1 ELSE @[t]]]

Uncounted(n, target) ==
  IF target = Every THEN [n EXCEPT !.all = Less(@)]
  ELSE [n EXCEPT !.tables = [t \in Tables |-> IF t \in target THEN Less(@[t]) ELSE @[t]]]

(* _cache_written(): the tables in flight during the commit.               *)
Written(n) == IF n.all > 0 THEN Tables ELSE {t \in Tables : n.tables[t] > 0}

Affects(target) == IF target = Every THEN Tables ELSE target

-----------------------------------------------------------------------------
(***************************************************************************)
(* A statement inside the block: writing(), Transaction.add(), run_read(). *)
(***************************************************************************)
(* The step of slot s that marks it and every write around it as reached.  *)
Reaching(x, s, o) ==
  op' = [op EXCEPT ![x] = [i \in Slots |->
           IF i = s THEN [o EXCEPT !.reached = TRUE]
           ELSE IF i \in o.outer THEN [op[x][i] EXCEPT !.reached = TRUE]
           ELSE op[x][i]]]

Becomes(x, s, o) == op' = [op EXCEPT ![x][s] = o]

(* A write notes its tables, then runs its pre_* handlers.                 *)
StartWrite(x, s) ==
  \E target \in Targets, outer \in Chains(x) :
    /\ block[x].pc = "body"
    /\ op[x][s].pc = "idle"
    /\ Becomes(x, s, [IdleOp EXCEPT !.pc = "open", !.kind = "write",
                                    !.target = target, !.outer = outer])
    /\ notes' = [notes EXCEPT ![x] = Counted(@, target)]
    /\ UNCHANGED <<caller, block, failures, queue, deferred, fired, server, generation, stale>>

(* It raises before its statement leaves: a refused argument, a value that *)
(* cannot be encoded, a handler that raises.  Its notes are taken back     *)
(* unless a write nested in it reached the transaction.                    *)
RefuseWrite(x, s) ==
  /\ op[x][s].pc = "open" /\ Innermost(x, s)
  /\ Becomes(x, s, [op[x][s] EXCEPT !.pc = "done", !.result = "refused"])
  /\ IF op[x][s].reached
       THEN UNCHANGED notes
       ELSE notes' = [notes EXCEPT ![x] = Uncounted(@, op[x][s].target)]
  /\ UNCHANGED <<caller, block, failures, queue, deferred, fired, server, generation, stale>>

(* BufferedTransaction.add(): the statement joins the batch, and save()    *)
(* defers its post_* handlers.                                             *)
QueueWrite(x, s) ==
  /\ op[x][s].pc = "open" /\ Innermost(x, s)
  /\ ~Interactive(x)
  /\ Reaching(x, s, [op[x][s] EXCEPT !.pc = "done", !.result = "ok"])
  /\ queue' = [queue EXCEPT ![x] = @ \cup {s}]
  /\ deferred' = [deferred EXCEPT ![x] = Append(@, s)]
  /\ UNCHANGED <<caller, block, failures, notes, fired, server, generation, stale>>

(* InteractiveTransaction.add(): the statement is sent.                    *)
SendWrite(x, s) ==
  /\ op[x][s].pc = "open" /\ Innermost(x, s)
  /\ Interactive(x) /\ ~Refusing(x)
  /\ Reaching(x, s, [op[x][s] EXCEPT !.pc = "sent"])
  /\ running' = running \cup {<<x, s>>}
  /\ UNCHANGED <<caller, block, failures, queue, notes, deferred, fired,
                 srv, staged, asked, dropping, visible, generation, stale>>

(* InteractiveTransaction.run_read(); a buffered transaction refuses it.   *)
SendRead(x, s) ==
  \E outer \in Chains(x) :
    /\ block[x].pc = "body"
    /\ op[x][s].pc = "idle"
    /\ LET o == [IdleOp EXCEPT !.outer = outer] IN
       IF Interactive(x)
         THEN /\ ~Refusing(x)
              /\ Reaching(x, s, [o EXCEPT !.pc = "sent"])
              /\ running' = running \cup {<<x, s>>}
         ELSE /\ Becomes(x, s, [o EXCEPT !.pc = "done", !.result = "refused"])
              /\ UNCHANGED running
    /\ UNCHANGED <<caller, block, failures, queue, notes, deferred, fired,
                   srv, staged, asked, dropping, visible, generation, stale>>

(* Mutant of NoteFailure: only the answers of the server count as failures. *)
NoteFailure_AnswersOnly(x, s, answer) ==
  failures' = IF answer = "none" THEN failures
              ELSE [failures EXCEPT ![x] = Append(@, [slot |-> s, conflict |-> answer = "conflict"])]

(* _note_failure()                                                         *)
NoteFailure(x, s, answer) ==
  failures' = [failures EXCEPT ![x] = Append(@, [slot |-> s, conflict |-> answer = "conflict"])]

(* The client refuses a statement it is given: a failure like any other.   *)
SendFails(x, s) ==
  /\ Refusing(x)
  /\ \/ op[x][s].pc = "open" /\ Innermost(x, s)
        /\ Reaching(x, s, [op[x][s] EXCEPT !.pc = "done", !.result = "failed"])
     \/ \E outer \in Chains(x) :
          /\ block[x].pc = "body" /\ op[x][s].pc = "idle"
          /\ Reaching(x, s, [IdleOp EXCEPT !.outer = outer, !.pc = "done", !.result = "failed"])
  /\ NoteFailure(x, s, "none")
  /\ UNCHANGED <<caller, block, queue, notes, deferred, fired, server, generation, stale>>

(* The answer is back: raise_for_status() passes it.                       *)
ReceiveRows(x, s) ==
  /\ op[x][s].pc = "sent" /\ op[x][s].answer = "ok"
  /\ Becomes(x, s, [op[x][s] EXCEPT !.pc = "done", !.result = "ok"])
  /\ deferred' = IF op[x][s].kind = "write" THEN [deferred EXCEPT ![x] = Append(@, s)] ELSE deferred
  /\ UNCHANGED <<caller, block, failures, queue, notes, fired, server, generation, stale>>

(* ... or it does not: the failure is noted, and a read that may have an   *)
(* answer of its own (a missing table) is looked into.                     *)
ReceiveError(x, s) ==
  /\ op[x][s].pc = "sent" /\ op[x][s].answer \in {"refused", "conflict", "missing"}
  /\ IF op[x][s].kind = "read" /\ op[x][s].answer = "missing"
       THEN Becomes(x, s, [op[x][s] EXCEPT !.pc = "probing"])
       ELSE Becomes(x, s, [op[x][s] EXCEPT !.pc = "done", !.result = "failed"])
  /\ NoteFailure(x, s, op[x][s].answer)
  /\ UNCHANGED <<caller, block, queue, notes, deferred, fired, server, generation, stale>>

(* No answer comes: a closed connection, a deadline, a cancelled task.     *)
LoseStatement(x, s) ==
  /\ \/ Faults \cap {"lost", "cancelled"} # {}
     \/ block[x].closed /\ <<x, s>> \notin running /\ op[x][s].answer = "none"
  /\ op[x][s].pc = "sent"
  /\ Becomes(x, s, [op[x][s] EXCEPT !.pc = "done", !.result = "failed", !.answer = "none"])
  /\ NoteFailure(x, s, "none")
  /\ UNCHANGED <<caller, block, queue, notes, deferred, fired, server, generation, stale>>

(* _absorb_failure(): without the failure of this statement.               *)
Absorbed(x, s) ==
  LET i == CHOOSE i \in DOMAIN failures[x] : failures[x][i].slot = s
  IN  SubSeq(failures[x], 1, i - 1) \o SubSeq(failures[x], i + 1, Len(failures[x]))

(* The ORM answers the read itself: no rows, or no such record.            *)
AnswerRead(x, s) ==
  /\ op[x][s].pc = "probing"
  /\ Becomes(x, s, [op[x][s] EXCEPT !.pc = "done", !.result = "ok"])
  /\ failures' = [failures EXCEPT ![x] = Absorbed(x, s)]
  /\ UNCHANGED <<caller, block, queue, notes, deferred, fired, server, generation, stale>>

(* It relays the error, as it is or with a refusal of its own in its place. *)
RelayRead(x, s) ==
  /\ op[x][s].pc = "probing"
  /\ Becomes(x, s, [op[x][s] EXCEPT !.pc = "done", !.result = "failed"])
  /\ \/ UNCHANGED failures
     \/ failures' = [failures EXCEPT ![x] = Append(Absorbed(x, s), [slot |-> s, conflict |-> FALSE])]
  /\ UNCHANGED <<caller, block, queue, notes, deferred, fired, server, generation, stale>>

-----------------------------------------------------------------------------
(***************************************************************************)
(* The server.  A transaction that is over refuses every statement.        *)
(***************************************************************************)
(* What the server may answer; a fault decides which errors a run has.     *)
May(answer) == answer = "ok" \/ answer \in Faults

RunStatement(x, s) ==
  \E answer \in {"ok", "refused", "conflict", "missing"} :
    /\ <<x, s>> \in running
    /\ srv[x] = "open" => May(answer)
    /\ srv[x] # "open" => answer = "refused"
    /\ answer = "missing" => op[x][s].kind = "read"
    /\ running' = running \ {<<x, s>>}
    /\ staged' = IF answer = "ok" /\ op[x][s].kind = "write"
                   THEN [staged EXCEPT ![x] = @ \cup {s}] ELSE staged
    /\ op' = IF op[x][s].pc = "sent" THEN [op EXCEPT ![x][s].answer = answer] ELSE op
    /\ UNCHANGED <<caller, block, failures, queue, notes, deferred, fired,
                   srv, asked, dropping, visible, generation, stale>>

AffectedBy(x, W) == UNION {Affects(op[x][s].target) : s \in W}

(* A commit, or a whole batch.  Nobody waits for its answer any more when  *)
(* the block gave it up: what it changes then, the cache is not told of.   *)
HandleCommit(x) ==
  \E answer \in {"ok", "refused", "conflict"} :
    /\ x \in asked
    /\ srv[x] = "open" => May(answer)
    /\ srv[x] # "open" => answer = "refused"
    /\ asked' = asked \ {x}
    /\ block' = IF block[x].pc = "committing" THEN [block EXCEPT ![x].answer = answer] ELSE block
    /\ IF answer = "ok"
         THEN /\ srv' = [srv EXCEPT ![x] = "committed"]
              /\ visible' = visible \cup ({x} \X staged[x])
              /\ stale' = IF block[x].pc = "committing" THEN stale \cup AffectedBy(x, staged[x]) ELSE stale
         ELSE /\ srv' = [srv EXCEPT ![x] = "rolledback"]
              /\ UNCHANGED <<visible, stale>>
    /\ UNCHANGED <<caller, body, notes, fired, staged, running, dropping, generation>>

(* The connection of a block drops, or is closed as the settings no longer *)
(* serve: the server rolls back what was open on it, and answers no more.  *)
CloseConnection(x) ==
  /\ Interactive(x) /\ ~block[x].closed
  /\ \/ block[x].pc \in {"body", "committing", "cancelling"}
     \/ srv[x] = "open"
  /\ "lost" \in Faults \/ block[x].serves # generation
  /\ block' = [block EXCEPT ![x].closed = TRUE]
  /\ srv' = IF srv[x] = "open" THEN [srv EXCEPT ![x] = "rolledback"] ELSE srv
  /\ running' = {r \in running : r[1] # x}
  /\ asked' = asked \ {x} /\ dropping' = dropping \ {x}
  /\ UNCHANGED <<caller, body, notes, fired, staged, visible, generation, stale>>

-----------------------------------------------------------------------------
(***************************************************************************)
(* The block: SurrealDBConnectionManager.transaction().                    *)
(***************************************************************************)
(* It reads the generation, then asks for a client and begins: natively,   *)
(* or on the first flush.  The settings may change during those awaits, so *)
(* the client may serve newer ones than the block was opened under, or be  *)
(* retired by now.  A server without transactions gets the buffered ones.  *)
OpenBlock(x) ==
  /\ caller[x[1]].pc = "running" /\ caller[x[1]].n = x[2]
  /\ block[x].pc = "none"
  /\ block' = [block EXCEPT ![x].pc = "opening", ![x].gen = generation]
  /\ UNCHANGED <<caller, body, notes, fired, server, generation, stale>>

(* Mutant of BeginBlock: the settings are read once the client is there.    *)
BeginBlock_ReadsAfter(x) ==
  \E kind \in {"interactive", "buffered"}, serves \in block[x].gen .. generation :
    /\ block[x].pc = "opening"
    /\ block' = [block EXCEPT ![x].pc = "body", ![x].kind = kind, ![x].serves = serves,
                              ![x].gen = generation]
    /\ srv' = IF kind = "interactive" THEN [srv EXCEPT ![x] = "open"] ELSE srv
    /\ UNCHANGED <<caller, body, notes, fired, staged, running, asked, dropping, visible,
                   generation, stale>>

BeginBlock(x) ==
  \E kind \in {"interactive", "buffered"}, serves \in block[x].gen .. generation :
    /\ block[x].pc = "opening"
    /\ block' = [block EXCEPT ![x].pc = "body", ![x].kind = kind, ![x].serves = serves]
    /\ srv' = IF kind = "interactive" THEN [srv EXCEPT ![x] = "open"] ELSE srv
    /\ UNCHANGED <<caller, body, notes, fired, staged, running, asked, dropping, visible,
                   generation, stale>>

(* get_client() or begin() raises.                                         *)
BeginRaises(x) ==
  /\ block[x].pc = "opening"
  /\ "lost" \in Faults \/ block[x].gen # generation
  /\ block' = [block EXCEPT ![x].pc = "ended", ![x].raising = "error"]
  /\ UNCHANGED <<caller, body, notes, fired, server, generation, stale>>

(* Mutant of SendCancel: only the queue is dropped, as a batch does.        *)
SendCancel_QueueOnly(x, e) ==
  /\ queue' = [queue EXCEPT ![x] = {}]
  /\ block' = [block EXCEPT ![x].pc = "ended", ![x].raising = e]
  /\ UNCHANGED dropping

(* tx.cancel(), then error e: the buffered one is free, the interactive    *)
(* one sends one cancel and waits.  Either forgets what was noted.         *)
SendCancel(x, e) ==
  /\ queue' = [queue EXCEPT ![x] = {}]
  /\ dropping' = IF Interactive(x) /\ ~Refusing(x) THEN dropping \cup {x} ELSE dropping
  /\ block' = [block EXCEPT ![x].pc = IF Interactive(x) THEN "cancelling" ELSE "ended",
                            ![x].raising = e]

Cancel(x, e) == SendCancel(x, e) /\ notes' = [notes EXCEPT ![x] = NoNotes]

(* The body raises: an error of its own, or the conflict of a statement.   *)
(* Its other tasks may still be at work.                                   *)
ConflictSeen(x) == \E s \in Slots : op[x][s].result = "failed" /\ op[x][s].answer = "conflict"

BodyRaises(x) ==
  \E e \in {"error", "conflict"} :
    /\ block[x].pc = "body"
    /\ e = "conflict" => ConflictSeen(x)
    /\ Cancel(x, e)
    /\ UNCHANGED <<caller, op, failures, deferred, fired, srv, staged, running, asked, visible,
                   generation, stale>>

(* CancelledError is no Exception: the block is left as it is.             *)
BodyCancelled(x) ==
  /\ "cancelled" \in Faults
  /\ block[x].pc \in {"opening", "body"}
  /\ block' = [block EXCEPT ![x].pc = "ended", ![x].raising = "cancelled"]
  /\ UNCHANGED <<caller, body, notes, fired, server, generation, stale>>

(* The body returns once its statements are done.                          *)
BodyReturns(x) == block[x].pc = "body" /\ \A s \in Slots : ~Busy(op[x][s])

(* Mutant of Retired: the settings are not looked at again at the exit.     *)
Retired_Never(x) == FALSE

(* The connection was removed, or registered again with other settings.    *)
Retired(x) == block[x].gen # generation

ExitRetired(x) ==
  /\ BodyReturns(x)
  /\ Retired(x)
  /\ Cancel(x, "error")
  /\ UNCHANGED <<caller, op, failures, deferred, fired, srv, staged, running, asked, visible,
                 generation, stale>>

(* Mutant of Failed: a failed statement does not prevent the commit.        *)
Failed_Ignored(x) == FALSE

(* InteractiveTransaction.commit() after a failed statement: it cancels,   *)
(* and raises a conflict when the first failure was one.                   *)
Failed(x) == Interactive(x) /\ failures[x] # <<>>

ExitFailed(x) ==
  /\ BodyReturns(x) /\ ~Retired(x)
  /\ Failed(x)
  /\ Cancel(x, IF failures[x][1].conflict THEN "conflict" ELSE "error")
  /\ UNCHANGED <<caller, op, failures, deferred, fired, srv, staged, running, asked, visible,
                 generation, stale>>

(* commit(): the tables noted are in flight from here.  A batch is one     *)
(* request that begins, runs and commits its statements.  A client that    *)
(* refuses it has it raise (LoseCommit).                                   *)
SendCommit(x) ==
  /\ BodyReturns(x) /\ ~Retired(x) /\ ~Failed(x)
  /\ Interactive(x) \/ queue[x] # {}
  /\ block' = [block EXCEPT ![x].pc = "committing"]
  /\ asked' = IF Refusing(x) THEN asked ELSE asked \cup {x}
  /\ srv' = IF Interactive(x) THEN srv ELSE [srv EXCEPT ![x] = "open"]
  /\ staged' = IF Interactive(x) THEN staged ELSE [staged EXCEPT ![x] = queue[x]]
  /\ UNCHANGED <<caller, body, notes, fired, running, dropping, visible, generation, stale>>

(* The tables noted are invalidated, then forgotten.                       *)
TellCache(x) ==
  /\ stale' = stale \ Written(notes[x])
  /\ notes' = [notes EXCEPT ![x] = NoNotes]

CommitEmpty(x) ==
  /\ BodyReturns(x) /\ ~Retired(x) /\ ~Failed(x)
  /\ ~Interactive(x) /\ queue[x] = {}
  /\ block' = [block EXCEPT ![x].pc = "firing"]
  /\ TellCache(x)
  /\ UNCHANGED <<caller, body, fired, server, generation>>

ReceiveCommit(x) ==
  /\ block[x].pc = "committing" /\ block[x].answer = "ok"
  /\ block' = [block EXCEPT ![x].pc = "firing"]
  /\ TellCache(x)
  /\ UNCHANGED <<caller, body, fired, server, generation>>

(* The commit raises: the error is typed, and transaction() cancels.       *)
CommitRaises(x, e) ==
  /\ TellCache(x)
  /\ SendCancel(x, e)
  /\ UNCHANGED <<caller, op, failures, deferred, fired, srv, staged, running, asked, visible,
                 generation>>

(* Mutant of CommitRefused: the deferred handlers run in any case.          *)
CommitRefused_Fires(x) ==
  /\ block[x].pc = "committing" /\ block[x].answer \in {"refused", "conflict"}
  /\ block' = [block EXCEPT ![x].pc = "firing"]
  /\ TellCache(x)
  /\ UNCHANGED <<caller, body, fired, server, generation>>

CommitRefused(x) ==
  /\ block[x].pc = "committing" /\ block[x].answer \in {"refused", "conflict"}
  /\ CommitRaises(x, IF block[x].answer = "conflict" THEN "conflict" ELSE "error")

LoseCommit(x) ==
  /\ "lost" \in Faults \/ (block[x].closed /\ x \notin asked /\ block[x].answer = "none")
  /\ block[x].pc = "committing"
  /\ CommitRaises(x, "error")

(* CancelledError again goes past transaction()'s except clause.           *)
AbandonCommit(x) ==
  /\ "cancelled" \in Faults
  /\ block[x].pc = "committing"
  /\ block' = [block EXCEPT ![x].pc = "ended", ![x].raising = "cancelled"]
  /\ TellCache(x)
  /\ UNCHANGED <<caller, body, fired, server, generation>>

(* The cancel of an interactive transaction is sent once; its own error is *)
(* ignored, a cancelled task leaves without its answer.                    *)
HandleCancel(x) ==
  /\ x \in dropping
  /\ dropping' = dropping \ {x}
  /\ srv' = IF srv[x] = "open" THEN [srv EXCEPT ![x] = "rolledback"] ELSE srv
  /\ UNCHANGED <<caller, block, body, notes, fired, staged, running, asked, visible, generation, stale>>

EndCancel(x) ==
  /\ block[x].pc = "cancelling" /\ x \notin dropping
  /\ block' = [block EXCEPT ![x].pc = "ended"]
  /\ UNCHANGED <<caller, body, notes, fired, server, generation, stale>>

LoseCancel(x) ==
  /\ "lost_cancel" \in Faults
  /\ block[x].pc = "cancelling"
  /\ block' = [block EXCEPT ![x].pc = "ended"]
  /\ dropping' = dropping \ {x}
  /\ UNCHANGED <<caller, body, notes, fired, srv, staged, running, asked, visible, generation, stale>>

AbandonCancel(x) ==
  /\ "cancelled" \in Faults
  /\ block[x].pc = "cancelling"
  /\ block' = [block EXCEPT ![x].pc = "ended", ![x].raising = "cancelled"]
  /\ UNCHANGED <<caller, body, notes, fired, server, generation, stale>>

(* fire_post_commit(): the handlers in order; the first to raise ends it.  *)
FireNext(x) ==
  /\ block[x].pc = "firing" /\ fired[x] < Len(deferred[x])
  /\ fired' = [fired EXCEPT ![x] = @ + 1]
  /\ UNCHANGED <<caller, block, body, notes, server, generation, stale>>

FireRaises(x) ==
  \E e \in {"error", "conflict", "cancelled"} :
    /\ block[x].pc = "firing" /\ fired[x] < Len(deferred[x])
    /\ e = "error" => "handler" \in Faults
    /\ e = "conflict" => "handler_conflict" \in Faults
    /\ e = "cancelled" => "cancelled" \in Faults
    /\ fired' = [fired EXCEPT ![x] = @ + 1]
    /\ block' = [block EXCEPT ![x].pc = "ended", ![x].raising = e]
    /\ UNCHANGED <<caller, body, notes, server, generation, stale>>

EndBlock(x) ==
  /\ block[x].pc = "firing" /\ fired[x] = Len(deferred[x])
  /\ block' = [block EXCEPT ![x].pc = "ended"]
  /\ UNCHANGED <<caller, body, notes, fired, server, generation, stale>>

-----------------------------------------------------------------------------
(***************************************************************************)
(* retry_on_conflict(), and the settings of the connection.                *)
(***************************************************************************)
Call(c) ==
  /\ caller[c].pc = "idle"
  /\ caller' = [caller EXCEPT ![c].pc = "running"]
  /\ UNCHANGED <<block, body, notes, fired, server, generation, stale>>

Current(c) == <<c, caller[c].n>>

(* Mutant of Retry: the retries of a lost answer are retries too.           *)
Retry_AnyError(c) ==
  block[Current(c)].raising \in {"conflict", "error"} /\ caller[c].n <= MaxRetries

Retry(c) == block[Current(c)].raising = "conflict" /\ caller[c].n <= MaxRetries

(* The function raised a conflict, and attempts are left: back off.        *)
BackOff(c) ==
  /\ caller[c].pc = "running" /\ block[Current(c)].pc = "ended"
  /\ Retry(c)
  /\ caller' = [caller EXCEPT ![c].pc = "sleeping"]
  /\ UNCHANGED <<block, body, notes, fired, server, generation, stale>>

(* Mutant of NextAttempt: the attempt is not counted.                       *)
NextAttempt_Uncounted(n) == n

NextAttempt(n) == n + 1

Wake(c) ==
  /\ caller[c].pc = "sleeping"
  /\ caller' = [caller EXCEPT ![c].pc = "running", ![c].n = NextAttempt(@)]
  /\ UNCHANGED <<block, body, notes, fired, server, generation, stale>>

SleepCancelled(c) ==
  /\ "cancelled_asleep" \in Faults
  /\ caller[c].pc = "sleeping"
  /\ caller' = [caller EXCEPT ![c].pc = "done", ![c].result = "cancelled"]
  /\ UNCHANGED <<block, body, notes, fired, server, generation, stale>>

Finish(c) ==
  /\ caller[c].pc = "running" /\ block[Current(c)].pc = "ended"
  /\ ~Retry(c)
  /\ caller' = [caller EXCEPT ![c].pc = "done",
                  ![c].result = IF block[Current(c)].raising = "none" THEN "returned"
                                ELSE block[Current(c)].raising]
  /\ UNCHANGED <<block, body, notes, fired, server, generation, stale>>

ChangeSettings ==
  /\ "settings" \in Faults
  /\ generation < MaxGeneration
  /\ generation' = generation + 1
  /\ UNCHANGED <<caller, block, body, notes, fired, server, stale>>

-----------------------------------------------------------------------------
OpNext(x, s) ==
  \/ RefuseWrite(x, s) \/ QueueWrite(x, s) \/ SendWrite(x, s)
  \/ ReceiveRows(x, s) \/ ReceiveError(x, s) \/ SendFails(x, s) \/ LoseStatement(x, s)
  \/ AnswerRead(x, s) \/ RelayRead(x, s) \/ RunStatement(x, s)

BlockNext(x) ==
  \/ OpenBlock(x) \/ BeginBlock(x) \/ BeginRaises(x)
  \/ BodyRaises(x) \/ BodyCancelled(x)
  \/ ExitRetired(x) \/ ExitFailed(x) \/ SendCommit(x) \/ CommitEmpty(x)
  \/ HandleCommit(x) \/ ReceiveCommit(x) \/ CommitRefused(x)
  \/ LoseCommit(x) \/ AbandonCommit(x)
  \/ CloseConnection(x) \/ HandleCancel(x) \/ EndCancel(x) \/ LoseCancel(x) \/ AbandonCancel(x)
  \/ FireNext(x) \/ FireRaises(x) \/ EndBlock(x)

CallerNext(c) == BackOff(c) \/ Wake(c) \/ SleepCancelled(c) \/ Finish(c)

(* What a function under way can do, apart from starting more statements.  *)
Progress(c) ==
  \/ CallerNext(c)
  \/ \E n \in Attempts : BlockNext(<<c, n>>) \/ \E s \in Slots : OpNext(<<c, n>>, s)

Next ==
  \/ \E c \in Callers : Call(c) \/ Progress(c)
  \/ \E x \in Txs, s \in Slots : StartWrite(x, s) \/ SendRead(x, s)
  \/ ChangeSettings

Spec == Init /\ [][Next]_vars

(* The event loop runs every task that can go on, the server answers what  *)
(* it is sent, and a body ends.                                            *)
FairSpec == Spec /\ \A c \in Callers : WF_vars(Progress(c))

-----------------------------------------------------------------------------
(***************************************************************************)
(* Types.                                                                  *)
(***************************************************************************)
OpAnswers  == {"none", "ok", "refused", "conflict", "missing"}
OpType     == [pc : {"idle", "open", "sent", "probing", "done"}, kind : {"write", "read"},
               target : SUBSET Tables, reached : BOOLEAN, outer : SUBSET Slots,
               answer : OpAnswers, result : {"none", "ok", "failed", "refused"}]
Raised     == {"none", "error", "conflict", "cancelled"}
BlockType  == [pc : {"none", "opening", "body", "committing", "cancelling", "firing", "ended"},
               kind : {"interactive", "buffered"}, gen : Nat, serves : Nat, closed : BOOLEAN,
               answer : {"none", "ok", "refused", "conflict"}, raising : Raised]
CallerType == [pc : {"idle", "running", "sleeping", "done"}, n : Attempts,
               result : {"none", "returned", "error", "conflict", "cancelled"}]
NotesType  == [tables : [Tables -> Nat], all : Nat]

(* The attempts, blocks and statements have the shape the code gives them: *)
(* among others no attempt goes past max_retries + 1 (retry_on_conflict()).*)
TypeOK ==
  /\ caller \in [Callers -> CallerType]
  /\ block \in [Txs -> BlockType]
  /\ op \in [Txs -> [Slots -> OpType]]
  /\ failures \in [Txs -> Seq([slot : Slots, conflict : BOOLEAN])]
  /\ queue \in [Txs -> SUBSET Slots]
  /\ notes \in [Txs -> NotesType]
  /\ deferred \in [Txs -> Seq(Slots)] /\ fired \in [Txs -> Nat]
  /\ srv \in [Txs -> {"none", "open", "committed", "rolledback"}]
  /\ staged \in [Txs -> SUBSET Slots]
  /\ running \subseteq Txs \X Slots /\ asked \subseteq Txs /\ dropping \subseteq Txs
  /\ visible \subseteq Txs \X Slots
  /\ generation \in Nat /\ stale \subseteq Tables

-----------------------------------------------------------------------------
(***************************************************************************)
(* What a transaction promises.                                            *)
(***************************************************************************)
Visible(x)     == {s \in Slots : <<x, s>> \in visible}
OkWrites(x)    == {s \in Slots : op[x][s].kind = "write" /\ op[x][s].result = "ok"}
SomeFailed(x)  == \E s \in Slots : op[x][s].result = "failed"

(* All of a block's writes become visible together, or none: whatever      *)
(* statement failed, lost its answer or was cancelled and caught by the    *)
(* body, on both strategies (add(), run_read(), commit()).                 *)
AllOrNothing ==
  \A x \in Txs : Visible(x) # {} => Visible(x) = OkWrites(x) /\ ~SomeFailed(x)

(* What becomes visible of a block, and what a caller is told went well,   *)
(* is on a client of the settings the block was opened under, though the   *)
(* client is asked for after they are read and the connection may be       *)
(* registered again at any await until the commit (transaction()).         *)
WritesWhereOpened ==
  \A x \in Txs :
    \/ Visible(x) # {}
    \/ block[x].pc = "firing"
    \/ block[x].pc = "ended" /\ block[x].raising = "none"
    => block[x].serves = block[x].gen

(* Deferred post_* handlers run for visible writes only, each at most once,*)
(* in the order of the writes (enqueue_post_commit(), fire_post_commit()). *)
DeferredAreDurable ==
  \A x \in Txs :
    /\ fired[x] <= Len(deferred[x])
    /\ \A i, j \in 1 .. Len(deferred[x]) : deferred[x][i] = deferred[x][j] => i = j
    /\ \A i \in 1 .. fired[x] : <<x, deferred[x][i]>> \in visible

(* The query cache is told of every table a commit changed, and until then *)
(* the table is in flight there (commit(), _cache_written(), writing()).   *)
CacheTold ==
  \A t \in stale : \E x \in Txs : block[x].pc = "committing" /\ t \in Written(notes[x])

(* connection_manager.py: "we never leave it half-open": a block that is   *)
(* over leaves no transaction open on the shared connection, unless what   *)
(* ends it is on its way or the connection itself is being closed.         *)
NoneHalfOpen ==
  \A x \in Txs :
    block[x].pc = "ended" => srv[x] # "open" \/ x \in asked \cup dropping \/ Refusing(x)

(* Every function ends, whatever conflicts it meets (retry_on_conflict()). *)
CallsEnd == \A c \in Callers : (caller[c].pc = "running") ~> (caller[c].pc = "done")

-----------------------------------------------------------------------------
(***************************************************************************)
(* Why AllOrNothing and DeferredAreDurable hold: an inductive invariant.   *)
(***************************************************************************)
(* An attempt that is retried has a next one (retry_on_conflict()).        *)
RetriesLeft == \A c \in Callers : caller[c].pc = "sleeping" => caller[c].n <= MaxRetries

Fresh(x) ==
  /\ op[x] = [s \in Slots |-> IdleOp] /\ failures[x] = <<>>
  /\ queue[x] = {} /\ deferred[x] = <<>> /\ fired[x] = 0
  /\ srv[x] = "none" /\ staged[x] = {}

(* Nothing happened in a block that did not begin (transaction()).         *)
FreshBlocks ==
  \A x \in Txs : block[x].pc \in {"none", "opening"} => Fresh(x) /\ ~Interactive(x)

(* A statement has its result when it is done, not before; an open bracket *)
(* is a write's with no answer yet, an error looked into a read's.         *)
ResultsFinal ==
  \A x \in Txs, s \in Slots :
    /\ op[x][s].pc # "done" => op[x][s].result = "none"
    /\ op[x][s].pc = "open" => op[x][s].kind = "write" /\ op[x][s].answer = "none"
    /\ op[x][s].pc = "probing" => op[x][s].kind = "read"

(* An error the queryset may absorb, or a statement that failed, is noted  *)
(* (_note_failure(), _absorb_failure()); a batch has neither.              *)
FailuresNoted ==
  \A x \in Txs, s \in Slots :
    op[x][s].pc = "probing" \/ op[x][s].result = "failed" =>
      Interactive(x) /\ \E i \in DOMAIN failures[x] : failures[x][i].slot = s

(* A statement the server has not run yet is awaited or given up.          *)
RunningAwaited ==
  \A x \in Txs, s \in Slots : <<x, s>> \in running =>
    /\ Interactive(x)
    /\ op[x][s].result = "failed" \/ (op[x][s].pc = "sent" /\ op[x][s].answer = "none")

(* The server has the writes that succeeded, and none but those and the    *)
(* ones given up (InteractiveTransaction.add()).                           *)
Succeeding(o) == o.result = "ok" \/ (o.pc = "sent" /\ o.answer = "ok")

StagedAnswered ==
  \A x \in Txs, s \in Slots : Interactive(x) =>
    /\ op[x][s].kind = "write" /\ Succeeding(op[x][s]) => s \in staged[x]
    /\ s \in staged[x] =>
         op[x][s].kind = "write" /\ (Succeeding(op[x][s]) \/ op[x][s].result = "failed")

(* A batch holds the writes that were queued (BufferedTransaction.add()).  *)
QueueWritten ==
  \A x \in Txs : ~Interactive(x) =>
    /\ \A s \in Slots : op[x][s].pc \notin {"sent", "probing"}
    /\ block[x].pc = "body" => queue[x] = OkWrites(x)

(* No statement is under way, and none failed.                             *)
Settled(x) == \A s \in Slots : ~Busy(op[x][s]) /\ op[x][s].result # "failed"

(* What is or was committed is settled, and complete (commit()).           *)
CommitsSettled ==
  \A x \in Txs :
    /\ x \in asked \/ srv[x] = "committed" =>
         /\ block[x].pc \notin {"none", "opening", "body"}
         /\ Settled(x) /\ staged[x] = OkWrites(x)
    /\ x \in asked => srv[x] # "committed"
    /\ Visible(x) = IF srv[x] = "committed" THEN staged[x] ELSE {}

(* Handlers wait for the writes that succeeded, and run once the commit is *)
(* known (enqueue_post_commit(), fire_post_commit()).                      *)
HandlersWait ==
  \A x \in Txs :
    /\ \A i \in DOMAIN deferred[x] : deferred[x][i] \in OkWrites(x)
    /\ block[x].answer # "none" => block[x].pc \notin {"none", "opening", "body"}
    /\ block[x].pc = "committing" /\ block[x].answer = "ok" => srv[x] = "committed"
    /\ block[x].pc \in {"committing", "firing"} => \A s \in Slots : ~Busy(op[x][s])
    /\ block[x].pc = "firing" => srv[x] = "committed" \/ deferred[x] = <<>>
    /\ block[x].pc \notin {"firing", "ended"} => fired[x] = 0

BlockInv ==
  /\ TypeOK /\ RetriesLeft /\ FreshBlocks /\ ResultsFinal
  /\ FailuresNoted /\ RunningAwaited /\ StagedAnswered /\ QueueWritten
  /\ CommitsSettled /\ HandlersWait /\ DeferredAreDurable

-----------------------------------------------------------------------------
(***************************************************************************)
(* The blocks implement AtomicBlocks, as long as no deferred handler       *)
(* raises a conflict of its own.                                           *)
(***************************************************************************)
Fate(x) ==
  CASE srv[x] = "committed" -> "committed"
    [] block[x].pc = "firing" -> "committed"
    [] block[x].pc = "ended" /\ block[x].raising = "none" -> "committed"
    [] block[x].pc = "ended" /\ block[x].raising # "none" /\ srv[x] # "committed"
         /\ x \notin asked -> "rolledback"
    [] OTHER -> "open"

Told(x) ==
  IF block[x].pc # "ended" THEN "none"
  ELSE IF block[x].raising = "none" THEN "returned" ELSE block[x].raising

Atomic == INSTANCE AtomicBlocks WITH
  Writes  <- Slots,
  written <- [x \in Txs |-> OkWrites(x)],
  broken  <- [x \in Txs |-> SomeFailed(x)],
  fate    <- [x \in Txs |-> Fate(x)],
  told    <- [x \in Txs |-> Told(x)]

(* transaction() and retry_on_conflict() keep the promise of AtomicBlocks: *)
(* whatever fails where, what the caller is told and what became visible   *)
(* agree, and a retry follows a rollback.                                  *)
ImplementsAtomicBlocks == Atomic!Spec
=============================================================================
