------------------------- MODULE MigrationExecutor -------------------------
(***************************************************************************)
(* MigrationExecutor (migrations/executor.py): processes that apply, undo  *)
(* and fill in the migrations of one directory, each call in a process of  *)
(* its own, on one database.                                               *)
(*                                                                         *)
(* An action is one request of a call with its answer.  A batch (BEGIN ..  *)
(* COMMIT) takes effect whole or not at all, at one moment; when its       *)
(* answer is lost it took effect before the call goes on, or never will.   *)
(***************************************************************************)
EXTENDS MigrationPlan

CONSTANTS
  Processes,   \* where the calls run
  Calls,       \* the calls the program makes: [does, target, data]
  ByHand,      \* indexes no file defines, made by define_indexes()
  Faults,      \* what may go wrong, of the names below
  Histories,   \* the histories a database may have at first
  MaxCalls,    \* bound: the calls made
  MaxFaults    \* bound: what goes wrong

Indexes   == {n \in Definitions : Kind[n] = "index"}
Analyzers == {n \in Definitions : Kind[n] = "analyzer"}

FaultNames ==
  {"refused", "conflict",          \* the server's answer to a batch
   "lost",                         \* its answer, with the connection
   "unread",                       \* a read of the tracking table fails
   "cancelled"}                    \* the task, or its process ends

ASSUME ExecutorAssumption ==
  /\ Calls \subseteq [does : {"migrate", "rollback", "upgrade"},
                      target : Migrations \cup {None}, data : BOOLEAN]
  /\ ByHand \subseteq Indexes
  /\ \A m \in Migrations : \A op \in Range(Operations[m]) : op.name \notin ByHand
  /\ Faults \subseteq FaultNames
  /\ Histories \subseteq SUBSET Migrations
  /\ MaxCalls \in Nat /\ MaxFaults \in Nat

VARIABLES
  recorded,   \* the tracking table
  schema,     \* the definitions the database holds
  built,      \* the definition each index's tokens were made with
  run,        \* the call each process is in, or the last one it made
  made, wrong,  \* how many calls were made, how many faults happened
  half,       \* history: migrations left between their two batches
  stale,      \* history: a run acted on a database another had moved meanwhile
  crossed     \* history: a rollback() overlapped a migrate()

vars == <<recorded, schema, built, run, made, wrong, half, stale, crossed>>
database == <<recorded, schema, built>>

NoCall == [does |-> "nothing", target |-> None, data |-> FALSE]

(* plan: the migrations left, the current one first; seen: the history as  *)
(* the run knows it; held: the schema as the current migration finds it;   *)
(* failure: of the last batch; pending: phase A may be in the database     *)
(* without phase B (history); committed: whose phase B the run committed   *)
(* (history); done: the names to return.                                   *)
Idle == [pc |-> "idle", call |-> NoCall, plan |-> << >>, seen |-> {}, held |-> Empty,
         failure |-> None, phase |-> None, pending |-> FALSE, committed |-> {}, done |-> {}]

\* The definition of the analyzer an index reads its text with.
Read(i, s) ==
  IF s[i] = None \/ s[i].reads = None THEN None ELSE s[s[i].reads]

Init ==
  /\ recorded \in Histories
  /\ schema = Replay(recorded)
  /\ built = [i \in Indexes |-> Read(i, schema)]
  /\ run = [p \in Processes |-> Idle]
  /\ made = 0 /\ wrong = 0
  /\ half = {} /\ stale = FALSE /\ crossed = FALSE

Busy(p)   == run[p].pc # "idle"
Does(p)   == run[p].call.does
Undoes(p) == Does(p) = "rollback"
Current(p) == Head(run[p].plan)

Fault(f) == f \in Faults /\ wrong < MaxFaults /\ wrong' = wrong + 1
NoFault  == wrong' = wrong

Becomes(p, r) == run' = [run EXCEPT ![p] = r]
Goes(p, pc)   == Becomes(p, [run[p] EXCEPT !.pc = pc])

\* The call returns or raises.
Ends(p, r) ==
  /\ Becomes(p, [r EXCEPT !.pc = "idle", !.plan = << >>, !.seen = {}, !.held = Empty,
                          !.failure = None, !.phase = None, !.pending = FALSE])
  /\ half' = IF r.pending THEN half \cup {<<Does(p), Current(p)>>} ELSE half

\* For the history variable "stale": the database is not as the run knows it,
\* another recorded a migration meanwhile or stands between its two batches
\* (both may send the first batch of one migration, and each its second).
OutOfStep(p) ==
  \/ recorded # run[p].seen
  \/ /\ run[p].pc # "main"
     /\ \E q \in Processes \ {p} :
          /\ run[q].pending
          /\ ~(run[p].pc = "analyzers" /\ <<Does(p), Current(p)>> = <<Does(q), Current(q)>>)

(***************************************************************************)
(* Before the first batch                                                  *)
(***************************************************************************)
Begin(p, call) ==
  /\ ~Busy(p) /\ made < MaxCalls
  /\ made' = made + 1
  /\ Becomes(p, [Idle EXCEPT !.pc = "reading", !.call = call])
  /\ crossed' = (crossed \/ \E q \in Processes : /\ Busy(q)
                                                 /\ {Does(q), call.does} = {"migrate", "rollback"})
  /\ UNCHANGED <<database, wrong, half, stale>>

PlanOf(call) ==
  CASE call.does = "migrate"  -> Plan(recorded, call.target)
    [] call.does = "rollback" -> Undo(recorded, call.target)
    [] call.does = "upgrade"  -> Upgraded(recorded, call.target)

\* What a call refuses on the history alone.
HistoryRefused(call) ==
  \/ HistoryBroken(recorded)
  \/ /\ call.does = "rollback"
     /\ \/ call.target # None /\ call.target \notin recorded
        \/ \E m \in Range(Undo(recorded, call.target)) : Irreversible(m)

\* The tracking table is ensured (three attempts) and read.
ReadHistory(p) ==
  LET call == run[p].call
      plan == PlanOf(call)
  IN  /\ run[p].pc = "reading"
      /\ ~HistoryRefused(call) /\ plan # << >>
      /\ Becomes(p, [run[p] EXCEPT !.pc = IF call.does = "upgrade" THEN "data" ELSE "preparing",
                                   !.plan = plan, !.seen = recorded])
      /\ UNCHANGED <<database, made, wrong, half, stale, crossed>>

NothingToDo(p) ==
  LET call == run[p].call
  IN  /\ run[p].pc = "reading"
      /\ \/ HistoryRefused(call) /\ NoFault
         \/ ~HistoryRefused(call) /\ PlanOf(call) = << >> /\ NoFault
         \/ Fault("unread")
      /\ Ends(p, run[p])
      /\ UNCHANGED <<database, made, stale, crossed>>

\* The batch a migration begins with.
FirstPhase(m, undone) == IF PhaseA(m, undone) = << >> THEN "main" ELSE "analyzers"

\* The one read of the schema; every migration of the plan checked on it.
Prepare(p) ==
  /\ run[p].pc = "preparing"
  /\ IF Unfit(schema, Mapped(run[p].plan, LAMBDA m : Operations[m]), Undoes(p))
       THEN Ends(p, run[p])
       ELSE /\ Becomes(p, [run[p] EXCEPT !.pc = FirstPhase(Current(p), Undoes(p)), !.held = schema])
            /\ half' = half
  /\ stale' = (stale \/ OutOfStep(p))
  /\ UNCHANGED <<database, made, wrong, crossed>>

(***************************************************************************)
(* The server: a batch's statements, in order; an index is built with the  *)
(* analyzers committed before the batch.                                   *)
(***************************************************************************)
Tokens(st, after) ==
  IF st.does = "remove" \/ after[st.name] = None THEN None
  ELSE IF after[st.name].reads = None THEN None ELSE schema[after[st.name].reads]

Executed(batch) ==
  LET step(d, st) ==
        LET after == After(d.schema, st)
        IN  IF d.refused \/ Refuses(d.schema, st) THEN [d EXCEPT !.refused = TRUE]
            ELSE [refused |-> FALSE, schema |-> after,
                  built   |-> IF st.name \in Indexes
                                THEN [d.built EXCEPT ![st.name] = Tokens(st, after)] ELSE d.built]
  IN  FoldLeft(step, [refused |-> FALSE, schema |-> schema, built |-> built], batch)

(***************************************************************************)
(* The batches                                                             *)
(***************************************************************************)
Batch(p) == IF run[p].pc = "analyzers" THEN PhaseA(Current(p), Undoes(p))
                                       ELSE PhaseB(Current(p), Undoes(p))

\* The tracking record is unique; its removal is not checked.
RecordRefused(p) == run[p].pc = "main" /\ ~Undoes(p) /\ Current(p) \in recorded

ServerRefuses(p) == RecordRefused(p) \/ Executed(Batch(p)).refused

\* What a failed batch may leave: a rebuild of an index is not undone.
Leftovers(p) ==
  LET rebuilt == {st.name : st \in {s \in Range(Batch(p)) : s.does = "rebuild"}}
      tokens(kept) == [i \in Indexes |-> IF i \in kept /\ schema[i] # None
                                           THEN Read(i, schema) ELSE built[i]]
  IN  IF RecordRefused(p) THEN {built} ELSE {tokens(kept) : kept \in SUBSET rebuilt}

Sending(p) == run[p].pc \in {"analyzers", "main"}

\* The batch takes effect in the database.
TakesEffect(p) ==
  LET after == Executed(Batch(p))
  IN  /\ ~ServerRefuses(p)
      /\ schema' = after.schema /\ built' = after.built
      /\ recorded' = IF run[p].pc = "analyzers" THEN recorded
                     ELSE IF Undoes(p) THEN recorded \ {Current(p)}
                     ELSE recorded \cup {Current(p)}
      /\ stale' = (stale \/ OutOfStep(p))

\* What the history variables say of a batch that took effect.
Noted(p) ==
  IF run[p].pc = "analyzers" THEN [run[p] EXCEPT !.pending = TRUE]
  ELSE [run[p] EXCEPT !.pending = FALSE, !.committed = @ \cup {Current(p)}]

Finished(p) == IF run[p].pc = "main" THEN half \ {<<Does(p), Current(p)>>} ELSE half

\* The next migration, or the end; done: the current one is returned.
Moved(p, r, done) ==
  LET m == Current(p)
      left == Tail(r.plan)
  IN  [r EXCEPT !.pc = IF left = << >> THEN "idle"
                       ELSE IF Does(p) = "upgrade" THEN "data"
                       ELSE FirstPhase(Head(left), Undoes(p)),
                !.plan = left,
                !.seen = CASE Does(p) = "migrate"  -> @ \cup {m}
                           [] Does(p) = "rollback" -> @ \ {m}
                           [] OTHER -> @,
                !.held = CASE left = << >> \/ Does(p) = "upgrade" -> Empty
                           [] Undoes(p) -> Rewind(@, Operations[m])
                           [] OTHER -> Advance(@, Operations[m]),
                !.failure = None, !.phase = None, !.pending = FALSE,
                !.done = IF done THEN @ \cup {m} ELSE @]

\* Whether functions or statements of data operations run after phase B.
RunsData(p) == HasData(Current(p)) /\ (Undoes(p) \/ run[p].call.data)

Commits(p) ==
  /\ Sending(p)
  /\ TakesEffect(p)
  /\ LET r == Noted(p)
     IN  Becomes(p, CASE run[p].pc = "analyzers" -> [r EXCEPT !.pc = "main"]
                      [] run[p].pc = "main" /\ RunsData(p) -> [r EXCEPT !.pc = "data"]
                      [] OTHER -> Moved(p, r, TRUE))
  /\ half' = Finished(p)
  /\ UNCHANGED <<made, wrong, crossed>>

Fails(p, failure) ==
  [run[p] EXCEPT !.pc = "checking", !.phase = run[p].pc, !.failure = failure]

\* An answer that says the batch was rolled back.
IsRefused(p) ==
  /\ Sending(p)
  /\ \/ ServerRefuses(p) /\ Becomes(p, Fails(p, "refused")) /\ NoFault
     \/ Fault("refused") /\ Becomes(p, Fails(p, "refused"))
     \/ Fault("conflict") /\ Becomes(p, Fails(p, "conflict"))
  /\ built' \in Leftovers(p)
  /\ UNCHANGED <<recorded, schema, made, half, stale, crossed>>

\* No answer: the batch took effect, or it did not.
IsLost(p) ==
  /\ Sending(p)
  /\ Fault("lost")
  /\ \/ /\ TakesEffect(p)
        /\ Becomes(p, [Noted(p) EXCEPT !.pc = "checking", !.phase = run[p].pc, !.failure = "lost"])
        /\ half' = Finished(p)
     \/ /\ Becomes(p, Fails(p, "lost"))
        /\ built' \in Leftovers(p)
        /\ UNCHANGED <<recorded, schema, half, stale>>
  /\ UNCHANGED <<made, crossed>>

(***************************************************************************)
(* After a batch failed: the tracking table is read again (_recorded()).   *)
(***************************************************************************)
\* Mutant of Compensates: a lost answer is raised as it is.
Compensates_Answered(p) ==
  PhaseA(Current(p), Undoes(p)) # << >> /\ run[p].failure = "refused" /\ run[p].phase = "main"

Compensates(p) ==
  /\ PhaseA(Current(p), Undoes(p)) # << >>
  /\ \/ run[p].failure = "lost"
     \/ run[p].failure = "refused" /\ run[p].phase = "main"

FoundDone(p) == (Current(p) \in recorded) = (Does(p) = "migrate")

\* Mutant of Skip: the migration is returned as applied by this run.
Skip_Returned(p) ==
  /\ run[p].pc = "checking"
  /\ FoundDone(p)
  /\ Becomes(p, Moved(p, run[p], TRUE))
  /\ UNCHANGED <<database, made, wrong, half, stale, crossed>>

\* Another run did it, or the answer was lost: skipped.
Skip(p) ==
  /\ run[p].pc = "checking"
  /\ FoundDone(p)
  /\ Becomes(p, Moved(p, run[p], FALSE))
  /\ UNCHANGED <<database, made, wrong, half, stale, crossed>>

\* The failure is raised: what a conflict's phase A committed is kept, a read
\* that fails compensates nothing.
Raise(p) ==
  /\ run[p].pc = "checking"
  /\ \/ /\ ~FoundDone(p) /\ ~Compensates(p) /\ NoFault
        /\ Ends(p, [run[p] EXCEPT !.pending = @ /\ run[p].failure = "conflict"])
     \/ Fault("unread") /\ Ends(p, run[p])
  /\ UNCHANGED <<database, made, stale, crossed>>

StartCompensation(p) ==
  /\ run[p].pc = "checking"
  /\ ~FoundDone(p) /\ Compensates(p)
  /\ Goes(p, "compensating")
  /\ UNCHANGED <<database, made, wrong, half, stale, crossed>>

CompensationOf(p) == Compensation(Current(p), Undoes(p), run[p].held)
RebuildsOf(p)     == Rebuilds(Current(p), Undoes(p), run[p].held)

Compensate(p) ==
  LET after == Executed(CompensationOf(p))
  IN  /\ run[p].pc = "compensating"
      /\ ~after.refused
      /\ schema' = after.schema /\ built' = after.built
      /\ stale' = (stale \/ OutOfStep(p))
      /\ IF RebuildsOf(p) = << >>
           THEN Ends(p, [run[p] EXCEPT !.pending = FALSE])
           ELSE Goes(p, "rebuilding") /\ half' = half
      /\ UNCHANGED <<recorded, made, wrong, crossed>>

RebuildIndexes(p) ==
  LET after == Executed(RebuildsOf(p))
  IN  /\ run[p].pc = "rebuilding"
      /\ schema' = after.schema /\ built' = after.built
      /\ Ends(p, [run[p] EXCEPT !.pending = FALSE])
      /\ UNCHANGED <<recorded, made, wrong, stale, crossed>>

\* The compensation, or the rebuild after it, is refused or gets no answer.
NotRestored(p) ==
  /\ \/ run[p].pc = "compensating" /\ Executed(CompensationOf(p)).refused /\ NoFault
     \/ run[p].pc \in {"compensating", "rebuilding"} /\ Fault("refused")
  /\ Ends(p, run[p])
  /\ UNCHANGED <<database, made, stale, crossed>>

(***************************************************************************)
(* Data operations, the end of a task, and the application by hand         *)
(***************************************************************************)
RunData(p) ==
  /\ run[p].pc = "data"
  /\ Becomes(p, Moved(p, run[p], TRUE))
  /\ UNCHANGED <<database, made, wrong, half, stale, crossed>>

DataFails(p) ==
  /\ run[p].pc = "data"
  /\ Fault("refused")
  /\ Ends(p, run[p])
  /\ UNCHANGED <<database, made, stale, crossed>>

Cancelled(p) ==
  /\ Busy(p)
  /\ Fault("cancelled")
  /\ Ends(p, run[p])
  /\ UNCHANGED <<database, made, stale, crossed>>

DefineByHand(i, a) ==
  /\ schema[i] = None /\ schema[a] # None
  /\ schema' = Place(schema, i, [as |-> Plain, reads |-> a, clause |-> Plain])
  /\ built' = [built EXCEPT ![i] = schema[a]]
  /\ UNCHANGED <<recorded, run, made, wrong, half, stale, crossed>>

Step(p) ==
  \/ ReadHistory(p) \/ NothingToDo(p) \/ Prepare(p)
  \/ Commits(p) \/ IsRefused(p) \/ IsLost(p)
  \/ Skip(p) \/ Raise(p) \/ StartCompensation(p)
  \/ Compensate(p) \/ RebuildIndexes(p) \/ NotRestored(p)
  \/ RunData(p) \/ DataFails(p) \/ Cancelled(p)

Next ==
  \/ \E p \in Processes : Step(p) \/ \E call \in Calls : Begin(p, call)
  \/ \E i \in ByHand, a \in Analyzers : DefineByHand(i, a)

Spec == Init /\ [][Next]_vars
-----------------------------------------------------------------------------
(***************************************************************************)
(* What the calls promise                                                  *)
(***************************************************************************)
Quiet == \A p \in Processes : ~Busy(p)

\* Definitions the files speak of.
Ours == Definitions \ ByHand

\* No migration is left half done, and no run acted on what another had moved.
Undisturbed == half = {} /\ ~stale /\ ~crossed

\* When no call is under way, the database holds what the recorded migrations
\* build, whatever failed and was compensated, skipped, cancelled and run again
\* (_apply(), _compensate()); and every index holds the tokens of the analyzer it
\* is read with, which a compensation that restores one builds again.
HistoryIsSchema ==
  Quiet /\ Undisturbed =>
    /\ \A d \in Ours : schema[d] = Replay(recorded)[d]
    /\ \A i \in Indexes \ ByHand : built[i] = Read(i, schema)

\* A call returns, and runs the data operations of, migrations its own batches
\* applied or undid, never one it found done by another (_apply()'s answer).
OwnWork ==
  \A p \in Processes :
    Does(p) # "upgrade" =>
      /\ run[p].done \subseteq run[p].committed
      /\ run[p].pc = "data" => Current(p) \in run[p].committed

\* However migrate() calls with any targets interleave, or rollback() calls, a
\* recorded migration's dependencies are recorded (E-H1 is for other histories).
HistoryClosed == crossed \/ ~HistoryBroken(recorded)

\* The schema as the run expects it when it sends a batch.
Expected(p) ==
  IF run[p].pc = "analyzers" THEN run[p].held
  ELSE FoldLeft(After, run[p].held, PhaseA(Current(p), Undoes(p)))

\* The server refuses no statement of a plan that passed the checks before the
\* first one (E-R1, E-G1), unless the database moved since they were made.
RefusalsForeseen ==
  [][\A p \in Processes :
       Sending(p) /\ Undisturbed /\ wrong' = wrong /\ run'[p].pc = "checking" =>
         Current(p) \in recorded \/ schema # Expected(p)]_vars

\* docs/migrations.md: another process applying the same migration at the same
\* time is safe.
SafeTogether == Quiet => \A d \in Ours : schema[d] = Replay(recorded)[d]
=============================================================================
