--------------------------- MODULE MakeMigrations ---------------------------
(***************************************************************************)
(* makemigrations() (migrations/autodetect.py) between the changes of the  *)
(* models, the definitions made by hand (define_table() ..., statements)   *)
(* and migrate() and rollback(), one call at a time: does a generated file *)
(* do what the next calls, and the database, expect of it?                 *)
(*                                                                         *)
(* A file depends on every leaf of the files before it, so the files are a *)
(* sequence and the applied ones its first.                                *)
(***************************************************************************)
EXTENDS SchemaOperations

CONSTANTS
  Models,      \* the schemas the models may declare, over time
  ByHand,      \* the statements sent outside the migrations
  MaxFiles,    \* bound: the files written
  MaxByHand    \* bound: the statements sent by hand

\* What a model declares reads what a model declares, on a table of a model.
Closed(schema) ==
  \A n \in Definitions : schema[n] # None =>
    /\ Owner[n] # None => schema[Owner[n]] # None
    /\ schema[n].reads # None => schema[schema[n].reads] # None

ASSUME ModelsAssumption ==
  /\ MaxFiles \in Nat /\ MaxByHand \in Nat
  /\ \A schema \in Models :
       Closed(schema) /\ \A n \in Definitions : schema[n] # None => schema[n].as \notin Unwritable

VARIABLES
  models,     \* the schema the models declare
  database,   \* the schema the database holds
  files,      \* the files: [ops, and how they were made: fromDb, drop, models]
  applied,    \* how many of the files the tracking table records
  sent,       \* how many statements were sent by hand
  before,     \* history: the schema each applied file was applied to
  moved       \* history: the files made for another database than there is now

vars == <<models, database, files, applied, sent, before, moved>>

Init ==
  /\ models \in Models
  /\ database = Empty
  /\ files = << >> /\ applied = 0 /\ sent = 0 /\ before = << >> /\ moved = {}

EditModels ==
  /\ models' \in Models \ {models}
  /\ UNCHANGED <<database, files, applied, sent, before, moved>>

ChangeByHand(st) ==
  /\ sent < MaxByHand
  /\ ~Refuses(database, st)
  /\ database' = After(database, st) /\ database' # database
  /\ sent' = sent + 1 /\ moved' = DOMAIN files
  /\ UNCHANGED <<models, files, applied, before>>

(***************************************************************************)
(* makemigrations()                                                        *)
(***************************************************************************)
OpsOf(k)        == files[k].ops
OpsFrom(k, n)   == [j \in 1..(n - k + 1) |-> OpsOf(k + j - 1)]
Pending         == OpsFrom(applied + 1, Len(files))

\* E-R1, in a pending file replayed over the database.
PendingRemovalRefused ==
  \E k \in DOMAIN Pending : \E j \in DOMAIN Pending[k] :
    LET held == Advance(FoldLeft(Advance, database, SubSeq(Pending, 1, k - 1)),
                        SubSeq(Pending[k], 1, j - 1))
    IN  Pending[k][j].does = "remove" /\ held[Pending[k][j].name] = None

\* Mutant of CurrentState: the pending files are forgotten.
CurrentState_Applied(fromDb) ==
  IF fromDb THEN database ELSE FoldLeft(Advance, Empty, OpsFrom(1, applied))

\* The database with the pending files replayed over it, or the files' schema.
CurrentState(fromDb) ==
  IF fromDb THEN FoldLeft(Advance, database, Pending)
            ELSE FoldLeft(Advance, Empty, OpsFrom(1, Len(files)))

\* The operations the next file would hold.
Detected(fromDb, drop) ==
  LET ops == Diff(CurrentState(fromDb), models) IN IF drop THEN ops ELSE Kept(ops)

MakeMigrations(fromDb, drop) ==
  LET ops == Detected(fromDb, drop)
  IN  /\ Len(files) < MaxFiles
      /\ fromDb => ~PendingRemovalRefused
      /\ ops # << >>
      /\ files' = Append(files, [ops |-> ops, fromDb |-> fromDb, drop |-> drop, models |-> models])
      /\ moved' = IF fromDb \/ sent = 0 THEN moved ELSE moved \cup {Len(files')}
      /\ UNCHANGED <<models, database, applied, sent, before>>

(***************************************************************************)
(* migrate() and rollback(): checked on the one read of the database, then *)
(* one file after the other until the server refuses a statement.          *)
(***************************************************************************)
Ran(state, k, undone) ==
  LET run(s, st) == IF s.refused \/ Refuses(s.schema, st) THEN [s EXCEPT !.refused = TRUE]
                                                          ELSE [s EXCEPT !.schema = After(@, st)]
      end == FoldLeft(run, [refused |-> FALSE, schema |-> state.schema],
                      FirstBatch(OpsOf(k), undone) \o MainBatch(OpsOf(k), undone))
  IN  IF state.refused \/ end.refused THEN [state EXCEPT !.refused = TRUE]
      ELSE [refused |-> FALSE, schema |-> end.schema,
            applied |-> IF undone THEN k - 1 ELSE k,
            before  |-> IF undone THEN Front(state.before) ELSE Append(state.before, state.schema)]

Now == [refused |-> FALSE, schema |-> database, applied |-> applied, before |-> before]

Migrated(n) ==
  IF Unfit(database, OpsFrom(applied + 1, n), FALSE) THEN [Now EXCEPT !.refused = TRUE]
  ELSE FoldLeft(LAMBDA s, k : Ran(s, k, FALSE), Now, [j \in 1..(n - applied) |-> applied + j])

RolledBack(n) ==
  LET undone == Reverse(OpsFrom(n + 1, applied))
  IN  IF \/ \E ops \in Range(undone) : \E op \in Range(ops) : ~Reversible(op)
         \/ Unfit(database, undone, TRUE)
        THEN [Now EXCEPT !.refused = TRUE]
        ELSE FoldLeft(LAMBDA s, k : Ran(s, k, TRUE), Now, [j \in 1..(applied - n) |-> applied + 1 - j])

Becomes(state) ==
  /\ state.applied # applied
  /\ moved' = IF (state.applied + 1)..applied \cap moved = {} THEN moved ELSE DOMAIN files
  /\ database' = state.schema /\ applied' = state.applied /\ before' = state.before
  /\ UNCHANGED <<models, files, sent>>

Migrate(n)  == n \in (applied + 1)..Len(files) /\ Becomes(Migrated(n))
Rollback(n) == n \in 0..(applied - 1) /\ Becomes(RolledBack(n))

Next ==
  \/ EditModels
  \/ \E st \in ByHand : ChangeByHand(st)
  \/ \E fromDb, drop \in BOOLEAN : MakeMigrations(fromDb, drop)
  \/ \E n \in 0..MaxFiles : Migrate(n) \/ Rollback(n)

Spec == Init /\ [][Next]_vars
-----------------------------------------------------------------------------
(***************************************************************************)
(* What a generated file promises                                          *)
(***************************************************************************)
\* A second makemigrations() with the same models and flags writes nothing,
\* before or after migrate() (docs/migrations.md, makemigrations()).
SettlesAtOnce ==
  \A k \in DOMAIN files :
    k = Len(files) /\ files[k].models = models /\ k \notin moved /\ applied \in {k - 1, k} =>
      Detected(files[k].fromDb, files[k].drop) = << >>

\* A file made from the database is applied after the ones before it: neither
\* migrate()'s checks (E-R1, E-G1, E-G2) nor the server refuse it, but for an
\* analyzer no operation can write (E-I2).
GeneratedApplies ==
  \A k \in (applied + 1)..Len(files) :
    LET prior == Migrated(k - 1)
    IN  /\ ((applied + 1)..k) \cap moved = {}
        /\ k = applied + 1 \/ ~prior.refused
        /\ ~Unrestorable(prior.schema, OpsOf(k), FALSE)
        => ~Migrated(k).refused

\* rollback() of reversible files brings back the schema each was applied to:
\* what a file redefines or removes it puts back as it was, by hand or by a
\* file, and what it creates is gone (E-G1 and E-G2 refuse to leave a view or an
\* index without what it reads).
RollbackRestores ==
  \A k \in 1..applied :
    (\A j \in k..applied : /\ j \notin moved /\ Closed(before[j])
                           /\ \A op \in Range(OpsOf(j)) : Reversible(op)) =>
      /\ ~RolledBack(k - 1).refused
      /\ RolledBack(k - 1).schema = before[k]

\* Files made without drop_missing= leave alone what their models do not
\* declare, and the clauses their models leave to the database.
UndeclaredKept ==
  [][\A n \in Definitions :
       applied' > applied /\ database[n] # None =>
         \/ \E k \in (applied + 1)..applied' : files[k].drop
         \/ /\ (\A k \in (applied + 1)..applied' : files[k].models[n] = None) =>
                 database'[n] = database[n]
            /\ (\A k \in (applied + 1)..applied' :
                  /\ k \notin moved /\ files[k].models[n] # None
                  /\ files[k].models[n].clause = Undeclared) =>
                 database'[n] # None /\ database'[n].clause = database[n].clause]_vars
=============================================================================
