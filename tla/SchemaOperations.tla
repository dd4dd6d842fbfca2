-------------------------- MODULE SchemaOperations --------------------------
(***************************************************************************)
(* The schema a database holds, the operations of a migration on it, what  *)
(* is refused before the first statement is sent, the statements, and the  *)
(* operations that turn one schema into another (migrations/operations.py, *)
(* migrations/state.py), as pure operators.                                *)
(*                                                                         *)
(* A schema maps every name to its definition, or to None.  A definition   *)
(* has a text ("as"), what it reads (an index its analyzer, a view its     *)
(* table) and a clause, which a model may leave to the database.           *)
(***************************************************************************)
EXTENDS Naturals, FiniteSets, SequencesExt

CONSTANTS Names,        \* every name, in the order names are sorted
          Kind,         \* of each name: "table", "field", "index", ...
          Owner,        \* the table of a field, an index or an event
          Unwritable,   \* texts a database may hold and no operation writes
          Plain,        \* the clause of a statement that writes none
          Undeclared,   \* the clause a model leaves to the database
          None          \* no definition

Definitions == Range(Names)

ASSUME SchemaNames ==
  /\ Kind \in [Definitions -> {"table", "field", "index", "event", "analyzer", "access"}]
  /\ Owner \in [Definitions -> Definitions \cup {None}]
  /\ None \notin Definitions

Empty == [n \in Definitions |-> None]

\* The table SurrealDB creates for what is defined on a missing one.
Implicit == [as |-> Plain, reads |-> None, clause |-> Plain]

\* A table definition keeps the table's fields, indexes and events.
Place(schema, name, definition) ==
  [n \in Definitions |->
     IF n = name THEN definition
     ELSE IF n = Owner[name] /\ schema[n] = None THEN Implicit ELSE schema[n]]

\* A table goes with its fields, indexes and events.
TakeOut(schema, name) ==
  [n \in Definitions |-> IF name \in {n, Owner[n]} THEN None ELSE schema[n]]

\* The indexes that use an analyzer, the views that read a table.
Readers(schema, names) ==
  {n \in Definitions : schema[n] # None /\ schema[n].reads \in names \ {n}}

(***************************************************************************)
(* The operations: "define" a name as "to" (over "previous"), "remove" it, *)
(* "rebuild" an index, transform "data".                                   *)
(***************************************************************************)
Operation(does, name, to, previous, overwrite) ==
  [does |-> does, name |-> name, to |-> to, previous |-> previous, overwrite |-> overwrite]

IsData(op)     == op.does = "data"
IsAnalyzer(op) == op.does \in {"define", "remove"} /\ Kind[op.name] = "analyzer"

Reversible(op) ==
  CASE op.does = "define"              -> op.previous # None \/ ~op.overwrite
    [] op.does \in {"remove", "data"}  -> op.previous # None
    [] OTHER                           -> TRUE

Forwards(schema, op) ==
  CASE op.does = "define" -> Place(schema, op.name, op.to)
    [] op.does = "remove" -> TakeOut(schema, op.name)
    [] OTHER              -> schema

Backwards(schema, op) ==
  CASE op.does \notin {"define", "remove"} -> schema
    [] op.previous = None                  -> TakeOut(schema, op.name)
    [] OTHER                               -> Place(schema, op.name, op.previous)

Advance(schema, ops) == FoldLeft(Forwards, schema, ops)
Rewind(schema, ops)  == FoldLeft(Backwards, schema, Reverse(ops))

(***************************************************************************)
(* What is refused before the first statement is sent                      *)
(***************************************************************************)
\* Mutant of Refused: an analyzer in use may be removed.
Refused_InUse(schema, op) == op.does = "remove" /\ schema[op.name] = None

\* The removal of what the schema does not hold (E-R1), of an analyzer an index
\* uses (E-G1) or a table a view reads (E-G2).
Refused(schema, op) ==
  /\ op.does = "remove"
  /\ schema[op.name] = None \/ Readers(schema, {op.name}) # {}

\* Undone, what was defined anew is removed: E-G1, E-G2.
RefusedUndone(schema, op) ==
  /\ op.does = "define" /\ op.previous = None
  /\ Kind[op.name] \in {"analyzer", "table"} /\ Readers(schema, {op.name}) # {}

\* Sent in a batch of their own, committed first: an index is built with the
\* committed analyzers only.
\* Mutant of DefinesAnalyzer: all in one batch.
DefinesAnalyzer_Never(op) == FALSE

DefinesAnalyzer(op)  == IsAnalyzer(op) /\ op.does = "define"
RestoresAnalyzer(op) == IsAnalyzer(op) /\ op.previous # None

\* The database holds an analyzer that could not be restored after the batch of
\* its own (E-I2).
Unrestorable(schema, ops, undone) ==
  \E op \in Range(ops) :
    /\ IF undone THEN RestoresAnalyzer(op) ELSE DefinesAnalyzer(op)
    /\ schema[op.name] # None /\ schema[op.name].as \in Unwritable

\* Every operation of a migration, each on the schema before it.
UnfitOne(schema, ops, undone) ==
  LET sent        == IF undone THEN Reverse(ops) ELSE ops
      step(s, op) == IF undone THEN Backwards(s, op) ELSE Forwards(s, op)
      before(k)   == FoldLeft(step, schema, SubSeq(sent, 1, k - 1))
  IN  \/ Unrestorable(schema, ops, undone)
      \/ \E k \in DOMAIN sent :
           IF undone THEN RefusedUndone(before(k), sent[k]) ELSE Refused(before(k), sent[k])

\* Every migration of a plan, each on the schema the ones before it leave.
Unfit(schema, plan, undone) ==
  LET step(s, ops) == IF undone THEN Rewind(s, ops) ELSE Advance(s, ops)
  IN  \E k \in DOMAIN plan :
        UnfitOne(FoldLeft(step, schema, SubSeq(plan, 1, k - 1)), plan[k], undone)

(***************************************************************************)
(* The statements: what each does, and whether it is written OVERWRITE or  *)
(* IF EXISTS; what the server refuses.                                     *)
(***************************************************************************)
Stated(does, name, to, anyway) == [does |-> does, name |-> name, to |-> to, anyway |-> anyway]

Statement(op) ==
  Stated(op.does, op.name, op.to,
         op.does = "define" /\ (op.previous # None \/ op.overwrite \/ IsAnalyzer(op)))

StatementUndone(op) ==
  CASE op.does \notin {"define", "remove"} -> Stated(op.does, op.name, None, FALSE)
    [] op.previous = None                  -> Stated("remove", op.name, None, TRUE)
    [] OTHER -> Stated("define", op.name, op.previous, op.does = "define" \/ IsAnalyzer(op))

Refuses(schema, st) ==
  CASE st.does = "define" ->
         \/ ~st.anyway /\ schema[st.name] # None
         \/ Kind[st.name] = "index" /\ st.to.reads # None /\ schema[st.to.reads] = None
    [] st.does = "remove" ->
         \/ ~st.anyway /\ schema[st.name] = None
         \/ Kind[st.name] = "analyzer" /\ Readers(schema, {st.name}) # {}
    [] st.does = "rebuild" -> ~st.anyway /\ schema[st.name] = None
    [] OTHER -> FALSE

After(schema, st) ==
  CASE st.does = "define" -> Place(schema, st.name, st.to)
    [] st.does = "remove" -> TakeOut(schema, st.name)
    [] OTHER              -> schema

Mapped(ops, F(_)) == [k \in DOMAIN ops |-> F(ops[k])]

\* The batch of its own for the analyzers.
FirstBatch(ops, undone) ==
  IF undone THEN Mapped(SelectSeq(Reverse(ops), RestoresAnalyzer), StatementUndone)
            ELSE Mapped(SelectSeq(ops, DefinesAnalyzer), Statement)

\* A data operation runs in its place when undone, after the schema otherwise.
MainBatch(ops, undone) ==
  IF undone
    THEN Mapped(SelectSeq(Reverse(ops), LAMBDA op : ~RestoresAnalyzer(op)), StatementUndone)
    ELSE Mapped(SelectSeq(ops, LAMBDA op : ~DefinesAnalyzer(op) /\ ~IsData(op)), Statement)

(***************************************************************************)
(* SchemaState.diff(): the operations that turn one schema into another.   *)
(***************************************************************************)
\* The target as define_table() writes it over what the database holds.
\* Mutant of Effective: what the model leaves to the database is reset.
Effective_Reset(current, target) ==
  [target EXCEPT !.clause = IF @ = Undeclared THEN Plain ELSE @]

Effective(current, target) ==
  [target EXCEPT !.clause = IF @ = Undeclared THEN current.clause ELSE @]

Creation(name, target) ==
  Operation("define", name, [target EXCEPT !.clause = IF @ = Undeclared THEN Plain ELSE @], None, FALSE)

Written(definition) == IF definition.as \in Unwritable THEN None ELSE definition

\* Mutant of Redefinition: without what it replaces.
Redefinition_Anew(name, current, target) ==
  Operation("define", name, Effective(current, target), None, FALSE)

Redefinition(name, current, target) ==
  Operation("define", name, Effective(current, target), Written(current),
            Written(current) = None /\ Kind[name] # "analyzer")

\* The records of a table and the values of a field are gone.
Removal(name, current) ==
  Operation("remove", name, None,
            IF Kind[name] \in {"table", "field"} THEN None ELSE Written(current), FALSE)

\* split_destructive(): the removals are left out.
Kept(ops) == SelectSeq(ops, LAMBDA op : op.does # "remove")

Partition(names, First(_)) ==
  SelectSeq(names, First) \o SelectSeq(names, LAMBDA n : ~First(n))

\* Mutant of ViewsFirst: a table goes before the views that read it.
ViewsFirst_ByName(tables, schema) == tables

\* A table goes after the views that read it, and comes before them.
ViewsFirst(tables, schema) == Partition(tables, LAMBDA t : schema[t].reads # None)
ViewsLast(tables, schema)  == Partition(tables, LAMBDA t : schema[t].reads = None)

Diff(current, target) ==
  LET new(n)     == current[n] = None /\ target[n] # None
      both(n)    == current[n] # None /\ target[n] # None
      changed(n) == both(n) /\ current[n] # Effective(current[n], target[n])
      gone(n)    == current[n] # None /\ target[n] = None
      of(kind)   == SelectSeq(Names, LAMBDA n : Kind[n] = kind)
      in(t, kind) == SelectSeq(of(kind), LAMBDA n : Owner[n] = t)
      creation(n)     == Creation(n, target[n])
      redefinition(n) == Redefinition(n, current[n], target[n])
      removal(n)      == Removal(n, current[n])
      added(names)    == Mapped(SelectSeq(names, new), creation)
      altered(names)  == Mapped(SelectSeq(names, changed), redefinition)
      removed(names)  == Mapped(SelectSeq(names, gone), removal)
      written(names)  == Mapped(SelectSeq(names, LAMBDA n : new(n) \/ changed(n)),
                                LAMBDA n : IF new(n) THEN creation(n) ELSE redefinition(n))
      created(t)  == added(<<t>> \o in(t, "field") \o in(t, "index") \o in(t, "event"))
      compared(t) == written(<<t>>)
                     \o written(in(t, "field")) \o removed(Reverse(in(t, "field")))
                     \o written(in(t, "index")) \o removed(in(t, "index"))
                     \o written(in(t, "event")) \o removed(in(t, "event"))
      tables    == of("table")
      stale     == SelectSeq(of("index"),
                     LAMBDA i : /\ both(i) /\ ~changed(i)
                                /\ target[i].reads # None /\ changed(target[i].reads))
      rebuild(i) == Operation("rebuild", i, None, None, FALSE)
  IN  added(of("analyzer")) \o altered(of("analyzer"))
      \o FlattenSeq(Mapped(ViewsLast(SelectSeq(tables, new), target), created))
      \o FlattenSeq(Mapped(SelectSeq(tables, both), compared))
      \o Mapped(stale, rebuild)
      \o written(of("access")) \o removed(of("access"))
      \o removed(ViewsFirst(SelectSeq(tables, gone), current))
      \o removed(of("analyzer"))
=============================================================================
