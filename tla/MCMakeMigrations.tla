-------------------------- MODULE MCMakeMigrations --------------------------
(***************************************************************************)
(* A small instance of MakeMigrations.tla: a table, its event, an index    *)
(* that uses an analyzer, and a view that reads the table.                 *)
(***************************************************************************)
EXTENDS MakeMigrations

CONSTANTS analyzer, log, entry, index, view, access, words, stems, opaque, public

Sorted == <<analyzer, access, log, view, entry, index>>
Kinds  == analyzer :> "analyzer" @@ access :> "access" @@ log :> "table" @@ view :> "table"
          @@ entry :> "event" @@ index :> "index"
Owners == [n \in Range(Sorted) |-> IF n \in {entry, index} THEN log ELSE None]
Opaque == {opaque}

Text(as)      == [as |-> as, reads |-> None, clause |-> Plain]
Reading(name) == [as |-> Plain, reads |-> name, clause |-> Plain]
Table(clause) == [as |-> Plain, reads |-> None, clause |-> clause]

\* A table whose permissions are left to the database; with a searched field;
\* searched otherwise, its permissions declared; and a view of it.
Declared ==
  {Empty,
   [Empty EXCEPT ![log] = Table(Undeclared), ![index] = Text(words)],
   [Empty EXCEPT ![log] = Table(Undeclared), ![analyzer] = Text(words), ![index] = Reading(analyzer),
                 ![access] = Text(words)],
   [Empty EXCEPT ![log] = Table(public), ![analyzer] = Text(stems), ![index] = Reading(analyzer),
                 ![view] = [Reading(log) EXCEPT !.clause = Undeclared]]}

Hand ==
  {Stated("define", log, Table(public), TRUE),
   Stated("define", view, Reading(log), TRUE),
   Stated("define", index, Text(opaque), TRUE),
   Stated("define", entry, Text(words), TRUE),
   Stated("define", analyzer, Text(opaque), TRUE),
   Stated("remove", index, None, FALSE),
   Stated("remove", log, None, FALSE)}
=============================================================================
