------------------------ MODULE MCMigrationExecutor ------------------------
(***************************************************************************)
(* Small instances of MigrationExecutor.tla: an analyzer and an index that *)
(* uses it, defined, redefined with data to transform, and removed.        *)
(***************************************************************************)
EXTENDS MigrationExecutor

CONSTANTS p1, p2, analyzer, index, manual, words, stems

Text(as)       == [as |-> as, reads |-> None, clause |-> Plain]
Reading(name)  == [as |-> Plain, reads |-> name, clause |-> Plain]
Define(name, to, previous) == Operation("define", name, to, previous, FALSE)

Defined   == <<Define(analyzer, Text(words), None), Define(index, Reading(analyzer), None)>>
Redefined == <<Define(analyzer, Text(stems), Text(words)),
               Operation("rebuild", index, None, None, FALSE),
               Operation("data", None, None, Text(words), FALSE)>>
Removed   == <<Operation("remove", index, None, Reading(analyzer), FALSE),
               Operation("remove", analyzer, None, Text(stems), FALSE)>>

Sorted    == <<analyzer, index, manual>>
Kinds     == analyzer :> "analyzer" @@ index :> "index" @@ manual :> "index"
Owners    == analyzer :> None @@ index :> None @@ manual :> None

\* The second file in name order is the last one in dependency order.
Files     == {1, 2, 3}
Needs     == 1 :> {} @@ 2 :> {3} @@ 3 :> {1}
Contents  == 1 :> Defined @@ 2 :> Removed @@ 3 :> Redefined

Two    == {p1, p2}
Hand   == {manual}
AtFirst == {{1}}
Made   == {[does |-> "migrate", target |-> None, data |-> TRUE],
           [does |-> "migrate", target |-> 3, data |-> FALSE],
           [does |-> "rollback", target |-> None, data |-> FALSE],
           [does |-> "rollback", target |-> 1, data |-> FALSE],
           [does |-> "upgrade", target |-> None, data |-> FALSE]}

Together == {[does |-> "migrate", target |-> None, data |-> FALSE]}

AllFaults == FaultNames

Symmetric == Permutations(Two)
=============================================================================
