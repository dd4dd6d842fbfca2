--------------------------- MODULE MigrationPlan ---------------------------
(***************************************************************************)
(* What the migration files say, as pure operators: the order they are     *)
(* applied in, which of them a call applies or undoes, the schema they     *)
(* build, and the statements of each migration's batches and of its        *)
(* compensation.                                                           *)
(***************************************************************************)
EXTENDS SchemaOperations

CONSTANTS Migrations,    \* the files, numbered as their names are sorted
          Dependencies,  \* the files each depends on
          Operations     \* the sequence of operations of each

ASSUME MigrationFiles ==
  /\ Migrations \in SUBSET Nat /\ IsFiniteSet(Migrations)
  /\ Dependencies \in [Migrations -> SUBSET Migrations]
  /\ DOMAIN Operations = Migrations
  /\ None \notin Migrations

(***************************************************************************)
(* The order of the files, and what a call applies or undoes.              *)
(***************************************************************************)
\* The first n files: after those whose dependencies came before, the one
\* whose name sorts first.
first[n \in 0 .. Cardinality(Migrations)] ==
  IF n = 0 THEN << >>
  ELSE LET placed == first[n - 1]
           ready  == {m \in Migrations \ Range(placed) :
                        Dependencies[m] \subseteq Range(placed)}
       IN  IF ready = {} THEN placed ELSE Append(placed, Min(ready))

\* Mutant of Order: the files as their names are sorted.
Order_ByName == SetToSortSeq(Migrations, LAMBDA m, n : m < n)

Order == first[Cardinality(Migrations)]

\* A cycle of dependencies is refused when the files are loaded.
ASSUME NoCycle == Len(Order) = Cardinality(Migrations)

Position(m) == SelectInSeq(Order, LAMBDA n : n = m)

\* Those of a sequence of files that are in a set, in its order.
Among(sequence, chosen) ==
  LET taken[k \in 0 .. Len(sequence)] ==
        IF k = 0 THEN << >>
        ELSE IF sequence[k] \in chosen THEN Append(taken[k - 1], sequence[k]) ELSE taken[k - 1]
  IN  taken[Len(sequence)]

\* migrate(): the pending files up to the target, none when it is applied.
Plan(recorded, target) ==
  LET wanted == IF target = None THEN Order ELSE SubSeq(Order, 1, Position(target))
  IN  IF target \in recorded THEN << >>
      ELSE Among(wanted, Migrations \ recorded)

\* rollback(): the applied files after the target, newest first.
Undo(recorded, target) ==
  LET after == IF target = None THEN 0 ELSE Position(target)
  IN  Reverse(Among(SubSeq(Order, after + 1, Len(Order)), recorded))

\* upgrade(): the applied files that hold data operations, up to the target.
HasData(m) == \E op \in Range(Operations[m]) : IsData(op)

Upgraded(recorded, target) ==
  Among(IF target = None THEN Order ELSE SubSeq(Order, 1, Position(target)),
        {m \in recorded : HasData(m)})

\* An applied migration depends on a pending one.
HistoryBroken(recorded) == \E m \in recorded : ~(Dependencies[m] \subseteq recorded)

\* The schema of a database that records exactly these files.
Replay(recorded) ==
  FoldLeft(Advance, Empty, Mapped(Among(Order, recorded), LAMBDA m : Operations[m]))

Irreversible(m) == \E op \in Range(Operations[m]) : ~Reversible(op)

(***************************************************************************)
(* The batches of a migration                                              *)
(***************************************************************************)
PhaseA(m, undone) == FirstBatch(Operations[m], undone)
PhaseB(m, undone) == MainBatch(Operations[m], undone)

\* What puts back the analyzers of phase A as the schema "held" has them, and
\* then builds again the indexes of that schema that use them.
Compensation(m, undone, held) ==
  LET restoring(st) == IF held[st.name] = None THEN Stated("remove", st.name, None, TRUE)
                       ELSE Stated("define", st.name, held[st.name], TRUE)
  IN  Mapped(Reverse(PhaseA(m, undone)), restoring)

\* Mutant of Rebuilds: the restored analyzers are enough.
Rebuilds_None(m, undone, held) == << >>

Rebuilds(m, undone, held) ==
  LET defined == {st.name : st \in Range(PhaseA(m, undone))}
      rebuilt(i) == Stated("rebuild", i, None, TRUE)
  IN  Mapped(SetToSeq(Readers(held, defined)), rebuilt)
=============================================================================
