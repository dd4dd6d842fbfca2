------------------------- MODULE TransactionProofs -------------------------
(***************************************************************************)
(* Theorems of Transaction for every value of its constants: its types,    *)
(* why a block is all or nothing, where a commit goes, that a block is     *)
(* never left half open, that the query cache is told of every commit, and *)
(* that the blocks implement AtomicBlocks.                                 *)
(***************************************************************************)
EXTENDS Transaction, FiniteSetTheorems, SequenceTheorems, TLAPS

-----------------------------------------------------------------------------
(***************************************************************************)
(* The operators return what they should.                                  *)
(***************************************************************************)
(* Counting and discounting keep the notes natural numbers (_count()).     *)
LEMMA NotesTypes ==
  ASSUME NEW n \in NotesType, NEW target
  PROVE  NoNotes \in NotesType /\ Counted(n, target) \in NotesType
           /\ Uncounted(n, target) \in NotesType
BY DEF NotesType, NoNotes, Counted, Uncounted, Less

LEMMA ChainsType ==
  ASSUME TypeOK, NEW x \in Txs, NEW outer \in Chains(x)
  PROVE  outer \in SUBSET Slots
<1>1. CASE outer = {}
  BY <1>1
<1>2. CASE outer # {}
  <2>1. PICK s \in Slots : outer = {s} \cup op[x][s].outer
    BY <1>2 DEF Chains
  <2>2. op[x][s].outer \in SUBSET Slots
    BY DEF TypeOK, OpType
  <2> QED BY <2>1, <2>2
<1> QED BY <1>1, <1>2

LEMMA IdleOpType == IdleOp \in OpType
BY DEF IdleOp, OpType, OpAnswers, Every

(* A statement's step leaves statements (reaching()).                      *)
LEMMA ReachingType ==
  ASSUME TypeOK, NEW x \in Txs, NEW s \in Slots, NEW o \in OpType, Reaching(x, s, o)
  PROVE  op' \in [Txs -> [Slots -> OpType]]
<1>1. \A i \in Slots : [op[x][i] EXCEPT !.reached = TRUE] \in OpType
  <2>1. \A i \in Slots : op[x][i] \in OpType
    BY DEF TypeOK
  <2> QED BY <2>1 DEF OpType
<1>2. [o EXCEPT !.reached = TRUE] \in OpType
  BY DEF OpType
<1> DEFINE g == [i \in Slots |-> IF i = s THEN [o EXCEPT !.reached = TRUE]
                               ELSE IF i \in o.outer THEN [op[x][i] EXCEPT !.reached = TRUE]
                               ELSE op[x][i]]
<1>3. g \in [Slots -> OpType]
  BY <1>1, <1>2 DEF TypeOK
<1>4. op' = [op EXCEPT ![x] = g]
  BY DEF Reaching
<1> HIDE DEF g
<1> QED BY <1>3, <1>4 DEF TypeOK

LEMMA BecomesType ==
  ASSUME TypeOK, NEW x \in Txs, NEW s \in Slots, NEW o \in OpType, Becomes(x, s, o)
  PROVE  op' \in [Txs -> [Slots -> OpType]]
BY DEF TypeOK, Becomes

LEMMA FailureType ==
  ASSUME TypeOK, NEW x \in Txs, NEW s \in Slots, NEW answer, NoteFailure(x, s, answer)
  PROVE  failures' \in [Txs -> Seq([slot : Slots, conflict : BOOLEAN])]
<1> DEFINE f == [slot |-> s, conflict |-> answer = "conflict"]
<1>1. f \in [slot : Slots, conflict : BOOLEAN]
  OBVIOUS
<1>2. Append(failures[x], f) \in Seq([slot : Slots, conflict : BOOLEAN])
  BY <1>1, AppendProperties DEF TypeOK
<1> QED BY <1>2 DEF TypeOK, NoteFailure

(* Without one failure, the others are left, in order (_absorb_failure()). *)
LEMMA AbsorbedProperties ==
  ASSUME TypeOK, NEW x \in Txs, NEW s \in Slots,
         \E i \in DOMAIN failures[x] : failures[x][i].slot = s
  PROVE  /\ Absorbed(x, s) \in Seq([slot : Slots, conflict : BOOLEAN])
         /\ \A j \in DOMAIN failures[x] : failures[x][j].slot # s =>
              \E k \in DOMAIN Absorbed(x, s) : Absorbed(x, s)[k] = failures[x][j]
<1> DEFINE F == failures[x]
           i == CHOOSE k \in DOMAIN F : F[k].slot = s
           R == [slot : Slots, conflict : BOOLEAN]
           A == SubSeq(F, 1, i - 1)
           B == SubSeq(F, i + 1, Len(F))
<1>1. F \in Seq(R)
  BY DEF TypeOK
<1>2. i \in 1 .. Len(F) /\ F[i].slot = s
  BY <1>1
<1>20. Len(F) \in Nat /\ DOMAIN F = 1 .. Len(F)
  BY <1>1, LenProperties
<1> HIDE DEF i, F, R
<1>3. A \in Seq(R) /\ Len(A) = i - 1 /\ \A k \in 1 .. i - 1 : A[k] = F[k]
  BY <1>1, <1>2, SMTT(30)
<1>4. B \in Seq(R) /\ Len(B) = Len(F) - i /\ \A k \in 1 .. Len(F) - i : B[k] = F[i + k]
  BY <1>1, <1>2, SMTT(30)
<1> HIDE DEF A, B
<1>5. A \o B \in Seq(R) /\ Len(A \o B) = Len(F) - 1
  <2>1. A \o B \in Seq(R) /\ Len(A \o B) = Len(A) + Len(B)
    BY <1>3, <1>4, ConcatProperties
  <2> QED BY <1>2, <1>20, <1>3, <1>4, <2>1
<1>6. \A j \in 1 .. Len(F) : F[j].slot # s => \E k \in 1 .. Len(F) - 1 : (A \o B)[k] = F[j]
  <2> SUFFICES ASSUME NEW j \in 1 .. Len(F), F[j].slot # s
               PROVE  \E k \in 1 .. Len(F) - 1 : (A \o B)[k] = F[j]
    OBVIOUS
  <2>1. CASE j < i
    <3>1. (A \o B)[j] = F[j]
      BY <1>1, <1>2, <1>3, <1>4, <2>1, ConcatProperties
    <3>2. j \in 1 .. Len(F) - 1
      BY <1>2, <1>20, <2>1
    <3> QED BY <3>1, <3>2
  <2>2. CASE j > i
    <3>1. j - i \in 1 .. Len(B) /\ B[j - i] = F[j]
      BY <1>1, <1>2, <1>4, <2>2
    <3>2. (A \o B)[j - 1] = F[j]
      BY <1>1, <1>2, <1>3, <1>4, <2>2, <3>1, ConcatProperties
    <3>3. j - 1 \in 1 .. Len(F) - 1
      BY <1>2, <1>20, <2>2
    <3> QED BY <3>2, <3>3
  <2>3. j # i
    BY <1>2
  <2>4. j < i \/ j > i
    BY <1>2, <1>20, <2>3
  <2> QED BY <2>1, <2>2, <2>4
<1>7. Absorbed(x, s) = A \o B
  BY DEF Absorbed, F, i, A, B
<1>8. DOMAIN (A \o B) = 1 .. Len(F) - 1
  BY <1>5, LenProperties
<1>9. A \o B \in Seq(R) /\ \A j \in DOMAIN F : F[j].slot # s => \E k \in DOMAIN (A \o B) : (A \o B)[k] = F[j]
  BY <1>20, <1>5, <1>6, <1>8
<1> QED BY <1>7, <1>9 DEF F, R

-----------------------------------------------------------------------------
(***************************************************************************)
(* Type correctness, action by action.                                     *)
(***************************************************************************)
LEMMA StatementTypes ==
  ASSUME TypeOK, NEW x \in Txs, NEW s \in Slots,
         \/ StartWrite(x, s) \/ RefuseWrite(x, s) \/ QueueWrite(x, s)
         \/ SendWrite(x, s) \/ SendRead(x, s) \/ SendFails(x, s)
  PROVE  TypeOK'
<1>a. op[x][s] \in OpType
  BY DEF TypeOK
<1>1. CASE StartWrite(x, s)
  <2>1. PICK target \in Targets, outer \in Chains(x) :
          /\ Becomes(x, s, [IdleOp EXCEPT !.pc = "open", !.kind = "write",
                                          !.target = target, !.outer = outer])
          /\ notes' = [notes EXCEPT ![x] = Counted(@, target)]
    BY <1>1 DEF StartWrite
  <2>2. [IdleOp EXCEPT !.pc = "open", !.kind = "write", !.target = target, !.outer = outer] \in OpType
    BY IdleOpType, ChainsType, TransactionAssumption DEF OpType
  <2>3. op' \in [Txs -> [Slots -> OpType]]
    BY <2>1, <2>2, BecomesType
  <2>4. notes' \in [Txs -> NotesType]
    BY <2>1, NotesTypes DEF TypeOK
  <2> QED BY <1>1, <2>3, <2>4 DEF StartWrite, TypeOK, server
<1>2. CASE RefuseWrite(x, s)
  <2>1. [op[x][s] EXCEPT !.pc = "done", !.result = "refused"] \in OpType
    BY <1>a DEF OpType
  <2>2. op' \in [Txs -> [Slots -> OpType]]
    BY <1>2, <2>1, BecomesType DEF RefuseWrite
  <2>3. notes[x] \in NotesType /\ Uncounted(notes[x], op[x][s].target) \in NotesType
    BY NotesTypes DEF TypeOK
  <2>4. notes' \in [Txs -> NotesType]
    BY <1>2, <2>3 DEF RefuseWrite, TypeOK
  <2> QED BY <1>2, <2>2, <2>4 DEF RefuseWrite, TypeOK, server
<1>3. CASE QueueWrite(x, s)
  <2>1. [op[x][s] EXCEPT !.pc = "done", !.result = "ok"] \in OpType
    BY <1>a DEF OpType
  <2>2. op' \in [Txs -> [Slots -> OpType]]
    BY <1>3, <2>1, ReachingType DEF QueueWrite
  <2>3. queue' \in [Txs -> SUBSET Slots] /\ deferred' \in [Txs -> Seq(Slots)]
    BY <1>3, AppendProperties DEF QueueWrite, TypeOK
  <2> QED BY <1>3, <2>2, <2>3 DEF QueueWrite, TypeOK, server
<1>4. CASE SendWrite(x, s)
  <2>1. [op[x][s] EXCEPT !.pc = "sent"] \in OpType
    BY <1>a DEF OpType
  <2>2. op' \in [Txs -> [Slots -> OpType]]
    BY <1>4, <2>1, ReachingType DEF SendWrite
  <2>3. running' \subseteq Txs \X Slots
    BY <1>4 DEF SendWrite, TypeOK
  <2> QED BY <1>4, <2>2, <2>3 DEF SendWrite, TypeOK
<1>5. CASE SendRead(x, s)
  <2>1. PICK outer \in Chains(x) :
          LET o == [IdleOp EXCEPT !.outer = outer] IN
          \/ /\ Reaching(x, s, [o EXCEPT !.pc = "sent"])
             /\ running' = running \cup {<<x, s>>}
          \/ /\ Becomes(x, s, [o EXCEPT !.pc = "done", !.result = "refused"])
             /\ UNCHANGED running
    BY <1>5 DEF SendRead
  <2>2. /\ [[IdleOp EXCEPT !.outer = outer] EXCEPT !.pc = "sent"] \in OpType
        /\ [[IdleOp EXCEPT !.outer = outer] EXCEPT !.pc = "done", !.result = "refused"] \in OpType
    BY IdleOpType, ChainsType DEF OpType
  <2>3. op' \in [Txs -> [Slots -> OpType]]
    BY <2>1, <2>2, ReachingType, BecomesType
  <2>4. running' \subseteq Txs \X Slots
    BY <2>1 DEF TypeOK
  <2> QED BY <1>5, <2>3, <2>4 DEF SendRead, TypeOK
<1>6. CASE SendFails(x, s)
  <2>1. op' \in [Txs -> [Slots -> OpType]]
    <3>1. CASE Reaching(x, s, [op[x][s] EXCEPT !.pc = "done", !.result = "failed"])
      <4>1. [op[x][s] EXCEPT !.pc = "done", !.result = "failed"] \in OpType
        BY <1>a DEF OpType
      <4> QED BY <3>1, <4>1, ReachingType
    <3>2. CASE \E outer \in Chains(x) :
                 Reaching(x, s, [IdleOp EXCEPT !.outer = outer, !.pc = "done", !.result = "failed"])
      <4>1. PICK outer \in Chains(x) :
                   Reaching(x, s, [IdleOp EXCEPT !.outer = outer, !.pc = "done", !.result = "failed"])
        BY <3>2
      <4>2. [IdleOp EXCEPT !.outer = outer, !.pc = "done", !.result = "failed"] \in OpType
        BY IdleOpType, ChainsType DEF OpType
      <4> QED BY <4>1, <4>2, ReachingType
    <3> QED BY <1>6, <3>1, <3>2 DEF SendFails
  <2>2. failures' \in [Txs -> Seq([slot : Slots, conflict : BOOLEAN])]
    BY <1>6, FailureType DEF SendFails
  <2> QED BY <1>6, <2>1, <2>2 DEF SendFails, TypeOK, server
<1> QED BY <1>1, <1>2, <1>3, <1>4, <1>5, <1>6

LEMMA AnswerTypes ==
  ASSUME TypeOK, FailuresNoted, NEW x \in Txs, NEW s \in Slots,
         \/ ReceiveRows(x, s) \/ ReceiveError(x, s) \/ LoseStatement(x, s)
         \/ AnswerRead(x, s) \/ RelayRead(x, s) \/ RunStatement(x, s)
  PROVE  TypeOK'
<1>a. op[x][s] \in OpType
  BY DEF TypeOK
<1>b. /\ [op[x][s] EXCEPT !.pc = "done", !.result = "ok"] \in OpType
      /\ [op[x][s] EXCEPT !.pc = "done", !.result = "failed"] \in OpType
      /\ [op[x][s] EXCEPT !.pc = "probing"] \in OpType
      /\ [op[x][s] EXCEPT !.pc = "done", !.result = "failed", !.answer = "none"] \in OpType
  BY <1>a DEF OpType, OpAnswers
<1>c. op[x][s].pc = "probing" => Absorbed(x, s) \in Seq([slot : Slots, conflict : BOOLEAN])
  BY AbsorbedProperties DEF FailuresNoted
<1>1. CASE ReceiveRows(x, s)
  <2>1. op' \in [Txs -> [Slots -> OpType]]
    BY <1>1, <1>b, BecomesType DEF ReceiveRows
  <2>2. deferred' \in [Txs -> Seq(Slots)]
    BY <1>1, AppendProperties DEF ReceiveRows, TypeOK
  <2> QED BY <1>1, <2>1, <2>2 DEF ReceiveRows, TypeOK, server
<1>2. CASE ReceiveError(x, s)
  <2>1. op' \in [Txs -> [Slots -> OpType]]
    BY <1>2, <1>b, BecomesType DEF ReceiveError
  <2>2. failures' \in [Txs -> Seq([slot : Slots, conflict : BOOLEAN])]
    BY <1>2, FailureType DEF ReceiveError
  <2> QED BY <1>2, <2>1, <2>2 DEF ReceiveError, TypeOK, server
<1>3. CASE LoseStatement(x, s)
  <2>1. op' \in [Txs -> [Slots -> OpType]]
    BY <1>3, <1>b, BecomesType DEF LoseStatement
  <2>2. failures' \in [Txs -> Seq([slot : Slots, conflict : BOOLEAN])]
    BY <1>3, FailureType DEF LoseStatement
  <2> QED BY <1>3, <2>1, <2>2 DEF LoseStatement, TypeOK, server
<1>4. CASE AnswerRead(x, s)
  <2>1. op' \in [Txs -> [Slots -> OpType]]
    BY <1>4, <1>b, BecomesType DEF AnswerRead
  <2>2. failures' \in [Txs -> Seq([slot : Slots, conflict : BOOLEAN])]
    BY <1>4, <1>c DEF AnswerRead, TypeOK
  <2> QED BY <1>4, <2>1, <2>2 DEF AnswerRead, TypeOK, server
<1>5. CASE RelayRead(x, s)
  <2>1. op' \in [Txs -> [Slots -> OpType]]
    BY <1>5, <1>b, BecomesType DEF RelayRead
  <2>2. Append(Absorbed(x, s), [slot |-> s, conflict |-> FALSE]) \in Seq([slot : Slots, conflict : BOOLEAN])
    BY <1>5, <1>c, AppendProperties DEF RelayRead
  <2>3. failures' \in [Txs -> Seq([slot : Slots, conflict : BOOLEAN])]
    BY <1>5, <2>2 DEF RelayRead, TypeOK
  <2> QED BY <1>5, <2>1, <2>3 DEF RelayRead, TypeOK, server
<1>6. CASE RunStatement(x, s)
  <2>1. PICK answer \in {"ok", "refused", "conflict", "missing"} :
          /\ running' = running \ {<<x, s>>}
          /\ staged' = IF answer = "ok" /\ op[x][s].kind = "write"
                         THEN [staged EXCEPT ![x] = @ \cup {s}] ELSE staged
          /\ op' = IF op[x][s].pc = "sent" THEN [op EXCEPT ![x][s].answer = answer] ELSE op
    BY <1>6 DEF RunStatement
  <2>2. [op[x][s] EXCEPT !.answer = answer] \in OpType
    BY <1>a DEF OpType, OpAnswers
  <2>3. op' \in [Txs -> [Slots -> OpType]]
    BY <2>1, <2>2 DEF TypeOK
  <2>4. staged' \in [Txs -> SUBSET Slots] /\ running' \subseteq Txs \X Slots
    BY <2>1 DEF TypeOK
  <2> QED BY <1>6, <2>3, <2>4 DEF RunStatement, TypeOK
<1> QED BY <1>1, <1>2, <1>3, <1>4, <1>5, <1>6

LEMMA CancelTypes ==
  ASSUME TypeOK, NEW x \in Txs, NEW e \in Raised, SendCancel(x, e)
  PROVE  /\ queue' \in [Txs -> SUBSET Slots] /\ dropping' \subseteq Txs
         /\ block' \in [Txs -> BlockType]
<1>1. block[x] \in BlockType
  BY DEF TypeOK
<1>2. [block[x] EXCEPT !.pc = IF Interactive(x) THEN "cancelling" ELSE "ended", !.raising = e] \in BlockType
  BY <1>1 DEF BlockType
<1> QED BY <1>2 DEF TypeOK, SendCancel

LEMMA TellTypes ==
  ASSUME TypeOK, NEW x \in Txs, TellCache(x)
  PROVE  notes' \in [Txs -> NotesType] /\ stale' \subseteq Tables
BY DEF TypeOK, TellCache, NoNotes, NotesType

(* Each step of a block leaves well-typed states (transaction()).          *)
LEMMA BlockTypes ==
  ASSUME TypeOK, NEW x \in Txs, BlockNext(x)
  PROVE  TypeOK'
<1>a. block[x] \in BlockType
  BY DEF TypeOK
<1>b. \A pc \in {"none", "opening", "body", "committing", "cancelling", "firing", "ended"} :
        /\ [block[x] EXCEPT !.pc = pc] \in BlockType
        /\ \A e \in Raised : [block[x] EXCEPT !.pc = pc, !.raising = e] \in BlockType
        /\ [block[x] EXCEPT !.pc = pc, !.gen = generation] \in BlockType
        /\ \A k \in {"interactive", "buffered"}, g \in Nat :
             [block[x] EXCEPT !.pc = pc, !.kind = k, !.serves = g] \in BlockType
  BY <1>a DEF BlockType, TypeOK
<1>c. {"none", "error", "conflict", "cancelled"} \subseteq Raised
  BY DEF Raised
<1>1. CASE OpenBlock(x)
  BY <1>1, <1>b DEF OpenBlock, TypeOK, body, server
<1>2. CASE BeginBlock(x)
  <2>1. PICK kind \in {"interactive", "buffered"}, serves \in block[x].gen .. generation :
          /\ block' = [block EXCEPT ![x].pc = "body", ![x].kind = kind, ![x].serves = serves]
          /\ srv' = IF kind = "interactive" THEN [srv EXCEPT ![x] = "open"] ELSE srv
    BY <1>2 DEF BeginBlock
  <2>a. serves \in Nat
    BY <1>a DEF BlockType, TypeOK
  <2>2. block' \in [Txs -> BlockType]
    BY <2>1, <2>a, <1>b DEF TypeOK
  <2>3. srv' \in [Txs -> {"none", "open", "committed", "rolledback"}]
    BY <2>1 DEF TypeOK
  <2> QED BY <1>2, <2>2, <2>3 DEF BeginBlock, TypeOK, body
<1>3. CASE BeginRaises(x)
  BY <1>3, <1>b, <1>c DEF BeginRaises, TypeOK, body, server
<1>4. CASE BodyRaises(x)
  <2>1. PICK e \in {"error", "conflict"} : Cancel(x, e)
    BY <1>4 DEF BodyRaises
  <2>2. e \in Raised
    BY <1>c
  <2>3. /\ queue' \in [Txs -> SUBSET Slots] /\ dropping' \subseteq Txs
        /\ block' \in [Txs -> BlockType]
    BY <2>1, <2>2, CancelTypes DEF Cancel
  <2>4. notes' \in [Txs -> NotesType]
    BY <2>1 DEF Cancel, TypeOK, NoNotes, NotesType
  <2> QED BY <1>4, <2>3, <2>4 DEF BodyRaises, TypeOK
<1>5. CASE BodyCancelled(x)
  BY <1>5, <1>b, <1>c DEF BodyCancelled, TypeOK, body, server
<1>6. CASE ExitRetired(x)
  BY <1>6, <1>c, CancelTypes DEF ExitRetired, Cancel, TypeOK, NoNotes, NotesType
<1>7. CASE ExitFailed(x)
  BY <1>7, <1>c, CancelTypes DEF ExitFailed, Cancel, TypeOK, NoNotes, NotesType
<1>8. CASE SendCommit(x)
  <2>1. block' \in [Txs -> BlockType] /\ srv' \in [Txs -> {"none", "open", "committed", "rolledback"}]
    BY <1>8, <1>b DEF SendCommit, TypeOK
  <2>2. staged' \in [Txs -> SUBSET Slots] /\ asked' \subseteq Txs
    BY <1>8 DEF SendCommit, TypeOK
  <2> QED BY <1>8, <2>1, <2>2 DEF SendCommit, TypeOK, body
<1>9. CASE CommitEmpty(x)
  BY <1>9, <1>b, TellTypes DEF CommitEmpty, TypeOK, body, server
<1>10. CASE HandleCommit(x)
  <2>1. PICK answer \in {"ok", "refused", "conflict"} :
          /\ block' = IF block[x].pc = "committing" THEN [block EXCEPT ![x].answer = answer] ELSE block
          /\ IF answer = "ok"
               THEN /\ srv' = [srv EXCEPT ![x] = "committed"]
                    /\ visible' = visible \cup ({x} \X staged[x])
                    /\ stale' = IF block[x].pc = "committing" THEN stale \cup AffectedBy(x, staged[x])
                                ELSE stale
               ELSE /\ srv' = [srv EXCEPT ![x] = "rolledback"]
                    /\ UNCHANGED <<visible, stale>>
    BY <1>10 DEF HandleCommit
  <2>2. [block[x] EXCEPT !.answer = answer] \in BlockType
    BY <1>a DEF BlockType
  <2>3. block' \in [Txs -> BlockType]
    BY <2>1, <2>2 DEF TypeOK
  <2>4. AffectedBy(x, staged[x]) \subseteq Tables
    BY DEF TypeOK, OpType, AffectedBy, Affects
  <2>5. srv' \in [Txs -> {"none", "open", "committed", "rolledback"}]
    BY <2>1 DEF TypeOK
  <2>6. visible' \subseteq Txs \X Slots /\ stale' \subseteq Tables
    BY <2>1, <2>4 DEF TypeOK
  <2> QED BY <1>10, <2>3, <2>5, <2>6 DEF HandleCommit, TypeOK, body
<1>11. CASE ReceiveCommit(x)
  BY <1>11, <1>b, TellTypes DEF ReceiveCommit, TypeOK, body, server
<1>12. CASE CommitRefused(x)
  BY <1>12, <1>c, TellTypes, CancelTypes DEF CommitRefused, CommitRaises, TypeOK
<1>13. CASE LoseCommit(x)
  BY <1>13, <1>c, TellTypes, CancelTypes DEF LoseCommit, CommitRaises, TypeOK
<1>14. CASE AbandonCommit(x)
  BY <1>14, <1>b, <1>c, TellTypes DEF AbandonCommit, TypeOK, body, server
<1>15. CASE CloseConnection(x)
  <2>1. [block[x] EXCEPT !.closed = TRUE] \in BlockType
    BY <1>a DEF BlockType
  <2>2. block' \in [Txs -> BlockType] /\ srv' \in [Txs -> {"none", "open", "committed", "rolledback"}]
    BY <1>15, <2>1 DEF CloseConnection, TypeOK
  <2>3. running' \subseteq Txs \X Slots /\ asked' \subseteq Txs /\ dropping' \subseteq Txs
    BY <1>15 DEF CloseConnection, TypeOK
  <2> QED BY <1>15, <2>2, <2>3 DEF CloseConnection, TypeOK, body
<1>16. CASE HandleCancel(x)
  BY <1>16 DEF HandleCancel, TypeOK, body
<1>17. CASE EndCancel(x)
  BY <1>17, <1>b DEF EndCancel, TypeOK, body, server
<1>18. CASE LoseCancel(x)
  BY <1>18, <1>b DEF LoseCancel, TypeOK, body
<1>19. CASE AbandonCancel(x)
  BY <1>19, <1>b, <1>c DEF AbandonCancel, TypeOK, body, server
<1>20. CASE FireNext(x)
  <2>1. fired' \in [Txs -> Nat]
    BY <1>20 DEF FireNext, TypeOK
  <2> QED BY <1>20, <2>1 DEF FireNext, TypeOK, body, server
<1>21. CASE FireRaises(x)
  <2>1. PICK e \in {"error", "conflict", "cancelled"} :
          block' = [block EXCEPT ![x].pc = "ended", ![x].raising = e]
    BY <1>21 DEF FireRaises
  <2>2. block' \in [Txs -> BlockType]
    BY <2>1, <1>b, <1>c DEF TypeOK
  <2>3. fired' \in [Txs -> Nat]
    BY <1>21 DEF FireRaises, TypeOK
  <2> QED BY <1>21, <2>2, <2>3 DEF FireRaises, TypeOK, body, server
<1>22. CASE EndBlock(x)
  BY <1>22, <1>b DEF EndBlock, TypeOK, body, server
<1> QED BY <1>1, <1>2, <1>3, <1>4, <1>5, <1>6, <1>7, <1>8, <1>9, <1>10, <1>11, <1>12,
           <1>13, <1>14, <1>15, <1>16, <1>17, <1>18, <1>19, <1>20, <1>21, <1>22 DEF BlockNext

(* Each step of the decorator does, if a sleeping caller has retries left. *)
LEMMA CallerTypes ==
  ASSUME TypeOK, RetriesLeft, NEW c \in Callers, Call(c) \/ CallerNext(c)
  PROVE  TypeOK' /\ RetriesLeft'
<1>a. caller[c] \in CallerType /\ MaxRetries \in Nat
  BY TransactionAssumption DEF TypeOK
<1>b. Current(c) \in Txs /\ block[Current(c)] \in BlockType
  BY <1>a DEF TypeOK, CallerType, Current, Txs
<1>1. CASE Call(c)
  <2>1. [caller[c] EXCEPT !.pc = "running"] \in CallerType
    BY <1>a DEF CallerType
  <2>2. TypeOK'
    BY <1>1, <2>1 DEF Call, TypeOK, body, server
  <2>3. RetriesLeft'
    BY <1>1 DEF Call, RetriesLeft, TypeOK
  <2> QED BY <2>2, <2>3
<1>2. CASE BackOff(c)
  <2>1. [caller[c] EXCEPT !.pc = "sleeping"] \in CallerType
    BY <1>a DEF CallerType
  <2>2. TypeOK'
    BY <1>2, <2>1 DEF BackOff, TypeOK, body, server
  <2>3. RetriesLeft'
    BY <1>2 DEF BackOff, Retry, RetriesLeft, TypeOK
  <2> QED BY <2>2, <2>3
<1>3. CASE Wake(c)
  <2>1. caller[c].n \in Attempts /\ caller[c].n <= MaxRetries
    BY <1>3, <1>a DEF Wake, RetriesLeft, CallerType
  <2>2. caller[c].n + 1 \in Attempts
    BY <1>a, <2>1 DEF Attempts
  <2>3. [caller[c] EXCEPT !.pc = "running", !.n = NextAttempt(caller[c].n)] \in CallerType
    BY <1>a, <2>2 DEF CallerType, NextAttempt
  <2>4. TypeOK'
    BY <1>3, <2>3 DEF Wake, TypeOK, body, server
  <2>5. RetriesLeft'
    BY <1>3 DEF Wake, RetriesLeft, TypeOK
  <2> QED BY <2>4, <2>5
<1>4. CASE SleepCancelled(c)
  <2>1. [caller[c] EXCEPT !.pc = "done", !.result = "cancelled"] \in CallerType
    BY <1>a DEF CallerType
  <2>2. TypeOK'
    BY <1>4, <2>1 DEF SleepCancelled, TypeOK, body, server
  <2>3. RetriesLeft'
    BY <1>4 DEF SleepCancelled, RetriesLeft, TypeOK
  <2> QED BY <2>2, <2>3
<1>5. CASE Finish(c)
  <2>1. [caller[c] EXCEPT !.pc = "done",
           !.result = IF block[Current(c)].raising = "none" THEN "returned"
                      ELSE block[Current(c)].raising] \in CallerType
    BY <1>a, <1>b DEF CallerType, BlockType, Raised
  <2>2. TypeOK'
    BY <1>5, <2>1 DEF Finish, TypeOK, body, server
  <2>3. RetriesLeft'
    BY <1>5 DEF Finish, RetriesLeft, TypeOK
  <2> QED BY <2>2, <2>3
<1> QED BY <1>1, <1>2, <1>3, <1>4, <1>5 DEF CallerNext

-----------------------------------------------------------------------------
(***************************************************************************)
(* A step of a statement touches no other statement.                       *)
(***************************************************************************)
Same(o, p) == o.pc = p.pc /\ o.kind = p.kind /\ o.answer = p.answer /\ o.result = p.result

(* But for the marks of the writes around it (reaching()).                 *)
LEMMA StepShape ==
  ASSUME TypeOK, NEW x \in Txs, NEW s \in Slots, NEW o \in OpType,
         Reaching(x, s, o) \/ Becomes(x, s, o)
  PROVE  /\ Same(op'[x][s], o)
         /\ \A y \in Txs : y # x => op'[y] = op[y]
         /\ \A i \in Slots : i # s => Same(op'[x][i], op[x][i])
<1>1. CASE Reaching(x, s, o)
  <2>1. \A i \in Slots : op'[x][i] = IF i = s THEN [o EXCEPT !.reached = TRUE]
                          ELSE IF i \in o.outer THEN [op[x][i] EXCEPT !.reached = TRUE]
                          ELSE op[x][i]
    BY <1>1 DEF Reaching, TypeOK
  <2>2. \A y \in Txs : y # x => op'[y] = op[y]
    BY <1>1 DEF Reaching, TypeOK
  <2>3. Same([o EXCEPT !.reached = TRUE], o)
    BY DEF Same, OpType
  <2>4. \A i \in Slots : Same([op[x][i] EXCEPT !.reached = TRUE], op[x][i])
    BY DEF Same, OpType, TypeOK
  <2>5. \A p \in OpType : Same(p, p)
    BY DEF Same
  <2> QED BY <2>1, <2>2, <2>3, <2>4, <2>5 DEF TypeOK
<1>2. CASE Becomes(x, s, o)
  BY <1>2 DEF Becomes, TypeOK, Same
<1> QED BY <1>1, <1>2

(* What the invariant says of one statement.                               *)
SlotInv(x, s) ==
  /\ op[x][s].pc # "done" => op[x][s].result = "none"
  /\ op[x][s].pc = "open" => op[x][s].kind = "write" /\ op[x][s].answer = "none"
  /\ op[x][s].pc = "probing" => op[x][s].kind = "read"
  /\ op[x][s].pc = "probing" \/ op[x][s].result = "failed" =>
       Interactive(x) /\ \E i \in DOMAIN failures[x] : failures[x][i].slot = s
  /\ <<x, s>> \in running =>
       /\ Interactive(x)
       /\ op[x][s].result = "failed" \/ (op[x][s].pc = "sent" /\ op[x][s].answer = "none")
  /\ Interactive(x) =>
       /\ op[x][s].kind = "write" /\ Succeeding(op[x][s]) => s \in staged[x]
       /\ s \in staged[x] =>
            op[x][s].kind = "write" /\ (Succeeding(op[x][s]) \/ op[x][s].result = "failed")
  /\ ~Interactive(x) =>
       /\ op[x][s].pc \notin {"sent", "probing"}
       /\ block[x].pc = "body" =>
            (s \in queue[x] <=> op[x][s].kind = "write" /\ op[x][s].result = "ok")

LEMMA SlotInvs ==
  ASSUME TypeOK
  PROVE  (\A x \in Txs, s \in Slots : SlotInv(x, s)) <=>
           (ResultsFinal /\ FailuresNoted /\ RunningAwaited /\ StagedAnswered /\ QueueWritten)
<1>1. (\A x \in Txs, s \in Slots : SlotInv(x, s)) => ResultsFinal /\ FailuresNoted
  BY DEF SlotInv, ResultsFinal, FailuresNoted
<1>2. (\A x \in Txs, s \in Slots : SlotInv(x, s)) => RunningAwaited
  BY DEF SlotInv, RunningAwaited
<1>3. (\A x \in Txs, s \in Slots : SlotInv(x, s)) => StagedAnswered
  BY DEF SlotInv, StagedAnswered
<1>4. (\A x \in Txs, s \in Slots : SlotInv(x, s)) => QueueWritten
  <2> SUFFICES ASSUME \A x \in Txs, s \in Slots : SlotInv(x, s), NEW x \in Txs, ~Interactive(x)
               PROVE  /\ \A s \in Slots : op[x][s].pc \notin {"sent", "probing"}
                      /\ block[x].pc = "body" => queue[x] = OkWrites(x)
    BY DEF QueueWritten
  <2>1. \A s \in Slots : op[x][s].pc \notin {"sent", "probing"}
    BY DEF SlotInv
  <2>2. ASSUME block[x].pc = "body" PROVE queue[x] = OkWrites(x)
    <3>1. \A s \in Slots : s \in queue[x] <=> op[x][s].kind = "write" /\ op[x][s].result = "ok"
      BY <2>2 DEF SlotInv
    <3>2. queue[x] \subseteq Slots
      BY DEF TypeOK
    <3> QED BY <3>1, <3>2, Zenon DEF OkWrites
  <2> QED BY <2>1, <2>2
<1>5. (ResultsFinal /\ FailuresNoted /\ RunningAwaited /\ StagedAnswered /\ QueueWritten) =>
        \A x \in Txs, s \in Slots : SlotInv(x, s)
  <2> SUFFICES ASSUME ResultsFinal, FailuresNoted, RunningAwaited, StagedAnswered, QueueWritten,
                      NEW x \in Txs, NEW s \in Slots
               PROVE  SlotInv(x, s)
    OBVIOUS
  <2>1. Interactive(x) =>
          /\ op[x][s].kind = "write" /\ Succeeding(op[x][s]) => s \in staged[x]
          /\ s \in staged[x] =>
               op[x][s].kind = "write" /\ (Succeeding(op[x][s]) \/ op[x][s].result = "failed")
    BY DEF StagedAnswered
  <2>2. ~Interactive(x) =>
          /\ op[x][s].pc \notin {"sent", "probing"}
          /\ block[x].pc = "body" =>
               (s \in queue[x] <=> op[x][s].kind = "write" /\ op[x][s].result = "ok")
    BY DEF QueueWritten, OkWrites
  <2>3. /\ op[x][s].pc # "done" => op[x][s].result = "none"
        /\ op[x][s].pc = "open" => op[x][s].kind = "write" /\ op[x][s].answer = "none"
        /\ op[x][s].pc = "probing" => op[x][s].kind = "read"
    BY DEF ResultsFinal
  <2>4. <<x, s>> \in running =>
          /\ Interactive(x)
          /\ op[x][s].result = "failed" \/ (op[x][s].pc = "sent" /\ op[x][s].answer = "none")
    BY DEF RunningAwaited
  <2>5. op[x][s].pc = "probing" \/ op[x][s].result = "failed" =>
          Interactive(x) /\ \E i \in DOMAIN failures[x] : failures[x][i].slot = s
    BY DEF FailuresNoted
  <2> QED BY <2>1, <2>2, <2>3, <2>4, <2>5 DEF SlotInv
<1> QED BY <1>1, <1>2, <1>3, <1>4, <1>5

SlotsHold == \A x \in Txs, s \in Slots : SlotInv(x, s)
SlotFacts == ResultsFinal /\ FailuresNoted /\ RunningAwaited /\ StagedAnswered /\ QueueWritten

LEMMA SlotsAgree == TypeOK => (SlotsHold <=> SlotFacts)
BY SlotInvs DEF SlotsHold, SlotFacts

(* A statement that nothing but its mark changes keeps it.                 *)
LEMMA SlotKept ==
  ASSUME NEW x \in Txs, NEW s \in Slots, SlotInv(x, s),
         Same(op'[x][s], op[x][s]),
         block'[x].kind = block[x].kind,
         block'[x].pc = "body" => block[x].pc = "body",
         \A i \in DOMAIN failures[x] : failures[x][i].slot = s =>
            \E j \in DOMAIN failures'[x] : failures'[x][j].slot = s,
         <<x, s>> \in running' => <<x, s>> \in running,
         Interactive(x) => (s \in staged'[x] <=> s \in staged[x]),
         block'[x].pc = "body" => (s \in queue'[x] <=> s \in queue[x])
  PROVE  SlotInv(x, s)'
BY DEF SlotInv, Same, Interactive, Succeeding

-----------------------------------------------------------------------------
(***************************************************************************)
(* The steps of a statement keep the invariant.                            *)
(***************************************************************************)
StatementStep(x, s) ==
  \/ StartWrite(x, s) \/ SendRead(x, s) \/ OpNext(x, s)

(* What a step of statement s does to the others, and to the block.        *)
Elsewhere(x, s) ==
  /\ \A y \in Txs : y # x =>
       /\ op'[y] = op[y] /\ failures'[y] = failures[y] /\ queue'[y] = queue[y]
       /\ deferred'[y] = deferred[y] /\ staged'[y] = staged[y]
  /\ \A i \in Slots : i # s =>
       /\ Same(op'[x][i], op[x][i])
       /\ i \in staged'[x] <=> i \in staged[x]
       /\ i \in queue'[x] <=> i \in queue[x]
       /\ \A j \in DOMAIN failures[x] : failures[x][j].slot = i =>
            \E k \in DOMAIN failures'[x] : failures'[x][k].slot = i
  /\ \A y \in Txs, i \in Slots : y # x \/ i # s => (<<y, i>> \in running' <=> <<y, i>> \in running)
  /\ UNCHANGED <<caller, block, fired, srv, asked, visible>>

LEMMA FailureKept ==
  ASSUME TypeOK, NEW x \in Txs, NEW s \in Slots, NEW answer, NoteFailure(x, s, answer)
  PROVE  /\ \A y \in Txs : y # x => failures'[y] = failures[y]
         /\ \A j \in DOMAIN failures[x] : j \in DOMAIN failures'[x] /\ failures'[x][j] = failures[x][j]
         /\ \E k \in DOMAIN failures'[x] : failures'[x][k].slot = s
<1> DEFINE f == [slot |-> s, conflict |-> answer = "conflict"]
           F == failures[x]
           G == failures'[x]
           R == [slot : Slots, conflict : BOOLEAN]
<1>1. F \in Seq(R) /\ f \in R
  BY DEF TypeOK
<1>2. G = Append(F, f) /\ \A y \in Txs : y # x => failures'[y] = failures[y]
  BY DEF NoteFailure, TypeOK
<1>3. f.slot = s
  OBVIOUS
<1> HIDE DEF f, F, G, R
<1>4. /\ DOMAIN F = 1 .. Len(F) /\ DOMAIN G = 1 .. Len(F) + 1 /\ Len(F) \in Nat
      /\ \A j \in 1 .. Len(F) : G[j] = F[j]
      /\ G[Len(F) + 1] = f
  BY <1>1, <1>2, AppendProperties, LenProperties
<1>5. \A j \in DOMAIN F : j \in DOMAIN G /\ G[j] = F[j]
  BY <1>4
<1>6. \E k \in DOMAIN G : G[k].slot = s
  BY <1>3, <1>4
<1> QED BY <1>2, <1>5, <1>6 DEF F, G

(* What each step of a statement does, in these terms.                     *)
LEMMA WritesElsewhere ==
  ASSUME TypeOK, NEW x \in Txs, NEW s \in Slots,
         \/ StartWrite(x, s) \/ RefuseWrite(x, s) \/ QueueWrite(x, s)
         \/ SendWrite(x, s) \/ SendRead(x, s) \/ SendFails(x, s)
  PROVE  Elsewhere(x, s)
<1>a. op[x][s] \in OpType
  BY DEF TypeOK
<1>1. CASE StartWrite(x, s)
  <2>1. PICK target \in Targets, outer \in Chains(x) :
          Becomes(x, s, [IdleOp EXCEPT !.pc = "open", !.kind = "write",
                                       !.target = target, !.outer = outer])
    BY <1>1 DEF StartWrite
  <2>2. [IdleOp EXCEPT !.pc = "open", !.kind = "write", !.target = target, !.outer = outer] \in OpType
    BY IdleOpType, ChainsType, TransactionAssumption DEF OpType
  <2> QED BY <1>1, <2>1, <2>2, StepShape DEF StartWrite, Elsewhere, server
<1>2. CASE RefuseWrite(x, s)
  <2>1. [op[x][s] EXCEPT !.pc = "done", !.result = "refused"] \in OpType
    BY <1>a DEF OpType
  <2> QED BY <1>2, <2>1, StepShape DEF RefuseWrite, Elsewhere, server
<1>3. CASE QueueWrite(x, s)
  <2>1. [op[x][s] EXCEPT !.pc = "done", !.result = "ok"] \in OpType
    BY <1>a DEF OpType
  <2> QED BY <1>3, <2>1, StepShape DEF QueueWrite, Elsewhere, server, TypeOK
<1>4. CASE SendWrite(x, s)
  <2>1. [op[x][s] EXCEPT !.pc = "sent"] \in OpType
    BY <1>a DEF OpType
  <2> QED BY <1>4, <2>1, StepShape DEF SendWrite, Elsewhere
<1>5. CASE SendRead(x, s)
  <2>1. PICK outer \in Chains(x) :
          LET o == [IdleOp EXCEPT !.outer = outer] IN
          \/ /\ Reaching(x, s, [o EXCEPT !.pc = "sent"])
             /\ running' = running \cup {<<x, s>>}
          \/ /\ Becomes(x, s, [o EXCEPT !.pc = "done", !.result = "refused"])
             /\ UNCHANGED running
    BY <1>5 DEF SendRead
  <2>2. /\ [[IdleOp EXCEPT !.outer = outer] EXCEPT !.pc = "sent"] \in OpType
        /\ [[IdleOp EXCEPT !.outer = outer] EXCEPT !.pc = "done", !.result = "refused"] \in OpType
    BY IdleOpType, ChainsType DEF OpType
  <2>3. /\ \A y \in Txs : y # x => op'[y] = op[y]
        /\ \A i \in Slots : i # s => Same(op'[x][i], op[x][i])
    BY <2>1, <2>2, StepShape
  <2>4. \A y \in Txs, i \in Slots : y # x \/ i # s => (<<y, i>> \in running' <=> <<y, i>> \in running)
    BY <2>1
  <2> QED BY <1>5, <2>3, <2>4 DEF SendRead, Elsewhere
<1>6. CASE SendFails(x, s)
  <2>1. PICK o \in OpType : Reaching(x, s, o)
    <3>1. CASE Reaching(x, s, [op[x][s] EXCEPT !.pc = "done", !.result = "failed"])
      <4>1. [op[x][s] EXCEPT !.pc = "done", !.result = "failed"] \in OpType
        BY <1>a DEF OpType
      <4> QED BY <3>1, <4>1
    <3>2. CASE \E outer \in Chains(x) :
                 Reaching(x, s, [IdleOp EXCEPT !.outer = outer, !.pc = "done", !.result = "failed"])
      <4>1. PICK outer \in Chains(x) :
                   Reaching(x, s, [IdleOp EXCEPT !.outer = outer, !.pc = "done", !.result = "failed"])
        BY <3>2
      <4>2. [IdleOp EXCEPT !.outer = outer, !.pc = "done", !.result = "failed"] \in OpType
        BY IdleOpType, ChainsType DEF OpType
      <4> QED BY <4>1, <4>2
    <3> QED BY <1>6, <3>1, <3>2 DEF SendFails
  <2>2. /\ \A y \in Txs : y # x => op'[y] = op[y]
        /\ \A i \in Slots : i # s => Same(op'[x][i], op[x][i])
    BY <2>1, StepShape
  <2>3. /\ \A y \in Txs : y # x => failures'[y] = failures[y]
        /\ \A j \in DOMAIN failures[x] : j \in DOMAIN failures'[x] /\ failures'[x][j] = failures[x][j]
    BY <1>6, FailureKept DEF SendFails
  <2> QED BY <1>6, <2>2, <2>3 DEF SendFails, Elsewhere, server
<1> QED BY <1>1, <1>2, <1>3, <1>4, <1>5, <1>6

LEMMA AnswersElsewhere ==
  ASSUME TypeOK, FailuresNoted, NEW x \in Txs, NEW s \in Slots,
         \/ ReceiveRows(x, s) \/ ReceiveError(x, s) \/ LoseStatement(x, s)
         \/ AnswerRead(x, s) \/ RelayRead(x, s) \/ RunStatement(x, s)
  PROVE  Elsewhere(x, s)
<1>a. op[x][s] \in OpType
  BY DEF TypeOK
<1>b. /\ [op[x][s] EXCEPT !.pc = "done", !.result = "ok"] \in OpType
      /\ [op[x][s] EXCEPT !.pc = "done", !.result = "failed"] \in OpType
      /\ [op[x][s] EXCEPT !.pc = "probing"] \in OpType
      /\ [op[x][s] EXCEPT !.pc = "done", !.result = "failed", !.answer = "none"] \in OpType
  BY <1>a DEF OpType, OpAnswers
<1>c. ASSUME op[x][s].pc = "probing"
      PROVE  /\ Absorbed(x, s) \in Seq([slot : Slots, conflict : BOOLEAN])
             /\ \A j \in DOMAIN failures[x] : failures[x][j].slot # s =>
                  \E k \in DOMAIN Absorbed(x, s) : Absorbed(x, s)[k] = failures[x][j]
  BY <1>c, AbsorbedProperties DEF FailuresNoted
<1>d. ASSUME NEW o \in OpType, Becomes(x, s, o)
      PROVE  /\ \A y \in Txs : y # x => op'[y] = op[y]
             /\ \A i \in Slots : i # s => Same(op'[x][i], op[x][i])
  BY <1>d, StepShape
<1>1. CASE ReceiveRows(x, s)
  <2>1. /\ \A y \in Txs : y # x => deferred'[y] = deferred[y]
    BY <1>1 DEF ReceiveRows, TypeOK
  <2> QED BY <1>1, <1>b, <1>d, <2>1 DEF ReceiveRows, Elsewhere, server
<1>2. CASE ReceiveError(x, s)
  <2>1. /\ \A y \in Txs : y # x => failures'[y] = failures[y]
        /\ \A j \in DOMAIN failures[x] : j \in DOMAIN failures'[x] /\ failures'[x][j] = failures[x][j]
    BY <1>2, FailureKept DEF ReceiveError
  <2> QED BY <1>2, <1>b, <1>d, <2>1 DEF ReceiveError, Elsewhere, server
<1>3. CASE LoseStatement(x, s)
  <2>1. /\ \A y \in Txs : y # x => failures'[y] = failures[y]
        /\ \A j \in DOMAIN failures[x] : j \in DOMAIN failures'[x] /\ failures'[x][j] = failures[x][j]
    BY <1>3, FailureKept DEF LoseStatement
  <2> QED BY <1>3, <1>b, <1>d, <2>1 DEF LoseStatement, Elsewhere, server
<1>4. CASE AnswerRead(x, s)
  <2>1. failures'[x] = Absorbed(x, s) /\ \A y \in Txs : y # x => failures'[y] = failures[y]
    BY <1>4 DEF AnswerRead, TypeOK
  <2>2. \A i \in Slots, j \in DOMAIN failures[x] : i # s /\ failures[x][j].slot = i =>
          \E k \in DOMAIN failures'[x] : failures'[x][k].slot = i
    BY <1>4, <1>c, <2>1 DEF AnswerRead
  <2> QED BY <1>4, <1>b, <1>d, <2>1, <2>2 DEF AnswerRead, Elsewhere, server
<1>5. CASE RelayRead(x, s)
  <2> DEFINE A == Absorbed(x, s)
             f == [slot |-> s, conflict |-> FALSE]
             R == [slot : Slots, conflict : BOOLEAN]
  <2>1. /\ failures'[x] = failures[x] \/ failures'[x] = Append(A, f)
        /\ \A y \in Txs : y # x => failures'[y] = failures[y]
    BY <1>5 DEF RelayRead, TypeOK
  <2>2. A \in Seq(R) /\ f \in R
    BY <1>5, <1>c DEF RelayRead
  <2>3. \A j \in DOMAIN failures[x] : failures[x][j].slot # s =>
          \E k \in DOMAIN A : A[k] = failures[x][j]
    BY <1>5, <1>c DEF RelayRead
  <2> HIDE DEF A, f, R
  <2>4. DOMAIN A = 1 .. Len(A) /\ DOMAIN Append(A, f) = 1 .. Len(A) + 1 /\ Len(A) \in Nat
    BY <2>2, AppendProperties, LenProperties
  <2>5. \A k \in DOMAIN A : k \in DOMAIN Append(A, f) /\ Append(A, f)[k] = A[k]
    BY <2>2, <2>4, AppendProperties
  <2>6. \A i \in Slots, j \in DOMAIN failures[x] : i # s /\ failures[x][j].slot = i =>
          \E k \in DOMAIN failures'[x] : failures'[x][k].slot = i
    BY <2>1, <2>3, <2>5
  <2> QED BY <1>5, <1>b, <1>d, <2>1, <2>6 DEF RelayRead, Elsewhere, server
<1>6. CASE RunStatement(x, s)
  <2>1. PICK answer \in {"ok", "refused", "conflict", "missing"} :
          /\ running' = running \ {<<x, s>>}
          /\ staged' = IF answer = "ok" /\ op[x][s].kind = "write"
                         THEN [staged EXCEPT ![x] = @ \cup {s}] ELSE staged
          /\ op' = IF op[x][s].pc = "sent" THEN [op EXCEPT ![x][s].answer = answer] ELSE op
    BY <1>6 DEF RunStatement
  <2>2. /\ \A y \in Txs : y # x => op'[y] = op[y]
        /\ \A i \in Slots : i # s => op'[x][i] = op[x][i]
    BY <2>1 DEF TypeOK
  <2>3. /\ \A y \in Txs : y # x => staged'[y] = staged[y]
        /\ \A i \in Slots : i # s => (i \in staged'[x] <=> i \in staged[x])
    BY <2>1 DEF TypeOK
  <2>4. \A y \in Txs, i \in Slots : y # x \/ i # s => (<<y, i>> \in running' <=> <<y, i>> \in running)
    BY <2>1
  <2>5. \A i \in Slots : i # s => Same(op'[x][i], op[x][i])
    BY <2>2 DEF Same
  <2> QED BY <1>6, <2>2, <2>3, <2>4, <2>5 DEF RunStatement, Elsewhere
<1> QED BY <1>1, <1>2, <1>3, <1>4, <1>5, <1>6

(* The statement that steps keeps what the invariant says of it.           *)
LEMMA WritesSlot ==
  ASSUME TypeOK, NEW x \in Txs, NEW s \in Slots, SlotInv(x, s), FreshBlocks,
         \/ StartWrite(x, s) \/ RefuseWrite(x, s) \/ QueueWrite(x, s)
         \/ SendWrite(x, s) \/ SendRead(x, s) \/ SendFails(x, s)
  PROVE  SlotInv(x, s)'
<1>a. op[x][s] \in OpType
  BY DEF TypeOK
<1>1. CASE StartWrite(x, s)
  <2>1. PICK target \in Targets, outer \in Chains(x) :
          Becomes(x, s, [IdleOp EXCEPT !.pc = "open", !.kind = "write",
                                       !.target = target, !.outer = outer])
    BY <1>1 DEF StartWrite
  <2>2. /\ op'[x][s].pc = "open" /\ op'[x][s].kind = "write"
        /\ op'[x][s].answer = "none" /\ op'[x][s].result = "none"
    BY <2>1 DEF Becomes, TypeOK, IdleOp
  <2>3. op[x][s].pc = "idle"
    BY <1>1 DEF StartWrite
  <2> QED BY <1>1, <2>2, <2>3 DEF StartWrite, SlotInv, Interactive, Succeeding, server
<1>2. CASE RefuseWrite(x, s)
  <2>1. /\ op'[x][s].pc = "done" /\ op'[x][s].kind = op[x][s].kind /\ op'[x][s].result = "refused"
    BY <1>2, <1>a DEF RefuseWrite, Becomes, TypeOK, OpType
  <2> QED BY <1>2, <2>1 DEF RefuseWrite, SlotInv, Interactive, Succeeding, server
<1>3. CASE QueueWrite(x, s)
  <2>1. [op[x][s] EXCEPT !.pc = "done", !.result = "ok"] \in OpType
    BY <1>a DEF OpType
  <2>2. Same(op'[x][s], [op[x][s] EXCEPT !.pc = "done", !.result = "ok"])
    BY <1>3, <2>1, StepShape DEF QueueWrite
  <2>3. op'[x][s].pc = "done" /\ op'[x][s].kind = op[x][s].kind /\ op'[x][s].result = "ok"
    BY <2>2, <1>a DEF Same, OpType
  <2>4. s \in queue'[x] /\ op[x][s].pc = "open" /\ ~Interactive(x)
    BY <1>3 DEF QueueWrite, TypeOK
  <2>5. ~Interactive(x)' /\ running' = running
    BY <1>3 DEF QueueWrite, Interactive, server
  <2>6. op[x][s].kind = "write" /\ <<x, s>> \notin running
    BY <2>4 DEF SlotInv
  <2> QED BY <2>3, <2>4, <2>5, <2>6 DEF SlotInv
<1>4. CASE SendWrite(x, s)
  <2>1. [op[x][s] EXCEPT !.pc = "sent"] \in OpType
    BY <1>a DEF OpType
  <2>2. Same(op'[x][s], [op[x][s] EXCEPT !.pc = "sent"])
    BY <1>4, <2>1, StepShape DEF SendWrite
  <2>3. /\ op'[x][s].pc = "sent" /\ op'[x][s].kind = op[x][s].kind
        /\ op'[x][s].result = op[x][s].result /\ op'[x][s].answer = op[x][s].answer
    BY <2>2, <1>a DEF Same, OpType
  <2>4. op[x][s].pc = "open" /\ Interactive(x) /\ Interactive(x)'
    BY <1>4 DEF SendWrite, Interactive
  <2>5. /\ op[x][s].kind = "write" /\ op[x][s].result = "none"
        /\ op'[x][s].answer = "none"
        /\ s \notin staged[x] /\ staged' = staged
    BY <1>4, <2>3, <2>4 DEF SendWrite, SlotInv, Succeeding
  <2> QED BY <2>3, <2>4, <2>5 DEF SlotInv, Succeeding
<1>5. CASE SendRead(x, s)
  <2>1. PICK outer \in Chains(x) :
          LET o == [IdleOp EXCEPT !.outer = outer] IN
          IF Interactive(x)
            THEN /\ Reaching(x, s, [o EXCEPT !.pc = "sent"])
                 /\ running' = running \cup {<<x, s>>}
            ELSE /\ Becomes(x, s, [o EXCEPT !.pc = "done", !.result = "refused"])
                 /\ UNCHANGED running
    BY <1>5 DEF SendRead
  <2>2. /\ [[IdleOp EXCEPT !.outer = outer] EXCEPT !.pc = "sent"] \in OpType
        /\ [[IdleOp EXCEPT !.outer = outer] EXCEPT !.pc = "done", !.result = "refused"] \in OpType
    BY IdleOpType, ChainsType DEF OpType
  <2>3. CASE Interactive(x)
    <3>1. Same(op'[x][s], [[IdleOp EXCEPT !.outer = outer] EXCEPT !.pc = "sent"])
      BY <2>1, <2>2, <2>3, StepShape
    <3>2. /\ op'[x][s].pc = "sent" /\ op'[x][s].kind = "read"
          /\ op'[x][s].result = "none" /\ op'[x][s].answer = "none"
      BY <3>1 DEF Same, IdleOp
    <3> QED BY <1>5, <2>3, <3>2 DEF SendRead, SlotInv, Interactive, Succeeding
  <2>4. CASE ~Interactive(x)
    <3>1. Same(op'[x][s], [[IdleOp EXCEPT !.outer = outer] EXCEPT !.pc = "done", !.result = "refused"])
      BY <2>1, <2>2, <2>4, StepShape
    <3>2. op'[x][s].pc = "done" /\ op'[x][s].kind = "read" /\ op'[x][s].result = "refused"
      BY <3>1 DEF Same, IdleOp
    <3> QED BY <1>5, <2>1, <2>4, <3>2 DEF SendRead, SlotInv, Interactive
  <2> QED BY <2>3, <2>4
<1>6. CASE SendFails(x, s)
  <2>1. op'[x][s].pc = "done" /\ op'[x][s].result = "failed"
          /\ (op'[x][s].kind = op[x][s].kind \/ op[x][s].pc = "idle")
    <3>1. CASE Reaching(x, s, [op[x][s] EXCEPT !.pc = "done", !.result = "failed"])
      <4>1. [op[x][s] EXCEPT !.pc = "done", !.result = "failed"] \in OpType
        BY <1>a DEF OpType
      <4>2. Same(op'[x][s], [op[x][s] EXCEPT !.pc = "done", !.result = "failed"])
        BY <3>1, <4>1, StepShape
      <4> QED BY <4>2, <1>a DEF Same, OpType
    <3>2. CASE \E outer \in Chains(x) :
                 /\ op[x][s].pc = "idle"
                 /\ Reaching(x, s, [IdleOp EXCEPT !.outer = outer, !.pc = "done", !.result = "failed"])
      <4>1. PICK outer \in Chains(x) :
                 /\ op[x][s].pc = "idle"
                 /\ Reaching(x, s, [IdleOp EXCEPT !.outer = outer, !.pc = "done", !.result = "failed"])
        BY <3>2
      <4>2. [IdleOp EXCEPT !.outer = outer, !.pc = "done", !.result = "failed"] \in OpType
        BY IdleOpType, ChainsType DEF OpType
      <4>3. Same(op'[x][s], [IdleOp EXCEPT !.outer = outer, !.pc = "done", !.result = "failed"])
        BY <4>1, <4>2, StepShape
      <4> QED BY <4>1, <4>3 DEF Same, IdleOp
    <3> QED BY <1>6, <3>1, <3>2 DEF SendFails
  <2>2. \E k \in DOMAIN failures'[x] : failures'[x][k].slot = s
    BY <1>6, FailureKept DEF SendFails
  <2>3. op[x][s].pc \in {"idle", "open"} /\ Interactive(x)
    BY <1>6 DEF SendFails, Refusing
  <2> QED BY <1>6, <2>1, <2>2, <2>3 DEF SendFails, SlotInv, Interactive, Succeeding, server
<1> QED BY <1>1, <1>2, <1>3, <1>4, <1>5, <1>6

LEMMA AnswersSlot ==
  ASSUME TypeOK, NEW x \in Txs, NEW s \in Slots, SlotInv(x, s),
         \/ ReceiveRows(x, s) \/ ReceiveError(x, s) \/ LoseStatement(x, s)
         \/ AnswerRead(x, s) \/ RelayRead(x, s) \/ RunStatement(x, s)
  PROVE  SlotInv(x, s)'
<1>a. op[x][s] \in OpType
  BY DEF TypeOK
<1>1. CASE ReceiveRows(x, s)
  <2>1. op'[x][s].pc = "done" /\ op'[x][s].kind = op[x][s].kind /\ op'[x][s].result = "ok"
    BY <1>1, <1>a DEF ReceiveRows, Becomes, TypeOK, OpType
  <2> QED BY <1>1, <2>1 DEF ReceiveRows, SlotInv, Interactive, Succeeding, server
<1>2. CASE ReceiveError(x, s)
  <2>1. /\ op'[x][s].kind = op[x][s].kind
        /\ \/ op'[x][s].pc = "done" /\ op'[x][s].result = "failed"
           \/ op'[x][s].pc = "probing" /\ op'[x][s].result = op[x][s].result /\ op[x][s].kind = "read"
    <3>a. /\ [op[x][s] EXCEPT !.pc = "probing"] \in OpType
          /\ [op[x][s] EXCEPT !.pc = "done", !.result = "failed"] \in OpType
      BY <1>a DEF OpType
    <3>b. \/ op[x][s].kind = "read" /\ Becomes(x, s, [op[x][s] EXCEPT !.pc = "probing"])
          \/ Becomes(x, s, [op[x][s] EXCEPT !.pc = "done", !.result = "failed"])
      BY <1>2 DEF ReceiveError
    <3>c. \/ op[x][s].kind = "read" /\ Same(op'[x][s], [op[x][s] EXCEPT !.pc = "probing"])
          \/ Same(op'[x][s], [op[x][s] EXCEPT !.pc = "done", !.result = "failed"])
      BY <3>a, <3>b, StepShape
    <3> QED BY <3>c, <1>a DEF Same, OpType
  <2>2. \E k \in DOMAIN failures'[x] : failures'[x][k].slot = s
    BY <1>2, FailureKept DEF ReceiveError
  <2>3. op[x][s].pc = "sent" /\ op[x][s].answer # "ok" /\ op[x][s].answer # "none"
    BY <1>2 DEF ReceiveError
  <2> QED BY <1>2, <2>1, <2>2, <2>3 DEF ReceiveError, SlotInv, Interactive, Succeeding, server
<1>3. CASE LoseStatement(x, s)
  <2>1. op'[x][s].kind = op[x][s].kind /\ op'[x][s].pc = "done" /\ op'[x][s].result = "failed"
    BY <1>3, <1>a DEF LoseStatement, Becomes, TypeOK, OpType
  <2>2. \E k \in DOMAIN failures'[x] : failures'[x][k].slot = s
    BY <1>3, FailureKept DEF LoseStatement
  <2> QED BY <1>3, <2>1, <2>2 DEF LoseStatement, SlotInv, Interactive, Succeeding, server
<1>4. CASE AnswerRead(x, s)
  <2>1. op'[x][s].kind = op[x][s].kind /\ op'[x][s].pc = "done" /\ op'[x][s].result = "ok"
    BY <1>4, <1>a DEF AnswerRead, Becomes, TypeOK, OpType
  <2> QED BY <1>4, <2>1 DEF AnswerRead, SlotInv, Interactive, Succeeding, server
<1>5. CASE RelayRead(x, s)
  <2>1. op'[x][s].kind = op[x][s].kind /\ op'[x][s].pc = "done" /\ op'[x][s].result = "failed"
    BY <1>5, <1>a DEF RelayRead, Becomes, TypeOK, OpType
  <2>2. \E k \in DOMAIN failures[x] : failures[x][k].slot = s
    BY <1>5 DEF RelayRead, SlotInv
  <2>3. \E k \in DOMAIN failures'[x] : failures'[x][k].slot = s
    <3>1. CASE UNCHANGED failures
      BY <2>2, <3>1
    <3>2. CASE failures' = [failures EXCEPT ![x] = Append(Absorbed(x, s), [slot |-> s, conflict |-> FALSE])]
      <4> DEFINE A == Absorbed(x, s)
                 f == [slot |-> s, conflict |-> FALSE]
                 R == [slot : Slots, conflict : BOOLEAN]
      <4>1. A \in Seq(R) /\ f \in R /\ f.slot = s
        BY <2>2, AbsorbedProperties
      <4>2. failures'[x] = Append(A, f)
        BY <3>2 DEF TypeOK
      <4> HIDE DEF A, f, R
      <4>3. Len(A) + 1 \in DOMAIN Append(A, f) /\ Append(A, f)[Len(A) + 1] = f
        BY <4>1, AppendProperties, LenProperties
      <4> QED BY <4>1, <4>2, <4>3
    <3> QED BY <1>5, <3>1, <3>2 DEF RelayRead
  <2> QED BY <1>5, <2>1, <2>3 DEF RelayRead, SlotInv, Interactive, Succeeding, server
<1>6. CASE RunStatement(x, s)
  <2>1. PICK answer \in {"ok", "refused", "conflict", "missing"} :
          /\ running' = running \ {<<x, s>>}
          /\ staged' = IF answer = "ok" /\ op[x][s].kind = "write"
                         THEN [staged EXCEPT ![x] = @ \cup {s}] ELSE staged
          /\ op' = IF op[x][s].pc = "sent" THEN [op EXCEPT ![x][s].answer = answer] ELSE op
    BY <1>6 DEF RunStatement
  <2>2. /\ op'[x][s].pc = op[x][s].pc /\ op'[x][s].kind = op[x][s].kind
        /\ op'[x][s].result = op[x][s].result
        /\ op'[x][s].answer = IF op[x][s].pc = "sent" THEN answer ELSE op[x][s].answer
    BY <2>1, <1>a DEF TypeOK, OpType
  <2>3. s \in staged'[x] <=> s \in staged[x] \/ (answer = "ok" /\ op[x][s].kind = "write")
    BY <2>1 DEF TypeOK
  <2>4. <<x, s>> \in running /\ <<x, s>> \notin running'
    BY <1>6, <2>1 DEF RunStatement
  <2>5. Interactive(x) /\ (op[x][s].result = "failed" \/ (op[x][s].pc = "sent" /\ op[x][s].answer = "none"))
    BY <2>4 DEF SlotInv
  <2> QED BY <1>6, <2>2, <2>3, <2>4, <2>5 DEF RunStatement, SlotInv, Interactive, Succeeding
<1> QED BY <1>1, <1>2, <1>3, <1>4, <1>5, <1>6

LEMMA StepsElsewhere ==
  ASSUME TypeOK, FailuresNoted, NEW x \in Txs, NEW s \in Slots, StatementStep(x, s)
  PROVE  Elsewhere(x, s)
BY WritesElsewhere, AnswersElsewhere DEF StatementStep, OpNext

LEMMA StatementSlots ==
  ASSUME TypeOK, FreshBlocks, FailuresNoted, NEW x \in Txs, NEW s \in Slots, StatementStep(x, s),
         \A y \in Txs, i \in Slots : SlotInv(y, i)
  PROVE  \A y \in Txs, i \in Slots : SlotInv(y, i)'
<1>1. Elsewhere(x, s)
  BY StepsElsewhere
<1>2. SlotInv(x, s)'
  BY WritesSlot, AnswersSlot DEF StatementStep, OpNext
<1>3. ASSUME NEW y \in Txs, NEW i \in Slots, y # x \/ i # s
      PROVE  SlotInv(y, i)'
  <2>1. block' = block /\ (<<y, i>> \in running' => <<y, i>> \in running) /\ SlotInv(y, i)
    BY <1>1, <1>3 DEF Elsewhere
  <2>2. CASE y # x
    BY <1>1, <2>1, <2>2, SlotKept DEF Elsewhere, Same
  <2>3. CASE y = x
    BY <1>1, <1>3, <2>1, <2>3, SlotKept DEF Elsewhere
  <2> QED BY <2>2, <2>3
<1> QED BY <1>2, <1>3

(* Which statements can step at all, and which handlers then wait.         *)
LEMMA StatementFacts ==
  ASSUME TypeOK, NEW x \in Txs, NEW s \in Slots, SlotInv(x, s), StatementStep(x, s)
  PROVE  /\ op[x][s].result # "ok"
         /\ \/ block[x].pc = "body"
            \/ Busy(op[x][s])
            \/ op[x][s].result = "failed" /\ op'[x][s].pc = op[x][s].pc /\ deferred' = deferred
         /\ \/ deferred' = deferred
            \/ /\ Busy(op[x][s]) /\ deferred'[x] = Append(deferred[x], s)
               /\ op'[x][s].kind = "write" /\ op'[x][s].result = "ok"
<1>a. op[x][s] \in OpType
  BY DEF TypeOK
<1>1. CASE StartWrite(x, s) \/ SendRead(x, s)
  BY <1>1 DEF StartWrite, SendRead, SlotInv
<1>2. CASE RefuseWrite(x, s) \/ SendWrite(x, s)
  BY <1>2 DEF RefuseWrite, SendWrite, SlotInv, Busy
<1>3. CASE QueueWrite(x, s)
  <2>1. [op[x][s] EXCEPT !.pc = "done", !.result = "ok"] \in OpType
    BY <1>a DEF OpType
  <2>2. Same(op'[x][s], [op[x][s] EXCEPT !.pc = "done", !.result = "ok"])
    BY <1>3, <2>1, StepShape DEF QueueWrite
  <2>3. op'[x][s].kind = op[x][s].kind /\ op'[x][s].result = "ok"
    BY <2>2, <1>a DEF Same, OpType
  <2>4. op[x][s].pc = "open" /\ deferred'[x] = Append(deferred[x], s)
    BY <1>3 DEF QueueWrite, TypeOK
  <2> QED BY <2>3, <2>4 DEF SlotInv, Busy
<1>4. CASE SendFails(x, s)
  BY <1>4 DEF SendFails, SlotInv, Busy
<1>5. CASE ReceiveRows(x, s)
  <2>1. [op[x][s] EXCEPT !.pc = "done", !.result = "ok"] \in OpType
    BY <1>a DEF OpType
  <2>2. Same(op'[x][s], [op[x][s] EXCEPT !.pc = "done", !.result = "ok"])
    BY <1>5, <2>1, StepShape DEF ReceiveRows
  <2>3. op'[x][s].kind = op[x][s].kind /\ op'[x][s].result = "ok"
    BY <2>2, <1>a DEF Same, OpType
  <2>4. /\ op[x][s].pc = "sent"
        /\ deferred' = deferred \/ (op[x][s].kind = "write" /\ deferred'[x] = Append(deferred[x], s))
    BY <1>5 DEF ReceiveRows, TypeOK
  <2> QED BY <2>3, <2>4 DEF SlotInv, Busy
<1>6. CASE ReceiveError(x, s) \/ LoseStatement(x, s)
  BY <1>6 DEF ReceiveError, LoseStatement, SlotInv, Busy
<1>7. CASE AnswerRead(x, s) \/ RelayRead(x, s)
  BY <1>7 DEF AnswerRead, RelayRead, SlotInv, Busy
<1>8. CASE RunStatement(x, s)
  <2>1. PICK answer \in {"ok", "refused", "conflict", "missing"} :
          op' = IF op[x][s].pc = "sent" THEN [op EXCEPT ![x][s].answer = answer] ELSE op
    BY <1>8 DEF RunStatement
  <2>2. op'[x][s].pc = op[x][s].pc
    BY <2>1, <1>a DEF TypeOK, OpType
  <2>3. /\ deferred' = deferred
        /\ op[x][s].result = "failed" \/ op[x][s].pc = "sent"
    BY <1>8 DEF RunStatement, SlotInv
  <2> QED BY <2>2, <2>3 DEF SlotInv, Busy
<1> QED BY <1>1, <1>2, <1>3, <1>4, <1>5, <1>6, <1>7, <1>8 DEF StatementStep, OpNext

(* No statement of a block steps once it is, or may be, committed.         *)
LEMMA Unsettled ==
  ASSUME TypeOK, FreshBlocks, CommitsSettled, NEW x \in Txs, NEW s \in Slots,
         SlotInv(x, s), StatementStep(x, s)
  PROVE  x \notin asked /\ srv[x] # "committed" /\ block[x].pc \notin {"none", "opening"}
<1>1. \/ block[x].pc = "body" \/ Busy(op[x][s]) \/ op[x][s].result = "failed"
  BY StatementFacts
<1>2. CASE block[x].pc = "body"
  BY <1>2 DEF CommitsSettled
<1>3. CASE Busy(op[x][s]) \/ op[x][s].result = "failed"
  <2>1. ~Settled(x)
    BY <1>3 DEF Settled
  <2>2. block[x].pc \in {"none", "opening"} => op[x][s] = IdleOp
    BY DEF FreshBlocks, Fresh
  <2> QED BY <1>3, <2>1, <2>2 DEF CommitsSettled, Busy, IdleOp
<1> QED BY <1>1, <1>2, <1>3

LEMMA StatementCommits ==
  ASSUME TypeOK, FreshBlocks, FailuresNoted, CommitsSettled, NEW x \in Txs, NEW s \in Slots,
         SlotInv(x, s), StatementStep(x, s)
  PROVE  FreshBlocks' /\ CommitsSettled'
<1>1. Elsewhere(x, s) /\ x \notin asked /\ srv[x] # "committed" /\ block[x].pc \notin {"none", "opening"}
  BY StepsElsewhere, Unsettled
<1>2. /\ block' = block /\ srv' = srv /\ asked' = asked /\ visible' = visible /\ fired' = fired
      /\ \A y \in Txs : y # x =>
           /\ op'[y] = op[y] /\ failures'[y] = failures[y] /\ queue'[y] = queue[y]
           /\ deferred'[y] = deferred[y] /\ staged'[y] = staged[y]
  BY <1>1 DEF Elsewhere
<1>3. FreshBlocks'
  BY <1>1, <1>2 DEF FreshBlocks, Fresh, Interactive
<1>4. ASSUME NEW y \in Txs
      PROVE  /\ y \in asked' \/ srv'[y] = "committed" =>
                  /\ block'[y].pc \notin {"none", "opening", "body"}
                  /\ Settled(y)' /\ staged'[y] = OkWrites(y)'
             /\ y \in asked' => srv'[y] # "committed"
             /\ Visible(y)' = IF srv'[y] = "committed" THEN staged'[y] ELSE {}
  <2>1. CASE y = x
    BY <1>1, <1>2, <2>1 DEF CommitsSettled, Visible
  <2>2. CASE y # x
    BY <1>2, <2>2 DEF CommitsSettled, Settled, Busy, OkWrites, Visible
  <2> QED BY <2>1, <2>2
<1>5. CommitsSettled'
  BY <1>4 DEF CommitsSettled
<1> QED BY <1>3, <1>5

(* The handler of a statement waits once, behind those already waiting.    *)
LEMMA StatementHandlers ==
  ASSUME TypeOK, FreshBlocks, FailuresNoted, CommitsSettled, HandlersWait, DeferredAreDurable,
         NEW x \in Txs, NEW s \in Slots, SlotInv(x, s), StatementStep(x, s), TypeOK'
  PROVE  HandlersWait' /\ DeferredAreDurable'
<1>1. /\ Elsewhere(x, s) /\ srv[x] # "committed"
  BY StepsElsewhere, Unsettled
<1>2. /\ op[x][s].result # "ok"
      /\ \/ block[x].pc = "body"
         \/ Busy(op[x][s])
         \/ op[x][s].result = "failed" /\ op'[x][s].pc = op[x][s].pc /\ deferred' = deferred
      /\ \/ deferred' = deferred
         \/ /\ Busy(op[x][s]) /\ deferred'[x] = Append(deferred[x], s)
            /\ op'[x][s].kind = "write" /\ op'[x][s].result = "ok"
  BY StatementFacts
<1>3. /\ block' = block /\ srv' = srv /\ visible' = visible /\ fired' = fired
      /\ \A y \in Txs : y # x => op'[y] = op[y] /\ deferred'[y] = deferred[y]
      /\ \A i \in Slots : i # s => Same(op'[x][i], op[x][i])
  BY <1>1 DEF Elsewhere
<1>4. \A i \in DOMAIN deferred[x] : deferred[x][i] \in OkWrites(x) /\ deferred[x][i] # s
  BY <1>2 DEF HandlersWait, OkWrites
<1>5. /\ deferred[x] \in Seq(Slots) /\ DOMAIN deferred[x] = 1 .. Len(deferred[x]) /\ Len(deferred[x]) \in Nat
      /\ fired[x] \in Nat /\ fired[x] <= Len(deferred[x])
  BY LenProperties DEF TypeOK, DeferredAreDurable
<1>6. CASE deferred'[x] = deferred[x]
  <2>1. \A i \in DOMAIN deferred'[x] : deferred'[x][i] \in OkWrites(x)'
    BY <1>3, <1>4, <1>6 DEF OkWrites, Same
  <2>2. block[x].pc \in {"committing", "firing"} => \A i \in Slots : ~Busy(op'[x][i])
    <3> SUFFICES ASSUME block[x].pc \in {"committing", "firing"}, NEW i \in Slots
                 PROVE  ~Busy(op'[x][i])
      OBVIOUS
    <3>1. \A j \in Slots : ~Busy(op[x][j])
      BY DEF HandlersWait
    <3>2. op'[x][i].pc = op[x][i].pc
      BY <1>2, <1>3, <3>1 DEF Same
    <3> QED BY <3>1, <3>2 DEF Busy
  <2>3. block[x].pc = "firing" => deferred'[x] = <<>>
    BY <1>1, <1>6 DEF HandlersWait
  <2>4. HandlersWait'
    <3> SUFFICES ASSUME NEW y \in Txs
                 PROVE  /\ \A i \in DOMAIN deferred'[y] : deferred'[y][i] \in OkWrites(y)'
                        /\ block'[y].answer # "none" => block'[y].pc \notin {"none", "opening", "body"}
                        /\ block'[y].pc = "committing" /\ block'[y].answer = "ok" => srv'[y] = "committed"
                        /\ block'[y].pc \in {"committing", "firing"} => \A i \in Slots : ~Busy(op'[y][i])
                        /\ block'[y].pc = "firing" => srv'[y] = "committed" \/ deferred'[y] = <<>>
                        /\ block'[y].pc \notin {"firing", "ended"} => fired'[y] = 0
      BY DEF HandlersWait
    <3>1. CASE y = x
      BY <1>3, <2>1, <2>2, <2>3, <3>1 DEF HandlersWait
    <3>2. CASE y # x
      BY <1>3, <3>2 DEF HandlersWait, OkWrites
    <3> QED BY <3>1, <3>2
  <2>5. \A y \in Txs : deferred'[y] = deferred[y]
    BY <1>3, <1>6
  <2>6. DeferredAreDurable'
    BY <1>3, <2>5 DEF DeferredAreDurable
  <2> QED BY <2>4, <2>6
<1>7. CASE /\ Busy(op[x][s]) /\ deferred'[x] = Append(deferred[x], s)
           /\ op'[x][s].kind = "write" /\ op'[x][s].result = "ok"
  <2>1. /\ DOMAIN deferred'[x] = 1 .. Len(deferred[x]) + 1 /\ Len(deferred'[x]) = Len(deferred[x]) + 1
        /\ \A i \in 1 .. Len(deferred[x]) : deferred'[x][i] = deferred[x][i]
        /\ deferred'[x][Len(deferred[x]) + 1] = s
    BY <1>5, <1>7, AppendProperties, LenProperties
  <2>2. \A i \in DOMAIN deferred'[x] : deferred'[x][i] \in OkWrites(x)'
    <3> SUFFICES ASSUME NEW i \in DOMAIN deferred'[x]
                 PROVE  deferred'[x][i] \in OkWrites(x)'
      OBVIOUS
    <3>1. CASE i \in 1 .. Len(deferred[x])
      <4>1. PICK d \in Slots : d = deferred'[x][i] /\ d # s /\ op[x][d].kind = "write" /\ op[x][d].result = "ok"
        BY <1>4, <1>5, <2>1, <3>1 DEF OkWrites
      <4>2. op'[x][d].kind = "write" /\ op'[x][d].result = "ok"
        BY <1>3, <4>1 DEF Same
      <4> QED BY <4>1, <4>2 DEF OkWrites
    <3>2. CASE i = Len(deferred[x]) + 1
      BY <1>7, <2>1, <3>2 DEF OkWrites
    <3> QED BY <1>5, <2>1, <3>1, <3>2
  <2>3. block[x].pc \notin {"committing", "firing"}
    BY <1>7 DEF HandlersWait
  <2>4. HandlersWait'
    <3> SUFFICES ASSUME NEW y \in Txs
                 PROVE  /\ \A i \in DOMAIN deferred'[y] : deferred'[y][i] \in OkWrites(y)'
                        /\ block'[y].answer # "none" => block'[y].pc \notin {"none", "opening", "body"}
                        /\ block'[y].pc = "committing" /\ block'[y].answer = "ok" => srv'[y] = "committed"
                        /\ block'[y].pc \in {"committing", "firing"} => \A i \in Slots : ~Busy(op'[y][i])
                        /\ block'[y].pc = "firing" => srv'[y] = "committed" \/ deferred'[y] = <<>>
                        /\ block'[y].pc \notin {"firing", "ended"} => fired'[y] = 0
      BY DEF HandlersWait
    <3>1. CASE y = x
      BY <1>3, <2>2, <2>3, <3>1 DEF HandlersWait
    <3>2. CASE y # x
      BY <1>3, <3>2 DEF HandlersWait, OkWrites
    <3> QED BY <3>1, <3>2
  <2>5. /\ fired'[x] <= Len(deferred'[x])
        /\ \A i \in 1 .. fired[x] : <<x, deferred'[x][i]>> \in visible
    <3>1. \A i \in 1 .. fired[x] : i \in 1 .. Len(deferred[x])
      BY <1>5
    <3>2. \A i \in 1 .. fired[x] : <<x, deferred[x][i]>> \in visible
      BY DEF DeferredAreDurable
    <3>3. \A i \in 1 .. fired[x] : deferred'[x][i] = deferred[x][i]
      BY <2>1, <3>1
    <3>4. fired[x] <= Len(deferred'[x])
      BY <1>5, <2>1
    <3> QED BY <1>3, <3>2, <3>3, <3>4
  <2>6. \A i, j \in 1 .. Len(deferred'[x]) : deferred'[x][i] = deferred'[x][j] => i = j
    <3>1. \A i, j \in 1 .. Len(deferred[x]) : deferred[x][i] = deferred[x][j] => i = j
      BY DEF DeferredAreDurable
    <3> SUFFICES ASSUME NEW i \in 1 .. Len(deferred'[x]), NEW j \in 1 .. Len(deferred'[x]),
                        deferred'[x][i] = deferred'[x][j]
                 PROVE  i = j
      OBVIOUS
    <3>2. \A k \in 1 .. Len(deferred[x]) : deferred'[x][k] # s
      BY <1>4, <1>5, <2>1
    <3>3. /\ i \in 1 .. Len(deferred[x]) \/ i = Len(deferred[x]) + 1
          /\ j \in 1 .. Len(deferred[x]) \/ j = Len(deferred[x]) + 1
      BY <1>5, <2>1
    <3>4. CASE i \in 1 .. Len(deferred[x]) /\ j \in 1 .. Len(deferred[x])
      BY <2>1, <3>1, <3>4
    <3>5. CASE i = Len(deferred[x]) + 1 \/ j = Len(deferred[x]) + 1
      BY <2>1, <3>2, <3>3, <3>5
    <3> QED BY <3>3, <3>4, <3>5
  <2>7. DeferredAreDurable'
    BY <1>3, <2>5, <2>6 DEF DeferredAreDurable
  <2> QED BY <2>4, <2>7
<1> QED BY <1>2, <1>6, <1>7

-----------------------------------------------------------------------------
(***************************************************************************)
(* The steps of a block keep the invariant.                                *)
(***************************************************************************)
(* What the invariant says of one block.                                   *)
Committing(x) ==
  /\ x \in asked \/ srv[x] = "committed" =>
       /\ block[x].pc \notin {"none", "opening", "body"}
       /\ Settled(x) /\ staged[x] = OkWrites(x)
  /\ x \in asked => srv[x] # "committed"
  /\ Visible(x) = IF srv[x] = "committed" THEN staged[x] ELSE {}

Waiting(x) ==
  /\ \A i \in DOMAIN deferred[x] : deferred[x][i] \in OkWrites(x)
  /\ block[x].answer # "none" => block[x].pc \notin {"none", "opening", "body"}
  /\ block[x].pc = "committing" /\ block[x].answer = "ok" => srv[x] = "committed"
  /\ block[x].pc \in {"committing", "firing"} => \A s \in Slots : ~Busy(op[x][s])
  /\ block[x].pc = "firing" => srv[x] = "committed" \/ deferred[x] = <<>>
  /\ block[x].pc \notin {"firing", "ended"} => fired[x] = 0

Durable(x) ==
  /\ fired[x] <= Len(deferred[x])
  /\ \A i, j \in 1 .. Len(deferred[x]) : deferred[x][i] = deferred[x][j] => i = j
  /\ \A i \in 1 .. fired[x] : deferred[x][i] \in Slots => deferred[x][i] \in Visible(x)

BlockHolds(x) ==
  /\ block[x].pc \in {"none", "opening"} => Fresh(x) /\ ~Interactive(x)
  /\ Committing(x) /\ Waiting(x) /\ Durable(x)

LEMMA BlocksHold ==
  ASSUME TypeOK
  PROVE  (\A x \in Txs : BlockHolds(x)) <=>
           (FreshBlocks /\ CommitsSettled /\ HandlersWait /\ DeferredAreDurable)
<1>1. ASSUME NEW x \in Txs, fired[x] <= Len(deferred[x]), NEW i \in 1 .. fired[x]
      PROVE  deferred[x][i] \in Slots
  <2>1. deferred[x] \in Seq(Slots) /\ fired[x] \in Nat
    BY DEF TypeOK
  <2>2. i \in 1 .. Len(deferred[x])
    BY <1>1, <2>1, LenProperties
  <2> QED BY <2>1, <2>2, ElementOfSeq
<1>2. (\A x \in Txs : Durable(x)) <=> DeferredAreDurable
  BY <1>1 DEF Durable, DeferredAreDurable, Visible
<1> QED BY <1>2 DEF BlockHolds, Committing, Waiting, FreshBlocks, CommitsSettled, HandlersWait

AllHold    == \A x \in Txs : BlockHolds(x)
BlockFacts == FreshBlocks /\ CommitsSettled /\ HandlersWait /\ DeferredAreDurable

LEMMA BlocksAgree == TypeOK => (AllHold <=> BlockFacts)
BY BlocksHold DEF AllHold, BlockFacts

(* A step of block x, seen from the others and from its statements.        *)
Beside(x) ==
  /\ \A y \in Txs : y # x =>
       /\ block'[y] = block[y] /\ fired'[y] = fired[y] /\ queue'[y] = queue[y]
       /\ srv'[y] = srv[y] /\ staged'[y] = staged[y]
       /\ y \in asked' <=> y \in asked
       /\ \A s \in Slots : <<y, s>> \in visible' <=> <<y, s>> \in visible
  /\ running' \subseteq running
  /\ op' = op /\ failures' = failures /\ deferred' = deferred

LEMMA BlockBeside ==
  ASSUME TypeOK, NEW x \in Txs, BlockNext(x)
  PROVE  Beside(x)
<1>1. CASE OpenBlock(x) \/ BeginRaises(x) \/ BodyCancelled(x) \/ EndCancel(x) \/ AbandonCancel(x)
             \/ EndBlock(x)
  BY <1>1 DEF OpenBlock, BeginRaises, BodyCancelled, EndCancel, AbandonCancel, EndBlock,
              TypeOK, body, server, Beside
<1>2. CASE BeginBlock(x)
  BY <1>2 DEF BeginBlock, TypeOK, body, Beside
<1>3. CASE BodyRaises(x) \/ ExitRetired(x) \/ ExitFailed(x)
  BY <1>3 DEF BodyRaises, ExitRetired, ExitFailed, Cancel, SendCancel, TypeOK, Beside
<1>4. CASE SendCommit(x)
  BY <1>4 DEF SendCommit, TypeOK, body, Beside
<1>5. CASE CommitEmpty(x) \/ ReceiveCommit(x) \/ AbandonCommit(x)
  BY <1>5 DEF CommitEmpty, ReceiveCommit, AbandonCommit, TypeOK, body, server, Beside
<1>6. CASE CommitRefused(x) \/ LoseCommit(x)
  BY <1>6 DEF CommitRefused, LoseCommit, CommitRaises, SendCancel, TypeOK, Beside
<1>7. CASE HandleCommit(x)
  <2>1. \A y \in Txs : y # x => block'[y] = block[y] /\ srv'[y] = srv[y] /\ (y \in asked' <=> y \in asked)
    BY <1>7 DEF HandleCommit, TypeOK
  <2>2. \A y \in Txs, s \in Slots : y # x => (<<y, s>> \in visible' <=> <<y, s>> \in visible)
    BY <1>7 DEF HandleCommit
  <2> QED BY <1>7, <2>1, <2>2 DEF HandleCommit, body, Beside
<1>8. CASE CloseConnection(x)
  BY <1>8 DEF CloseConnection, TypeOK, body, Beside
<1>9. CASE HandleCancel(x) \/ LoseCancel(x)
  BY <1>9 DEF HandleCancel, LoseCancel, TypeOK, body, Beside
<1>10. CASE FireNext(x) \/ FireRaises(x)
  BY <1>10 DEF FireNext, FireRaises, TypeOK, body, server, Beside
<1> QED BY <1>1, <1>2, <1>3, <1>4, <1>5, <1>6, <1>7, <1>8, <1>9, <1>10 DEF BlockNext

LEMMA BesideHolds ==
  ASSUME TypeOK, NEW x \in Txs, Beside(x), NEW y \in Txs, y # x, BlockHolds(y)
  PROVE  BlockHolds(y)'
<1>1. /\ block'[y] = block[y] /\ fired'[y] = fired[y] /\ queue'[y] = queue[y]
      /\ srv'[y] = srv[y] /\ staged'[y] = staged[y] /\ (y \in asked' <=> y \in asked)
      /\ op'[y] = op[y] /\ failures'[y] = failures[y] /\ deferred'[y] = deferred[y]
  BY DEF Beside
<1>2. Visible(y)' = Visible(y)
  BY DEF Beside, Visible
<1>3. OkWrites(y)' = OkWrites(y) /\ (Settled(y)' <=> Settled(y))
  BY <1>1 DEF OkWrites, Settled, Busy
<1> QED BY <1>1, <1>2, <1>3 DEF BlockHolds, Committing, Waiting, Durable, Fresh, Interactive

(* A block that leaves: it is over, or waits for its cancel.               *)
LEMMA Leaving ==
  ASSUME TypeOK, NEW x \in Txs, BlockHolds(x),
         \/ block'[x].pc = "ended"
         \/ block'[x].pc = "cancelling" /\ block[x].pc \notin {"firing", "ended"},
         op'[x] = op[x], deferred'[x] = deferred[x], fired' = fired,
         srv' = srv, staged' = staged, asked' = asked, visible' = visible
  PROVE  BlockHolds(x)'
<1>1. Visible(x)' = Visible(x) /\ OkWrites(x)' = OkWrites(x) /\ (Settled(x)' <=> Settled(x))
  BY DEF Visible, OkWrites, Settled, Busy
<1> QED BY <1>1 DEF BlockHolds, Committing, Waiting, Durable

LEMMA LeavingSteps ==
  ASSUME TypeOK, NEW x \in Txs, BlockHolds(x),
         \/ BeginRaises(x) \/ BodyRaises(x) \/ BodyCancelled(x) \/ ExitRetired(x) \/ ExitFailed(x)
         \/ CommitRefused(x) \/ LoseCommit(x) \/ AbandonCommit(x)
         \/ EndCancel(x) \/ LoseCancel(x) \/ AbandonCancel(x) \/ EndBlock(x)
  PROVE  BlockHolds(x)' /\ block'[x].kind = block[x].kind /\ block'[x].pc # "body"
           /\ (Interactive(x) => staged'[x] = staged[x])
<1>a. block[x] \in BlockType
  BY DEF TypeOK
<1>b. ASSUME NEW e, SendCancel(x, e), block[x].pc \in {"body", "committing"}
      PROVE  /\ block'[x].kind = block[x].kind
             /\ \/ block'[x].pc = "ended"
                \/ block'[x].pc = "cancelling" /\ block[x].pc \notin {"firing", "ended"}
  BY <1>a, <1>b DEF SendCancel, TypeOK, BlockType
<1>1. CASE BeginRaises(x) \/ BodyCancelled(x) \/ AbandonCommit(x) \/ EndCancel(x)
             \/ LoseCancel(x) \/ AbandonCancel(x) \/ EndBlock(x)
  <2>1. block'[x].pc = "ended" /\ block'[x].kind = block[x].kind
    BY <1>1, <1>a DEF BeginRaises, BodyCancelled, AbandonCommit, EndCancel, LoseCancel,
                      AbandonCancel, EndBlock, TypeOK, BlockType
  <2>2. op' = op /\ deferred' = deferred /\ fired' = fired
          /\ srv' = srv /\ staged' = staged /\ asked' = asked /\ visible' = visible
    BY <1>1 DEF BeginRaises, BodyCancelled, AbandonCommit, EndCancel, LoseCancel,
                AbandonCancel, EndBlock, body, server
  <2> QED BY <2>1, <2>2, Leaving
<1>2. CASE BodyRaises(x) \/ ExitRetired(x) \/ ExitFailed(x)
  <2>1. \E e : SendCancel(x, e) /\ block[x].pc = "body"
    BY <1>2 DEF BodyRaises, ExitRetired, ExitFailed, Cancel, BodyReturns
  <2>2. op' = op /\ deferred' = deferred /\ fired' = fired
          /\ srv' = srv /\ staged' = staged /\ asked' = asked /\ visible' = visible
    BY <1>2 DEF BodyRaises, ExitRetired, ExitFailed
  <2> QED BY <1>b, <2>1, <2>2, Leaving
<1>3. CASE CommitRefused(x) \/ LoseCommit(x)
  <2>1. \E e : SendCancel(x, e) /\ block[x].pc = "committing"
    BY <1>3 DEF CommitRefused, LoseCommit, CommitRaises
  <2>2. op' = op /\ deferred' = deferred /\ fired' = fired
          /\ srv' = srv /\ staged' = staged /\ asked' = asked /\ visible' = visible
    BY <1>3 DEF CommitRefused, LoseCommit, CommitRaises
  <2> QED BY <1>b, <2>1, <2>2, Leaving
<1> QED BY <1>1, <1>2, <1>3

(* commit() is sent once nothing failed, and nothing is under way: what    *)
(* is committed is every write that succeeded.                             *)
LEMMA SendCommitHolds ==
  ASSUME TypeOK, NEW x \in Txs, BlockHolds(x), \A s \in Slots : SlotInv(x, s), SendCommit(x)
  PROVE  BlockHolds(x)' /\ block'[x].kind = block[x].kind /\ block'[x].pc # "body"
           /\ (Interactive(x) => staged'[x] = staged[x])
<1>1. block[x].pc = "body" /\ ~Failed(x) /\ \A s \in Slots : ~Busy(op[x][s])
  BY DEF SendCommit, BodyReturns
<1>2. /\ block'[x].pc = "committing" /\ block'[x].kind = block[x].kind
      /\ block'[x].answer = block[x].answer
  BY DEF SendCommit, TypeOK, BlockType
<1>3. /\ op' = op /\ deferred' = deferred /\ fired' = fired /\ visible' = visible
  BY DEF SendCommit, body
<1>4. ASSUME NEW s \in Slots, op[x][s].result = "failed"
      PROVE  FALSE
  <2>1. failures[x] = <<>>
    BY <1>1, <1>4 DEF SlotInv, Failed
  <2>2. PICK i \in DOMAIN failures[x] : TRUE
    BY <1>4 DEF SlotInv
  <2>3. failures[x] \in Seq([slot : Slots, conflict : BOOLEAN]) /\ Len(<<>>) = 0
    BY DEF TypeOK
  <2> QED BY <2>1, <2>2, <2>3, LenProperties
<1>5. Settled(x)
  BY <1>1, <1>4 DEF Settled
<1>6. staged'[x] = OkWrites(x)
  <2>1. CASE Interactive(x)
    <3>1. staged'[x] = staged[x] /\ staged[x] \in SUBSET Slots
      BY <2>1 DEF SendCommit, TypeOK
    <3>2. \A s \in Slots : s \in staged[x] <=> op[x][s].kind = "write" /\ op[x][s].result = "ok"
      BY <1>1, <1>4, <2>1 DEF SlotInv, Succeeding, Busy
    <3> QED BY <3>1, <3>2 DEF OkWrites
  <2>2. CASE ~Interactive(x)
    <3>1. staged'[x] = queue[x] /\ queue[x] \in SUBSET Slots
      BY <2>2 DEF SendCommit, TypeOK
    <3>2. \A s \in Slots : s \in queue[x] <=> op[x][s].kind = "write" /\ op[x][s].result = "ok"
      BY <1>1, <2>2 DEF SlotInv
    <3> QED BY <3>1, <3>2 DEF OkWrites
  <2> QED BY <2>1, <2>2
<1>7. srv[x] # "committed" /\ x \notin asked /\ block[x].answer = "none" /\ fired[x] = 0
  BY <1>1 DEF BlockHolds, Committing, Waiting
<1>8. srv'[x] # "committed" /\ (Interactive(x) => staged'[x] = staged[x])
  BY <1>7 DEF SendCommit, TypeOK
<1>9. Visible(x)' = Visible(x) /\ OkWrites(x)' = OkWrites(x) /\ (Settled(x)' <=> Settled(x))
  BY <1>3 DEF Visible, OkWrites, Settled, Busy
<1>10. Committing(x)'
  BY <1>2, <1>5, <1>6, <1>7, <1>8, <1>9 DEF BlockHolds, Committing
<1>11. Waiting(x)'
  BY <1>1, <1>2, <1>3, <1>7, <1>9 DEF BlockHolds, Waiting, Busy
<1>12. Durable(x)'
  BY <1>3, <1>9 DEF BlockHolds, Durable
<1> QED BY <1>2, <1>8, <1>10, <1>11, <1>12 DEF BlockHolds

(* The server's answer to a commit settles what becomes visible.           *)
LEMMA HandleCommitHolds ==
  ASSUME TypeOK, NEW x \in Txs, BlockHolds(x), HandleCommit(x)
  PROVE  BlockHolds(x)' /\ block'[x].kind = block[x].kind
           /\ block'[x].pc = block[x].pc /\ staged' = staged
<1>1. PICK answer \in {"ok", "refused", "conflict"} :
        /\ block' = IF block[x].pc = "committing" THEN [block EXCEPT ![x].answer = answer] ELSE block
        /\ IF answer = "ok"
             THEN /\ srv' = [srv EXCEPT ![x] = "committed"]
                  /\ visible' = visible \cup ({x} \X staged[x])
             ELSE /\ srv' = [srv EXCEPT ![x] = "rolledback"]
                  /\ visible' = visible
  BY DEF HandleCommit
<1>2. /\ block'[x].kind = block[x].kind /\ block'[x].pc = block[x].pc
      /\ block[x].pc = "committing" => block'[x].answer = answer
      /\ block[x].pc # "committing" => block'[x].answer = block[x].answer
  BY <1>1 DEF TypeOK, BlockType
<1>3. /\ op' = op /\ deferred' = deferred /\ fired' = fired /\ staged' = staged
      /\ x \in asked /\ x \notin asked'
  BY DEF HandleCommit, body
<1>4. /\ block[x].pc \notin {"none", "opening", "body"} /\ Settled(x) /\ staged[x] = OkWrites(x)
      /\ srv[x] # "committed" /\ Visible(x) = {}
  BY <1>3 DEF BlockHolds, Committing
<1>5. OkWrites(x)' = OkWrites(x) /\ (Settled(x)' <=> Settled(x))
  BY <1>3 DEF OkWrites, Settled, Busy
<1>6. srv'[x] = IF answer = "ok" THEN "committed" ELSE "rolledback"
  BY <1>1 DEF TypeOK
<1>7. Visible(x)' = IF answer = "ok" THEN staged[x] ELSE {}
  <2>1. CASE answer = "ok"
    <3>1. \A s \in Slots : <<x, s>> \in visible' <=> <<x, s>> \in visible \/ s \in staged[x]
      BY <1>1, <2>1
    <3>2. staged[x] \subseteq Slots /\ \A s \in Slots : <<x, s>> \notin visible
      BY <1>4 DEF TypeOK, Visible
    <3> QED BY <2>1, <3>1, <3>2 DEF Visible
  <2>2. CASE answer # "ok"
    BY <1>1, <1>4, <2>2 DEF Visible
  <2> QED BY <2>1, <2>2
<1>8. Committing(x)'
  BY <1>2, <1>3, <1>4, <1>5, <1>6, <1>7 DEF Committing
<1>9. Waiting(x)'
  BY <1>2, <1>3, <1>4, <1>5, <1>6 DEF BlockHolds, Waiting, Busy
<1>10. Durable(x)'
  BY <1>3, <1>4, <1>7 DEF BlockHolds, Durable
<1> QED BY <1>2, <1>3, <1>4, <1>8, <1>9, <1>10 DEF BlockHolds

LEMMA OpeningHolds ==
  ASSUME TypeOK, NEW x \in Txs, BlockHolds(x), OpenBlock(x) \/ BeginBlock(x)
  PROVE  BlockHolds(x)' /\ staged' = staged
<1>1. /\ op' = op /\ deferred' = deferred /\ fired' = fired /\ staged' = staged
      /\ asked' = asked /\ visible' = visible /\ failures' = failures /\ queue' = queue
  BY DEF OpenBlock, BeginBlock, body, server
<1>2. Visible(x)' = Visible(x) /\ OkWrites(x)' = OkWrites(x) /\ (Settled(x)' <=> Settled(x))
  BY <1>1 DEF Visible, OkWrites, Settled, Busy
<1>3. block[x].pc \in {"none", "opening"} /\ Fresh(x) /\ ~Interactive(x)
  BY DEF OpenBlock, BeginBlock, BlockHolds
<1>4. x \notin asked /\ srv[x] = "none" /\ block[x].answer = "none"
  BY <1>3 DEF BlockHolds, Committing, Waiting, Fresh
<1>5. CASE OpenBlock(x)
  <2>1. /\ block'[x].pc = "opening" /\ block'[x].kind = block[x].kind
        /\ block'[x].answer = block[x].answer
    BY <1>5 DEF OpenBlock, TypeOK, BlockType
  <2>2. srv' = srv
    BY <1>5 DEF OpenBlock, server
  <2>3. Fresh(x)' /\ ~Interactive(x)'
    BY <1>1, <1>3, <2>1, <2>2 DEF Fresh, Interactive
  <2>4. Committing(x)' /\ Waiting(x)' /\ Durable(x)'
    BY <1>1, <1>2, <1>3, <1>4, <2>1, <2>2 DEF BlockHolds, Committing, Waiting, Durable
  <2> QED BY <1>1, <2>3, <2>4 DEF BlockHolds
<1>6. CASE BeginBlock(x)
  <2>1. block'[x].pc = "body" /\ block'[x].answer = block[x].answer
    <3>1. PICK kind \in {"interactive", "buffered"}, serves \in block[x].gen .. generation :
            block' = [block EXCEPT ![x].pc = "body", ![x].kind = kind, ![x].serves = serves]
      BY <1>6 DEF BeginBlock
    <3> QED BY <3>1 DEF TypeOK, BlockType
  <2>2. srv'[x] # "committed"
    BY <1>4, <1>6 DEF BeginBlock, TypeOK
  <2>3. Committing(x)' /\ Waiting(x)' /\ Durable(x)'
    BY <1>1, <1>2, <1>3, <1>4, <2>1, <2>2 DEF BlockHolds, Committing, Waiting, Durable
  <2> QED BY <1>1, <2>1, <2>3 DEF BlockHolds
<1> QED BY <1>5, <1>6

(* commit() returned: the handlers that wait are those of the commit.      *)
LEMMA ReturnHolds ==
  ASSUME TypeOK, NEW x \in Txs, BlockHolds(x), \A s \in Slots : SlotInv(x, s),
         CommitEmpty(x) \/ ReceiveCommit(x)
  PROVE  BlockHolds(x)' /\ block'[x].kind = block[x].kind /\ block'[x].pc # "body"
           /\ staged' = staged
<1>1. /\ op' = op /\ deferred' = deferred /\ fired' = fired /\ staged' = staged /\ srv' = srv
      /\ asked' = asked /\ visible' = visible
  BY DEF CommitEmpty, ReceiveCommit, body, server
<1>2. Visible(x)' = Visible(x) /\ OkWrites(x)' = OkWrites(x) /\ (Settled(x)' <=> Settled(x))
  BY <1>1 DEF Visible, OkWrites, Settled, Busy
<1>3. /\ block'[x].pc = "firing" /\ block'[x].kind = block[x].kind
      /\ block'[x].answer = block[x].answer
  BY DEF CommitEmpty, ReceiveCommit, TypeOK, BlockType
<1>4. /\ \A s \in Slots : ~Busy(op[x][s])
      /\ srv[x] = "committed" \/ deferred[x] = <<>>
      /\ x \in asked \/ srv[x] = "committed" => block[x].pc # "body"
  <2>1. CASE CommitEmpty(x)
    <3>1. queue[x] = {} /\ ~Interactive(x) /\ block[x].pc = "body" /\ \A s \in Slots : ~Busy(op[x][s])
      BY <2>1 DEF CommitEmpty, BodyReturns
    <3>2. OkWrites(x) = {}
      BY <3>1 DEF SlotInv, OkWrites
    <3>3. deferred[x] \in Seq(Slots) /\ \A i \in DOMAIN deferred[x] : FALSE
      BY <3>2 DEF BlockHolds, Waiting, TypeOK
    <3>4. deferred[x] = <<>>
      <4>1. DOMAIN deferred[x] = 1 .. Len(deferred[x]) /\ Len(deferred[x]) \in Nat
        BY <3>3, LenProperties
      <4>2. Len(deferred[x]) # 0 => 1 \in DOMAIN deferred[x]
        BY <4>1
      <4>3. Len(deferred[x]) = 0
        BY <3>3, <4>2
      <4> QED BY <3>3, <4>3, EmptySeq
    <3> QED BY <3>1, <3>4 DEF BlockHolds, Committing
  <2>2. CASE ReceiveCommit(x)
    BY <2>2 DEF ReceiveCommit, BlockHolds, Waiting
  <2> QED BY <2>1, <2>2
<1>5. Committing(x)'
  BY <1>1, <1>2, <1>3 DEF BlockHolds, Committing
<1>6. Waiting(x)'
  BY <1>1, <1>2, <1>3, <1>4 DEF BlockHolds, Waiting, Busy
<1>7. Durable(x)'
  BY <1>1, <1>2 DEF BlockHolds, Durable
<1> QED BY <1>1, <1>3, <1>5, <1>6, <1>7 DEF BlockHolds

(* The server rolls back what is open: a connection closed, a cancel.      *)
LEMMA RollbackHolds ==
  ASSUME TypeOK, NEW x \in Txs, BlockHolds(x), CloseConnection(x) \/ HandleCancel(x)
  PROVE  BlockHolds(x)' /\ block'[x].kind = block[x].kind /\ block'[x].pc = block[x].pc
           /\ staged' = staged
<1>1. /\ op' = op /\ deferred' = deferred /\ fired' = fired /\ staged' = staged
      /\ visible' = visible /\ failures' = failures /\ queue' = queue
      /\ asked' \subseteq asked
  BY DEF CloseConnection, HandleCancel, body
<1>2. Visible(x)' = Visible(x) /\ OkWrites(x)' = OkWrites(x) /\ (Settled(x)' <=> Settled(x))
  BY <1>1 DEF Visible, OkWrites, Settled, Busy
<1>3. /\ block'[x].pc = block[x].pc /\ block'[x].kind = block[x].kind
      /\ block'[x].answer = block[x].answer
  BY DEF CloseConnection, HandleCancel, TypeOK, BlockType
<1>4. srv'[x] = IF srv[x] = "open" THEN "rolledback" ELSE srv[x]
  BY DEF CloseConnection, HandleCancel, TypeOK
<1>5. Committing(x)' /\ Waiting(x)' /\ Durable(x)'
  BY <1>1, <1>2, <1>3, <1>4 DEF BlockHolds, Committing, Waiting, Durable, Busy
<1>6. block[x].pc \in {"none", "opening"} => Fresh(x)' /\ ~Interactive(x)'
  BY <1>1, <1>3, <1>4 DEF BlockHolds, Fresh, Interactive
<1> QED BY <1>1, <1>3, <1>5, <1>6 DEF BlockHolds

(* A handler runs for a write the server committed.                        *)
LEMMA FiringHolds ==
  ASSUME TypeOK, NEW x \in Txs, BlockHolds(x), FireNext(x) \/ FireRaises(x)
  PROVE  BlockHolds(x)' /\ block'[x].kind = block[x].kind /\ block'[x].pc # "body"
           /\ staged' = staged
<1>1. /\ op' = op /\ deferred' = deferred /\ staged' = staged /\ srv' = srv
      /\ asked' = asked /\ visible' = visible
      /\ block[x].pc = "firing" /\ fired[x] < Len(deferred[x])
  BY DEF FireNext, FireRaises, body, server
<1>2. Visible(x)' = Visible(x) /\ OkWrites(x)' = OkWrites(x) /\ (Settled(x)' <=> Settled(x))
  BY <1>1 DEF Visible, OkWrites, Settled, Busy
<1>3. /\ block'[x].pc \in {"firing", "ended"} /\ block'[x].kind = block[x].kind
      /\ block'[x].answer = block[x].answer
  BY <1>1 DEF FireNext, FireRaises, TypeOK, BlockType
<1>4. fired'[x] = fired[x] + 1 /\ fired[x] \in Nat
  BY DEF FireNext, FireRaises, TypeOK
<1>5. /\ Len(deferred[x]) \in Nat /\ DOMAIN deferred[x] = 1 .. Len(deferred[x])
  BY LenProperties DEF TypeOK
<1>6. deferred[x][fired[x] + 1] \in OkWrites(x)
  BY <1>1, <1>4, <1>5 DEF BlockHolds, Waiting
<1>7. srv[x] = "committed"
  <2>1. deferred[x] # <<>>
    BY <1>1, <1>4
  <2> QED BY <1>1, <2>1 DEF BlockHolds, Waiting
<1>8. Visible(x) = OkWrites(x)
  BY <1>7 DEF BlockHolds, Committing
<1>9. \A i \in 1 .. fired'[x] : deferred[x][i] \in Slots => deferred[x][i] \in Visible(x)
  <2> SUFFICES ASSUME NEW i \in 1 .. fired'[x], deferred[x][i] \in Slots
               PROVE  deferred[x][i] \in Visible(x)
    OBVIOUS
  <2>1. i \in 1 .. fired[x] \/ i = fired[x] + 1
    BY <1>4
  <2> QED BY <1>6, <1>8, <2>1 DEF BlockHolds, Durable
<1>10. Committing(x)' /\ Waiting(x)'
  BY <1>1, <1>2, <1>3, <1>7 DEF BlockHolds, Committing, Waiting, Busy
<1>11. Durable(x)'
  BY <1>1, <1>2, <1>4, <1>5, <1>9 DEF BlockHolds, Durable
<1> QED BY <1>1, <1>3, <1>10, <1>11 DEF BlockHolds

LEMMA BlockStepHolds ==
  ASSUME TypeOK, NEW x \in Txs, BlockHolds(x), \A s \in Slots : SlotInv(x, s), BlockNext(x),
         ~BeginBlock(x)
  PROVE  BlockHolds(x)' /\ block'[x].kind = block[x].kind /\ (block'[x].pc = "body" => block[x].pc = "body")
           /\ (Interactive(x) => staged'[x] = staged[x])
<1>1. CASE OpenBlock(x)
  <2>1. block'[x].pc = "opening" /\ block'[x].kind = block[x].kind
    BY <1>1 DEF OpenBlock, TypeOK, BlockType
  <2> QED BY <1>1, <2>1, OpeningHolds
<1>2. CASE \/ BeginRaises(x) \/ BodyRaises(x) \/ BodyCancelled(x) \/ ExitRetired(x) \/ ExitFailed(x)
           \/ CommitRefused(x) \/ LoseCommit(x) \/ AbandonCommit(x)
           \/ EndCancel(x) \/ LoseCancel(x) \/ AbandonCancel(x) \/ EndBlock(x)
  BY <1>2, LeavingSteps
<1>3. CASE SendCommit(x)
  BY <1>3, SendCommitHolds
<1>4. CASE HandleCommit(x)
  BY <1>4, HandleCommitHolds
<1>5. CASE CommitEmpty(x) \/ ReceiveCommit(x)
  BY <1>5, ReturnHolds
<1>6. CASE CloseConnection(x) \/ HandleCancel(x)
  BY <1>6, RollbackHolds
<1>7. CASE FireNext(x) \/ FireRaises(x)
  BY <1>7, FiringHolds
<1> QED BY <1>1, <1>2, <1>3, <1>4, <1>5, <1>6, <1>7 DEF BlockNext

(* A queue is emptied by a cancel only.                                    *)
LEMMA QueueKept ==
  ASSUME TypeOK, NEW x \in Txs, BlockNext(x)
  PROVE  queue' = queue \/ block'[x].pc # "body"
<1>1. CASE BodyRaises(x) \/ ExitRetired(x) \/ ExitFailed(x) \/ CommitRefused(x) \/ LoseCommit(x)
  <2>1. \E e : SendCancel(x, e)
    BY <1>1 DEF BodyRaises, ExitRetired, ExitFailed, CommitRefused, LoseCommit, CommitRaises, Cancel
  <2>2. block'[x].pc # "body"
    BY <2>1 DEF SendCancel, TypeOK, BlockType
  <2> QED BY <2>2
<1>2. CASE ~(BodyRaises(x) \/ ExitRetired(x) \/ ExitFailed(x) \/ CommitRefused(x) \/ LoseCommit(x))
  BY <1>2 DEF BlockNext, body, OpenBlock, BeginBlock, BeginRaises, BodyCancelled, SendCommit,
     CommitEmpty,
              HandleCommit, ReceiveCommit, AbandonCommit, CloseConnection, HandleCancel, EndCancel,
              LoseCancel, AbandonCancel, FireNext, FireRaises, EndBlock
<1> QED BY <1>1, <1>2

LEMMA BlockStepSlots ==
  ASSUME TypeOK, NEW x \in Txs, BlockHolds(x), BlockNext(x),
         \A y \in Txs, s \in Slots : SlotInv(y, s)
  PROVE  BlockHolds(x)' /\ \A y \in Txs, s \in Slots : SlotInv(y, s)'
<1>1. Beside(x)
  BY BlockBeside
<1>2. ASSUME NEW y \in Txs, y # x, NEW s \in Slots
      PROVE  SlotInv(y, s)'
  <2>1. SlotInv(y, s)
    OBVIOUS
  <2>2. /\ block'[y] = block[y] /\ failures' = failures /\ staged'[y] = staged[y]
        /\ queue'[y] = queue[y] /\ running' \subseteq running /\ op' = op
    BY <1>1, <1>2 DEF Beside
  <2>3. Same(op'[y][s], op[y][s])
    BY <2>2 DEF Same
  <2> QED BY <2>1, <2>2, <2>3, SlotKept
<1>3. CASE BeginBlock(x)
  <2>1. BlockHolds(x)'
    BY <1>3, OpeningHolds
  <2>2. block[x].pc = "opening" /\ Fresh(x) /\ ~Interactive(x)
    BY <1>3 DEF BeginBlock, BlockHolds
  <2>3. /\ op' = op /\ running' = running /\ staged' = staged /\ queue' = queue
    BY <1>3 DEF BeginBlock, body
  <2>4. ASSUME NEW s \in Slots
        PROVE  SlotInv(x, s)'
    <3>1. op'[x][s] = IdleOp /\ staged'[x] = {} /\ queue'[x] = {}
      BY <2>2, <2>3 DEF Fresh
    <3>2. <<x, s>> \notin running'
      BY <2>2, <2>3 DEF SlotInv
    <3> QED BY <3>1, <3>2 DEF SlotInv, IdleOp, Succeeding
  <2> QED BY <1>2, <2>1, <2>4
<1>4. CASE ~BeginBlock(x)
  <2>1. /\ BlockHolds(x)' /\ block'[x].kind = block[x].kind
        /\ block'[x].pc = "body" => block[x].pc = "body"
        /\ Interactive(x) => staged'[x] = staged[x]
    BY <1>4, BlockStepHolds
  <2>2. /\ failures' = failures /\ running' \subseteq running /\ op' = op
    BY <1>1 DEF Beside
  <2>3. block'[x].pc = "body" => queue'[x] = queue[x]
    BY QueueKept
  <2>4. ASSUME NEW s \in Slots
        PROVE  SlotInv(x, s)'
    <3>1. SlotInv(x, s) /\ Same(op'[x][s], op[x][s])
      BY <2>2 DEF Same
    <3> QED BY <2>1, <2>2, <2>3, <3>1, SlotKept
  <2> QED BY <1>2, <2>1, <2>4
<1> QED BY <1>3, <1>4

-----------------------------------------------------------------------------
(***************************************************************************)
(* The theorems.                                                           *)
(***************************************************************************)
LEMMA BlockInvInit == Init => BlockInv
<1> SUFFICES ASSUME Init
             PROVE  BlockInv
  OBVIOUS
<1> USE DEF Init
<1>1. 1 \in Attempts
  BY TransactionAssumption DEF Attempts
<1>2. caller \in [Callers -> CallerType]
  BY <1>1 DEF CallerType
<1>3. block \in [Txs -> BlockType]
  BY DEF BlockType, Raised, NewBlock
<1>4. op \in [Txs -> [Slots -> OpType]]
  BY IdleOpType
<1>5. notes \in [Txs -> NotesType]
  BY DEF NotesType, NoNotes
<1>6. TypeOK
  BY <1>2, <1>3, <1>4, <1>5 DEF TypeOK
<1>7. \A x \in Txs, s \in Slots : SlotInv(x, s)
  BY DEF SlotInv, IdleOp, Succeeding, NewBlock, Interactive
<1>8. ASSUME NEW x \in Txs
      PROVE  BlockHolds(x)
  <2>1. Fresh(x) /\ ~Interactive(x)
    BY DEF Fresh, Interactive, NewBlock
  <2>2. Committing(x)
    BY DEF Committing, Visible
  <2>3. Waiting(x) /\ Durable(x)
    BY DEF Waiting, Durable, NewBlock
  <2> QED BY <2>1, <2>2, <2>3 DEF BlockHolds
<1>9. RetriesLeft
  BY DEF RetriesLeft
<1> QED BY <1>6, <1>7, <1>8, <1>9, SlotInvs, BlocksHold DEF BlockInv

LEMMA BlockInvStep == BlockInv /\ [Next]_vars => BlockInv'
<1> SUFFICES ASSUME BlockInv, [Next]_vars
             PROVE  BlockInv'
  OBVIOUS
<1>a. /\ TypeOK /\ RetriesLeft /\ FreshBlocks /\ FailuresNoted
      /\ CommitsSettled /\ HandlersWait /\ DeferredAreDurable
  BY DEF BlockInv
<1>b. \A x \in Txs, s \in Slots : SlotInv(x, s)
  BY SlotInvs DEF BlockInv
<1>c. \A x \in Txs : BlockHolds(x)
  BY <1>a, BlocksHold
<1>d. ASSUME TypeOK', RetriesLeft', \A x \in Txs, s \in Slots : SlotInv(x, s)',
             FreshBlocks', CommitsSettled', HandlersWait', DeferredAreDurable'
      PROVE  BlockInv'
  <2>1. SlotsHold'
    BY <1>d DEF SlotsHold
  <2>2. SlotFacts'
    BY <1>d, <2>1, SlotsAgree, PTL
  <2> QED BY <1>d, <2>2 DEF BlockInv, SlotFacts
<1>e. ASSUME UNCHANGED <<op, failures, running, staged,
                         queue>>, UNCHANGED <<block, deferred, fired, srv>>,
             UNCHANGED <<asked, visible>>
      PROVE  /\ \A x \in Txs, s \in Slots : SlotInv(x, s)'
             /\ FreshBlocks' /\ CommitsSettled' /\ HandlersWait' /\ DeferredAreDurable'
  <2>1. ASSUME NEW x \in Txs, NEW s \in Slots
        PROVE  SlotInv(x, s)'
    <3>1. SlotInv(x, s) /\ Same(op'[x][s], op[x][s])
      BY <1>b, <1>e DEF Same
    <3> QED BY <1>e, <3>1, SlotKept
  <2>2. FreshBlocks' /\ HandlersWait' /\ DeferredAreDurable'
    BY <1>a, <1>e DEF FreshBlocks, Fresh, Interactive, HandlersWait, DeferredAreDurable, OkWrites,
       Busy
  <2>3. CommitsSettled'
    BY <1>a, <1>e DEF CommitsSettled, Settled, Busy, OkWrites, Visible
  <2> QED BY <2>1, <2>2, <2>3
<1>1. ASSUME NEW x \in Txs, NEW s \in Slots, StatementStep(x, s)
      PROVE  BlockInv'
  <2>1. TypeOK'
    BY <1>1, <1>a, StatementTypes, AnswerTypes DEF StatementStep, OpNext
  <2>2. \A y \in Txs, i \in Slots : SlotInv(y, i)'
    BY <1>1, <1>a, <1>b, StatementSlots
  <2>3. FreshBlocks' /\ CommitsSettled'
    BY <1>1, <1>a, <1>b, StatementCommits
  <2>4. HandlersWait' /\ DeferredAreDurable'
    BY <1>1, <1>a, <1>b, <2>1, StatementHandlers
  <2>5. RetriesLeft'
    BY <1>1, <1>a, StepsElsewhere DEF Elsewhere, RetriesLeft
  <2> QED BY <2>1, <2>2, <2>3, <2>4, <2>5, <1>d
<1>2. ASSUME NEW x \in Txs, BlockNext(x)
      PROVE  BlockInv'
  <2>1. TypeOK'
    BY <1>2, <1>a, BlockTypes
  <2>2. BlockHolds(x)' /\ \A y \in Txs, s \in Slots : SlotInv(y, s)'
    BY <1>2, <1>a, <1>b, <1>c, BlockStepSlots
  <2>3. \A y \in Txs : y # x => BlockHolds(y)'
    BY <1>2, <1>a, <1>c, BlockBeside, BesideHolds
  <2>4. \A y \in Txs : BlockHolds(y)'
    BY <2>2, <2>3
  <2>a. AllHold'
    BY <2>4 DEF AllHold
  <2>b. BlockFacts'
    BY <2>1, <2>a, BlocksAgree, PTL
  <2>5. FreshBlocks' /\ CommitsSettled' /\ HandlersWait' /\ DeferredAreDurable'
    BY <2>b DEF BlockFacts
  <2>6. caller' = caller
    BY <1>2 DEF BlockNext, OpenBlock, BeginBlock, BeginRaises, BodyRaises, BodyCancelled,
       ExitRetired,
                ExitFailed, SendCommit, CommitEmpty, HandleCommit, ReceiveCommit, CommitRefused,
                LoseCommit, CommitRaises, AbandonCommit, CloseConnection, HandleCancel, EndCancel,
                LoseCancel, AbandonCancel, FireNext, FireRaises, EndBlock
  <2>7. RetriesLeft'
    BY <1>a, <2>6 DEF RetriesLeft
  <2> QED BY <2>1, <2>2, <2>5, <2>7, <1>d
<1>3. ASSUME NEW c \in Callers, Call(c) \/ CallerNext(c)
      PROVE  BlockInv'
  <2>1. TypeOK' /\ RetriesLeft'
    BY <1>3, <1>a, CallerTypes
  <2>2. UNCHANGED <<block, body, fired, server>>
    BY <1>3 DEF Call, CallerNext, BackOff, Wake, SleepCancelled, Finish
  <2> QED BY <1>d, <1>e, <2>1, <2>2 DEF body, server
<1>4. CASE ChangeSettings \/ UNCHANGED vars
  <2>1. UNCHANGED <<caller, block, body, notes, fired, server, stale>>
    BY <1>4 DEF ChangeSettings, vars
  <2>2. generation' \in Nat
    BY <1>4, <1>a DEF ChangeSettings, vars, TypeOK
  <2>3. TypeOK' /\ RetriesLeft'
    BY <1>a, <2>1, <2>2 DEF TypeOK, RetriesLeft, body, server
  <2> QED BY <1>d, <1>e, <2>1, <2>3 DEF body, server
<1>5. \A c \in Callers, n \in Attempts : <<c, n>> \in Txs
  BY DEF Txs
<1> QED
  <2>1. CASE Next
    BY <1>1, <1>2, <1>3, <1>4, <1>5, <2>1 DEF Next, Progress, StatementStep
  <2> QED BY <2>1, <1>4

(* The invariant that makes a block all or nothing holds throughout.       *)
THEOREM BlockInvariant == Spec => []BlockInv
BY BlockInvInit, BlockInvStep, PTL DEF Spec

(* Statements, blocks and attempts keep their types; no attempt goes past  *)
(* max_retries + 1 (retry_on_conflict()).                                  *)
THEOREM TransactionTypes == Spec => []TypeOK
<1>1. BlockInv => TypeOK
  BY DEF BlockInv
<1> QED BY <1>1, BlockInvariant, PTL

(* All of a block's writes become visible together, or none, whatever      *)
(* fails, is lost or cancelled (add(), run_read(), commit()).              *)
THEOREM BlocksAllOrNothing == Spec => []AllOrNothing
<1>1. BlockInv => AllOrNothing
  <2> SUFFICES ASSUME BlockInv, NEW x \in Txs, Visible(x) # {}
               PROVE  Visible(x) = OkWrites(x) /\ ~SomeFailed(x)
    BY DEF AllOrNothing
  <2>1. srv[x] = "committed" /\ Visible(x) = staged[x]
    BY DEF BlockInv, CommitsSettled
  <2> QED BY <2>1 DEF BlockInv, CommitsSettled, Settled, SomeFailed
<1> QED BY <1>1, BlockInvariant, PTL

(* A deferred post_* handler runs for a visible write, once, in order      *)
(* (enqueue_post_commit(), fire_post_commit()).                            *)
THEOREM HandlersAreDurable == Spec => []DeferredAreDurable
<1>1. BlockInv => DeferredAreDurable
  BY DEF BlockInv
<1> QED BY <1>1, BlockInvariant, PTL

-----------------------------------------------------------------------------
(***************************************************************************)
(* A block's writes stay where it was opened; no block is left half        *)
(* open.                                                                   *)
(***************************************************************************)
(* What the steps do beside the tables of BlockInv.                        *)
LEMMA StatementBeside ==
  ASSUME TypeOK, NEW x \in Txs, NEW s \in Slots, StatementStep(x, s)
  PROVE  /\ UNCHANGED <<generation, dropping, stale>>
         /\ \A y \in Txs : y # x => notes'[y] = notes[y]
BY DEF StatementStep, OpNext, StartWrite, SendRead, RefuseWrite, QueueWrite, SendWrite, ReceiveRows,
       ReceiveError, SendFails, LoseStatement, AnswerRead, RelayRead, RunStatement, server, TypeOK

LEMMA StepBeside ==
  ASSUME TypeOK, NEW x \in Txs, BlockNext(x)
  PROVE  /\ generation' = generation /\ caller' = caller
         /\ \A y \in Txs : y # x => (y \in dropping' <=> y \in dropping) /\ notes'[y] = notes[y]
<1>1. CASE OpenBlock(x) \/ BeginBlock(x) \/ BeginRaises(x) \/ BodyCancelled(x) \/ SendCommit(x)
  BY <1>1 DEF OpenBlock, BeginBlock, BeginRaises, BodyCancelled, SendCommit, server
<1>2. CASE BodyRaises(x) \/ ExitRetired(x) \/ ExitFailed(x)
  BY <1>2 DEF BodyRaises, ExitRetired, ExitFailed, Cancel, SendCancel, TypeOK
<1>3. CASE CommitEmpty(x) \/ ReceiveCommit(x) \/ AbandonCommit(x) \/ CommitRefused(x) \/ LoseCommit(x)
  BY <1>3 DEF CommitEmpty, ReceiveCommit, AbandonCommit, CommitRefused, LoseCommit, CommitRaises,
              SendCancel, TellCache, TypeOK, server
<1>4. CASE HandleCommit(x) \/ CloseConnection(x) \/ HandleCancel(x) \/ LoseCancel(x)
  BY <1>4 DEF HandleCommit, CloseConnection, HandleCancel, LoseCancel
<1>5. CASE EndCancel(x) \/ AbandonCancel(x) \/ FireNext(x) \/ FireRaises(x) \/ EndBlock(x)
  BY <1>5 DEF EndCancel, AbandonCancel, FireNext, FireRaises, EndBlock, server
<1> QED
  BY <1>1, <1>2, <1>3, <1>4, <1>5 DEF BlockNext

(* The steps of a program, as the lemmas take them.                        *)
LEMMA Steps ==
  ASSUME Next
  PROVE  \/ \E x \in Txs, s \in Slots : StatementStep(x, s)
         \/ \E x \in Txs : BlockNext(x)
         \/ /\ \E c \in Callers : Call(c) \/ CallerNext(c)
            /\ UNCHANGED <<block, body, notes, fired, server, generation, stale>>
         \/ ChangeSettings
<1>1. \A c \in Callers, n \in Attempts : <<c, n>> \in Txs
  BY DEF Txs
<1>2. \A c \in Callers : Call(c) \/ CallerNext(c) =>
        UNCHANGED <<block, body, notes, fired, server, generation, stale>>
  BY DEF Call, CallerNext, BackOff, Wake, SleepCancelled, Finish
<1> QED
  BY <1>1, <1>2 DEF Next, Progress, StatementStep

(* Where the client of a block serves: settings of no earlier moment than  *)
(* the block's, of no later one than now; from the commit on, the block's. *)
Committed(x) ==
  \/ block[x].pc \in {"committing", "firing"} \/ x \in asked \/ srv[x] = "committed"
  \/ block[x].pc = "ended" /\ block[x].raising = "none"

Placed(x) ==
  /\ block[x].gen <= generation /\ block[x].serves <= generation
  /\ block[x].pc = "body" => block[x].gen <= block[x].serves
  /\ block[x].pc = "cancelling" => block[x].raising # "none"
  /\ Committed(x) => block[x].serves = block[x].gen

LEMMA PlacedKept ==
  ASSUME TypeOK, NEW x \in Txs, Placed(x), block'[x] = block[x], srv'[x] = srv[x],
         x \in asked' <=> x \in asked,
         generation' = generation \/ generation' = generation + 1
  PROVE  Placed(x)'
<1>1. block[x].gen \in Nat /\ block[x].serves \in Nat /\ generation \in Nat
  BY DEF TypeOK, BlockType
<1>2. block[x].gen <= generation' /\ block[x].serves <= generation'
  BY <1>1 DEF Placed
<1> QED
  BY <1>2 DEF Placed, Committed

LEMMA PlacedStep ==
  ASSUME TypeOK, NEW x \in Txs, BlockHolds(x), Placed(x), BlockNext(x)
  PROVE  Placed(x)'
<1>a. block[x] \in BlockType /\ generation \in Nat /\ generation' = generation
  BY StepBeside DEF TypeOK
<1>b. /\ block[x].gen \in Nat /\ block[x].serves \in Nat
      /\ block[x].gen <= generation /\ block[x].serves <= generation
      /\ x \in DOMAIN block /\ x \in DOMAIN srv
  BY <1>a DEF BlockType, Placed, TypeOK
<1>c. ASSUME block'[x].gen = block[x].gen, block'[x].serves = block[x].serves,
             block[x].serves = block[x].gen, block'[x].pc \in {"committing", "firing", "ended"}
      PROVE  Placed(x)'
  BY <1>a, <1>b, <1>c DEF Placed, Committed
<1>1. CASE OpenBlock(x) \/ BeginBlock(x)
  <2>1. x \notin asked /\ asked' = asked /\ srv'[x] # "committed"
    BY <1>1, <1>b DEF OpenBlock, BeginBlock, BlockHolds, Committing, Fresh, server
  <2>2. CASE OpenBlock(x)
    <3>1. block'[x] = [block[x] EXCEPT !.pc = "opening", !.gen = generation]
      BY <1>b, <2>2 DEF OpenBlock
    <3>2. block'[x].pc = "opening" /\ block'[x].gen = generation /\ block'[x].serves = block[x].serves
      BY <1>a, <3>1 DEF BlockType
    <3> QED
      BY <1>a, <1>b, <2>1, <3>2 DEF Placed, Committed
  <2>3. CASE BeginBlock(x)
    <3>1. PICK kind \in {"interactive", "buffered"}, serves \in block[x].gen .. generation :
            block' = [block EXCEPT ![x].pc = "body", ![x].kind = kind, ![x].serves = serves]
      BY <2>3 DEF BeginBlock
    <3>2. block'[x] = [block[x] EXCEPT !.pc = "body", !.kind = kind, !.serves = serves]
      BY <1>b, <3>1
    <3>3. block'[x].pc = "body" /\ block'[x].gen = block[x].gen /\ block'[x].serves = serves
      BY <1>a, <3>2 DEF BlockType
    <3> QED
      BY <1>a, <1>b, <2>1, <3>3 DEF Placed, Committed
  <2> QED
    BY <1>1, <2>2, <2>3
<1>2. CASE SendCommit(x) \/ CommitEmpty(x)
  <2>1. block[x].pc = "body" /\ block[x].gen = generation
    BY <1>2 DEF SendCommit, CommitEmpty, BodyReturns, Retired
  <2>2. block[x].serves = block[x].gen
    BY <1>a, <1>b, <2>1 DEF Placed
  <2>3. \E pc \in {"committing", "firing"} : block'[x] = [block[x] EXCEPT !.pc = pc]
    BY <1>2, <1>b DEF SendCommit, CommitEmpty
  <2>4. /\ block'[x].pc \in {"committing", "firing"}
        /\ block'[x].gen = block[x].gen /\ block'[x].serves = block[x].serves
    BY <1>a, <2>3 DEF BlockType
  <2> QED
    BY <1>c, <2>2, <2>4
<1>3. CASE BodyRaises(x) \/ ExitRetired(x) \/ ExitFailed(x) \/ CommitRefused(x) \/ LoseCommit(x)
  <2>1. PICK e \in {"error", "conflict"} : SendCancel(x, e)
    BY <1>3 DEF BodyRaises, ExitRetired, ExitFailed, Cancel, CommitRefused, LoseCommit, CommitRaises
  <2>2. asked' = asked /\ srv' = srv
    BY <1>3 DEF BodyRaises, ExitRetired, ExitFailed, CommitRefused, LoseCommit, CommitRaises
  <2>3. block'[x] = [block[x] EXCEPT !.pc = IF Interactive(x) THEN "cancelling" ELSE "ended",
                                     !.raising = e]
    BY <1>b, <2>1 DEF SendCancel
  <2>4. /\ block'[x].pc \in {"cancelling", "ended"} /\ block'[x].raising # "none"
        /\ block'[x].gen = block[x].gen /\ block'[x].serves = block[x].serves
    BY <1>a, <2>3 DEF BlockType
  <2> QED
    BY <1>a, <1>b, <2>2, <2>4 DEF Placed, Committed
<1>4. CASE BeginRaises(x) \/ BodyCancelled(x) \/ AbandonCommit(x) \/ AbandonCancel(x)
  <2>1. \E e \in {"error", "cancelled"} : block'[x] = [block[x] EXCEPT !.pc = "ended", !.raising = e]
    BY <1>4, <1>b DEF BeginRaises, BodyCancelled, AbandonCommit, AbandonCancel
  <2>2. /\ block'[x].pc = "ended" /\ block'[x].raising # "none"
        /\ block'[x].gen = block[x].gen /\ block'[x].serves = block[x].serves
    BY <1>a, <2>1 DEF BlockType
  <2>3. asked' = asked /\ srv' = srv
    BY <1>4 DEF BeginRaises, BodyCancelled, AbandonCommit, AbandonCancel, server
  <2> QED
    BY <1>a, <1>b, <2>2, <2>3 DEF Placed, Committed
<1>5. CASE EndCancel(x) \/ LoseCancel(x)
  <2>1. block[x].pc = "cancelling" /\ block'[x] = [block[x] EXCEPT !.pc = "ended"]
    BY <1>5, <1>b DEF EndCancel, LoseCancel
  <2>2. /\ block'[x].pc = "ended" /\ block'[x].raising = block[x].raising
        /\ block'[x].gen = block[x].gen /\ block'[x].serves = block[x].serves
    BY <1>a, <2>1 DEF BlockType
  <2>3. asked' = asked /\ srv' = srv
    BY <1>5 DEF EndCancel, LoseCancel, server
  <2> QED
    BY <1>a, <1>b, <2>1, <2>2, <2>3 DEF Placed, Committed
<1>6. CASE ReceiveCommit(x) \/ FireRaises(x) \/ EndBlock(x)
  <2>1. block[x].pc \in {"committing", "firing"}
    BY <1>6 DEF ReceiveCommit, FireRaises, EndBlock
  <2>2. \/ \E pc \in {"firing", "ended"} : block'[x] = [block[x] EXCEPT !.pc = pc]
        \/ \E e \in {"error", "conflict", "cancelled"} :
             block'[x] = [block[x] EXCEPT !.pc = "ended", !.raising = e]
    BY <1>6, <1>b DEF ReceiveCommit, FireRaises, EndBlock
  <2>3. /\ block'[x].pc \in {"firing", "ended"}
        /\ block'[x].gen = block[x].gen /\ block'[x].serves = block[x].serves
    BY <1>a, <2>2 DEF BlockType
  <2> QED
    BY <1>c, <2>1, <2>3 DEF Placed, Committed
<1>7. CASE HandleCommit(x)
  <2>1. x \in asked /\ block[x].serves = block[x].gen
    BY <1>7 DEF HandleCommit, Placed, Committed
  <2>2. block'[x] = block[x] \/ \E answer : block'[x] = [block[x] EXCEPT !.answer = answer]
    BY <1>7, <1>b DEF HandleCommit
  <2>3. /\ block'[x].pc = block[x].pc /\ block'[x].raising = block[x].raising
        /\ block'[x].gen = block[x].gen /\ block'[x].serves = block[x].serves
    BY <1>a, <2>2 DEF BlockType
  <2> QED
    BY <1>a, <1>b, <2>1, <2>3 DEF Placed, Committed
<1>8. CASE CloseConnection(x)
  <2>1. block'[x] = [block[x] EXCEPT !.closed = TRUE]
    BY <1>8, <1>b DEF CloseConnection
  <2>2. /\ block'[x].pc = block[x].pc /\ block'[x].raising = block[x].raising
        /\ block'[x].gen = block[x].gen /\ block'[x].serves = block[x].serves
    BY <1>a, <2>1 DEF BlockType
  <2>3. x \notin asked' /\ (srv'[x] = "committed" => srv[x] = "committed")
    BY <1>8, <1>b DEF CloseConnection
  <2> QED
    BY <1>a, <1>b, <2>2, <2>3 DEF Placed, Committed
<1>9. CASE HandleCancel(x) \/ FireNext(x)
  <2>1. /\ block' = block /\ asked' = asked
        /\ srv'[x] = "committed" => srv[x] = "committed"
    BY <1>9, <1>b DEF HandleCancel, FireNext, server
  <2> QED
    BY <1>a, <1>b, <2>1 DEF Placed, Committed
<1> QED
  BY <1>1, <1>2, <1>3, <1>4, <1>5, <1>6, <1>7, <1>8, <1>9 DEF BlockNext

(* What becomes visible of a block, and what a caller is told went well,   *)
(* is on a client of the settings the block was opened under, however      *)
(* often they change while it opens, runs and commits (transaction()).     *)
THEOREM WritesStayWhereOpened == Spec => []WritesWhereOpened
<1> DEFINE I == \A x \in Txs : Placed(x)
<1>1. Init => I
  BY DEF Init, Placed, Committed, NewBlock
<1>2. BlockInv /\ I /\ [Next]_vars => I'
  <2> SUFFICES ASSUME BlockInv, I, [Next]_vars, NEW x \in Txs
               PROVE  Placed(x)'
    OBVIOUS
  <2>1. TypeOK /\ FailuresNoted /\ BlockHolds(x)
    BY BlocksHold DEF BlockInv
  <2>2. ASSUME NEW y \in Txs, NEW s \in Slots, StatementStep(y, s)
        PROVE  Placed(x)'
    <3>1. UNCHANGED <<block, srv, asked, generation>>
      BY <2>1, <2>2, StepsElsewhere, StatementBeside DEF Elsewhere
    <3> QED
      BY <2>1, <3>1, PlacedKept
  <2>3. ASSUME NEW y \in Txs, BlockNext(y)
        PROVE  Placed(x)'
    <3>1. CASE y = x
      BY <2>1, <2>3, <3>1, PlacedStep
    <3>2. CASE y # x
      <4>1. /\ block'[x] = block[x] /\ srv'[x] = srv[x] /\ (x \in asked' <=> x \in asked)
            /\ generation' = generation
        BY <2>1, <2>3, <3>2, BlockBeside, StepBeside DEF Beside
      <4> QED
        BY <2>1, <4>1, PlacedKept
    <3> QED
      BY <3>1, <3>2
  <2>4. ASSUME UNCHANGED <<block, srv, asked>>,
               generation' = generation \/ generation' = generation + 1
        PROVE  Placed(x)'
    BY <2>1, <2>4, PlacedKept
  <2>5. CASE ChangeSettings \/ UNCHANGED vars
    BY <2>4, <2>5 DEF ChangeSettings, server, vars
  <2> QED
    BY <2>2, <2>3, <2>4, <2>5, Steps DEF server
<1>3. BlockInv /\ I => WritesWhereOpened
  <2> SUFFICES ASSUME BlockInv, I, NEW x \in Txs,
                      \/ Visible(x) # {}
                      \/ block[x].pc = "firing"
                      \/ block[x].pc = "ended" /\ block[x].raising = "none"
               PROVE  block[x].serves = block[x].gen
    BY DEF WritesWhereOpened
  <2>1. Visible(x) # {} => srv[x] = "committed"
    BY DEF BlockInv, CommitsSettled
  <2> QED
    BY <2>1 DEF Placed, Committed
<1> QED
  BY <1>1, <1>2, <1>3, BlockInvariant, PTL DEF Spec

(* What ends a block: the server has ended its transaction, or will, or    *)
(* its client refuses everything; and a batch is open while it is asked.   *)
HalfOpen(x) ==
  /\ block[x].serves <= generation
  /\ ~Interactive(x) /\ srv[x] = "open" => x \in asked
  /\ block[x].pc = "firing" => srv[x] # "open"
  /\ block[x].pc \in {"cancelling", "ended"} =>
       srv[x] # "open" \/ x \in asked \cup dropping \/ Refusing(x)

LEMMA HalfOpenKept ==
  ASSUME TypeOK, NEW x \in Txs, HalfOpen(x), block'[x] = block[x], srv'[x] = srv[x],
         x \in asked' <=> x \in asked, x \in dropping' <=> x \in dropping,
         generation' = generation \/ generation' = generation + 1
  PROVE  HalfOpen(x)'
<1>1. block[x].serves \in Nat /\ generation \in Nat
  BY DEF TypeOK, BlockType
<1>2. block[x].serves <= generation /\ block[x].serves <= generation'
  BY <1>1 DEF HalfOpen
<1>3. Refusing(x) => Refusing(x)'
  BY <1>1, <1>2 DEF HalfOpen, Refusing, Interactive
<1> QED
  BY <1>2, <1>3 DEF HalfOpen, Interactive

LEMMA HalfOpenStep ==
  ASSUME TypeOK, NEW x \in Txs, BlockHolds(x), HalfOpen(x), BlockNext(x),
         "cancelled" \notin Faults, "lost_cancel" \notin Faults
  PROVE  HalfOpen(x)'
<1>a. block[x] \in BlockType /\ generation \in Nat /\ generation' = generation
  BY StepBeside DEF TypeOK
<1>b. block[x].serves \in Nat /\ block[x].serves <= generation /\ x \in DOMAIN block /\ x \in DOMAIN srv
  BY <1>a DEF BlockType, HalfOpen, TypeOK
<1>c. ASSUME NEW e, SendCancel(x, e), block[x].pc \in {"body", "committing"}, srv' = srv, asked' = asked
      PROVE  HalfOpen(x)'
  <2>1. block'[x] = [block[x] EXCEPT !.pc = IF Interactive(x) THEN "cancelling" ELSE "ended", !.raising = e]
    BY <1>b, <1>c DEF SendCancel
  <2>2. /\ block'[x].pc = IF Interactive(x) THEN "cancelling" ELSE "ended"
        /\ block'[x].kind = block[x].kind /\ block'[x].serves = block[x].serves /\ block'[x].closed = block[x].closed
    BY <1>a, <2>1 DEF BlockType
  <2>3. Interactive(x) /\ ~Refusing(x) => x \in dropping'
    BY <1>c DEF SendCancel
  <2> QED
    BY <1>a, <1>b, <1>c, <2>2, <2>3 DEF HalfOpen, Interactive, Refusing
<1>1. CASE OpenBlock(x)
  <2>1. block'[x].pc = "opening" /\ block'[x].serves = block[x].serves /\ block'[x].kind = block[x].kind
    BY <1>1, <1>a, <1>b DEF OpenBlock, BlockType
  <2> QED
    BY <1>1, <1>a, <2>1 DEF OpenBlock, HalfOpen, Interactive, server
<1>2. CASE BeginBlock(x)
  <2>1. PICK kind \in {"interactive", "buffered"}, serves \in block[x].gen .. generation :
          /\ block' = [block EXCEPT ![x].pc = "body", ![x].kind = kind, ![x].serves = serves]
          /\ srv' = IF kind = "interactive" THEN [srv EXCEPT ![x] = "open"] ELSE srv
    BY <1>2 DEF BeginBlock
  <2>2. /\ block'[x].pc = "body" /\ block'[x].kind = kind
        /\ block'[x].serves = serves /\ block[x].gen \in Nat
    BY <1>a, <1>b, <2>1 DEF BlockType
  <2>3. srv[x] = "none"
    BY <1>2 DEF BeginBlock, BlockHolds, Fresh
  <2> QED
    BY <1>a, <1>b, <2>1, <2>2, <2>3 DEF HalfOpen, Interactive
<1>3. CASE BeginRaises(x)
  <2>1. block'[x].pc = "ended" /\ block'[x].serves = block[x].serves
    BY <1>3, <1>a, <1>b DEF BeginRaises, BlockType
  <2>2. srv[x] = "none" /\ srv' = srv
    BY <1>3 DEF BeginRaises, BlockHolds, Fresh, server
  <2> QED
    BY <1>a, <1>b, <2>1, <2>2 DEF HalfOpen
<1>4. CASE BodyRaises(x) \/ ExitRetired(x) \/ ExitFailed(x) \/ CommitRefused(x) \/ LoseCommit(x)
  <2>1. \E e : SendCancel(x, e)
    BY <1>4 DEF BodyRaises, ExitRetired, ExitFailed, Cancel, CommitRefused, LoseCommit, CommitRaises
  <2>2. block[x].pc \in {"body", "committing"} /\ srv' = srv /\ asked' = asked
    BY <1>4 DEF BodyRaises, ExitRetired, ExitFailed, BodyReturns, CommitRefused, LoseCommit,
       CommitRaises
  <2> QED
    BY <1>c, <2>1, <2>2
<1>5. CASE SendCommit(x)
  <2>1. block'[x].pc = "committing" /\ block'[x].serves = block[x].serves /\ block'[x].kind = block[x].kind
    BY <1>5, <1>a, <1>b DEF SendCommit, BlockType
  <2>2. Interactive(x) => srv' = srv
    BY <1>5 DEF SendCommit
  <2>3. ~Interactive(x) => x \in asked'
    BY <1>5 DEF SendCommit, Refusing
  <2> QED
    BY <1>a, <1>b, <2>1, <2>2, <2>3 DEF HalfOpen, Interactive
<1>6. CASE CommitEmpty(x)
  <2>1. block'[x].pc = "firing" /\ block'[x].serves = block[x].serves /\ block'[x].kind = block[x].kind
    BY <1>6, <1>a, <1>b DEF CommitEmpty, BlockType
  <2>2. ~Interactive(x) /\ x \notin asked /\ srv' = srv /\ asked' = asked
    BY <1>6 DEF CommitEmpty, BodyReturns, BlockHolds, Committing, server
  <2> QED
    BY <1>a, <1>b, <2>1, <2>2 DEF HalfOpen, Interactive
<1>7. CASE ReceiveCommit(x)
  <2>1. block'[x].pc = "firing" /\ block'[x].serves = block[x].serves /\ block'[x].kind = block[x].kind
    BY <1>7, <1>a, <1>b DEF ReceiveCommit, BlockType
  <2>2. srv[x] = "committed" /\ srv' = srv
    BY <1>7 DEF ReceiveCommit, BlockHolds, Waiting, server
  <2> QED
    BY <1>a, <1>b, <2>1, <2>2 DEF HalfOpen, Interactive
<1>8. CASE HandleCommit(x)
  <2>1. block'[x].pc = block[x].pc /\ block'[x].serves = block[x].serves /\ block'[x].kind = block[x].kind
    BY <1>8, <1>a, <1>b DEF HandleCommit, BlockType
  <2>2. srv'[x] \in {"committed", "rolledback"}
    BY <1>8, <1>b DEF HandleCommit
  <2> QED
    BY <1>a, <1>b, <2>1, <2>2 DEF HalfOpen, Interactive
<1>9. CASE CloseConnection(x)
  <2>1. block'[x].pc = block[x].pc /\ block'[x].serves = block[x].serves /\ block'[x].kind = block[x].kind
    BY <1>9, <1>a, <1>b DEF CloseConnection, BlockType
  <2>2. srv'[x] # "open"
    BY <1>9, <1>b DEF CloseConnection
  <2> QED
    BY <1>a, <1>b, <2>1, <2>2 DEF HalfOpen, Interactive
<1>10. CASE HandleCancel(x)
  <2>1. block' = block /\ srv'[x] # "open"
    BY <1>10, <1>b DEF HandleCancel
  <2> QED
    BY <1>a, <1>b, <2>1 DEF HalfOpen, Interactive
<1>11. CASE EndCancel(x)
  <2>1. /\ block'[x].pc = "ended" /\ block'[x].serves = block[x].serves /\ block'[x].kind = block[x].kind
        /\ block'[x].closed = block[x].closed
    BY <1>11, <1>a, <1>b DEF EndCancel, BlockType
  <2>2. block[x].pc = "cancelling" /\ UNCHANGED <<srv, asked, dropping>>
    BY <1>11 DEF EndCancel, server
  <2> QED
    BY <1>a, <1>b, <2>1, <2>2 DEF HalfOpen, Interactive, Refusing
<1>12. CASE FireNext(x)
  <2>1. UNCHANGED <<block, srv, asked, dropping>>
    BY <1>12 DEF FireNext, server
  <2> QED
    BY <1>a, <2>1, HalfOpenKept
<1>13. CASE FireRaises(x) \/ EndBlock(x)
  <2>1. /\ block[x].pc = "firing" /\ block'[x].pc = "ended" /\ block'[x].serves = block[x].serves
        /\ block'[x].kind = block[x].kind
    BY <1>13, <1>a, <1>b DEF FireRaises, EndBlock, BlockType
  <2>2. UNCHANGED <<srv, asked, dropping>>
    BY <1>13 DEF FireRaises, EndBlock, server
  <2> QED
    BY <1>a, <1>b, <2>1, <2>2 DEF HalfOpen, Interactive
<1>14. ~(BodyCancelled(x) \/ AbandonCommit(x) \/ LoseCancel(x) \/ AbandonCancel(x))
  BY DEF BodyCancelled, AbandonCommit, LoseCancel, AbandonCancel
<1> QED
  BY <1>1, <1>2, <1>3, <1>4, <1>5, <1>6, <1>7, <1>8, <1>9, <1>10, <1>11, <1>12, <1>13, <1>14
     DEF BlockNext

(* A block that is over leaves no transaction open on its connection,      *)
(* unless what ends it is on its way, as long as no task is cancelled and  *)
(* no cancel is lost (transaction(): "we never leave it half-open").       *)
THEOREM BlocksAreEnded ==
  ASSUME "cancelled" \notin Faults, "lost_cancel" \notin Faults
  PROVE  Spec => []NoneHalfOpen
<1> DEFINE I == \A x \in Txs : HalfOpen(x)
<1>1. Init => I
  BY DEF Init, HalfOpen, NewBlock, Interactive
<1>2. BlockInv /\ I /\ [Next]_vars => I'
  <2> SUFFICES ASSUME BlockInv, I, [Next]_vars, NEW x \in Txs
               PROVE  HalfOpen(x)'
    OBVIOUS
  <2>1. TypeOK /\ FailuresNoted /\ BlockHolds(x)
    BY BlocksHold DEF BlockInv
  <2>2. ASSUME NEW y \in Txs, NEW s \in Slots, StatementStep(y, s)
        PROVE  HalfOpen(x)'
    <3>1. UNCHANGED <<block, srv, asked, dropping, generation>>
      BY <2>1, <2>2, StepsElsewhere, StatementBeside DEF Elsewhere
    <3> QED
      BY <2>1, <3>1, HalfOpenKept
  <2>3. ASSUME NEW y \in Txs, BlockNext(y)
        PROVE  HalfOpen(x)'
    <3>1. CASE y = x
      BY <2>1, <2>3, <3>1, HalfOpenStep
    <3>2. CASE y # x
      <4>1. /\ block'[x] = block[x] /\ srv'[x] = srv[x] /\ (x \in asked' <=> x \in asked)
            /\ (x \in dropping' <=> x \in dropping) /\ generation' = generation
        BY <2>1, <2>3, <3>2, BlockBeside, StepBeside DEF Beside
      <4> QED
        BY <2>1, <4>1, HalfOpenKept
    <3> QED
      BY <3>1, <3>2
  <2>4. ASSUME UNCHANGED <<block, srv, asked, dropping>>,
               generation' = generation \/ generation' = generation + 1
        PROVE  HalfOpen(x)'
    BY <2>1, <2>4, HalfOpenKept
  <2>5. CASE ChangeSettings \/ UNCHANGED vars
    BY <2>4, <2>5 DEF ChangeSettings, server, vars
  <2> QED
    BY <2>2, <2>3, <2>4, <2>5, Steps DEF server
<1>3. I => NoneHalfOpen
  BY DEF HalfOpen, NoneHalfOpen
<1> QED
  BY <1>1, <1>2, <1>3, BlockInvariant, PTL DEF Spec

-----------------------------------------------------------------------------
(***************************************************************************)
(* The query cache is told of what a commit changed: the notes count the   *)
(* writes that may be in it, one by one.                                   *)
(***************************************************************************)
(* A write that was noted, and not withdrawn since (_withdraw_write()).    *)
Noted(o) == o.kind = "write" /\ ~(o.result = "refused" /\ ~o.reached)

NotedOfAll(x) == {s \in Slots : Noted(op[x][s]) /\ op[x][s].target = Every}
NotedOf(x, t) == {s \in Slots : Noted(op[x][s]) /\ op[x][s].target # Every /\ t \in op[x][s].target}

Counts(x) ==
  /\ notes[x].all = Cardinality(NotedOfAll(x))
  /\ \A t \in Tables : notes[x].tables[t] = Cardinality(NotedOf(x, t))

(* The writes around a statement under way are open.                       *)
Nested(x) ==
  \A i \in Slots :
    /\ Busy(op[x][i]) => \A s \in op[x][i].outer : op[x][s].pc = "open"
    /\ op[x][i].pc = "idle" => op[x][i].kind = "read"

NotesHold(x) ==
  /\ Nested(x)
  /\ block[x].pc \in {"none", "opening", "body", "committing"} => Counts(x)

Marked(o, p) == Same(o, p) /\ o.target = p.target /\ o.outer = p.outer

(* The other statements of a block, when one steps.                        *)
Around(x, s) ==
  \A i \in Slots : i # s => Marked(op'[x][i], op[x][i]) /\ (Noted(op'[x][i]) <=> Noted(op[x][i]))

LEMMA NestShape ==
  ASSUME TypeOK, NEW x \in Txs, NEW s \in Slots, NEW o \in OpType,
         \A i \in Slots : SlotInv(x, i),
         \/ Becomes(x, s, o)
         \/ Reaching(x, s, o) /\ \A i \in o.outer : op[x][i].pc = "open"
  PROVE  /\ Around(x, s) /\ Marked(op'[x][s], o)
         /\ Noted(op'[x][s]) <=> (Noted(o) \/ (o.kind = "write" /\ ~Becomes(x, s, o)))
<1>1. CASE Becomes(x, s, o)
  <2>1. op'[x][s] = o /\ \A i \in Slots : i # s => op'[x][i] = op[x][i]
    BY <1>1 DEF Becomes, TypeOK
  <2>2. \A p : Marked(p, p)
    BY DEF Marked, Same
  <2> QED
    BY <1>1, <2>1, <2>2 DEF Around, Noted
<1>2. CASE Reaching(x, s, o) /\ ~Becomes(x, s, o) /\ \A i \in o.outer : op[x][i].pc = "open"
  <2>1. \A i \in Slots : op'[x][i] = IF i = s THEN [o EXCEPT !.reached = TRUE]
                          ELSE IF i \in o.outer THEN [op[x][i] EXCEPT !.reached = TRUE]
                          ELSE op[x][i]
    BY <1>2 DEF Reaching, TypeOK
  <2>2. \A p \in OpType : Marked([p EXCEPT !.reached = TRUE], p) /\ [p EXCEPT !.reached = TRUE].reached
    BY DEF Marked, Same, OpType
  <2>3. \A p : Marked(p, p)
    BY DEF Marked, Same
  <2>4. \A i \in Slots : op[x][i] \in OpType
    BY DEF TypeOK
  <2>5. Marked(op'[x][s], o) /\ op'[x][s].reached
    BY <2>1, <2>2
  <2>6. ASSUME NEW i \in Slots, i # s
        PROVE  Marked(op'[x][i], op[x][i]) /\ (Noted(op'[x][i]) <=> Noted(op[x][i]))
    <3>1. CASE i \in o.outer
      <4>1. op[x][i].result = "none"
        BY <1>2, <3>1 DEF SlotInv
      <4>2. Marked(op'[x][i], op[x][i])
        BY <2>1, <2>2, <2>4, <2>6, <3>1
      <4> QED
        BY <4>1, <4>2 DEF Marked, Same, Noted
    <3>2. CASE i \notin o.outer
      BY <2>1, <2>3, <2>6, <3>2
    <3> QED
      BY <3>1, <3>2
  <2>7. Noted(op'[x][s]) <=> o.kind = "write"
    BY <2>5 DEF Marked, Same, Noted
  <2> QED
    BY <1>2, <2>5, <2>6, <2>7 DEF Around, Noted
<1> QED
  BY <1>1, <1>2

LEMMA NestedKept ==
  ASSUME TypeOK, NEW x \in Txs, NEW s \in Slots, NEW o \in OpType, Nested(x),
         Around(x, s), Marked(op'[x][s], o), o.pc # "idle",
         Busy(o) => \A i \in o.outer : op[x][i].pc = "open" /\ i # s,
         op[x][s].pc = "open" /\ o.pc # "open" => Innermost(x, s)
  PROVE  Nested(x)'
<1>1. ASSUME NEW i \in Slots, Busy(op'[x][i]), NEW j \in op'[x][i].outer
      PROVE  op'[x][j].pc = "open"
  <2>0. op[x][i].outer \subseteq Slots /\ o.outer \subseteq Slots
    BY DEF TypeOK, OpType
  <2>1. CASE i = s
    <3>1. op[x][j].pc = "open" /\ j # s /\ j \in Slots
      BY <1>1, <2>0, <2>1 DEF Marked, Same, Busy
    <3> QED
      BY <3>1 DEF Around, Marked, Same
  <2>2. CASE i # s
    <3>1. Busy(op[x][i]) /\ j \in op[x][i].outer /\ j \in Slots
      BY <1>1, <2>0, <2>2 DEF Around, Marked, Same, Busy
    <3>2. op[x][j].pc = "open"
      BY <3>1 DEF Nested
    <3>3. CASE j # s
      BY <3>1, <3>2, <3>3 DEF Around, Marked, Same
    <3>4. CASE j = s
      <4>1. ~Innermost(x, s)
        BY <3>1, <3>4 DEF Innermost
      <4> QED
        BY <3>2, <3>4, <4>1 DEF Marked, Same
    <3> QED
      BY <3>3, <3>4
  <2> QED
    BY <2>1, <2>2
<1>2. ASSUME NEW i \in Slots, op'[x][i].pc = "idle"
      PROVE  op'[x][i].kind = "read"
  BY <1>2 DEF Nested, Around, Marked, Same
<1> QED
  BY <1>1, <1>2 DEF Nested

(* The chains a statement may start in are open.                           *)
LEMMA ChainsOpen ==
  ASSUME TypeOK, NEW x \in Txs, Nested(x), NEW outer \in Chains(x)
  PROVE  \A i \in outer : op[x][i].pc = "open"
<1>1. CASE outer = {}
  BY <1>1
<1>2. CASE outer # {}
  <2>1. PICK s \in Slots : outer = {s} \cup op[x][s].outer /\ op[x][s].pc = "open"
    BY <1>2 DEF Chains
  <2>2. \A i \in op[x][s].outer : op[x][i].pc = "open"
    BY <2>1 DEF Nested, Busy
  <2> QED
    BY <2>1, <2>2
<1> QED
  BY <1>1, <1>2

(* What a step of a statement does to the notes, and to what they count.   *)
Starts(x, s) ==
  \E target \in Targets :
    /\ ~Noted(op[x][s]) /\ Noted(op'[x][s]) /\ op'[x][s].target = target
    /\ notes' = [notes EXCEPT ![x] = Counted(@, target)] /\ block[x].pc = "body"

Withdraws(x, s) ==
  /\ Noted(op[x][s]) /\ ~Noted(op'[x][s]) /\ Busy(op[x][s])
  /\ notes' = [notes EXCEPT ![x] = Uncounted(@, op[x][s].target)]

Keeps(x, s) ==
  /\ notes' = notes /\ (Noted(op'[x][s]) <=> Noted(op[x][s]))
  /\ Noted(op[x][s]) => op'[x][s].target = op[x][s].target

LEMMA StatementNotes ==
  ASSUME TypeOK, NEW x \in Txs, NEW s \in Slots, Nested(x), \A i \in Slots : SlotInv(x, i), StatementStep(x, s)
  PROVE  /\ Nested(x)' /\ Around(x, s)
         /\ Starts(x, s) \/ Withdraws(x, s) \/ Keeps(x, s)
<1>a. op[x][s] \in OpType
  BY DEF TypeOK
<1>b. Busy(op[x][s]) => \A i \in op[x][s].outer : op[x][i].pc = "open"
  BY DEF Nested
<1>c. op[x][s].pc # "done" => op[x][s].result = "none"
  BY DEF SlotInv
<1>i. op[x][s].pc = "idle" => op[x][s].kind = "read" /\ ~Noted(op[x][s])
  BY DEF Nested, Noted
<1>1. CASE StartWrite(x, s)
  <2>1. PICK target \in Targets, outer \in Chains(x) :
          /\ block[x].pc = "body" /\ op[x][s].pc = "idle"
          /\ Becomes(x, s, [IdleOp EXCEPT !.pc = "open", !.kind = "write",
                                          !.target = target, !.outer = outer])
          /\ notes' = [notes EXCEPT ![x] = Counted(@, target)]
    BY <1>1 DEF StartWrite
  <2>2. PICK o : o = [IdleOp EXCEPT !.pc = "open", !.kind = "write", !.target = target, !.outer = outer]
    OBVIOUS
  <2>3. /\ o \in OpType /\ o.pc = "open" /\ o.kind = "write" /\ o.target = target /\ o.outer = outer
        /\ o.result = "none"
    BY <2>2, IdleOpType, ChainsType, TransactionAssumption DEF OpType, IdleOp
  <2>4. \A i \in outer : op[x][i].pc = "open"
    BY ChainsOpen
  <2>5. Becomes(x, s, o)
    BY <2>1, <2>2
  <2>6. Around(x, s) /\ Marked(op'[x][s], o) /\ Noted(op'[x][s])
    BY <2>3, <2>5, NestShape DEF Noted
  <2>7. Nested(x)'
    BY <2>1, <2>3, <2>4, <2>6, NestedKept
  <2>8. Starts(x, s)
    BY <1>i, <2>1, <2>3, <2>6 DEF Starts, Marked
  <2> QED
    BY <2>6, <2>7, <2>8
<1>2. CASE RefuseWrite(x, s)
  <2>2. PICK o : o = [op[x][s] EXCEPT !.pc = "done", !.result = "refused"]
    OBVIOUS
  <2>3. /\ o \in OpType /\ o.pc = "done" /\ o.kind = op[x][s].kind /\ o.target = op[x][s].target
        /\ o.result = "refused" /\ o.reached = op[x][s].reached
    BY <1>a, <2>2 DEF OpType
  <2>4. Becomes(x, s, o) /\ op[x][s].pc = "open" /\ Innermost(x, s)
    BY <1>2, <2>2 DEF RefuseWrite
  <2>5. Around(x, s) /\ Marked(op'[x][s], o) /\ (Noted(op'[x][s]) <=> Noted(o))
    BY <2>3, <2>4, NestShape
  <2>6. Nested(x)'
    BY <2>3, <2>4, <2>5, NestedKept DEF Busy
  <2>7. op[x][s].kind = "write" /\ Noted(op[x][s]) /\ Busy(op[x][s])
    BY <1>c, <2>4 DEF SlotInv, Noted, Busy
  <2>8. CASE op[x][s].reached
    <3>1. notes' = notes
      BY <1>2, <2>8 DEF RefuseWrite
    <3> QED
      BY <2>3, <2>5, <2>6, <2>7, <2>8, <3>1 DEF Keeps, Noted, Marked
  <2>9. CASE ~op[x][s].reached
    <3>1. notes' = [notes EXCEPT ![x] = Uncounted(@, op[x][s].target)]
      BY <1>2, <2>9 DEF RefuseWrite
    <3> QED
      BY <2>3, <2>5, <2>6, <2>7, <2>9, <3>1 DEF Withdraws, Noted
  <2> QED
    BY <2>8, <2>9
<1>3. ASSUME NEW o \in OpType, Becomes(x, s, o) \/ Reaching(x, s, o), op[x][s].pc = "open" => Innermost(x, s),
             o.pc # "idle", o.kind = op[x][s].kind, o.target = op[x][s].target, o.outer = op[x][s].outer,
             o.result # "refused", Busy(op[x][s]), notes' = notes
      PROVE  Nested(x)' /\ Around(x, s) /\ Keeps(x, s)
  <2>1. \A i \in o.outer : op[x][i].pc = "open" /\ i # s
    BY <1>3, <1>b DEF Innermost
  <2>2. Around(x, s) /\ Marked(op'[x][s], o) /\ (Noted(op'[x][s]) <=> o.kind = "write")
    BY <1>3, <2>1, NestShape DEF Noted
  <2>3. Nested(x)'
    BY <1>3, <2>1, <2>2, NestedKept
  <2>4. Noted(op[x][s]) <=> o.kind = "write"
    BY <1>3, <1>c DEF Noted, Busy
  <2> QED
    BY <1>3, <2>2, <2>3, <2>4 DEF Keeps, Marked
<1>4. CASE QueueWrite(x, s) \/ SendWrite(x, s)
  <2>1. PICK pc \in {"done", "sent"}, r \in {"ok", "none"} :
          Reaching(x, s, [op[x][s] EXCEPT !.pc = pc, !.result = r])
    <3>1. op[x][s].result = "none"
      BY <1>4, <1>c DEF QueueWrite, SendWrite
    <3>2. [op[x][s] EXCEPT !.pc = "sent", !.result = "none"] = [op[x][s] EXCEPT !.pc = "sent"]
      BY <3>1, <1>a DEF OpType
    <3> QED
      BY <1>4, <3>2 DEF QueueWrite, SendWrite
  <2>2. PICK o : o = [op[x][s] EXCEPT !.pc = pc, !.result = r]
    OBVIOUS
  <2>3. /\ o \in OpType /\ o.pc # "idle" /\ o.kind = op[x][s].kind /\ o.target = op[x][s].target
        /\ o.outer = op[x][s].outer /\ o.result # "refused"
    BY <1>a, <2>2 DEF OpType
  <2>4. Busy(op[x][s]) /\ Innermost(x, s) /\ notes' = notes
    BY <1>4 DEF QueueWrite, SendWrite, Busy
  <2> QED
    BY <1>3, <2>1, <2>2, <2>3, <2>4
<1>5. CASE SendRead(x, s) \/ (SendFails(x, s) /\ op[x][s].pc # "open")
  <2>1. PICK outer \in Chains(x), pc \in {"sent", "done"}, r \in {"none", "refused", "failed"} :
          \/ Reaching(x, s, [IdleOp EXCEPT !.outer = outer, !.pc = pc, !.result = r])
          \/ Becomes(x, s, [IdleOp EXCEPT !.outer = outer, !.pc = pc, !.result = r])
    <3>1. CASE SendRead(x, s)
      <4>1. PICK outer \in Chains(x) :
              LET o == [IdleOp EXCEPT !.outer = outer] IN
              \/ Reaching(x, s, [o EXCEPT !.pc = "sent"])
              \/ Becomes(x, s, [o EXCEPT !.pc = "done", !.result = "refused"])
        BY <3>1 DEF SendRead
      <4>2. PICK p : p = [IdleOp EXCEPT !.outer = outer]
        OBVIOUS
      <4>3. p \in OpType /\ p.result = "none"
        BY <4>2, IdleOpType, ChainsType DEF OpType, IdleOp
      <4>4. [p EXCEPT !.pc = "sent"] = [p EXCEPT !.pc = "sent", !.result = "none"]
        BY <4>3 DEF OpType
      <4>5. /\ [p EXCEPT !.pc = "sent", !.result = "none"]
               = [IdleOp EXCEPT !.outer = outer, !.pc = "sent", !.result = "none"]
            /\ [p EXCEPT !.pc = "done", !.result = "refused"]
               = [IdleOp EXCEPT !.outer = outer, !.pc = "done", !.result = "refused"]
        BY <4>2
      <4> QED
        BY <4>1, <4>2, <4>4, <4>5
    <3>2. CASE SendFails(x, s) /\ op[x][s].pc # "open"
      <4>1. PICK outer \in Chains(x) :
              Reaching(x, s, [IdleOp EXCEPT !.outer = outer, !.pc = "done", !.result = "failed"])
        BY <3>2 DEF SendFails
      <4> QED
        BY <4>1
    <3> QED
      BY <1>5, <3>1, <3>2
  <2>2. PICK o : o = [IdleOp EXCEPT !.outer = outer, !.pc = pc, !.result = r]
    OBVIOUS
  <2>3. o \in OpType /\ o.pc \in {"sent", "done"} /\ o.kind = "read" /\ o.outer = outer
    BY <2>2, IdleOpType, ChainsType DEF OpType, IdleOp
  <2>4. op[x][s].pc = "idle" /\ notes' = notes
    BY <1>5 DEF SendRead, SendFails
  <2>5. \A i \in outer : op[x][i].pc = "open" /\ i # s
    BY <2>4, ChainsOpen
  <2>6. Around(x, s) /\ Marked(op'[x][s], o) /\ (Noted(op'[x][s]) <=> Noted(o))
    BY <2>1, <2>2, <2>3, <2>5, NestShape
  <2>7. Nested(x)'
    BY <2>3, <2>4, <2>5, <2>6, NestedKept
  <2> QED
    BY <1>i, <2>3, <2>4, <2>6, <2>7 DEF Keeps, Noted
<1>6. CASE SendFails(x, s) /\ op[x][s].pc = "open"
  <2>2. PICK o : o = [op[x][s] EXCEPT !.pc = "done", !.result = "failed"]
    OBVIOUS
  <2>3. /\ o \in OpType /\ o.pc # "idle" /\ o.kind = op[x][s].kind /\ o.target = op[x][s].target
        /\ o.outer = op[x][s].outer /\ o.result # "refused"
    BY <1>a, <2>2 DEF OpType
  <2>4. Busy(op[x][s]) /\ Innermost(x, s) /\ notes' = notes /\ Reaching(x, s, o)
    BY <1>6, <2>2 DEF SendFails, Busy
  <2> QED
    BY <1>3, <2>3, <2>4
<1>7. CASE ReceiveRows(x, s) \/ ReceiveError(x, s) \/ LoseStatement(x, s) \/ AnswerRead(x, s) \/ RelayRead(x, s)
  <2>1. PICK pc \in {"probing", "done"}, r \in {"none", "ok", "failed"}, a \in OpAnswers :
          Becomes(x, s, [op[x][s] EXCEPT !.pc = pc, !.result = r, !.answer = a])
    <3>1. op[x][s].result = "none" /\ op[x][s].answer \in OpAnswers
      BY <1>7, <1>c, <1>a DEF ReceiveRows, ReceiveError, LoseStatement, AnswerRead, RelayRead,
         OpType
    <3>2. /\ [op[x][s] EXCEPT !.pc = "done", !.result = "ok"]
             = [op[x][s] EXCEPT !.pc = "done", !.result = "ok", !.answer = op[x][s].answer]
          /\ [op[x][s] EXCEPT !.pc = "done", !.result = "failed"]
             = [op[x][s] EXCEPT !.pc = "done", !.result = "failed", !.answer = op[x][s].answer]
          /\ [op[x][s] EXCEPT !.pc = "probing"]
             = [op[x][s] EXCEPT !.pc = "probing", !.result = "none", !.answer = op[x][s].answer]
      BY <1>a, <3>1 DEF OpType
    <3>3. "none" \in OpAnswers
      BY DEF OpAnswers
    <3> QED
      BY <1>7, <3>1, <3>2, <3>3 DEF ReceiveRows, ReceiveError, LoseStatement, AnswerRead, RelayRead
  <2>2. PICK o : o = [op[x][s] EXCEPT !.pc = pc, !.result = r, !.answer = a]
    OBVIOUS
  <2>3. /\ o \in OpType /\ o.pc # "idle" /\ o.kind = op[x][s].kind /\ o.target = op[x][s].target
        /\ o.outer = op[x][s].outer /\ o.result # "refused"
    BY <1>a, <2>2 DEF OpType
  <2>4. Busy(op[x][s]) /\ op[x][s].pc # "open" /\ notes' = notes
    BY <1>7 DEF ReceiveRows, ReceiveError, LoseStatement, AnswerRead, RelayRead, Busy
  <2> QED
    BY <1>3, <2>1, <2>2, <2>3, <2>4
<1>8. CASE RunStatement(x, s)
  <2>1. PICK answer \in {"ok", "refused", "conflict", "missing"} :
          op' = IF op[x][s].pc = "sent" THEN [op EXCEPT ![x][s].answer = answer] ELSE op
    BY <1>8 DEF RunStatement
  <2>n. notes' = notes
    BY <1>8 DEF RunStatement
  <2>2. CASE op[x][s].pc = "sent"
    <3>1. PICK o : o = [op[x][s] EXCEPT !.answer = answer]
      OBVIOUS
    <3>2. /\ o \in OpType /\ o.pc = "sent" /\ o.kind = op[x][s].kind /\ o.target = op[x][s].target
          /\ o.outer = op[x][s].outer /\ o.result = op[x][s].result
      BY <1>a, <2>2, <3>1 DEF OpType, OpAnswers
    <3>3. Becomes(x, s, o)
      BY <2>1, <2>2, <3>1 DEF Becomes, TypeOK
    <3> QED
      BY <1>3, <1>c, <2>2, <2>n, <3>2, <3>3 DEF Busy
  <2>3. CASE op[x][s].pc # "sent"
    <3>1. op' = op
      BY <2>1, <2>3
    <3>2. Nested(x)'
      BY <3>1 DEF Nested, Busy
    <3> QED
      BY <2>n, <3>1, <3>2 DEF Around, Marked, Same, Keeps
  <2> QED
    BY <2>2, <2>3
<1> QED
  BY <1>1, <1>2, <1>4, <1>5, <1>6, <1>7, <1>8 DEF StatementStep, OpNext

(* The notes count what they should, whatever a statement does.            *)
LEMMA NotedSets ==
  ASSUME NEW x \in Txs, NEW t
  PROVE  /\ IsFiniteSet(NotedOfAll(x)) /\ IsFiniteSet(NotedOf(x, t))
         /\ Cardinality(NotedOfAll(x)) \in Nat /\ Cardinality(NotedOf(x, t)) \in Nat
<1>1. NotedOfAll(x) \subseteq Slots /\ NotedOf(x, t) \subseteq Slots
  BY DEF NotedOfAll, NotedOf
<1>2. IsFiniteSet(NotedOfAll(x)) /\ IsFiniteSet(NotedOf(x, t))
  BY <1>1, TransactionAssumption, FS_Subset
<1> QED
  BY <1>2, FS_CardinalityType

LEMMA Added ==
  ASSUME NEW S, IsFiniteSet(S), NEW s, s \notin S
  PROVE  Cardinality(S \cup {s}) = Cardinality(S) + 1
BY FS_AddElement

LEMMA Removed ==
  ASSUME NEW S, IsFiniteSet(S), NEW s \in S
  PROVE  Cardinality(S \ {s}) = Less(Cardinality(S))
<1>1. Cardinality(S \ {s}) = Cardinality(S) - 1
  BY FS_RemoveElement
<1>2. Cardinality(S) # 0
  BY FS_EmptySet
<1> QED
  BY <1>1, <1>2 DEF Less

(* A note of zero counts nothing, a note of something is positive.         *)
LEMMA Counting ==
  ASSUME NEW S, IsFiniteSet(S), NEW s \in S
  PROVE  Cardinality(S) > 0
<1>1. Cardinality(S) \in Nat /\ Cardinality(S) # 0
  BY FS_EmptySet, FS_CardinalityType
<1> QED
  BY <1>1

LEMMA CountsStep ==
  ASSUME TypeOK, NEW x \in Txs, NEW s \in Slots, Counts(x), Around(x, s),
         Starts(x, s) \/ Withdraws(x, s) \/ Keeps(x, s)
  PROVE  Counts(x)'
<1>a. notes[x] \in NotesType /\ x \in DOMAIN notes
  BY DEF TypeOK
<1>b. \A i \in Slots : i # s => op'[x][i].target = op[x][i].target /\ (Noted(op'[x][i]) <=> Noted(op[x][i]))
  BY DEF Around, Marked
<1>c. /\ NotedOfAll(x)' = {i \in Slots : Noted(op'[x][i]) /\ op'[x][i].target = Every}
      /\ \A t : NotedOf(x, t)' = {i \in Slots : Noted(op'[x][i]) /\ op'[x][i].target # Every /\ t \in op'[x][i].target}
  BY DEF NotedOfAll, NotedOf, Noted
<1>d. /\ notes'[x].all = Cardinality(NotedOfAll(x)')
      /\ \A t \in Tables : notes'[x].tables[t] = Cardinality(NotedOf(x, t)')
      => Counts(x)'
  BY DEF Counts
<1>e. /\ notes[x].all = Cardinality(NotedOfAll(x))
      /\ \A t \in Tables : notes[x].tables[t] = Cardinality(NotedOf(x, t))
  BY DEF Counts
<1>1. CASE Keeps(x, s)
  <2>1. NotedOfAll(x)' = NotedOfAll(x) /\ \A t : NotedOf(x, t)' = NotedOf(x, t)
    BY <1>1, <1>b, <1>c DEF Keeps, NotedOfAll, NotedOf
  <2> QED
    BY <1>1, <1>d, <1>e, <2>1 DEF Keeps
<1>2. CASE Starts(x, s)
  <2>1. PICK target \in Targets :
          /\ ~Noted(op[x][s]) /\ Noted(op'[x][s]) /\ op'[x][s].target = target
          /\ notes' = [notes EXCEPT ![x] = Counted(@, target)]
    BY <1>2 DEF Starts
  <2>2. notes'[x] = Counted(notes[x], target)
    BY <1>a, <2>1
  <2>3. CASE target = Every
    <3>1. notes'[x].all = notes[x].all + 1 /\ notes'[x].tables = notes[x].tables
      BY <1>a, <2>2, <2>3 DEF Counted, NotesType
    <3>2. NotedOfAll(x)' = NotedOfAll(x) \cup {s} /\ \A t : NotedOf(x, t)' = NotedOf(x, t)
      BY <1>b, <1>c, <2>1, <2>3 DEF NotedOfAll, NotedOf
    <3>3. s \notin NotedOfAll(x)
      BY <2>1 DEF NotedOfAll
    <3>4. Cardinality(NotedOfAll(x) \cup {s}) = notes[x].all + 1
      BY <1>e, <3>3, Added, NotedSets
    <3> QED
      BY <1>d, <1>e, <3>1, <3>2, <3>4
  <2>4. CASE target # Every
    <3>1. /\ notes'[x].all = notes[x].all
          /\ \A t \in Tables : notes'[x].tables[t] = IF t \in target THEN notes[x].tables[t] + 1
                                                     ELSE notes[x].tables[t]
      BY <1>a, <2>2, <2>4 DEF Counted, NotesType
    <3>2. NotedOfAll(x)' = NotedOfAll(x)
      BY <1>b, <1>c, <2>1, <2>4 DEF NotedOfAll
    <3>3. \A t : t \notin target => NotedOf(x, t)' = NotedOf(x, t)
      BY <1>b, <1>c, <2>1, <2>4 DEF NotedOf
    <3>4. \A t : t \in target => NotedOf(x, t)' = NotedOf(x, t) \cup {s}
      BY <1>b, <1>c, <2>1, <2>4 DEF NotedOf
    <3>5. \A t : s \notin NotedOf(x, t)
      BY <2>1 DEF NotedOf
    <3>6. \A t \in Tables : Cardinality(NotedOf(x, t) \cup {s}) = notes[x].tables[t] + 1
      BY <1>e, <3>5, Added, NotedSets
    <3> QED
      BY <1>d, <1>e, <3>1, <3>2, <3>3, <3>4, <3>6
  <2> QED
    BY <2>3, <2>4
<1>3. CASE Withdraws(x, s)
  <2>1. Noted(op[x][s]) /\ ~Noted(op'[x][s])
    BY <1>3 DEF Withdraws
  <2>2. notes'[x] = Uncounted(notes[x], op[x][s].target)
    BY <1>3, <1>a DEF Withdraws
  <2>3. CASE op[x][s].target = Every
    <3>1. notes'[x].all = Less(notes[x].all) /\ notes'[x].tables = notes[x].tables
      BY <1>a, <2>2, <2>3 DEF Uncounted, NotesType
    <3>2. NotedOfAll(x)' = NotedOfAll(x) \ {s} /\ \A t : NotedOf(x, t)' = NotedOf(x, t)
      BY <1>b, <1>c, <2>1, <2>3 DEF NotedOfAll, NotedOf
    <3>3. s \in NotedOfAll(x)
      BY <2>1, <2>3 DEF NotedOfAll
    <3>4. Cardinality(NotedOfAll(x) \ {s}) = Less(notes[x].all)
      BY <1>e, <3>3, Removed, NotedSets
    <3> QED
      BY <1>d, <1>e, <3>1, <3>2, <3>4
  <2>4. CASE op[x][s].target # Every
    <3>1. /\ notes'[x].all = notes[x].all
          /\ \A t \in Tables : notes'[x].tables[t] = IF t \in op[x][s].target THEN Less(notes[x].tables[t])
                                                     ELSE notes[x].tables[t]
      BY <1>a, <2>2, <2>4 DEF Uncounted, NotesType
    <3>2. NotedOfAll(x)' = NotedOfAll(x)
      BY <1>b, <1>c, <2>1, <2>4 DEF NotedOfAll
    <3>3. \A t : t \notin op[x][s].target => NotedOf(x, t)' = NotedOf(x, t)
      BY <1>b, <1>c, <2>1, <2>4 DEF NotedOf
    <3>4. \A t : t \in op[x][s].target => NotedOf(x, t)' = NotedOf(x, t) \ {s}
      BY <1>b, <1>c, <2>1, <2>4 DEF NotedOf
    <3>5. \A t : t \in op[x][s].target => s \in NotedOf(x, t)
      BY <2>1, <2>4 DEF NotedOf
    <3>6. \A t \in Tables : t \in op[x][s].target =>
            Cardinality(NotedOf(x, t) \ {s}) = Less(notes[x].tables[t])
      BY <1>e, <3>5, Removed, NotedSets
    <3> QED
      BY <1>d, <1>e, <3>1, <3>2, <3>3, <3>4, <3>6
  <2> QED
    BY <2>3, <2>4
<1> QED
  BY <1>1, <1>2, <1>3

(* A block that can still commit keeps its notes.                          *)
Early == {"none", "opening", "body", "committing"}

LEMMA BlockTells ==
  ASSUME TypeOK, NEW x \in Txs, BlockNext(x)
  PROVE  \/ TellCache(x) /\ block'[x].pc \notin Early
         \/ stale' = stale /\ block[x].pc # "committing" /\ block'[x].pc \notin Early
         \/ /\ notes' = notes
            /\ block[x].pc = "committing" => block'[x].pc = "committing"
            /\ block'[x].pc \in Early => block[x].pc \in Early
            /\ \/ stale' = stale
               \/ x \in asked /\ block[x].pc = "committing" /\ stale' = stale \cup AffectedBy(x, staged[x])
<1>a. block[x] \in BlockType /\ x \in DOMAIN block
  BY DEF TypeOK
<1>1. CASE OpenBlock(x) \/ BeginBlock(x) \/ BeginRaises(x) \/ BodyCancelled(x) \/ SendCommit(x)
  <2>1. /\ notes' = notes /\ stale' = stale /\ block[x].pc \in {"none", "opening", "body"}
    BY <1>1 DEF OpenBlock, BeginBlock, BeginRaises, BodyCancelled, SendCommit, BodyReturns
  <2> QED
    BY <2>1 DEF Early
<1>b. ASSUME NEW e, SendCancel(x, e)
      PROVE  block'[x].pc \notin Early
  BY <1>b, <1>a DEF SendCancel, Early, BlockType
<1>2. CASE BodyRaises(x) \/ ExitRetired(x) \/ ExitFailed(x)
  <2>1. \E e : SendCancel(x, e)
    BY <1>2 DEF BodyRaises, ExitRetired, ExitFailed, Cancel
  <2>2. stale' = stale /\ block[x].pc = "body"
    BY <1>2 DEF BodyRaises, ExitRetired, ExitFailed, BodyReturns
  <2> QED
    BY <1>b, <2>1, <2>2
<1>3. CASE CommitEmpty(x) \/ ReceiveCommit(x) \/ AbandonCommit(x)
  <2>1. TellCache(x)
    BY <1>3 DEF CommitEmpty, ReceiveCommit, AbandonCommit
  <2>2. block'[x].pc \in {"firing", "ended"}
    BY <1>3, <1>a DEF CommitEmpty, ReceiveCommit, AbandonCommit, BlockType
  <2> QED
    BY <2>1, <2>2 DEF Early
<1>4. CASE CommitRefused(x) \/ LoseCommit(x)
  <2>1. TellCache(x) /\ \E e : SendCancel(x, e)
    BY <1>4 DEF CommitRefused, LoseCommit, CommitRaises
  <2> QED
    BY <1>b, <2>1
<1>5. CASE HandleCommit(x)
  <2>1. notes' = notes /\ x \in asked
    BY <1>5 DEF HandleCommit
  <2>2. block'[x].pc = block[x].pc
    BY <1>5, <1>a DEF HandleCommit, BlockType
  <2>3. stale' = stale \/ (block[x].pc = "committing" /\ stale' = stale \cup AffectedBy(x, staged[x]))
    BY <1>5 DEF HandleCommit
  <2> QED
    BY <2>1, <2>2, <2>3
<1>6. CASE CloseConnection(x) \/ HandleCancel(x) \/ FireNext(x)
  <2>1. notes' = notes /\ stale' = stale /\ block'[x].pc = block[x].pc
    BY <1>6, <1>a DEF CloseConnection, HandleCancel, FireNext, BlockType
  <2> QED
    BY <2>1
<1>7. CASE EndCancel(x) \/ LoseCancel(x) \/ AbandonCancel(x) \/ FireRaises(x) \/ EndBlock(x)
  <2>1. notes' = notes /\ stale' = stale /\ block'[x].pc = "ended" /\ block[x].pc # "committing"
    BY <1>7, <1>a DEF EndCancel, LoseCancel, AbandonCancel, FireRaises, EndBlock, BlockType
  <2> QED
    BY <2>1 DEF Early
<1> QED
  BY <1>1, <1>2, <1>3, <1>4, <1>5, <1>6, <1>7 DEF BlockNext

(* What a commit changes is noted.                                         *)
LEMMA CommitsNoted ==
  ASSUME TypeOK, NEW x \in Txs, Counts(x), staged[x] = OkWrites(x)
  PROVE  AffectedBy(x, staged[x]) \subseteq Written(notes[x])
<1> SUFFICES ASSUME NEW s \in OkWrites(x), NEW t \in Affects(op[x][s].target)
             PROVE  t \in Written(notes[x])
  BY DEF AffectedBy
<1>1. s \in Slots /\ Noted(op[x][s]) /\ op[x][s] \in OpType
  BY DEF OkWrites, Noted, TypeOK
<1>2. t \in Tables
  BY <1>1 DEF Affects, OpType
<1>3. CASE op[x][s].target = Every
  <2>1. s \in NotedOfAll(x)
    BY <1>1, <1>3 DEF NotedOfAll
  <2>2. notes[x].all > 0
    BY <2>1, Counting, NotedSets DEF Counts
  <2> QED
    BY <1>2, <2>2 DEF Written
<1>4. CASE op[x][s].target # Every
  <2>1. s \in NotedOf(x, t)
    BY <1>1, <1>4 DEF NotedOf, Affects
  <2>2. notes[x].tables[t] > 0
    BY <1>2, <2>1, Counting, NotedSets DEF Counts
  <2> QED
    BY <1>2, <2>2 DEF Written
<1> QED
  BY <1>3, <1>4

(* The query cache is told of every table a commit changed, and until then *)
(* the table is in flight there: between the server's commit and the       *)
(* invalidation, no read may settle in the cache (commit(), writing()).    *)
THEOREM CacheAlwaysTold == Spec => []CacheTold
<1> DEFINE I == \A x \in Txs : NotesHold(x)
<1>1. Init => I /\ CacheTold
  <2> SUFFICES ASSUME Init, NEW x \in Txs
               PROVE  NotesHold(x) /\ CacheTold
    BY DEF Init, CacheTold
  <2>1. \A s \in Slots : op[x][s] = IdleOp
    BY DEF Init
  <2>2. Nested(x)
    BY <2>1 DEF Nested, IdleOp, Busy
  <2>3. NotedOfAll(x) = {} /\ \A t : NotedOf(x, t) = {}
    BY <2>1 DEF NotedOfAll, NotedOf, Noted, IdleOp
  <2>4. notes[x].all = 0 /\ \A t \in Tables : notes[x].tables[t] = 0
    BY DEF Init, NoNotes
  <2>5. Cardinality({}) = 0
    BY FS_EmptySet
  <2>6. Counts(x)
    BY <2>3, <2>4, <2>5 DEF Counts
  <2> QED
    BY <2>2, <2>6 DEF NotesHold, Init, CacheTold
<1>2. BlockInv /\ I /\ CacheTold /\ [Next]_vars => I' /\ CacheTold'
  <2> SUFFICES ASSUME BlockInv, I, CacheTold, [Next]_vars
               PROVE  I' /\ CacheTold'
    OBVIOUS
  <2>a. TypeOK /\ FailuresNoted /\ \A x \in Txs : BlockHolds(x) /\ \A s \in Slots : SlotInv(x, s)
    BY BlocksHold, SlotInvs DEF BlockInv
  <2>b. ASSUME NEW x \in Txs, op'[x] = op[x], notes'[x] = notes[x], block'[x].pc \in Early => block[x].pc \in Early
        PROVE  NotesHold(x)'
    <3>1. Nested(x)'
      BY <2>b DEF NotesHold, Nested, Busy
    <3>2. Counts(x) => Counts(x)'
      BY <2>b DEF Counts, NotedOfAll, NotedOf
    <3> QED
      BY <2>b, <3>1, <3>2 DEF NotesHold, Early
  <2>1. ASSUME NEW y \in Txs, NEW s \in Slots, StatementStep(y, s)
        PROVE  I' /\ CacheTold'
    <3>1. /\ block' = block /\ stale' = stale
          /\ \A x \in Txs : x # y => op'[x] = op[x] /\ notes'[x] = notes[x]
      BY <2>1, <2>a, StepsElsewhere, StatementBeside DEF Elsewhere
    <3>2. Nested(y)' /\ Around(y, s) /\ (Starts(y, s) \/ Withdraws(y, s) \/ Keeps(y, s))
      BY <2>1, <2>a, StatementNotes DEF NotesHold
    <3>3. Counts(y) => Counts(y)'
      BY <2>a, <3>2, CountsStep
    <3>4. NotesHold(y)'
      BY <3>1, <3>2, <3>3 DEF NotesHold
    <3>5. \A x \in Txs : x # y => NotesHold(x)'
      BY <2>b, <3>1
    <3>6. block[y].pc = "committing" => notes' = notes
      <4>1. block[y].pc = "committing" => ~Busy(op[y][s])
        BY <2>a DEF BlockHolds, Waiting
      <4> QED
        BY <3>2, <4>1 DEF Starts, Withdraws, Keeps
    <3>7. CacheTold'
      BY <3>1, <3>6 DEF CacheTold
    <3> QED
      BY <3>4, <3>5, <3>7
  <2>2. ASSUME NEW y \in Txs, BlockNext(y)
        PROVE  I' /\ CacheTold'
    <3>1. /\ op' = op
          /\ \A x \in Txs : x # y => block'[x] = block[x] /\ notes'[x] = notes[x]
      BY <2>2, <2>a, BlockBeside, StepBeside DEF Beside
    <3>2. \A x \in Txs : x # y => NotesHold(x)'
      BY <2>b, <3>1
    <3>n. Nested(y)'
      BY <3>1 DEF NotesHold, Nested, Busy
    <3>3. CASE TellCache(y) /\ block'[y].pc \notin Early
      <4>1. NotesHold(y)'
        BY <3>3, <3>n DEF NotesHold, Early
      <4>2. CacheTold'
        BY <3>1, <3>3 DEF TellCache, CacheTold
      <4> QED
        BY <3>2, <4>1, <4>2
    <3>4. CASE stale' = stale /\ block[y].pc # "committing" /\ block'[y].pc \notin Early
      <4>1. NotesHold(y)'
        BY <3>4, <3>n DEF NotesHold, Early
      <4>2. CacheTold'
        BY <3>1, <3>4 DEF CacheTold
      <4> QED
        BY <3>2, <4>1, <4>2
    <3>5. CASE /\ notes' = notes
               /\ block[y].pc = "committing" => block'[y].pc = "committing"
               /\ block'[y].pc \in Early => block[y].pc \in Early
               /\ \/ stale' = stale
                  \/ y \in asked /\ block[y].pc = "committing" /\ stale' = stale \cup AffectedBy(y, staged[y])
      <4>1. NotesHold(y)'
        BY <2>b, <3>1, <3>5
      <4>2. ASSUME NEW t \in stale'
            PROVE  \E x \in Txs : block[x].pc = "committing" /\ t \in Written(notes[x])
        <5>1. CASE t \in stale
          BY <5>1 DEF CacheTold
        <5>2. CASE t \notin stale
          <6>1. y \in asked /\ block[y].pc = "committing" /\ t \in AffectedBy(y, staged[y])
            BY <3>5, <4>2, <5>2
          <6>2. staged[y] = OkWrites(y)
            BY <2>a, <6>1 DEF BlockHolds, Committing
          <6>3. Counts(y)
            BY <6>1 DEF NotesHold
          <6> QED
            BY <2>a, <6>1, <6>2, <6>3, CommitsNoted
        <5> QED
          BY <5>1, <5>2
      <4>3. CacheTold'
        <5>1. \A x \in Txs : block[x].pc = "committing" => block'[x].pc = "committing" /\ notes'[x] = notes[x]
          BY <3>1, <3>5
        <5> QED
          BY <4>2, <5>1 DEF CacheTold
      <4> QED
        BY <3>2, <4>1, <4>3
    <3> QED
      BY <2>2, <2>a, <3>3, <3>4, <3>5, BlockTells
  <2>3. ASSUME UNCHANGED <<block, op, notes, stale>>
        PROVE  I' /\ CacheTold'
    <3>1. I'
      BY <2>3, <2>b
    <3> QED
      BY <2>3, <3>1 DEF CacheTold
  <2>4. CASE ChangeSettings \/ UNCHANGED vars
    BY <2>3, <2>4 DEF ChangeSettings, body, vars
  <2> QED
    BY <2>1, <2>2, <2>3, <2>4, Steps DEF body
<1> QED
  BY <1>1, <1>2, BlockInvariant, PTL DEF Spec

-----------------------------------------------------------------------------
(***************************************************************************)
(* The blocks implement AtomicBlocks.                                      *)
(***************************************************************************)
(* How a block ends, and what its server can still do to it then.          *)
Ending(x) ==
  /\ block[x].pc \in {"none", "opening", "body", "committing", "firing"} => block[x].raising = "none"
  /\ block[x].pc = "cancelling" => block[x].raising \in {"error", "conflict"}
  /\ block[x].pc = "firing" => x \notin asked
  /\ block[x].pc = "ended" /\ block[x].raising = "none" =>
       x \notin asked /\ \A s \in Slots : ~Busy(op[x][s])
  /\ block[x].pc = "committing" /\ block[x].answer \in {"refused", "conflict"} =>
       x \notin asked /\ srv[x] # "committed"
  /\ block[x].pc \in {"cancelling", "ended"} /\ block[x].raising = "conflict" =>
       x \notin asked /\ srv[x] # "committed"

(* An attempt follows only one that ended with a conflict.                 *)
Conflicted(x) == block[x].pc = "ended" /\ block[x].raising = "conflict"

Turned(x) == block[x].pc # "none" => x[2] = 1 \/ Conflicted(<<x[1], x[2] - 1>>)

Tries(c) ==
  /\ \A n \in Attempts : n < caller[c].n => Conflicted(<<c, n>>)
  /\ caller[c].pc = "sleeping" => Conflicted(<<c, caller[c].n>>)

(* Fate and Told, of what they depend on.                                  *)
FateOf(pc, raising, sv, pending) ==
  IF sv = "committed" \/ pc = "firing" \/ (pc = "ended" /\ raising = "none") THEN "committed"
  ELSE IF pc = "ended" /\ ~pending THEN "rolledback" ELSE "open"

ToldOf(pc, raising) ==
  IF pc # "ended" THEN "none" ELSE IF raising = "none" THEN "returned" ELSE raising

LEMMA FateIs ==
  ASSUME NEW x
  PROVE  /\ Fate(x) = FateOf(block[x].pc, block[x].raising, srv[x], x \in asked)
         /\ Fate(x)' = FateOf(block'[x].pc, block'[x].raising, srv'[x], x \in asked')
         /\ Told(x) = ToldOf(block[x].pc, block[x].raising)
         /\ Told(x)' = ToldOf(block'[x].pc, block'[x].raising)
BY DEF Fate, FateOf, Told, ToldOf

(* A statement failed or it did not: a Boolean, whatever the state.        *)
LEMMA FailedIs ==
  ASSUME NEW x
  PROVE  /\ SomeFailed(x) \in BOOLEAN /\ SomeFailed(x)' \in BOOLEAN
         /\ (SomeFailed(x)' <=> SomeFailed(x)) => SomeFailed(x)' = SomeFailed(x)
         /\ SomeFailed(x)' => SomeFailed(x)' = TRUE
<1>1. SomeFailed(x) \in BOOLEAN /\ SomeFailed(x)' \in BOOLEAN
  BY DEF SomeFailed
<1> QED
  BY <1>1, Zenon

(* The steps of AtomicBlocks, seen from one block.                         *)
Writes(x) ==
  /\ \E w \in Slots : OkWrites(x)' = OkWrites(x) \cup {w}
  /\ SomeFailed(x)' <=> SomeFailed(x)
  /\ Fate(x) # "committed"
  /\ Fate(x)' = Fate(x) /\ Told(x)' = Told(x) /\ visible' = visible

Fails(x) ==
  /\ OkWrites(x)' = OkWrites(x) /\ SomeFailed(x)'
  /\ Fate(x) # "committed"
  /\ Fate(x)' = Fate(x) /\ Told(x)' = Told(x) /\ visible' = visible

Settles(x) == OkWrites(x)' = OkWrites(x) /\ (SomeFailed(x)' <=> SomeFailed(x))

Rests(x) == Settles(x) /\ Fate(x)' = Fate(x) /\ Told(x)' = Told(x)

Commits(x) ==
  /\ Settles(x) /\ Told(x)' = Told(x)
  /\ Fate(x) = "open" /\ ~SomeFailed(x) /\ Fate(x)' = "committed"
  /\ visible' = visible \cup ({x} \X OkWrites(x))

RollsBack(x) ==
  /\ Settles(x) /\ Told(x)' = Told(x) /\ visible' = visible
  /\ Fate(x) = "open" /\ Fate(x)' = "rolledback"

Tells(x) ==
  /\ Settles(x) /\ visible' = visible
  /\ Told(x) = "none" /\ Told(x)' \in {"returned", "error", "conflict", "cancelled"}
  /\ Fate(x)' = Fate(x) \/ (Fate(x) = "open" /\ Fate(x)' = "rolledback")
  /\ Told(x)' = "returned" => Fate(x)' = "committed"
  /\ Told(x)' = "conflict" => Fate(x)' = "rolledback"

Moves(x) == Writes(x) \/ Fails(x) \/ Commits(x) \/ RollsBack(x) \/ Tells(x)

(* ... and from all of them.                                               *)
LEMMA Lifted ==
  ASSUME NEW x \in Txs, \A y \in Txs : y # x => Rests(y),
         \/ Rests(x) /\ visible' = visible
         \/ Moves(x) /\ block[x].pc # "none" /\ Turned(x)
  PROVE  Atomic!Next \/ UNCHANGED Atomic!vars
<1>1. CASE Rests(x) /\ visible' = visible
  <2>1. \A y \in Txs : Rests(y)
    BY <1>1
  <2>2. \A y \in Txs : /\ OkWrites(y)' = OkWrites(y) /\ SomeFailed(y)' = SomeFailed(y)
                      /\ Fate(y)' = Fate(y) /\ Told(y)' = Told(y)
    BY <2>1, FailedIs DEF Rests, Settles
  <2>3. UNCHANGED Atomic!vars
    BY <1>1, <2>2 DEF Atomic!vars
  <2> QED
    BY <2>3
<1>2. CASE Moves(x) /\ block[x].pc # "none" /\ Turned(x)
  <2>1. x[1] \in Callers /\ x[2] \in Attempts /\ MaxRetries \in Nat /\ x = <<x[1], x[2]>>
    BY TransactionAssumption DEF Txs
  <2>2. x \in Atomic!Blocks /\ Atomic!Blocks = Txs
    BY DEF Atomic!Blocks, Txs
  <2>3. Atomic!Turn(x)
    <3>1. CASE x[2] = 1
      BY <3>1 DEF Atomic!Turn
    <3>2. CASE x[2] # 1
      <4>1. x[2] - 1 \in Attempts
        BY <2>1, <3>2 DEF Attempts
      <4>2. <<x[1], x[2] - 1>> \in Txs
        BY <2>1, <4>1 DEF Txs
      <4>3. Told(<<x[1], x[2] - 1>>) = "conflict"
        BY <1>2, <3>2 DEF Turned, Conflicted, Told
      <4> QED
        BY <4>2, <4>3 DEF Atomic!Turn
    <3> QED
      BY <3>1, <3>2
  <2>w. \A y \in Txs : y # x => OkWrites(y)' = OkWrites(y)
    BY DEF Rests, Settles
  <2>b. \A y \in Txs : y # x => SomeFailed(y)' = SomeFailed(y)
    BY FailedIs DEF Rests, Settles
  <2>f. \A y \in Txs : y # x => Fate(y)' = Fate(y)
    BY DEF Rests
  <2>t. \A y \in Txs : y # x => Told(y)' = Told(y)
    BY DEF Rests
  <2>4. CASE Writes(x)
    <3>1. PICK w \in Slots : OkWrites(x)' = OkWrites(x) \cup {w}
      BY <2>4 DEF Writes
    <3>2. [y \in Txs |-> OkWrites(y)'] = [[y \in Txs |-> OkWrites(y)] EXCEPT ![x] = @ \cup {w}]
      BY <2>w, <3>1
    <3>3. /\ [y \in Txs |-> SomeFailed(y)'] = [y \in Txs |-> SomeFailed(y)]
          /\ [y \in Txs |-> Fate(y)'] = [y \in Txs |-> Fate(y)]
          /\ [y \in Txs |-> Told(y)'] = [y \in Txs |-> Told(y)]
      BY <2>4, <2>b, <2>f, <2>t, FailedIs DEF Writes
    <3>4. Atomic!Write(x, w)
      BY <2>3, <2>4, <3>2, <3>3 DEF Atomic!Write, Writes
    <3> QED
      BY <2>2, <3>4 DEF Atomic!Next
  <2>5. CASE Fails(x)
    <3>2. [y \in Txs |-> SomeFailed(y)'] = [[y \in Txs |-> SomeFailed(y)] EXCEPT ![x] = TRUE]
      BY <2>5, <2>b, FailedIs DEF Fails
    <3>3. /\ [y \in Txs |-> OkWrites(y)'] = [y \in Txs |-> OkWrites(y)]
          /\ [y \in Txs |-> Fate(y)'] = [y \in Txs |-> Fate(y)]
          /\ [y \in Txs |-> Told(y)'] = [y \in Txs |-> Told(y)]
      BY <2>5, <2>w, <2>f, <2>t DEF Fails
    <3>4. Atomic!Fail(x)
      BY <2>3, <2>5, <3>2, <3>3 DEF Atomic!Fail, Fails
    <3> QED
      BY <2>2, <3>4 DEF Atomic!Next
  <2>6. CASE Settles(x)
    <3>1. /\ [y \in Txs |-> OkWrites(y)'] = [y \in Txs |-> OkWrites(y)]
          /\ [y \in Txs |-> SomeFailed(y)'] = [y \in Txs |-> SomeFailed(y)]
      BY <2>6, <2>w, <2>b, FailedIs DEF Settles
    <3>2. [y \in Txs |-> Fate(y)'] = [[y \in Txs |-> Fate(y)] EXCEPT ![x] = Fate(x)']
      BY <2>f
    <3>3. [y \in Txs |-> Told(y)'] = [[y \in Txs |-> Told(y)] EXCEPT ![x] = Told(x)']
      BY <2>t
    <3>4. CASE Commits(x)
      <4>1. [y \in Txs |-> Told(y)'] = [y \in Txs |-> Told(y)]
        BY <2>t, <3>4 DEF Commits
      <4>2. Atomic!Commit(x)
        BY <2>3, <3>1, <3>2, <3>4, <4>1 DEF Atomic!Commit, Commits
      <4> QED
        BY <2>2, <4>2 DEF Atomic!Next
    <3>5. CASE RollsBack(x)
      <4>1. [y \in Txs |-> Told(y)'] = [y \in Txs |-> Told(y)]
        BY <2>t, <3>5 DEF RollsBack
      <4>2. Atomic!RollBack(x)
        BY <2>3, <3>1, <3>2, <3>5, <4>1 DEF Atomic!RollBack, RollsBack
      <4> QED
        BY <2>2, <4>2 DEF Atomic!Next
    <3>6. CASE Tells(x)
      <4>1. CASE Fate(x)' = Fate(x)
        <5>1. [y \in Txs |-> Fate(y)'] = [y \in Txs |-> Fate(y)]
          BY <2>f, <4>1
        <5>2. Atomic!Tell(x, Told(x)')
          BY <2>3, <3>1, <3>3, <3>6, <5>1 DEF Atomic!Tell, Tells
        <5> QED
          BY <2>2, <3>6, <5>2 DEF Atomic!Next, Tells
      <4>2. CASE Fate(x) = "open" /\ Fate(x)' = "rolledback"
        <5>1. Atomic!Tell(x, Told(x)')
          BY <2>3, <3>1, <3>2, <3>3, <3>6, <4>2 DEF Atomic!Tell, Tells
        <5> QED
          BY <2>2, <3>6, <5>1 DEF Atomic!Next, Tells
      <4> QED
        BY <3>6, <4>1, <4>2 DEF Tells
    <3> QED
      BY <1>2, <2>4, <2>5, <3>4, <3>5, <3>6 DEF Moves
  <2> QED
    BY <1>2, <2>4, <2>5, <2>6 DEF Moves, Commits, RollsBack, Tells
<1> QED
  BY <1>1, <1>2

(* What a step of a statement does to its result.                          *)
IsOk(o)     == o.kind = "write" /\ o.result = "ok"
IsFailed(o) == o.result = "failed"

LEMMA StatementResults ==
  ASSUME TypeOK, NEW x \in Txs, NEW s \in Slots, SlotInv(x, s), StatementStep(x, s)
  PROVE  \/ IsFailed(op'[x][s]) <=> IsFailed(op[x][s])
         \/ IsFailed(op'[x][s]) /\ (IsOk(op'[x][s]) <=> IsOk(op[x][s]))
<1>a. op[x][s] \in OpType
  BY DEF TypeOK
<1>s. ASSUME NEW o \in OpType, Reaching(x, s, o) \/ Becomes(x, s, o)
      PROVE  op'[x][s].result = o.result /\ op'[x][s].kind = o.kind
  BY <1>s, StepShape DEF Same
<1>i. op[x][s].pc \in {"idle", "open", "sent", "probing"} => op[x][s].result = "none"
  BY DEF SlotInv
<1>1. CASE StartWrite(x, s)
  <2>1. PICK target \in Targets, outer \in Chains(x) :
          /\ op[x][s].pc = "idle"
          /\ Becomes(x, s, [IdleOp EXCEPT !.pc = "open", !.kind = "write",
                                          !.target = target, !.outer = outer])
    BY <1>1 DEF StartWrite
  <2>2. PICK o : o = [IdleOp EXCEPT !.pc = "open", !.kind = "write", !.target = target, !.outer = outer]
    OBVIOUS
  <2>3. o \in OpType /\ o.result = "none"
    BY <2>2, IdleOpType, ChainsType, TransactionAssumption DEF OpType, IdleOp
  <2> QED
    BY <1>s, <1>i, <2>1, <2>2, <2>3 DEF IsFailed
<1>2. CASE RefuseWrite(x, s) \/ QueueWrite(x, s) \/ SendWrite(x, s) \/ ReceiveRows(x, s) \/ AnswerRead(x, s)
  <2>1. PICK pc \in {"done", "sent"}, r \in {"refused", "ok", "none"} :
          LET o == [op[x][s] EXCEPT !.pc = pc, !.result = r] IN Reaching(x, s, o) \/ Becomes(x, s, o)
    <3>1. op[x][s].result = "none"
      BY <1>2, <1>i DEF RefuseWrite, QueueWrite, SendWrite, ReceiveRows, AnswerRead
    <3>2. [op[x][s] EXCEPT !.pc = "sent"] = [op[x][s] EXCEPT !.pc = "sent", !.result = "none"]
      BY <1>a, <3>1 DEF OpType
    <3> QED
      BY <1>2, <3>2 DEF RefuseWrite, QueueWrite, SendWrite, ReceiveRows, AnswerRead
  <2>2. PICK o : o = [op[x][s] EXCEPT !.pc = pc, !.result = r]
    OBVIOUS
  <2>3. o \in OpType /\ o.result # "failed"
    BY <1>a, <2>2 DEF OpType
  <2>4. op[x][s].result = "none"
    BY <1>2, <1>i DEF RefuseWrite, QueueWrite, SendWrite, ReceiveRows, AnswerRead
  <2> QED
    BY <1>s, <2>1, <2>2, <2>3, <2>4 DEF IsFailed
<1>3. CASE SendRead(x, s)
  <2>1. PICK outer \in Chains(x) :
          LET o == [IdleOp EXCEPT !.outer = outer] IN
          \/ Reaching(x, s, [o EXCEPT !.pc = "sent"])
          \/ Becomes(x, s, [o EXCEPT !.pc = "done", !.result = "refused"])
    BY <1>3 DEF SendRead
  <2>2. PICK p : p = [IdleOp EXCEPT !.outer = outer]
    OBVIOUS
  <2>3. p \in OpType /\ p.result = "none"
    BY <2>2, IdleOpType, ChainsType DEF OpType, IdleOp
  <2>4. /\ [p EXCEPT !.pc = "sent"] \in OpType /\ [p EXCEPT !.pc = "sent"].result = "none"
        /\ [p EXCEPT !.pc = "done", !.result = "refused"] \in OpType
        /\ [p EXCEPT !.pc = "done", !.result = "refused"].result = "refused"
    BY <2>3 DEF OpType
  <2>5. \/ Reaching(x, s, [p EXCEPT !.pc = "sent"])
        \/ Becomes(x, s, [p EXCEPT !.pc = "done", !.result = "refused"])
    BY <2>1, <2>2
  <2>6. op'[x][s].result \in {"none", "refused"}
    BY <1>s, <2>4, <2>5
  <2> QED
    BY <1>3, <1>i, <2>6 DEF SendRead, IsFailed
<1>4. CASE ReceiveError(x, s) \/ LoseStatement(x, s) \/ RelayRead(x, s)
  <2>1. PICK pc \in {"done", "probing"}, r \in {"failed", "none"}, a \in OpAnswers :
          Becomes(x, s, [op[x][s] EXCEPT !.pc = pc, !.result = r, !.answer = a])
    <3>1. op[x][s].result = "none" /\ op[x][s].answer \in OpAnswers /\ "none" \in OpAnswers
      BY <1>4, <1>i, <1>a DEF ReceiveError, LoseStatement, RelayRead, OpType, OpAnswers
    <3>2. /\ [op[x][s] EXCEPT !.pc = "done", !.result = "failed"]
             = [op[x][s] EXCEPT !.pc = "done", !.result = "failed", !.answer = op[x][s].answer]
          /\ [op[x][s] EXCEPT !.pc = "probing"]
             = [op[x][s] EXCEPT !.pc = "probing", !.result = "none", !.answer = op[x][s].answer]
      BY <1>a, <3>1 DEF OpType
    <3> QED
      BY <1>4, <3>1, <3>2 DEF ReceiveError, LoseStatement, RelayRead
  <2>2. PICK o : o = [op[x][s] EXCEPT !.pc = pc, !.result = r, !.answer = a]
    OBVIOUS
  <2>3. o \in OpType /\ o.result = r
    BY <1>a, <2>2 DEF OpType
  <2>4. op[x][s].result = "none" /\ op'[x][s].result = r
    BY <1>4, <1>i, <1>s, <2>1, <2>2, <2>3 DEF ReceiveError, LoseStatement, RelayRead
  <2> QED
    BY <2>4 DEF IsFailed, IsOk
<1>5. CASE SendFails(x, s)
  <2>1. PICK o \in OpType : Reaching(x, s, o) /\ o.result = "failed"
    <3>1. CASE op[x][s].pc = "open" /\ Reaching(x, s, [op[x][s] EXCEPT !.pc = "done", !.result = "failed"])
      <4>1. PICK o : o = [op[x][s] EXCEPT !.pc = "done", !.result = "failed"]
        OBVIOUS
      <4>2. o \in OpType /\ o.result = "failed"
        BY <1>a, <4>1 DEF OpType
      <4> QED
        BY <3>1, <4>1, <4>2
    <3>2. CASE op[x][s].pc # "open" \/ ~Reaching(x, s, [op[x][s] EXCEPT !.pc = "done", !.result = "failed"])
      <4>1. PICK outer \in Chains(x) :
              Reaching(x, s, [IdleOp EXCEPT !.outer = outer, !.pc = "done", !.result = "failed"])
        BY <1>5, <3>2 DEF SendFails
      <4>2. PICK o : o = [IdleOp EXCEPT !.outer = outer, !.pc = "done", !.result = "failed"]
        OBVIOUS
      <4>3. o \in OpType /\ o.result = "failed"
        BY <4>2, IdleOpType, ChainsType DEF OpType, IdleOp
      <4> QED
        BY <4>1, <4>2, <4>3
    <3> QED
      BY <3>1, <3>2
  <2>2. op'[x][s].result = "failed"
    BY <1>s, <2>1
  <2>3. op[x][s].result = "none"
    BY <1>5, <1>i DEF SendFails
  <2> QED
    BY <2>2, <2>3 DEF IsFailed, IsOk
<1>6. CASE RunStatement(x, s)
  <2>1. PICK answer \in {"ok", "refused", "conflict", "missing"} :
          op' = IF op[x][s].pc = "sent" THEN [op EXCEPT ![x][s].answer = answer] ELSE op
    BY <1>6 DEF RunStatement
  <2>2. op'[x][s].result = op[x][s].result
    BY <2>1, <1>a DEF TypeOK, OpType
  <2> QED
    BY <2>2 DEF IsFailed
<1> QED
  BY <1>1, <1>2, <1>3, <1>4, <1>5, <1>6 DEF StatementStep, OpNext

(* A statement that does more than move is one under way, of a block that  *)
(* is still open.                                                          *)
LEMMA StatementMoves ==
  ASSUME BlockInv, \A y \in Txs : Ending(y), NEW x \in Txs, NEW s \in Slots, StatementStep(x, s)
  PROVE  /\ \A y \in Txs : y # x => Rests(y)
         /\ \/ Rests(x) /\ visible' = visible
            \/ Moves(x) /\ block[x].pc # "none"
         /\ \A y \in Txs : Ending(y)'
<1>0. TypeOK /\ FreshBlocks /\ FailuresNoted /\ CommitsSettled /\ HandlersWait /\ SlotInv(x, s)
  BY SlotInvs DEF BlockInv
<1>1. /\ UNCHANGED <<block, srv, asked, visible>>
      /\ \A y \in Txs : y # x => op'[y] = op[y]
      /\ \A i \in Slots : i # s => Same(op'[x][i], op[x][i])
  BY <1>0, StepsElsewhere DEF Elsewhere
<1>2. \A y \in Txs : Fate(y)' = Fate(y) /\ Told(y)' = Told(y)
  BY <1>1, FateIs
<1>3. \A y \in Txs : y # x => Rests(y)
  BY <1>1, <1>2 DEF Rests, Settles, OkWrites, SomeFailed
<1>4. /\ x \notin asked /\ srv[x] # "committed" /\ block[x].pc \notin {"none", "opening"}
  BY <1>0, Unsettled
<1>5. /\ op[x][s].result # "ok"
      /\ \/ block[x].pc = "body"
         \/ Busy(op[x][s])
         \/ op[x][s].result = "failed" /\ op'[x][s].pc = op[x][s].pc
  BY <1>0, StatementFacts
<1>6. \A y \in Txs : Ending(y)'
  <2> SUFFICES ASSUME NEW y \in Txs
               PROVE  Ending(y)'
    OBVIOUS
  <2>1. (\A i \in Slots : ~Busy(op[y][i])) /\ block[y].pc = "ended" => \A i \in Slots : ~Busy(op'[y][i])
    BY <1>1, <1>5 DEF Same, Busy
  <2> QED
    BY <1>1, <2>1 DEF Ending
<1>7. /\ OkWrites(x)' = OkWrites(x) \/ OkWrites(x)' = OkWrites(x) \cup {s}
      /\ ~IsOk(op[x][s])
      /\ (IsOk(op'[x][s]) <=> IsOk(op[x][s])) => OkWrites(x)' = OkWrites(x)
  BY <1>1, <1>5 DEF OkWrites, IsOk, Same
<1>8. /\ (IsFailed(op'[x][s]) <=> IsFailed(op[x][s])) => (SomeFailed(x)' <=> SomeFailed(x))
      /\ IsFailed(op'[x][s]) => SomeFailed(x)'
  BY <1>1 DEF SomeFailed, IsFailed, Same
<1>9. CASE ~(block[x].pc = "body" \/ Busy(op[x][s]))
  <2>1. op[x][s].result = "failed" /\ op'[x][s].pc = op[x][s].pc
    BY <1>5, <1>9
  <2>2. IsFailed(op'[x][s]) <=> IsFailed(op[x][s])
    <3>1. IsFailed(op[x][s])
      BY <2>1 DEF IsFailed
    <3> QED
      BY <1>0, <3>1, StatementResults
  <2>3. op'[x][s].result = "failed"
    BY <2>1, <2>2 DEF IsFailed
  <2>4. Rests(x)
    BY <1>2, <1>7, <1>8, <2>1, <2>2, <2>3 DEF Rests, Settles, IsOk
  <2> QED
    BY <1>1, <1>3, <1>6, <2>4
<1>10. CASE block[x].pc = "body" \/ Busy(op[x][s])
  <2>1. block[x].pc # "firing" /\ ~(block[x].pc = "ended" /\ block[x].raising = "none")
    BY <1>0, <1>10 DEF HandlersWait, Ending
  <2>2. Fate(x) # "committed"
    BY <1>4, <2>1, FateIs DEF FateOf
  <2>3. CASE IsFailed(op'[x][s]) <=> IsFailed(op[x][s])
    <3>1. SomeFailed(x)' <=> SomeFailed(x)
      BY <1>8, <2>3
    <3>2. CASE OkWrites(x)' = OkWrites(x)
      BY <1>1, <1>2, <1>3, <1>6, <3>1, <3>2 DEF Rests, Settles
    <3>3. CASE OkWrites(x)' = OkWrites(x) \cup {s}
      <4>1. Writes(x)
        BY <1>1, <1>2, <2>2, <3>1, <3>3 DEF Writes
      <4> QED
        BY <1>3, <1>4, <1>6, <4>1 DEF Moves
    <3> QED
      BY <1>7, <3>2, <3>3
  <2>4. CASE IsFailed(op'[x][s]) /\ (IsOk(op'[x][s]) <=> IsOk(op[x][s]))
    <3>1. Fails(x)
      BY <1>1, <1>2, <1>7, <1>8, <2>2, <2>4 DEF Fails
    <3> QED
      BY <1>3, <1>4, <1>6, <3>1 DEF Moves
  <2> QED
    BY <1>0, <2>3, <2>4, StatementResults
<1> QED
  BY <1>9, <1>10

(* A block that leaves tells its caller, and settles its fate if it can.   *)
LEMMA LeavesTelling ==
  ASSUME NEW x \in Txs, Settles(x), visible' = visible, srv'[x] = srv[x], x \in asked' <=> x \in asked,
         block[x].pc \in {"opening", "body", "committing", "cancelling"}, block'[x].pc = "ended",
         block'[x].raising \in {"error", "conflict", "cancelled"},
         block'[x].raising = "conflict" => x \notin asked /\ srv[x] # "committed"
  PROVE  Tells(x) /\ Ending(x)'
<1>1. /\ Told(x) = "none" /\ Told(x)' = block'[x].raising
      /\ Fate(x) = IF srv[x] = "committed" THEN "committed" ELSE "open"
      /\ Fate(x)' = IF srv[x] = "committed" THEN "committed" ELSE IF x \in asked THEN "open" ELSE "rolledback"
  BY FateIs DEF FateOf, ToldOf
<1>2. Ending(x)'
  BY DEF Ending
<1> QED
  BY <1>1, <1>2 DEF Tells

LEMMA BlockMoves ==
  ASSUME TypeOK, NEW x \in Txs, BlockHolds(x), Ending(x), \A s \in Slots : SlotInv(x, s), BlockNext(x),
         "handler_conflict" \notin Faults
  PROVE  /\ (Rests(x) /\ visible' = visible) \/ (Moves(x) /\ block[x].pc # "none")
         /\ Ending(x)'
<1>a. block[x] \in BlockType /\ x \in DOMAIN block /\ x \in DOMAIN srv
  BY DEF TypeOK
<1>o. op' = op
  BY BlockBeside DEF Beside
<1>s. Settles(x)
  BY <1>o DEF Settles, OkWrites, SomeFailed
<1>e. block[x].pc \in {"none", "opening", "body"} => x \notin asked /\ srv[x] # "committed" /\ block[x].answer = "none"
  BY DEF BlockHolds, Committing, Waiting
<1>1. CASE OpenBlock(x) \/ BeginBlock(x) \/ SendCommit(x)
  <2>1. /\ block[x].pc \in {"none", "opening", "body"} /\ block'[x].pc \in {"opening", "body", "committing"}
        /\ block'[x].raising = block[x].raising /\ block'[x].answer = block[x].answer
    BY <1>1, <1>a DEF OpenBlock, BeginBlock, SendCommit, BodyReturns, BlockType
  <2>2. srv'[x] # "committed" /\ visible' = visible
    BY <1>1, <1>a, <1>e, <2>1 DEF OpenBlock, BeginBlock, SendCommit, server
  <2>3. Fate(x)' = Fate(x) /\ Told(x)' = Told(x)
    BY <1>e, <2>1, <2>2, FateIs DEF FateOf, ToldOf
  <2>4. Ending(x)'
    BY <1>e, <2>1 DEF Ending
  <2> QED
    BY <1>s, <2>2, <2>3, <2>4 DEF Rests
<1>2. CASE BeginRaises(x) \/ BodyCancelled(x)
  <2>1. /\ block[x].pc \in {"opening", "body"} /\ block'[x].pc = "ended"
        /\ block'[x].raising \in {"error", "cancelled"}
    <3>1. PICK e \in {"error", "cancelled"} : block' = [block EXCEPT ![x].pc = "ended", ![x].raising = e]
      BY <1>2 DEF BeginRaises, BodyCancelled
    <3>2. block[x].pc \in {"opening", "body"}
      BY <1>2 DEF BeginRaises, BodyCancelled
    <3> QED
      BY <1>a, <3>1, <3>2 DEF BlockType
  <2>2. visible' = visible /\ srv' = srv /\ asked' = asked
    BY <1>2 DEF BeginRaises, BodyCancelled, server
  <2> QED
    BY <1>s, <2>1, <2>2, LeavesTelling DEF Moves
<1>c. ASSUME NEW e \in {"error", "conflict"}, SendCancel(x, e), block[x].pc \in {"body", "committing"},
             visible' = visible, srv' = srv, asked' = asked,
             e = "conflict" => x \notin asked /\ srv[x] # "committed"
      PROVE  /\ (Rests(x) /\ visible' = visible) \/ (Moves(x) /\ block[x].pc # "none")
             /\ Ending(x)'
  <2>1. /\ block'[x].pc = IF Interactive(x) THEN "cancelling" ELSE "ended"
        /\ block'[x].raising = e
    BY <1>c, <1>a DEF SendCancel, BlockType
  <2>2. CASE Interactive(x)
    <3>1. Fate(x)' = Fate(x) /\ Told(x)' = Told(x)
      BY <1>c, <2>1, <2>2, FateIs DEF FateOf, ToldOf
    <3>2. Ending(x)'
      BY <1>c, <2>1, <2>2 DEF Ending
    <3> QED
      BY <1>c, <1>s, <3>1, <3>2 DEF Rests
  <2>3. CASE ~Interactive(x)
    BY <1>c, <1>s, <2>1, <2>3, LeavesTelling DEF Moves
  <2> QED
    BY <2>2, <2>3
<1>3. CASE BodyRaises(x) \/ ExitRetired(x) \/ ExitFailed(x)
  <2>1. \E e \in {"error", "conflict"} : SendCancel(x, e)
    BY <1>3 DEF BodyRaises, ExitRetired, ExitFailed, Cancel
  <2>2. block[x].pc = "body" /\ visible' = visible /\ srv' = srv /\ asked' = asked
    BY <1>3 DEF BodyRaises, ExitRetired, ExitFailed, BodyReturns
  <2> QED
    BY <1>c, <1>e, <2>1, <2>2
<1>4. CASE CommitEmpty(x)
  <2>1. /\ block[x].pc = "body" /\ block'[x].pc = "firing" /\ block'[x].raising = block[x].raising
        /\ queue[x] = {} /\ ~Interactive(x)
    BY <1>4, <1>a DEF CommitEmpty, BodyReturns, BlockType
  <2>2. visible' = visible /\ srv' = srv /\ asked' = asked
    BY <1>4 DEF CommitEmpty, server
  <2>3. OkWrites(x) = {} /\ ~SomeFailed(x)
    BY <2>1 DEF SlotInv, OkWrites, SomeFailed
  <2>4. {x} \X OkWrites(x) = {}
    BY <2>3
  <2>5. Fate(x) = "open" /\ Fate(x)' = "committed" /\ Told(x)' = Told(x)
    BY <1>e, <2>1, <2>2, FateIs DEF FateOf, ToldOf
  <2>6. Ending(x)'
    BY <1>e, <2>1, <2>2 DEF Ending
  <2>7. Commits(x)
    BY <1>s, <2>2, <2>3, <2>4, <2>5 DEF Commits
  <2> QED
    BY <2>1, <2>6, <2>7 DEF Moves
<1>5. CASE HandleCommit(x)
  <2>1. PICK answer \in {"ok", "refused", "conflict"} :
          /\ block' = IF block[x].pc = "committing" THEN [block EXCEPT ![x].answer = answer] ELSE block
          /\ IF answer = "ok"
               THEN srv' = [srv EXCEPT ![x] = "committed"] /\ visible' = visible \cup ({x} \X staged[x])
               ELSE srv' = [srv EXCEPT ![x] = "rolledback"] /\ visible' = visible
    BY <1>5 DEF HandleCommit
  <2>2. block'[x].pc = block[x].pc /\ block'[x].raising = block[x].raising
    BY <1>a, <2>1 DEF BlockType
  <2>m. block[x].pc = "committing" => block'[x].answer = answer
    BY <1>a, <2>1 DEF BlockType
  <2>3. x \in asked /\ x \notin asked'
    BY <1>5 DEF HandleCommit
  <2>4. block[x].pc \notin {"none", "opening", "body"} /\ Settled(x) /\ staged[x] = OkWrites(x) /\ srv[x] # "committed"
    BY <2>3 DEF BlockHolds, Committing
  <2>5. block[x].pc # "firing" /\ ~(block[x].pc = "ended" /\ block[x].raising = "none")
    BY <2>3 DEF Ending
  <2>6. Told(x)' = Told(x) /\ Fate(x) = "open"
    BY <2>2, <2>3, <2>4, <2>5, FateIs DEF FateOf, ToldOf
  <2>7. ~SomeFailed(x)
    BY <2>4 DEF Settled, SomeFailed
  <2>8. CASE answer = "ok"
    <3>1. srv'[x] = "committed" /\ visible' = visible \cup ({x} \X OkWrites(x))
      BY <1>a, <2>1, <2>4, <2>8
    <3>2. Fate(x)' = "committed"
      BY <3>1, FateIs DEF FateOf
    <3>3. Commits(x)
      BY <1>s, <2>6, <2>7, <3>1, <3>2 DEF Commits
    <3>4. Ending(x)'
      BY <2>2, <2>m, <2>3, <2>5, <2>8, <1>o DEF Ending
    <3> QED
      BY <2>4, <3>3, <3>4 DEF Moves
  <2>9. CASE answer # "ok"
    <3>1. srv'[x] = "rolledback" /\ visible' = visible
      BY <1>a, <2>1, <2>9
    <3>2. Fate(x)' = IF block[x].pc = "ended" THEN "rolledback" ELSE "open"
      BY <2>2, <2>3, <2>5, <3>1, FateIs DEF FateOf
    <3>3. Ending(x)'
      BY <2>2, <2>3, <2>5, <3>1, <1>o DEF Ending
    <3>4. CASE block[x].pc = "ended"
      BY <1>s, <2>4, <2>6, <3>1, <3>2, <3>3, <3>4 DEF RollsBack, Moves
    <3>5. CASE block[x].pc # "ended"
      BY <1>s, <2>6, <3>1, <3>2, <3>3, <3>5 DEF Rests
    <3> QED
      BY <3>4, <3>5
  <2> QED
    BY <2>8, <2>9
<1>6. CASE ReceiveCommit(x)
  <2>1. /\ block[x].pc = "committing" /\ block'[x].pc = "firing" /\ block'[x].raising = block[x].raising
    BY <1>6, <1>a DEF ReceiveCommit, BlockType
  <2>2. visible' = visible /\ srv' = srv /\ asked' = asked
    BY <1>6 DEF ReceiveCommit, server
  <2>3. srv[x] = "committed" /\ x \notin asked
    BY <1>6 DEF ReceiveCommit, BlockHolds, Waiting, Committing
  <2>4. Fate(x)' = Fate(x) /\ Told(x)' = Told(x)
    BY <2>1, <2>2, <2>3, FateIs DEF FateOf, ToldOf
  <2>5. Ending(x)'
    BY <2>1, <2>2, <2>3 DEF Ending
  <2> QED
    BY <1>s, <2>2, <2>4, <2>5 DEF Rests
<1>7. CASE CommitRefused(x) \/ LoseCommit(x)
  <2>1. /\ block[x].pc = "committing" /\ visible' = visible /\ srv' = srv /\ asked' = asked
    BY <1>7 DEF CommitRefused, LoseCommit, CommitRaises
  <2>2. PICK e \in {"error", "conflict"} :
          SendCancel(x, e) /\ (e = "conflict" => block[x].answer \in {"refused", "conflict"})
    BY <1>7 DEF CommitRefused, LoseCommit, CommitRaises
  <2>3. e = "conflict" => x \notin asked /\ srv[x] # "committed"
    BY <2>1, <2>2 DEF Ending
  <2> QED
    BY <1>c, <2>1, <2>2, <2>3
<1>8. CASE AbandonCommit(x) \/ EndCancel(x) \/ LoseCancel(x) \/ AbandonCancel(x)
  <2>1. /\ block[x].pc \in {"committing", "cancelling"} /\ block'[x].pc = "ended"
        /\ block'[x].raising = "cancelled" \/ (block[x].pc = "cancelling" /\ block'[x].raising = block[x].raising)
    <3>1. CASE AbandonCommit(x) \/ AbandonCancel(x)
      <4>1. /\ block' = [block EXCEPT ![x].pc = "ended", ![x].raising = "cancelled"]
            /\ block[x].pc \in {"committing", "cancelling"}
        BY <3>1 DEF AbandonCommit, AbandonCancel
      <4> QED
        BY <1>a, <4>1 DEF BlockType
    <3>2. CASE EndCancel(x) \/ LoseCancel(x)
      <4>1. block' = [block EXCEPT ![x].pc = "ended"] /\ block[x].pc = "cancelling"
        BY <3>2 DEF EndCancel, LoseCancel
      <4> QED
        BY <1>a, <4>1 DEF BlockType
    <3> QED
      BY <1>8, <3>1, <3>2
  <2>2. visible' = visible /\ srv' = srv /\ asked' = asked
    BY <1>8 DEF AbandonCommit, EndCancel, LoseCancel, AbandonCancel, server
  <2>3. /\ block'[x].raising \in {"error", "conflict", "cancelled"}
        /\ block'[x].raising = "conflict" => x \notin asked /\ srv[x] # "committed"
    BY <2>1 DEF Ending
  <2> QED
    BY <1>s, <2>1, <2>2, <2>3, LeavesTelling DEF Moves
<1>9. CASE CloseConnection(x) \/ HandleCancel(x)
  <2>1. /\ block'[x].pc = block[x].pc /\ block'[x].raising = block[x].raising
        /\ block'[x].answer = block[x].answer /\ visible' = visible
    BY <1>9, <1>a DEF CloseConnection, HandleCancel, BlockType
  <2>2. srv'[x] = "committed" <=> srv[x] = "committed"
    BY <1>9, <1>a DEF CloseConnection, HandleCancel
  <2>3. x \in asked' => x \in asked
    BY <1>9 DEF CloseConnection, HandleCancel
  <2>4. x \in asked /\ x \notin asked' => block[x].pc # "none"
    BY <1>e
  <2>5. Told(x)' = Told(x)
    BY <2>1, FateIs DEF ToldOf
  <2>6. \/ Fate(x)' = Fate(x)
        \/ Fate(x) = "open" /\ Fate(x)' = "rolledback" /\ x \in asked /\ x \notin asked'
    BY <2>1, <2>2, <2>3, FateIs DEF FateOf
  <2>7. Ending(x)'
    BY <2>1, <2>2, <2>3, <1>o DEF Ending
  <2> QED
    BY <1>s, <2>1, <2>4, <2>5, <2>6, <2>7 DEF Rests, RollsBack, Moves
<1>10. CASE FireNext(x)
  <2>1. UNCHANGED <<block, srv, asked, visible>>
    BY <1>10 DEF FireNext, server
  <2>2. Fate(x)' = Fate(x) /\ Told(x)' = Told(x) /\ Ending(x)'
    BY <1>o, <2>1, FateIs DEF Ending
  <2> QED
    BY <1>s, <2>1, <2>2 DEF Rests
<1>11. CASE FireRaises(x)
  <2>1. /\ block[x].pc = "firing" /\ block'[x].pc = "ended" /\ block'[x].raising \in {"error", "cancelled"}
    <3>1. PICK e \in {"error", "cancelled"} : block' = [block EXCEPT ![x].pc = "ended", ![x].raising = e]
      BY <1>11 DEF FireRaises
    <3> QED
      BY <1>11, <1>a, <3>1 DEF FireRaises, BlockType
  <2>2. visible' = visible /\ srv' = srv /\ asked' = asked
    BY <1>11 DEF FireRaises, server
  <2>3. srv[x] = "committed"
    <3>1. fired[x] \in Nat /\ fired[x] < Len(deferred[x])
      BY <1>11 DEF FireRaises, TypeOK
    <3>2. deferred[x] # <<>>
      BY <3>1
    <3> QED
      BY <2>1, <3>2 DEF BlockHolds, Waiting
  <2>4. Fate(x)' = Fate(x) /\ Told(x) = "none" /\ Told(x)' = block'[x].raising
    BY <2>1, <2>2, <2>3, FateIs DEF FateOf, ToldOf
  <2>5. Ending(x)'
    BY <2>1 DEF Ending
  <2> QED
    BY <1>s, <2>1, <2>2, <2>4, <2>5 DEF Tells, Moves
<1>12. CASE EndBlock(x)
  <2>1. /\ block[x].pc = "firing" /\ block'[x].pc = "ended" /\ block'[x].raising = "none"
    BY <1>12, <1>a DEF EndBlock, BlockType, Ending
  <2>2. visible' = visible /\ srv' = srv /\ asked' = asked
    BY <1>12 DEF EndBlock, server
  <2>3. \A s \in Slots : ~Busy(op[x][s])
    BY <2>1 DEF BlockHolds, Waiting
  <2>4. Fate(x)' = "committed" /\ Fate(x) = "committed" /\ Told(x) = "none" /\ Told(x)' = "returned"
    BY <2>1, <2>2, FateIs DEF FateOf, ToldOf
  <2>5. Ending(x)'
    BY <1>o, <2>1, <2>2, <2>3 DEF Ending
  <2> QED
    BY <1>s, <2>1, <2>2, <2>4, <2>5 DEF Tells, Moves
<1> QED
  BY <1>1, <1>2, <1>3, <1>4, <1>5, <1>6, <1>7, <1>8, <1>9, <1>10, <1>11, <1>12 DEF BlockNext

(* A block opens in its turn, and what its caller was told stands.         *)
LEMMA ToldStands ==
  ASSUME NEW x, (Rests(x) /\ visible' = visible) \/ Moves(x), Conflicted(x)
  PROVE  Conflicted(x)'
<1>1. Told(x) = "conflict"
  BY FateIs DEF ToldOf, Conflicted
<1>2. Told(x)' = "conflict"
  BY <1>1 DEF Rests, Moves, Writes, Fails, Commits, RollsBack, Tells
<1>3. ToldOf(block'[x].pc, block'[x].raising) = "conflict"
  BY <1>2, FateIs
<1> QED
  BY <1>3 DEF ToldOf, Conflicted

LEMMA OpensInTurn ==
  ASSUME TypeOK, NEW x \in Txs, BlockNext(x), block[x].pc = "none", block'[x].pc # "none"
  PROVE  OpenBlock(x)
<1>a. block[x] \in BlockType /\ x \in DOMAIN block
  BY DEF TypeOK
<1>1. ~(BeginBlock(x) \/ BeginRaises(x) \/ BodyRaises(x) \/ BodyCancelled(x) \/ ExitRetired(x) \/ ExitFailed(x)
        \/ SendCommit(x) \/ CommitEmpty(x))
  BY DEF BeginBlock, BeginRaises, BodyRaises, BodyCancelled, ExitRetired, ExitFailed, SendCommit,
     CommitEmpty,
         BodyReturns
<1>2. ~(ReceiveCommit(x) \/ CommitRefused(x) \/ LoseCommit(x) \/ AbandonCommit(x) \/ EndCancel(x)
        \/ LoseCancel(x) \/ AbandonCancel(x) \/ FireNext(x) \/ FireRaises(x) \/ EndBlock(x))
  BY DEF ReceiveCommit, CommitRefused, LoseCommit, AbandonCommit, EndCancel, LoseCancel,
     AbandonCancel, FireNext,
         FireRaises, EndBlock
<1>3. ~(HandleCommit(x) \/ CloseConnection(x) \/ HandleCancel(x))
  BY <1>a DEF HandleCommit, CloseConnection, HandleCancel, BlockType
<1> QED
  BY <1>1, <1>2, <1>3 DEF BlockNext

(* A caller goes on after a conflict only.                                 *)
LEMMA CallersTry ==
  ASSUME TypeOK, NEW c \in Callers, Call(c) \/ CallerNext(c), NEW d \in Callers, Tries(d)
  PROVE  Tries(d)'
<1>a. /\ caller[d] \in CallerType /\ caller[d].n \in Int /\ Attempts \subseteq Int
      /\ c \in DOMAIN caller /\ d \in DOMAIN caller /\ block' = block
  BY TransactionAssumption DEF TypeOK, CallerType, Attempts, Call, CallerNext, BackOff, Wake,
     SleepCancelled, Finish
<1>b. \A n : Conflicted(<<d, n>>)' <=> Conflicted(<<d, n>>)
  BY <1>a DEF Conflicted
<1>1. CASE d # c
  <2>1. caller'[d] = caller[d]
    BY <1>a, <1>1 DEF Call, CallerNext, BackOff, Wake, SleepCancelled, Finish
  <2> QED
    BY <1>b, <2>1 DEF Tries
<1>2. CASE d = c /\ (Call(c) \/ SleepCancelled(c) \/ Finish(c))
  <2>1. caller'[d].n = caller[d].n /\ caller'[d].pc \in {"running", "done"}
    BY <1>a, <1>2 DEF Call, SleepCancelled, Finish, CallerType
  <2> QED
    BY <1>b, <2>1 DEF Tries
<1>3. CASE d = c /\ BackOff(c)
  <2>1. caller'[d].n = caller[d].n
    BY <1>a, <1>3 DEF BackOff, CallerType
  <2>2. Conflicted(<<d, caller[d].n>>)
    BY <1>3 DEF BackOff, Retry, Current, Conflicted
  <2> QED
    BY <1>b, <2>1, <2>2 DEF Tries
<1>4. CASE d = c /\ Wake(c)
  <2>1. caller'[d].n = caller[d].n + 1 /\ caller'[d].pc = "running"
    BY <1>a, <1>4 DEF Wake, NextAttempt, CallerType
  <2>2. \A n \in Attempts : n < caller[d].n + 1 => n < caller[d].n \/ n = caller[d].n
    BY <1>a
  <2>3. Conflicted(<<d, caller[d].n>>)
    BY <1>4 DEF Wake, Tries
  <2> QED
    BY <1>b, <2>1, <2>2, <2>3 DEF Tries
<1> QED
  BY <1>1, <1>2, <1>3, <1>4 DEF CallerNext

(* Whatever fails where, what the caller is told and what became visible   *)
(* agree, and a retry follows a rollback (transaction(),                   *)
(* retry_on_conflict()), as long as no deferred handler raises a conflict. *)
THEOREM BlocksImplementAtomicBlocks ==
  ASSUME "handler_conflict" \notin Faults
  PROVE  Spec => ImplementsAtomicBlocks
<1> DEFINE I == /\ \A x \in Txs : Ending(x) /\ Turned(x)
                /\ \A c \in Callers : Tries(c)
<1>1. Init => I /\ Atomic!Init
  <2> SUFFICES ASSUME Init
               PROVE  I /\ Atomic!Init
    OBVIOUS
  <2>1. \A x \in Txs : Ending(x) /\ Turned(x)
    BY DEF Init, NewBlock, Ending, Turned
  <2>2. \A c \in Callers : Tries(c)
    <3>1. \A n \in Attempts : ~(n < 1)
      BY TransactionAssumption DEF Attempts
    <3> QED
      BY <3>1 DEF Init, Tries
  <2>3. \A x \in Txs : OkWrites(x) = {} /\ SomeFailed(x) = FALSE
    BY DEF Init, IdleOp, OkWrites, SomeFailed
  <2>4. \A x \in Txs : Fate(x) = "open" /\ Told(x) = "none"
    BY FateIs DEF Init, NewBlock, FateOf, ToldOf
  <2>5. visible = {} /\ Atomic!Blocks = Txs
    BY DEF Init, Atomic!Blocks, Txs
  <2>6. Atomic!Init
    BY <2>3, <2>4, <2>5 DEF Atomic!Init
  <2> QED
    BY <2>1, <2>2, <2>6
<1>2. BlockInv /\ I /\ [Next]_vars => I' /\ [Atomic!Next]_(Atomic!vars)
  <2> SUFFICES ASSUME BlockInv, I, [Next]_vars
               PROVE  I' /\ (Atomic!Next \/ UNCHANGED Atomic!vars)
    OBVIOUS
  <2>a. TypeOK /\ FailuresNoted /\ \A x \in Txs : BlockHolds(x) /\ \A s \in Slots : SlotInv(x, s)
    BY BlocksHold, SlotInvs DEF BlockInv
  <2>b. ASSUME block' = block
        PROVE  \A x : (Conflicted(x)' <=> Conflicted(x)) /\ (Turned(x) => Turned(x)')
    BY <2>b DEF Conflicted, Turned
  <2>1. ASSUME NEW y \in Txs, NEW s \in Slots, StatementStep(y, s)
        PROVE  I' /\ (Atomic!Next \/ UNCHANGED Atomic!vars)
    <3>1. /\ \A x \in Txs : x # y => Rests(x)
          /\ (Rests(y) /\ visible' = visible) \/ (Moves(y) /\ block[y].pc # "none")
          /\ \A x \in Txs : Ending(x)'
      BY <2>1, StatementMoves
    <3>2. block' = block /\ caller' = caller
      BY <2>1, <2>a, StepsElsewhere DEF Elsewhere
    <3>3. I'
      BY <3>1, <3>2, <2>b DEF Tries
    <3> QED
      BY <3>1, <3>3, Lifted
  <2>2. ASSUME NEW y \in Txs, BlockNext(y)
        PROVE  I' /\ (Atomic!Next \/ UNCHANGED Atomic!vars)
    <3>1. /\ (Rests(y) /\ visible' = visible) \/ (Moves(y) /\ block[y].pc # "none")
          /\ Ending(y)'
      BY <2>2, <2>a, BlockMoves
    <3>2. /\ op' = op /\ caller' = caller
          /\ \A x \in Txs : x # y =>
               block'[x] = block[x] /\ srv'[x] = srv[x] /\ (x \in asked' <=> x \in asked)
      BY <2>2, <2>a, BlockBeside, StepBeside DEF Beside
    <3>3. ASSUME NEW x \in Txs, x # y
          PROVE  Rests(x) /\ Ending(x)'
      <4>1. block'[x] = block[x] /\ srv'[x] = srv[x] /\ (x \in asked' <=> x \in asked)
        BY <3>2, <3>3
      <4>2. Settles(x)
        BY <3>2 DEF Settles, OkWrites, SomeFailed
      <4>3. Fate(x)' = Fate(x) /\ Told(x)' = Told(x)
        BY <4>1, FateIs DEF FateOf
      <4>4. Ending(x)'
        BY <3>2, <4>1 DEF Ending
      <4> QED
        BY <4>2, <4>3, <4>4 DEF Rests
    <3>4. Atomic!Next \/ UNCHANGED Atomic!vars
      BY <3>1, <3>3, Lifted
    <3>5. \A x \in Txs : Conflicted(x) => Conflicted(x)'
      <4>1. Conflicted(y) => Conflicted(y)'
        BY <3>1, ToldStands
      <4> QED
        BY <3>2, <4>1 DEF Conflicted
    <3>6. \A x \in Txs : x[1] \in Callers /\ x[2] \in Attempts /\ x = <<x[1], x[2]>>
      BY DEF Txs
    <3>7. \A c \in Callers, n \in Attempts : <<c, n>> \in Txs
      BY DEF Txs
    <3>8. \A x \in Txs : x[2] # 1 => x[2] - 1 \in Attempts /\ x[2] - 1 < x[2]
      BY <3>6, TransactionAssumption DEF Attempts
    <3>9. \A c \in Callers : Tries(c)'
      <4>1. \A c \in Callers : caller[c].n \in Attempts
        BY <2>a DEF TypeOK, CallerType
      <4> QED
        BY <3>2, <3>5, <3>7, <4>1 DEF Tries
    <3>10. ASSUME NEW x \in Txs
           PROVE  Turned(x)'
      <4> SUFFICES ASSUME block'[x].pc # "none", x[2] # 1
                   PROVE  Conflicted(<<x[1], x[2] - 1>>)'
        BY DEF Turned
      <4>1. <<x[1], x[2] - 1>> \in Txs
        BY <3>6, <3>7, <3>8
      <4>2. CASE block[x].pc # "none"
        <5>1. Conflicted(<<x[1], x[2] - 1>>)
          BY <4>2 DEF Turned
        <5> QED
          BY <3>5, <4>1, <5>1
      <4>3. CASE block[x].pc = "none"
        <5>1. x = y
          BY <3>2, <4>3
        <5>2. OpenBlock(x)
          BY <2>2, <2>a, <4>3, <5>1, OpensInTurn
        <5>3. caller[x[1]].n = x[2]
          BY <5>2 DEF OpenBlock
        <5>4. Conflicted(<<x[1], x[2] - 1>>)
          BY <3>6, <3>8, <5>3 DEF Tries
        <5> QED
          BY <3>5, <4>1, <5>4
      <4> QED
        BY <4>2, <4>3
    <3> QED
      BY <3>1, <3>3, <3>4, <3>9, <3>10
  <2>r. ASSUME UNCHANGED <<block, op, srv, asked, visible>>
        PROVE  /\ \A x \in Txs : Ending(x)' /\ Turned(x)'
               /\ UNCHANGED Atomic!vars
    <3>1. \A x \in Txs : Fate(x)' = Fate(x) /\ Told(x)' = Told(x)
      BY <2>r, FateIs
    <3>2. \A x \in Txs : OkWrites(x)' = OkWrites(x) /\ SomeFailed(x)' = SomeFailed(x)
      BY <2>r DEF OkWrites, SomeFailed
    <3>3. UNCHANGED Atomic!vars
      BY <2>r, <3>1, <3>2 DEF Atomic!vars
    <3>4. \A x \in Txs : Ending(x)'
      BY <2>r DEF Ending
    <3> QED
      BY <2>b, <2>r, <3>3, <3>4
  <2>3. ASSUME NEW c \in Callers, Call(c) \/ CallerNext(c),
               UNCHANGED <<block, body, notes, fired, server, generation, stale>>
        PROVE  I' /\ (Atomic!Next \/ UNCHANGED Atomic!vars)
    <3>1. UNCHANGED <<block, op, srv, asked, visible>>
      BY <2>3 DEF body, server
    <3>2. \A d \in Callers : Tries(d)'
      BY <2>3, <2>a, CallersTry
    <3> QED
      BY <2>r, <3>1, <3>2
  <2>4. CASE ChangeSettings \/ UNCHANGED vars
    <3>1. UNCHANGED <<block, op, srv, asked, visible>> /\ caller' = caller
      BY <2>4 DEF ChangeSettings, vars, body, server
    <3>2. \A c \in Callers : Tries(c)'
      BY <2>b, <3>1 DEF Tries
    <3> QED
      BY <2>r, <3>1, <3>2
  <2> QED
    BY <2>1, <2>2, <2>3, <2>4, Steps
<1> QED
  BY <1>1, <1>2, BlockInvariant, PTL DEF Spec, ImplementsAtomicBlocks, Atomic!Spec
=============================================================================
