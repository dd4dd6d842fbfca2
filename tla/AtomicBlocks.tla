---------------------------- MODULE AtomicBlocks ----------------------------
(***************************************************************************)
(* What a function under retry_on_conflict() that opens a transaction()    *)
(* block promises its caller: each attempt is one block, whose writes      *)
(* become visible all together or not at all, and not at all once one of   *)
(* its statements failed; an attempt follows only one the server rolled    *)
(* back; and what the caller is told agrees with what became visible, but  *)
(* for an error, which may leave the block in doubt.                       *)
(***************************************************************************)
EXTENDS Integers

CONSTANTS Callers, Attempts, Writes

VARIABLES written, broken, fate, told, visible

vars == <<written, broken, fate, told, visible>>

Blocks == Callers \X Attempts

Init ==
  /\ written = [b \in Blocks |-> {}]
  /\ broken = [b \in Blocks |-> FALSE]
  /\ fate = [b \in Blocks |-> "open"]
  /\ told = [b \in Blocks |-> "none"]
  /\ visible = {}

(* It is the turn of a caller's first attempt, or of the next after a      *)
(* conflict.                                                               *)
Turn(b) == b[2] = 1 \/ told[<<b[1], b[2] - 1>>] = "conflict"

Write(b, w) ==
  /\ Turn(b) /\ fate[b] # "committed"
  /\ written' = [written EXCEPT ![b] = @ \cup {w}]
  /\ UNCHANGED <<broken, fate, told, visible>>

Fail(b) ==
  /\ Turn(b) /\ fate[b] # "committed"
  /\ broken' = [broken EXCEPT ![b] = TRUE]
  /\ UNCHANGED <<written, fate, told, visible>>

(* Perhaps after its caller was told of an error: it was in doubt.         *)
Commit(b) ==
  /\ Turn(b) /\ fate[b] = "open" /\ ~broken[b]
  /\ fate' = [fate EXCEPT ![b] = "committed"]
  /\ visible' = visible \cup ({b} \X written[b])
  /\ UNCHANGED <<written, broken, told>>

RollBack(b) ==
  /\ Turn(b) /\ fate[b] = "open"
  /\ fate' = [fate EXCEPT ![b] = "rolledback"]
  /\ UNCHANGED <<written, broken, told, visible>>

Tell(b, r) ==
  /\ Turn(b) /\ told[b] = "none"
  /\ told' = [told EXCEPT ![b] = r]
  /\ \/ UNCHANGED fate
     \/ fate[b] = "open" /\ fate' = [fate EXCEPT ![b] = "rolledback"]
  /\ r = "returned" => fate'[b] = "committed"
  /\ r = "conflict" => fate'[b] = "rolledback"
  /\ UNCHANGED <<written, broken, visible>>

Next ==
  \E b \in Blocks :
    \/ \E w \in Writes : Write(b, w)
    \/ Fail(b) \/ Commit(b) \/ RollBack(b)
    \/ \E r \in {"returned", "error", "conflict", "cancelled"} : Tell(b, r)

Spec == Init /\ [][Next]_vars
=============================================================================
