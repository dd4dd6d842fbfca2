--------------------------- MODULE MCTransaction ---------------------------
(***************************************************************************)
(* Small instances of Transaction.tla: model values for the callers, the   *)
(* statements and the tables, and the faults each run injects.             *)
(***************************************************************************)
EXTENDS Transaction, TLC

CONSTANTS c1, s1, s2, s3, t1

OneSlot    == {s1}
OneCaller  == {c1}
ThreeSlots == {s1, s2, s3}
OneTable   == {t1}

OneTarget  == {{t1}}
OneOrEvery == {{t1}, Every}

ServerFaults == {"refused", "conflict", "missing"}
OpenFaults   == ServerFaults \cup {"lost", "handler", "settings", "cancelled_asleep"}
AllFaults    == OpenFaults \cup {"lost_cancel", "cancelled"}
TaskFaults   == {"refused", "cancelled"}

Symmetric == Permutations(Slots)
=============================================================================
