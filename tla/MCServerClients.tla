-------------------------- MODULE MCServerClients --------------------------
(***************************************************************************)
(* Small instances of ServerClients.tla: two tasks of one event loop and   *)
(* one of another, settings that come back, and what goes wrong.           *)
(***************************************************************************)
EXTENDS ServerClients, TLC

CONSTANTS l1, l2, t1, t2, t3

TwoLoops   == {l1, l2}
ThreeTasks == {t1, t2, t3}
Placed     == t1 :> l1 @@ t2 :> l1 @@ t3 :> l2

KeptOrNot == [to : {"ann"}, kept : {TRUE}] \cup [to : {"bob"}, kept : {FALSE}]

AllFaults == FaultNames

Symmetric == Permutations({t1, t2})
=============================================================================
