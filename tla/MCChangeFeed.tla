---------------------------- MODULE MCChangeFeed ----------------------------
(***************************************************************************)
(* Small instances of ChangeFeed.tla: what the program starts from, and    *)
(* what goes wrong.                                                        *)
(***************************************************************************)
EXTENDS ChangeFeed, TLC

FromNowOnly == {[kind |-> "now", at |-> 0]}
FromNowOrMoment == FromNowOnly \cup {[kind |-> "moment", at |-> 2]}

AllFaults == FaultNames
=============================================================================
