---------------------------- MODULE MCLiveStream ----------------------------
(***************************************************************************)
(* Small instances of LiveStream.tla: who signs in, and what goes wrong.   *)
(***************************************************************************)
EXTENDS LiveStream

KeptUser == {[to |-> "user", kept |-> TRUE]}

(* A connection that cannot be opened any more (MaxClients) is one the     *)
(* server does not answer.  A kill() the server refuses ("unstoppable")    *)
(* leaves a subscription nobody reads (live.py:970): NoOrphan would fail.  *)
Drops == FaultNames \ {"unreachable", "unstoppable"}
=============================================================================
