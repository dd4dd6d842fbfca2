--------------------------- MODULE MCEmbeddedSlot ---------------------------
(***************************************************************************)
(* A model for TLC: one connection with every call and one that may only   *)
(* open and close, on two URLs of one store on disk; the first may be      *)
(* registered again in memory, with another database, or as it was, and    *)
(* its block opens its own store, or another while it is in memory.        *)
(***************************************************************************)
EXTENDS EmbeddedSlot, TLC

CONSTANTS c1, c2

Mem == [url |-> "mem://", database |-> "b"]
Kv1 == [url |-> "surrealkv://x", database |-> "a"]
Kv2 == [url |-> "file://x", database |-> "b"]

MCStoreOf == ("mem://" :> Memory @@ "surrealkv://x" :> "x" @@ "file://x" :> "x")
MCFirst == (c1 :> Kv1 @@ c2 :> Kv2)
MCDoes == (c1 :> Ops @@ c2 :> {"get", "close"})
MCRegistered == {Mem, Kv1}
MCBlocks == {Kv2}

TaskSym == Permutations(Tasks)
=============================================================================
